--------------------------- MODULE ReservoirProofs ---------------------------
(***************************************************************************)
(* Theorems about Reservoir, for every set of transactions, bundles and    *)
(* callers.  The inductive invariant joins the types that matter, the      *)
(* exactness of the two indexes and of inProgressLinks on the single       *)
(* transactions, and what Rescan has established so far.                   *)
(***************************************************************************)
EXTENDS Reservoir, TLAPS

Types ==
    /\ pendingTransactions \subseteq Single
    /\ verifiedTransactions \subseteq Single
    /\ pendingFreeIssues \subseteq Bundle
    /\ verifiedFreeIssues \subseteq Bundle
    /\ pendingPaidIssues \subseteq Bundle
    /\ verifiedPaidIssues \subseteq Bundle
    /\ pendingIndex \in [Tx -> PayId \cup {None}]
    /\ verifiedIndex \in [Tx -> PayId \cup {None}]
    /\ inProgressLinks \in [Linkable -> Single \cup {None}]
    /\ checked \in [Caller -> Bundle \cup {None}]
    /\ confirmed \subseteq Tx

BlockTypes ==
    /\ block \in [phase : Phases, todo : SUBSET Tx, current : Tx \cup {None},
                  done : SUBSET Tx]
    /\ block.phase = "unlink" => block.current \in Single \ Grants
    /\ block.phase = "put" => block.current \in Tx
    /\ block.phase \notin {"store", "unlink", "put", "wedged"} => block.done = {}

\* What remains true of the pools on the way to PoolValidAfterRescan: a delete
\* that has removed nothing yet, and a Rescan up to the items still to visit.
RescanProgress ==
    /\ block.phase \in {"idle", "delete"} /\ ~reorged => \A t \in Held : Valid(t)
    /\ block.phase = "rescan" => \A t \in Held \ scan : Valid(t)

PoolInv == Types /\ SinglesIndexed /\ LinksExact /\ NoDoubleTransfer

-----------------------------------------------------------------------------
\* The initial pools are empty and so are their indexes.
LEMMA InitPool == Init => PoolInv
BY ReservoirAssumption
   DEF Init, PoolInv, Types, SinglesIndexed, LinksExact, NoDoubleTransfer,
       Held, Tx, PayId, Linkable

\* internalDelete keeps the indexes and links exact, whichever pay ids it is
\* given: what leaves the pools leaves the indexes, and nothing else does.
LEMMA DeletePool ==
    ASSUME PoolInv, NEW S, S \subseteq PayId, internalDelete(S),
           UNCHANGED checked, confirmed' \subseteq Tx
    PROVE  PoolInv'
<1> DEFINE unpend == Content(S \cap Pending)
           unverify == Content(S \cap Verified)
<1>1. \A t \in Single : /\ t \in unpend <=> t \in S \cap pendingTransactions
                        /\ t \in unverify <=> t \in S \cap verifiedTransactions
  BY ReservoirAssumption DEF PoolInv, Types, Content, Pending, Verified, PayId
<1>2. Types'
  BY DEF internalDelete, Unlink, PoolInv, Types
<1>3. SinglesIndexed'
  <2> SUFFICES ASSUME NEW t \in Single
               PROVE  /\ pendingIndex'[t] = IF t \in pendingTransactions' THEN t ELSE None
                      /\ verifiedIndex'[t] = IF t \in verifiedTransactions' THEN t ELSE None
    BY DEF SinglesIndexed, PoolInv, internalDelete
  <2>1. t \in Tx
    BY DEF Tx
  <2>2. /\ pendingIndex'[t] = IF t \in unpend THEN None ELSE pendingIndex[t]
        /\ verifiedIndex'[t] = IF t \in unverify THEN None ELSE verifiedIndex[t]
    BY <2>1 DEF internalDelete
  <2> QED
    BY <1>1, <2>2 DEF SinglesIndexed, PoolInv, internalDelete
<1>4. LinksExact'
  <2> SUFFICES ASSUME NEW l \in Linkable
               PROVE  \/ /\ inProgressLinks'[l] = None
                         /\ \A t \in Held' \ Grants : Link[t] # l
                      \/ /\ inProgressLinks'[l] \in Held' \ Grants
                         /\ Link[inProgressLinks'[l]] = l
    BY DEF LinksExact
  <2>1. Held' = Held \ S
    BY DEF Held, internalDelete
  <2>2. Held \subseteq Single
    BY DEF Held, PoolInv, Types
  <2>3. inProgressLinks'[l] =
            IF \E t \in Single \cap (unpend \cup unverify) : Link[t] = l
            THEN None ELSE inProgressLinks[l]
    BY DEF internalDelete, Unlink
  <2>4. \A t \in Single : t \in unpend \cup unverify <=> t \in S \cap Held
    BY <1>1 DEF Held
  <2>5. \/ inProgressLinks[l] = None /\ \A t \in Held \ Grants : Link[t] # l
        \/ inProgressLinks[l] \in Held \ Grants /\ Link[inProgressLinks[l]] = l
    BY DEF PoolInv, LinksExact
  <2>6. None \notin Linkable
    BY ReservoirAssumption
  <2>7. \A t \in Grants : Link[t] # l
    BY <2>6 DEF Grants
  <2>8. \A s, t \in Held \ Grants : Link[s] = l /\ Link[t] = l => s = t
    BY DEF PoolInv, NoDoubleTransfer
  <2> QED
    BY <2>1, <2>2, <2>3, <2>4, <2>5, <2>7, <2>8
<1>5. NoDoubleTransfer'
  BY DEF PoolInv, NoDoubleTransfer, Held, internalDelete
<1> QED
  BY <1>2, <1>3, <1>4, <1>5 DEF PoolInv

\* So does the removal by transaction id, which finds the pay ids in the indexes.
LEMMA DeleteByTxIdPool ==
    ASSUME PoolInv, NEW t \in Tx, internalDeleteByTxId(t),
           UNCHANGED checked, confirmed' \subseteq Tx
    PROVE  PoolInv'
<1> DEFINE p == pendingIndex[t]
           v == IF p \in Verified THEN None ELSE verifiedIndex[t]
           S == {p, v} \ {None}
<1>1. S \subseteq PayId
  BY DEF PoolInv, Types
<1>2. internalDelete(S)
  BY DEF internalDeleteByTxId
<1> HIDE DEF S
<1> QED
  BY <1>1, <1>2, DeletePool

\* A step that leaves the pools alone.
LEMMA SamePool ==
    ASSUME PoolInv, UNCHANGED pools,
           checked' \in [Caller -> Bundle \cup {None}], confirmed' \subseteq Tx
    PROVE  PoolInv'
BY DEF PoolInv, Types, SinglesIndexed, LinksExact, NoDoubleTransfer, Held, pools

\* A transaction enters a pool only when its link is free: an entry of
\* inProgressLinks would belong to a transaction that is in the pools already.
LEMMA StorePool ==
    ASSUME PoolInv, NEW t \in Single, storePrepaid(t) \/ storeUnpaid(t)
    PROVE  PoolInv'
<1>1. t \notin Held
  <2>1. t # None
    BY ReservoirAssumption DEF PayId
  <2> QED
    BY <2>1 DEF storePrepaid, storeUnpaid, verify, Held, PoolInv, SinglesIndexed
<1>2. t \in Tx /\ t \in PayId
  BY DEF Tx, PayId
<1>3. Held' = Held \cup {t} /\ Held \subseteq Single
  BY DEF storePrepaid, storeUnpaid, Held, PoolInv, Types
<1>4. t \notin Grants => Link[t] \in Linkable
  BY ReservoirAssumption DEF Grants
<1>5. t \notin Grants => \A s \in Held \ Grants : Link[s] # Link[t]
  <2> SUFFICES ASSUME t \notin Grants, NEW s \in Held \ Grants, Link[s] = Link[t]
               PROVE  FALSE
    OBVIOUS
  <2>1. inProgressLinks[Link[t]] \in {None, t}
    BY DEF storePrepaid, storeUnpaid, verify
  <2>2. None \notin Held
    BY <1>3, ReservoirAssumption DEF PayId
  <2> QED
    BY <1>1, <1>4, <2>1, <2>2 DEF PoolInv, LinksExact
<1>6. Types'
  BY <1>2, <1>4 DEF storePrepaid, storeUnpaid, SpendLink, PoolInv, Types, chain
<1>7. SinglesIndexed'
  <2>1. \A s \in Single : s \in Tx
    BY DEF Tx
  <2>2. /\ pendingIndex \in [Tx -> PayId \cup {None}]
        /\ verifiedIndex \in [Tx -> PayId \cup {None}]
        /\ SinglesIndexed
    BY DEF PoolInv, Types
  <2>3. CASE storePrepaid(t)
    BY <1>1, <2>1, <2>2, <2>3 DEF storePrepaid, SinglesIndexed, Held
  <2>4. CASE storeUnpaid(t)
    BY <1>1, <2>1, <2>2, <2>4 DEF storeUnpaid, SinglesIndexed, Held
  <2> QED
    BY <2>3, <2>4
<1>8. LinksExact'
  <2>1. inProgressLinks' = IF t \in Grants THEN inProgressLinks
                           ELSE [inProgressLinks EXCEPT ![Link[t]] = t]
    BY DEF storePrepaid, storeUnpaid, SpendLink
  <2>2. inProgressLinks \in [Linkable -> Single \cup {None}]
    BY DEF PoolInv, Types
  <2>3. LinksExact
    BY DEF PoolInv
  <2>4. CASE t \in Grants
    BY <1>3, <2>1, <2>3, <2>4 DEF LinksExact
  <2>5. CASE t \notin Grants
    BY <1>3, <1>4, <2>1, <2>2, <2>3, <2>5 DEF LinksExact
  <2> QED
    BY <2>4, <2>5
<1>9. NoDoubleTransfer'
  BY <1>3, <1>5 DEF PoolInv, NoDoubleTransfer
<1> QED
  BY <1>6, <1>7, <1>8, <1>9 DEF PoolInv

\* What happens to bundles does not touch the single transactions.
LEMMA IssuesPool ==
    ASSUME PoolInv,
           UNCHANGED <<pendingTransactions, verifiedTransactions,
                       inProgressLinks, confirmed>>,
           pendingFreeIssues' \subseteq Bundle, verifiedFreeIssues' \subseteq Bundle,
           pendingPaidIssues' \subseteq Bundle, verifiedPaidIssues' \subseteq Bundle,
           checked' \in [Caller -> Bundle \cup {None}],
           pendingIndex' \in [Tx -> PayId \cup {None}],
           verifiedIndex' \in [Tx -> PayId \cup {None}],
           \A t \in Single : /\ pendingIndex'[t] = pendingIndex[t]
                             /\ verifiedIndex'[t] = verifiedIndex[t]
    PROVE  PoolInv'
BY DEF PoolInv, Types, SinglesIndexed, LinksExact, NoDoubleTransfer, Held

\* Members of a bundle are not single transactions.
LEMMA MembersNotSingle ==
    ASSUME NEW b \in Bundle PROVE Members[b] \cap Single = {}
BY ReservoirAssumption

\* storeIssues inserts bundles, paid or not, beside the single transactions.
LEMMA StoreIssuesPool ==
    ASSUME PoolInv, NEW c \in Caller,
           storeIssuesPrepaid(c) \/ storeIssuesUnpaid(c)
    PROVE  PoolInv'
<1>1. checked[c] \in Bundle
  BY DEF PoolInv, Types, storeIssuesPrepaid, storeIssuesUnpaid
<1>2. Members[checked[c]] \cap Single = {} /\ checked[c] \in PayId
  BY <1>1, MembersNotSingle DEF PayId
<1>3. CASE storeIssuesPrepaid(c)
  BY <1>1, <1>2, <1>3, IssuesPool
     DEF storeIssuesPrepaid, PoolInv, Types, Tx, chain
<1>4. CASE storeIssuesUnpaid(c)
  BY <1>1, <1>2, <1>4, IssuesPool
     DEF storeIssuesUnpaid, PoolInv, Types, Tx, chain
<1> QED
  BY <1>3, <1>4

\* A payment or a proof of work for a bundle touches only the bundles.
LEMMA VerifyIssuesPool ==
    ASSUME PoolInv, NEW b \in Bundle, UNCHANGED <<checked, chain>>,
           VerifyPaidIssues(b) \/ verifyIssueByNonce(b)
    PROVE  PoolInv'
<1>1. Members[b] \cap Single = {} /\ b \in PayId
  BY MembersNotSingle DEF PayId
<1>2. CASE VerifyPaidIssues(b)
  BY <1>1, <1>2, IssuesPool
     DEF VerifyPaidIssues, VerifyIndexes, PoolInv, Types, Tx, chain
<1>3. CASE verifyIssueByNonce(b)
  BY <1>1, <1>3, IssuesPool
     DEF verifyIssueByNonce, VerifyIndexes, PoolInv, Types, Tx, chain
<1> QED
  BY <1>2, <1>3

\* A payment moves a single transaction, with its index, to the verified pool.
LEMMA VerifySinglePool ==
    ASSUME PoolInv, NEW t \in Single, VerifySingle(t), UNCHANGED <<checked, chain>>
    PROVE  PoolInv'
<1>1. Held' = Held /\ t \in Tx /\ t \in PayId
  BY DEF VerifySingle, Held, Tx, PayId
<1>2. Types'
  BY <1>1 DEF VerifySingle, PoolInv, Types, chain
<1>3. SinglesIndexed'
  BY <1>1 DEF VerifySingle, PoolInv, Types, SinglesIndexed
<1>4. LinksExact' /\ NoDoubleTransfer'
  BY <1>1 DEF VerifySingle, PoolInv, LinksExact, NoDoubleTransfer
<1> QED
  BY <1>2, <1>3, <1>4 DEF PoolInv

-----------------------------------------------------------------------------
\* Every step of every actor keeps the pools exact.
LEMMA NextPool == PoolInv /\ BlockTypes /\ [Next]_vars => PoolInv'
<1> SUFFICES ASSUME PoolInv, BlockTypes, [Next]_vars PROVE PoolInv'
  OBVIOUS
<1> USE DEF chain
<1>0. checked \in [Caller -> Bundle \cup {None}] /\ confirmed \subseteq Tx
  BY DEF PoolInv, Types
<1>1. ASSUME NEW p \in PayId, deleteExpiredItems(p) PROVE PoolInv'
  BY <1>0, <1>1, DeletePool DEF deleteExpiredItems
<1>2. ASSUME NEW t \in Single, storePrepaid(t) \/ storeUnpaid(t) PROVE PoolInv'
  BY <1>2, StorePool
<1>3. ASSUME NEW c \in Caller, NEW b \in Bundle, storeIssuesCheck(c, b) PROVE PoolInv'
  <2>1. checked' \in [Caller -> Bundle \cup {None}]
    BY <1>0, <1>3 DEF storeIssuesCheck
  <2> QED
    BY <1>0, <1>3, <2>1, SamePool DEF storeIssuesCheck
<1>4. ASSUME NEW c \in Caller, storeIssuesPrepaid(c) \/ storeIssuesUnpaid(c)
      PROVE  PoolInv'
  BY <1>4, StoreIssuesPool
<1>5. ASSUME NEW c \in Caller, storeIssuesFull(c) PROVE PoolInv'
  <2>1. checked' \in [Caller -> Bundle \cup {None}]
    BY <1>0, <1>5 DEF storeIssuesFull
  <2> QED
    BY <1>0, <1>5, <2>1, SamePool DEF storeIssuesFull
<1>6. ASSUME NEW p \in PayId, NEW detail, SetTransferVerified(p, detail) PROVE PoolInv'
  <2>1. CASE UNCHANGED pools
    BY <1>0, <1>6, <2>1, SamePool DEF SetTransferVerified
  <2>2. CASE VerifySingle(p)
    <3>1. p \in Single
      BY <2>2 DEF VerifySingle, PoolInv, Types
    <3> QED
      BY <1>6, <2>2, <3>1, VerifySinglePool DEF SetTransferVerified
  <2>3. CASE VerifyPaidIssues(p)
    <3>1. p \in Bundle
      BY <2>3 DEF VerifyPaidIssues, PoolInv, Types
    <3> QED
      BY <1>6, <2>3, <3>1, VerifyIssuesPool DEF SetTransferVerified
  <2> QED
    BY <1>6, <2>1, <2>2, <2>3 DEF SetTransferVerified
<1>7. ASSUME NEW b \in Bundle, verifyIssueByNonce(b) PROVE PoolInv'
  BY <1>7, VerifyIssuesPool DEF verifyIssueByNonce
<1>8. ASSUME NEW t \in Tx, StoreRemove(t) PROVE PoolInv'
  BY <1>0, <1>8, DeleteByTxIdPool DEF StoreRemove
<1>9. ASSUME NEW t \in Tx, rescanItem(t) PROVE PoolInv'
  BY <1>0, <1>9, DeleteByTxIdPool, SamePool DEF rescanItem
<1>10. ASSUME NEW t \in Tx, DeleteRecord(t) \/ DeleteRecordCommitFails(t)
       PROVE  PoolInv'
  BY <1>0, <1>10, DeleteByTxIdPool DEF DeleteRecord, DeleteRecordCommitFails
<1>11. CASE StoreUnlink
  <2> DEFINE l == Link[block.current]
  <2>1. l \in Linkable
    BY <1>11, ReservoirAssumption DEF StoreUnlink, BlockTypes, Grants
  <2>2. inProgressLinks[l] = None \/ inProgressLinks[l] \in Tx
    BY <2>1 DEF PoolInv, Types, Tx
  <2> QED
    BY <1>0, <1>11, <2>2, DeleteByTxIdPool, SamePool DEF StoreUnlink, DeleteByLink
<1>12. CASE StoreCommit
  <2>1. confirmed' \subseteq Tx
    BY <1>0, <1>12 DEF StoreCommit, BlockTypes
  <2> QED
    BY <1>0, <1>12, <2>1, SamePool DEF StoreCommit
<1>13. CASE \/ \E txs \in BlockTxs : StoreIncoming(txs)
            \/ StorePut \/ StoreCommitFails \/ CacheExpires \/ Rescan
            \/ StoreEnable \/ DeleteDownToBlock \/ DeleteEnable \/ UNCHANGED vars
  BY <1>0, <1>13, SamePool
     DEF StoreIncoming, StorePut, StoreCommitFails, CacheExpires, Rescan,
         StoreEnable, DeleteDownToBlock, DeleteEnable, vars
<1> QED
  BY <1>1, <1>2, <1>3, <1>4, <1>5, <1>6, <1>7, <1>8, <1>9, <1>10, <1>11, <1>12,
     <1>13 DEF Next

\* Between its calls package block remembers a transaction of its block, and
\* outside of a block nothing uncommitted is visible.
LEMMA NextBlock == BlockTypes /\ [Next]_vars => BlockTypes'
<1> SUFFICES ASSUME BlockTypes, [Next]_vars PROVE BlockTypes'
  OBVIOUS
<1> USE DEF BlockTypes, Phases
<1>1. CASE UNCHANGED block
  BY <1>1
<1>2. ASSUME NEW txs \in BlockTxs, StoreIncoming(txs) PROVE BlockTypes'
  BY <1>2 DEF StoreIncoming, BlockTxs, NoBlock
<1>3. ASSUME NEW t \in Tx, StoreRemove(t) PROVE BlockTypes'
  BY <1>3 DEF StoreRemove, Tx
<1>4. CASE StoreUnlink
  BY <1>4 DEF StoreUnlink, Tx
<1>5. CASE StorePut
  BY <1>5 DEF StorePut
<1>6. CASE \/ StoreCommit \/ CacheExpires \/ StoreEnable
           \/ DeleteDownToBlock \/ DeleteEnable
  BY <1>6 DEF StoreCommit, CacheExpires, StoreEnable, DeleteDownToBlock,
              DeleteEnable, NoBlock
<1>7. CASE Rescan \/ StoreCommitFails
  BY <1>7 DEF Rescan, StoreCommitFails
<1>8. ASSUME NEW t \in Tx, DeleteRecordCommitFails(t) PROVE BlockTypes'
  BY <1>8 DEF DeleteRecordCommitFails, NoBlock
<1> QED
  BY <1>1, <1>2, <1>3, <1>4, <1>5, <1>6, <1>7, <1>8
     DEF Next, vars, chain, deleteExpiredItems, storePrepaid, storeUnpaid,
         storeIssuesCheck, storeIssuesPrepaid, storeIssuesFull, storeIssuesUnpaid,
         SetTransferVerified, verifyIssueByNonce, rescanItem, DeleteRecord

-----------------------------------------------------------------------------
\* While the chain stands still, Rescan's work is undone only by a transaction
\* that enters the pools, and it has to be valid to enter.
LEMMA SteadyChain ==
    ASSUME RescanProgress, UNCHANGED chain, \A t \in Held' \ Held : Valid(t)
    PROVE  RescanProgress'
<1>1. \A t : Valid(t)' <=> Valid(t)
  BY DEF chain, Valid, Owned, Visible, Undone
<1> QED
  BY <1>1 DEF RescanProgress, chain

\* The removal of an invalid single transaction by its id takes it out of the
\* pools, wherever it is.
LEMMA DeleteRemoves ==
    ASSUME PoolInv, NEW t \in Tx, internalDeleteByTxId(t)
    PROVE  Held' \subseteq Held \ {t}
<1> DEFINE p == pendingIndex[t]
           v == IF p \in Verified THEN None ELSE verifiedIndex[t]
           S == {p, v} \ {None}
<1>1. internalDelete(S)
  BY DEF internalDeleteByTxId
<1>2. Held' = Held \ S
  BY <1>1 DEF internalDelete, Held
<1>3. ASSUME t \in Held PROVE t \in S
  <2>1. t \in Single /\ t # None /\ None \notin Verified
    BY <1>3, ReservoirAssumption DEF Held, PoolInv, Types, Verified, PayId
  <2>2. CASE t \in pendingTransactions
    BY <2>1, <2>2 DEF PoolInv, SinglesIndexed
  <2>3. CASE t \in verifiedTransactions
    <3>1. p = None /\ verifiedIndex[t] = t
      BY <2>1, <2>3 DEF PoolInv, SinglesIndexed
    <3> QED
      BY <2>1, <3>1
  <2> QED
    BY <1>3, <2>2, <2>3 DEF Held
<1> HIDE DEF S
<1> QED
  BY <1>2, <1>3

\* Rescan reaches every item, and nothing invalid gets in behind it.
LEMMA NextRescan ==
    PoolInv /\ BlockTypes /\ RescanProgress /\ [Next]_vars => RescanProgress'
<1> SUFFICES ASSUME PoolInv, BlockTypes, RescanProgress, [Next]_vars
             PROVE  RescanProgress'
  OBVIOUS
<1>1. ASSUME NEW p \in PayId, deleteExpiredItems(p) PROVE RescanProgress'
  BY <1>1, SteadyChain DEF deleteExpiredItems, internalDelete, Held
<1>2. ASSUME NEW t \in Single, storePrepaid(t) \/ storeUnpaid(t)
      PROVE  RescanProgress'
  BY <1>2, SteadyChain DEF storePrepaid, storeUnpaid, verify, Held
<1>3. CASE UNCHANGED <<Held, chain>>
  BY <1>3, SteadyChain
<1>4. ASSUME NEW p \in PayId, NEW detail, SetTransferVerified(p, detail)
      PROVE  RescanProgress'
  <2>1. Held' = Held
    BY <1>4 DEF SetTransferVerified, VerifySingle, VerifyPaidIssues, pools, Held
  <2> QED
    BY <1>4, <2>1, SteadyChain DEF SetTransferVerified
<1>5. CASE \/ \E txs \in BlockTxs : StoreIncoming(txs)
           \/ \E t \in Tx : StoreRemove(t)
           \/ \E t \in Tx : DeleteRecordCommitFails(t)
           \/ StoreUnlink \/ StorePut \/ StoreCommit \/ StoreCommitFails \/ CacheExpires
  <2>1. block'.phase \in {"store", "unlink", "put", "committed", "wedged"}
    <3>1. CASE \E txs \in BlockTxs : StoreIncoming(txs)
      BY <3>1 DEF StoreIncoming, NoBlock
    <3>2. CASE \E t \in Tx : StoreRemove(t)
      BY <3>2 DEF StoreRemove, BlockTypes
    <3>3. CASE StoreUnlink
      BY <3>3 DEF StoreUnlink, BlockTypes
    <3>4. CASE StorePut \/ StoreCommit
      BY <3>4 DEF StorePut, StoreCommit, NoBlock
    <3>5. CASE StoreCommitFails \/ CacheExpires
      BY <3>5 DEF StoreCommitFails, CacheExpires, NoBlock, BlockTypes
    <3>6. CASE \E t \in Tx : DeleteRecordCommitFails(t)
      BY <3>6 DEF DeleteRecordCommitFails, NoBlock
    <3> QED
      BY <1>5, <3>1, <3>2, <3>3, <3>4, <3>5, <3>6
  <2> QED
    BY <2>1 DEF RescanProgress
<1>6. CASE Rescan
  <2>1. block'.phase = "rescan" /\ Held' = Held
    BY <1>6 DEF Rescan, BlockTypes, pools, Held
  <2>2. Held \subseteq scan'
    BY <1>6 DEF Rescan, Content, Pending, Verified, Held, PoolInv, Types
  <2> QED
    BY <2>1, <2>2 DEF RescanProgress
<1>7. ASSUME NEW t \in Tx, rescanItem(t) PROVE RescanProgress'
  <2>1. /\ block.phase = "rescan" /\ block' = block
        /\ scan' = scan \ {t}
        /\ confirmed' = confirmed /\ funded' = funded
    BY <1>7 DEF rescanItem
  <2>2. \A s : Valid(s)' <=> Valid(s)
    BY <2>1 DEF Valid, Owned, Visible, Undone
  <2>3. CASE internalDeleteByTxId(t)
    <3>1. Held' \subseteq Held \ {t}
      BY <2>3, DeleteRemoves
    <3> QED
      BY <2>1, <2>2, <3>1 DEF RescanProgress
  <2>4. CASE UNCHANGED pools /\ (t \in Issue \/ Valid(t))
    <3>1. Held' = Held /\ Held \subseteq Single
      BY <2>4 DEF pools, Held, PoolInv, Types
    <3>2. t \in Held => Valid(t)
      BY <2>4, <3>1, ReservoirAssumption
    <3> QED
      BY <2>1, <2>2, <3>1, <3>2 DEF RescanProgress
  <2> QED
    BY <1>7, <2>3, <2>4 DEF rescanItem, Stale
<1>8. CASE StoreEnable \/ DeleteDownToBlock \/ DeleteEnable
  <2>1. /\ confirmed' = confirmed /\ funded' = funded /\ Held' = Held
        /\ block.done = {} /\ block'.done = {}
        /\ block.phase \in {"idle", "rescan", "delete"}
        /\ block'.phase \in {"idle", "delete", "wedged"}
    BY <1>8 DEF StoreEnable, DeleteDownToBlock, DeleteEnable, NoBlock, BlockTypes,
                pools, Held
  <2>2. CASE block'.phase = "wedged"
    BY <2>2 DEF RescanProgress
  <2>3. CASE block'.phase # "wedged"
    <3>1. \A s : Valid(s)' <=> Valid(s)
      BY <2>1, <2>3 DEF Valid, Owned, Visible, Undone
    <3>2. ~reorged' => \A t \in Held : Valid(t)
      BY <1>8 DEF StoreEnable, DeleteDownToBlock, DeleteEnable, RescanProgress
    <3> QED
      BY <2>1, <2>3, <3>1, <3>2 DEF RescanProgress
  <2> QED
    BY <2>2, <2>3
<1>9. ASSUME NEW t \in Tx, DeleteRecord(t) PROVE RescanProgress'
  BY <1>9 DEF DeleteRecord, Deletable, RescanProgress
<1> QED
  BY <1>1, <1>2, <1>3, <1>4, <1>5, <1>6, <1>7, <1>8, <1>9
     DEF Next, vars, chain, pools, Held, storeIssuesCheck, storeIssuesPrepaid,
         storeIssuesFull, storeIssuesUnpaid, verifyIssueByNonce

-----------------------------------------------------------------------------
\* The pools stay exact and Rescan does its work, in every behaviour.
THEOREM Invariance == Spec => [](PoolInv /\ BlockTypes /\ RescanProgress)
<1>1. Init => PoolInv
  BY InitPool
<1>2. Init => BlockTypes
  <2>1. /\ NoBlock \in [phase : Phases, todo : SUBSET Tx, current : Tx \cup {None},
                        done : SUBSET Tx]
        /\ NoBlock.phase = "idle" /\ NoBlock.done = {}
    BY DEF NoBlock, Phases
  <2> QED
    BY <2>1 DEF Init, BlockTypes
<1>3. Init => RescanProgress
  <2>1. Init => Held = {} /\ block.phase = "idle"
    BY DEF Init, Held, NoBlock
  <2> QED
    BY <2>1 DEF RescanProgress
<1> QED
  BY <1>1, <1>2, <1>3, NextPool, NextBlock, NextRescan, PTL DEF Spec

\* No two transfers of one record are ever in the pools, whatever the order of
\* the calls of storeTransfer, the cleaner, the payments and package block.
THEOREM NeverDoubleTransfer == Spec => []NoDoubleTransfer
<1>1. PoolInv => NoDoubleTransfer
  BY DEF PoolInv
<1> QED
  BY <1>1, Invariance, PTL

\* An owner is never refused because of a transfer that has left the pools.
THEOREM AlwaysLinksExact == Spec => []LinksExact
<1>1. PoolInv => LinksExact
  BY DEF PoolInv
<1> QED
  BY <1>1, Invariance, PTL

\* A single transaction is always found through exactly the right index.
THEOREM AlwaysSinglesIndexed == Spec => []SinglesIndexed
<1>1. PoolInv => SinglesIndexed
  BY DEF PoolInv
<1> QED
  BY <1>1, Invariance, PTL

\* After every block that is stored the pools hold only transactions that can
\* be mined, until blocks are deleted.
THEOREM AlwaysValidAfterRescan == Spec => []PoolValidAfterRescan
<1>1. RescanProgress => PoolValidAfterRescan
  BY DEF RescanProgress, PoolValidAfterRescan
<1> QED
  BY <1>1, Invariance, PTL

\* While the proofer may fetch, no actor takes a paid transaction away.
THEOREM PaidTransactionsStay == Spec => VerifiedStay
<1> DEFINE Stays == verifiedTransactions \subseteq verifiedTransactions' \/ ~Enabled
<1>1. PoolInv /\ [Next]_vars => [Stays]_vars
  <2> SUFFICES ASSUME PoolInv, Next, Enabled
               PROVE  verifiedTransactions \subseteq verifiedTransactions'
    OBVIOUS
  <2>1. ASSUME NEW p \in PayId, deleteExpiredItems(p)
        PROVE  verifiedTransactions \subseteq verifiedTransactions'
    <3>1. p \notin verifiedTransactions
      BY <2>1, ReservoirAssumption
         DEF deleteExpiredItems, Pending, PoolInv, Types, SinglesIndexed
    <3> QED
      BY <2>1, <3>1 DEF deleteExpiredItems, internalDelete
  <2> QED
    BY <2>1
       DEF Next, Enabled, pools, storePrepaid, storeUnpaid, storeIssuesCheck,
           storeIssuesPrepaid, storeIssuesFull, storeIssuesUnpaid,
           SetTransferVerified, VerifySingle, VerifyPaidIssues, verifyIssueByNonce,
           StoreIncoming, StoreRemove, StoreUnlink, StorePut, StoreCommit,
           StoreCommitFails, CacheExpires, Rescan, rescanItem, StoreEnable,
           DeleteDownToBlock, Deletable, DeleteRecord, DeleteRecordCommitFails,
           DeleteEnable
<1> QED
  BY <1>1, Invariance, PTL DEF Spec, VerifiedStay

-----------------------------------------------------------------------------
PaymentInv == orphanPayments \in [PayId -> {None, "enough", "short"}] /\ PaidNeverWaits

Waiting == pendingTransactions \cup pendingPaidIssues

\* A step after which nothing new waits and no payment is kept keeps PaymentInv.
LEMMA FewerWaiting ==
    ASSUME PaymentInv, Waiting' \subseteq Waiting, UNCHANGED orphanPayments
    PROVE  PaymentInv'
BY DEF PaymentInv, PaidNeverWaits, Waiting

\* internalDelete only takes items away.
LEMMA DeleteWaiting ==
    ASSUME NEW S, internalDelete(S) PROVE Waiting' \subseteq Waiting
BY DEF internalDelete, Waiting

\* So do the removals by transaction id and by link.
LEMMA DeleteByWaiting ==
    ASSUME NEW t, internalDeleteByTxId(t) \/ DeleteByLink(t)
    PROVE  Waiting' \subseteq Waiting
BY DeleteWaiting DEF internalDeleteByTxId, DeleteByLink, pools, Waiting

\* A payment meets its item whichever of the two comes first.
LEMMA NextPayment == PoolInv /\ PaymentInv /\ [Next]_vars => PaymentInv'
<1> SUFFICES ASSUME PoolInv, PaymentInv, [Next]_vars PROVE PaymentInv'
  OBVIOUS
<1>0. Waiting \subseteq PayId
  BY DEF PoolInv, Types, Waiting, PayId
<1>1. ASSUME NEW p \in PayId, deleteExpiredItems(p) PROVE PaymentInv'
  BY <1>1, DeleteWaiting, FewerWaiting DEF deleteExpiredItems
<1>2. ASSUME NEW t \in Single, storePrepaid(t) PROVE PaymentInv'
  BY <1>0, <1>2, ReservoirAssumption DEF storePrepaid, PaymentInv, PaidNeverWaits, Waiting
<1>3. ASSUME NEW t \in Single, storeUnpaid(t) PROVE PaymentInv'
  BY <1>3 DEF storeUnpaid, Prepaid, PaymentInv, PaidNeverWaits
<1>4. ASSUME NEW c \in Caller, storeIssuesPrepaid(c) PROVE PaymentInv'
  BY <1>0, <1>4, ReservoirAssumption
     DEF storeIssuesPrepaid, PaymentInv, PaidNeverWaits, Waiting
<1>5. ASSUME NEW c \in Caller, storeIssuesUnpaid(c) PROVE PaymentInv'
  BY <1>5 DEF storeIssuesUnpaid, PrepaidIssues, Prepaid, PaymentInv, PaidNeverWaits
<1>6. ASSUME NEW p \in PayId, NEW detail \in {"enough", "short"},
             SetTransferVerified(p, detail)
      PROVE  PaymentInv'
  <2>1. CASE UNCHANGED orphanPayments /\ (VerifySingle(p) \/ VerifyPaidIssues(p))
    BY <2>1, FewerWaiting DEF VerifySingle, VerifyPaidIssues, Waiting
  <2>2. CASE /\ ~(acceptablePayment(detail) /\ p \in Waiting)
             /\ orphanPayments' = [orphanPayments EXCEPT ![p] = detail]
             /\ UNCHANGED pools
    <3>1. detail = "enough" => p \notin Waiting
      BY <2>2 DEF acceptablePayment
    <3>2. Waiting' = Waiting
      BY <2>2 DEF pools, Waiting
    <3> QED
      BY <1>0, <2>2, <3>1, <3>2 DEF PaymentInv, PaidNeverWaits, Waiting
  <2> QED
    BY <1>6, <2>1, <2>2 DEF SetTransferVerified, Waiting
<1>7. ASSUME NEW t \in Tx, \/ StoreRemove(t) \/ rescanItem(t) \/ DeleteRecord(t)
                            \/ DeleteRecordCommitFails(t)
      PROVE  PaymentInv'
  <2>1. Waiting' \subseteq Waiting
    BY <1>7, DeleteByWaiting
       DEF StoreRemove, rescanItem, DeleteRecord, DeleteRecordCommitFails, pools, Waiting
  <2> QED
    BY <1>7, <2>1, FewerWaiting
       DEF StoreRemove, rescanItem, DeleteRecord, DeleteRecordCommitFails
<1>8. CASE StoreUnlink
  BY <1>8, DeleteByWaiting, FewerWaiting DEF StoreUnlink
<1>9. CASE UNCHANGED <<Waiting, orphanPayments>>
  BY <1>9, FewerWaiting
<1> QED
  BY <1>1, <1>2, <1>3, <1>4, <1>5, <1>6, <1>7, <1>8, <1>9
     DEF Next, vars, pools, Waiting, storeIssuesCheck, storeIssuesFull,
         verifyIssueByNonce, StoreIncoming, StorePut, StoreCommit, StoreCommitFails,
         CacheExpires, Rescan, StoreEnable, DeleteDownToBlock, DeleteEnable

\* No item waits for a payment that has been received, whatever the number of
\* items and payments and the order in which they and the cleaner come.
THEOREM PaidItemsNeverWait == Spec => []PaidNeverWaits
<1>1. Init => PaymentInv
  BY ReservoirAssumption DEF Init, PaymentInv, PaidNeverWaits
<1>2. PaymentInv => PaidNeverWaits
  BY DEF PaymentInv
<1> QED
  BY <1>1, <1>2, NextPayment, Invariance, PTL DEF Spec
=============================================================================
