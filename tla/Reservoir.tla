------------------------------ MODULE Reservoir ------------------------------
(***************************************************************************)
(* The memory pool of a node, package reservoir: transactions that wait    *)
(* for their payment (pending) and transactions that wait for a block      *)
(* (verified), with the indexes that find them.                            *)
(*                                                                         *)
(* Actors: RPC goroutines that store transactions and issues, the payment  *)
(* checkers, the cleaner of expired items, and package block, which stores *)
(* and deletes blocks under its own lock and calls the reservoir once for  *)
(* every record.  Each call takes the reservoir lock by itself, so the     *)
(* other actors run between the calls of one block.                        *)
(*                                                                         *)
(* The pay id of a single transaction is a hash of that transaction and    *)
(* the pay id of a set of issues a hash of that set: here they are the     *)
(* transaction and the set themselves.                                     *)
(***************************************************************************)
EXTENDS Integers, FiniteSets, FiniteSetsExt

CONSTANTS
    Single,       \* transactions with a pay id of their own
    Issue,        \* issues
    Record,       \* records confirmed before the behaviour starts
    Bundle,       \* pay ids of the sets of issues that callers submit
    Members,      \* the issues of a bundle
    Free,         \* the bundles that qualify for free issue
    Link,         \* the record a transfer spends; None for grants and swaps
    Caller,       \* concurrent storeIssues calls
    None,
    autoVerify,   \* payments are optional
    maximumPendingFreeIssues,
    maximumPendingPaidIssues,
    maximumPendingTransactions,
    MaxTxs,       \* bound: transactions in a block
    MaxOrphans    \* bound: payments kept for items that are not there

Tx       == Single \cup Issue
PayId    == Single \cup Bundle
Linkable == Record \cup Tx

ASSUME ReservoirAssumption ==
    /\ Members \in [Bundle -> SUBSET Issue]
    /\ Link \in [Single -> Linkable \cup {None}]
    /\ Free \subseteq Bundle
    /\ None \notin Linkable \cup PayId /\ None # "enough"
    /\ Single \cap (Issue \cup Bundle \cup Record) = {}
    /\ \A t \in Single : Link[t] # t
    /\ autoVerify \in BOOLEAN

VARIABLES
    pendingTransactions, verifiedTransactions,  \* pay ids, as sets of singles
    pendingFreeIssues, verifiedFreeIssues,      \* pay ids, as sets of bundles
    pendingPaidIssues, verifiedPaidIssues,
    pendingIndex, verifiedIndex,                \* tx id to pay id
    inProgressLinks,                            \* link to the tx id spending it
    pendingFreeCount, pendingPaidCount,
    orphanPayments,                             \* payments that found no item
    checked,      \* per caller: the bundle that passed the checks of storeIssues
    confirmed,    \* committed transactions
    funded,       \* grants and swaps whose balances suffice
    timely,       \* grants and swaps whose BeforeBlock is above the height
    block,        \* what package block is doing
    scan,         \* transactions that Rescan has still to visit
    reorged       \* a block was deleted since the last Rescan

pools  == <<pendingTransactions, verifiedTransactions, pendingFreeIssues,
            verifiedFreeIssues, pendingPaidIssues, verifiedPaidIssues,
            pendingIndex, verifiedIndex, inProgressLinks,
            pendingFreeCount, pendingPaidCount>>
chain  == <<confirmed, funded, timely, block, scan, reorged>>
vars   == <<pools, orphanPayments, checked, chain>>

NoBlock == [phase |-> "idle", todo |-> {}, current |-> None, done |-> {}]
Grants  == {t \in Single : Link[t] = None}

Init ==
    /\ pendingTransactions = {} /\ verifiedTransactions = {}
    /\ pendingFreeIssues = {} /\ verifiedFreeIssues = {}
    /\ pendingPaidIssues = {} /\ verifiedPaidIssues = {}
    /\ pendingIndex = [t \in Tx |-> None]
    /\ verifiedIndex = [t \in Tx |-> None]
    /\ inProgressLinks = [l \in Linkable |-> None]
    /\ pendingFreeCount = 0 /\ pendingPaidCount = 0
    /\ orphanPayments = [p \in PayId |-> None]
    /\ checked = [c \in Caller |-> None]
    /\ confirmed = {}
    /\ funded = Grants /\ timely = Grants
    /\ block = NoBlock
    /\ scan = {}
    /\ reorged = FALSE

-----------------------------------------------------------------------------
(***************************************************************************)
(* The database as the reservoir reads it, without a transaction of its    *)
(* own.  What the block in progress puts is visible before the commit;     *)
(* what it deletes stays visible until the commit.  A commit that fails    *)
(* leaves both so until the cache of the transaction expires.              *)
(***************************************************************************)
Visible == confirmed \cup block.done

\* The record whose deletion failed to commit: its link has been given back.
Undone == IF block.phase = "wedged" THEN {block.current} ELSE {}

Owned(l) ==
    /\ l \in Record \cup Visible
    /\ ~ \E t \in (Single \cap confirmed) \ Undone : Link[t] = l

Valid(t) == IF t \in Grants THEN t \in funded ELSE Owned(Link[t])

\* Rescan holds the lock while it visits every item.
Unlocked == block.phase # "rescan"

\* FetchVerified returns transactions for mining.
Enabled == block.phase \in {"idle", "wedged"}

Size(b) == Cardinality(Members[b])

Total(bundles) == MapThenSumSet(Size, bundles)

Content(payIds) ==
    (payIds \cap Single) \cup UNION {Members[b] : b \in payIds \cap Bundle}

Pending  == pendingTransactions \cup pendingFreeIssues \cup pendingPaidIssues
Verified == verifiedTransactions \cup verifiedFreeIssues \cup verifiedPaidIssues

-----------------------------------------------------------------------------
(***************************************************************************)
(* Removal.  internalDelete removes the items of some pay ids from every   *)
(* pool that holds them.                                                   *)
(***************************************************************************)
UnlinkNothing(gone) == inProgressLinks

\* inProgressLinks without the links of the transfers that go.
Unlink(gone) ==
    [l \in Linkable |-> IF \E t \in Single \cap gone : Link[t] = l
                        THEN None ELSE inProgressLinks[l]]

internalDelete(payIds) ==
    LET unpend == Content(payIds \cap Pending)
        unverify == Content(payIds \cap Verified)
    IN  /\ pendingTransactions' = pendingTransactions \ payIds
        /\ verifiedTransactions' = verifiedTransactions \ payIds
        /\ pendingFreeIssues' = pendingFreeIssues \ payIds
        /\ verifiedFreeIssues' = verifiedFreeIssues \ payIds
        /\ pendingPaidIssues' = pendingPaidIssues \ payIds
        /\ verifiedPaidIssues' = verifiedPaidIssues \ payIds
        /\ pendingIndex' =
               [t \in Tx |-> IF t \in unpend THEN None ELSE pendingIndex[t]]
        /\ verifiedIndex' =
               [t \in Tx |-> IF t \in unverify THEN None ELSE verifiedIndex[t]]
        /\ inProgressLinks' = Unlink(unpend \cup unverify)
        /\ pendingFreeCount' =
               pendingFreeCount - Total(payIds \cap pendingFreeIssues)
        /\ pendingPaidCount' =
               pendingPaidCount - Total(payIds \cap pendingPaidIssues)

\* Both indexes are asked, the second after the first item has gone.
internalDeleteByTxId(t) ==
    LET p == pendingIndex[t]
        v == IF p \in Verified THEN None ELSE verifiedIndex[t]
    IN  internalDelete({p, v} \ {None})

DeleteByLink(l) ==
    IF inProgressLinks[l] = None THEN UNCHANGED pools
    ELSE internalDeleteByTxId(inProgressLinks[l])

deleteVerifiedItems(p) ==
    /\ Unlocked
    /\ p \in Pending \cup Verified
    /\ internalDelete({p})
    /\ UNCHANGED <<orphanPayments, checked, chain>>

\* The cleaner removes an item whose time is up; verified items never expire.
deleteExpiredItems(p) ==
    /\ Unlocked
    /\ p \in Pending
    /\ internalDelete({p})
    /\ UNCHANGED <<orphanPayments, checked, chain>>

-----------------------------------------------------------------------------
(***************************************************************************)
(* Single transactions: storeTransfer, storeGrant and storeSwap run from   *)
(* end to end under the lock.  Resubmitting a pending item changes         *)
(* nothing.                                                                *)
(***************************************************************************)
acceptablePayment(detail) == autoVerify \/ detail = "enough"

PrepaidForgetsOrphans(p) == autoVerify

\* The payment came before the item, or none is asked for.
Prepaid(p) == autoVerify \/ orphanPayments[p] = "enough"

\* RecordHasExpired is returned for a grant or swap at its BeforeBlock.
Expired(t) == t \in Grants \ timely

verifyAnyLink(t) ==
    /\ ~Expired(t)
    /\ Valid(t)
    /\ verifiedIndex[t] = None
    /\ t \notin Visible

verify(t) ==
    /\ ~Expired(t)
    /\ Valid(t)
    /\ t \notin Grants => inProgressLinks[Link[t]] \in {None, t}
    /\ verifiedIndex[t] = None
    /\ t \notin Visible

SpendLink(t) ==
    inProgressLinks' = IF t \in Grants THEN inProgressLinks
                       ELSE [inProgressLinks EXCEPT ![Link[t]] = t]

storePrepaid(t) ==
    /\ Unlocked
    /\ verify(t)
    /\ t \notin pendingTransactions /\ pendingIndex[t] = None
    /\ Prepaid(t)
    /\ verifiedTransactions' = verifiedTransactions \cup {t}
    /\ verifiedIndex' = [verifiedIndex EXCEPT ![t] = t]
    /\ SpendLink(t)
    /\ orphanPayments' = [orphanPayments EXCEPT ![t] = None]
    /\ UNCHANGED <<pendingTransactions, pendingIndex, pendingFreeIssues,
                   verifiedFreeIssues, pendingPaidIssues, verifiedPaidIssues,
                   pendingFreeCount, pendingPaidCount, checked, chain>>

\* Only transfers meet a limit.
storeUnpaid(t) ==
    /\ Unlocked
    /\ verify(t)
    /\ t \notin pendingTransactions /\ pendingIndex[t] = None
    /\ ~Prepaid(t)
    /\ t \notin Grants =>
           Cardinality(pendingTransactions) < maximumPendingTransactions
    /\ pendingTransactions' = pendingTransactions \cup {t}
    /\ pendingIndex' = [pendingIndex EXCEPT ![t] = t]
    /\ SpendLink(t)
    /\ UNCHANGED <<verifiedTransactions, verifiedIndex, pendingFreeIssues,
                   verifiedFreeIssues, pendingPaidIssues, verifiedPaidIssues,
                   pendingFreeCount, pendingPaidCount, orphanPayments, checked,
                   chain>>

-----------------------------------------------------------------------------
(***************************************************************************)
(* Issues.  storeIssues checks under read locks that it gives back, then   *)
(* takes the lock and inserts without checking again.                      *)
(***************************************************************************)
storeIssuesCheck(c, b) ==
    /\ Unlocked
    /\ checked[c] = None
    /\ \A t \in Members[b] : /\ pendingIndex[t] = None
                             /\ verifiedIndex[t] = None
                             /\ t \notin Visible
    /\ b \notin pendingFreeIssues \cup pendingPaidIssues
    /\ checked' = [checked EXCEPT ![c] = b]
    /\ UNCHANGED <<pools, orphanPayments, chain>>

\* A free bundle needs no payment, and one received for it is acceptable only
\* when all are.
PrepaidIssues(b) ==
    IF b \in Free THEN autoVerify /\ orphanPayments[b] # None ELSE Prepaid(b)

RoomForOneMore(b) ==
    IF b \in Free
    THEN pendingFreeCount + Size(b) <= maximumPendingFreeIssues
    ELSE pendingPaidCount + Size(b) <= maximumPendingPaidIssues

Room(b) ==
    IF b \in Free
    THEN pendingFreeCount + Size(b) <= maximumPendingFreeIssues
    ELSE pendingPaidCount + Size(b) < maximumPendingPaidIssues

storeIssuesPrepaid(c) ==
    LET b == checked[c]
    IN  /\ Unlocked
        /\ b # None
        /\ PrepaidIssues(b)
        /\ verifiedIndex' =
               [t \in Tx |-> IF t \in Members[b] THEN b ELSE verifiedIndex[t]]
        /\ pendingIndex' =
               [t \in Tx |-> IF t \in Members[b] THEN None ELSE pendingIndex[t]]
        /\ verifiedPaidIssues' = verifiedPaidIssues \cup {b}
        /\ orphanPayments' = [orphanPayments EXCEPT ![b] = None]
        /\ checked' = [checked EXCEPT ![c] = None]
        /\ UNCHANGED <<pendingTransactions, verifiedTransactions,
                       pendingFreeIssues, verifiedFreeIssues, pendingPaidIssues,
                       inProgressLinks, pendingFreeCount, pendingPaidCount,
                       chain>>

storeIssuesFull(c) ==
    LET b == checked[c]
    IN  /\ Unlocked
        /\ b # None
        /\ ~PrepaidIssues(b)
        /\ ~Room(b)
        /\ checked' = [checked EXCEPT ![c] = None]
        /\ UNCHANGED <<pools, orphanPayments, chain>>

RaisedByNone(count, bundles) == count

\* The count of pending issues after the bundles joined them.
Raised(count, bundles) == count + Total(bundles)

storeIssuesUnpaid(c) ==
    LET b == checked[c]
    IN  /\ Unlocked
        /\ b # None
        /\ ~PrepaidIssues(b)
        /\ Room(b)
        /\ pendingIndex' =
               [t \in Tx |-> IF t \in Members[b] THEN b ELSE pendingIndex[t]]
        /\ pendingFreeIssues' = pendingFreeIssues \cup ({b} \cap Free)
        /\ pendingFreeCount' = Raised(pendingFreeCount, {b} \cap Free)
        /\ pendingPaidIssues' = pendingPaidIssues \cup ({b} \ Free)
        /\ pendingPaidCount' = Raised(pendingPaidCount, {b} \ Free)
        /\ checked' = [checked EXCEPT ![c] = None]
        /\ UNCHANGED <<pendingTransactions, verifiedTransactions,
                       verifiedFreeIssues, verifiedPaidIssues, verifiedIndex,
                       inProgressLinks, orphanPayments, chain>>

-----------------------------------------------------------------------------
(***************************************************************************)
(* Payment.  setVerified moves a paid item to the verified pools; a free   *)
(* bundle is verified by a proof of work instead.                          *)
(***************************************************************************)
VerifySinglePends(t) ==
    /\ t \in pendingTransactions
    /\ pendingTransactions' = pendingTransactions \ {t}
    /\ verifiedTransactions' = verifiedTransactions \cup {t}
    /\ verifiedIndex' = [verifiedIndex EXCEPT ![t] = t]
    /\ UNCHANGED <<pendingIndex, pendingFreeIssues, verifiedFreeIssues,
                   pendingPaidIssues, verifiedPaidIssues, inProgressLinks,
                   pendingFreeCount, pendingPaidCount>>

VerifySingle(t) ==
    /\ t \in pendingTransactions
    /\ pendingTransactions' = pendingTransactions \ {t}
    /\ verifiedTransactions' = verifiedTransactions \cup {t}
    /\ pendingIndex' = [pendingIndex EXCEPT ![t] = None]
    /\ verifiedIndex' = [verifiedIndex EXCEPT ![t] = t]
    /\ UNCHANGED <<pendingFreeIssues, verifiedFreeIssues, pendingPaidIssues,
                   verifiedPaidIssues, inProgressLinks, pendingFreeCount,
                   pendingPaidCount>>

VerifyIndexes(b) ==
    /\ pendingIndex' =
           [t \in Tx |-> IF t \in Members[b] THEN None ELSE pendingIndex[t]]
    /\ verifiedIndex' =
           [t \in Tx |-> IF t \in Members[b] THEN b ELSE verifiedIndex[t]]

VerifyPaidIssues(b) ==
    /\ b \in pendingPaidIssues
    /\ VerifyIndexes(b)
    /\ pendingPaidIssues' = pendingPaidIssues \ {b}
    /\ verifiedPaidIssues' = verifiedPaidIssues \cup {b}
    /\ pendingPaidCount' = pendingPaidCount - Size(b)
    /\ UNCHANGED <<pendingTransactions, verifiedTransactions, pendingFreeIssues,
                   verifiedFreeIssues, inProgressLinks, pendingFreeCount>>

SetTransferVerified(p, detail) ==
    /\ Unlocked
    /\ IF acceptablePayment(detail) /\ p \in pendingTransactions \cup pendingPaidIssues
       THEN /\ VerifySingle(p) \/ VerifyPaidIssues(p)
            /\ UNCHANGED orphanPayments
       ELSE /\ Cardinality({q \in PayId \ {p} : orphanPayments[q] # None}) < MaxOrphans
            /\ orphanPayments' = [orphanPayments EXCEPT ![p] = detail]
            /\ UNCHANGED pools
    /\ UNCHANGED <<checked, chain>>

\* tryProof reads the item, gives the lock back while it searches and asks for
\* the item again here.
verifyIssueByNonce(b) ==
    /\ Unlocked
    /\ b \in pendingFreeIssues
    /\ VerifyIndexes(b)
    /\ pendingFreeIssues' = pendingFreeIssues \ {b}
    /\ verifiedFreeIssues' = verifiedFreeIssues \cup {b}
    /\ pendingFreeCount' = pendingFreeCount - Size(b)
    /\ UNCHANGED <<pendingTransactions, verifiedTransactions, pendingPaidIssues,
                   verifiedPaidIssues, inProgressLinks, pendingPaidCount,
                   orphanPayments, checked, chain>>

-----------------------------------------------------------------------------
(***************************************************************************)
(* Package block storing a block: the reservoir is disabled, every record  *)
(* is removed from the pools by its id, then by the link it spends, and is *)
(* then put in the database; after the commit the reservoir is rescanned   *)
(* and enabled.  After a failed commit it is enabled without a Rescan, and *)
(* the transaction that stays in use keeps any further block out.          *)
(***************************************************************************)
Mineable(t) == IF t \in Issue THEN t \notin confirmed ELSE Valid(t)

StoreIncoming(txs) ==
    /\ block.phase = "idle"
    /\ \A t \in txs : Mineable(t)
    /\ \A s, t \in txs \ (Issue \cup Grants) : Link[s] = Link[t] => s = t
    /\ block' = [NoBlock EXCEPT !.phase = "store", !.todo = txs]
    /\ UNCHANGED <<pools, orphanPayments, checked, confirmed, funded, timely, scan,
                   reorged>>

StoreRemove(t) ==
    /\ block.phase = "store"
    /\ t \in block.todo
    /\ internalDeleteByTxId(t)
    /\ block' = [block EXCEPT !.current = t,
                    !.phase = IF t \in Issue \cup Grants THEN "put" ELSE "unlink"]
    /\ UNCHANGED <<orphanPayments, checked, confirmed, funded, timely, scan, reorged>>

StoreUnlink ==
    /\ block.phase = "unlink"
    /\ DeleteByLink(Link[block.current])
    /\ block' = [block EXCEPT !.phase = "put"]
    /\ UNCHANGED <<orphanPayments, checked, confirmed, funded, timely, scan, reorged>>

\* Which balances suffice is up to the shares that the record moves.
StorePut ==
    /\ block.phase = "put"
    /\ block' = [phase |-> "store", todo |-> block.todo \ {block.current},
                 current |-> None, done |-> block.done \cup {block.current}]
    /\ funded' \in IF block.current \in Single THEN SUBSET Grants ELSE {funded}
    /\ UNCHANGED <<pools, orphanPayments, checked, confirmed, timely, scan, reorged>>

\* The commit deletes the balances that are zero, and the height is one more.
StoreCommit ==
    /\ block.phase = "store"
    /\ block.todo = {}
    /\ confirmed' = confirmed \cup block.done
    /\ funded' \in SUBSET Grants
    /\ timely' \in SUBSET timely
    /\ block' = [NoBlock EXCEPT !.phase = "committed"]
    /\ UNCHANGED <<pools, orphanPayments, checked, scan, reorged>>

\* The height is set before the commit.
StoreCommitFails ==
    /\ block.phase = "store"
    /\ block.todo = {}
    /\ timely' \in SUBSET timely
    /\ block' = [block EXCEPT !.phase = "wedged"]
    /\ UNCHANGED <<pools, orphanPayments, checked, confirmed, funded, scan, reorged>>

\* The puts of the transaction that failed are not visible any longer.
CacheExpires ==
    /\ block.phase = "wedged"
    /\ block' = [NoBlock EXCEPT !.phase = "wedged"]
    /\ funded' \in SUBSET Grants
    /\ UNCHANGED <<pools, orphanPayments, checked, confirmed, timely, scan, reorged>>

Rescan ==
    /\ block.phase = "committed"
    /\ block' = [block EXCEPT !.phase = "rescan"]
    /\ scan' = Content(Pending \cup Verified)
    /\ UNCHANGED <<pools, orphanPayments, checked, confirmed, funded, timely, reorged>>

StaleIssue(t) == t \in Issue /\ t \in confirmed

\* What rescanItem drops: a confirmed issue, a transfer whose link is not owned
\* any more, a share movement that its balances do not cover.
Stale(t) == IF t \in Issue THEN t \in confirmed ELSE ~Valid(t)

rescanItem(t) ==
    /\ block.phase = "rescan"
    /\ t \in scan
    /\ scan' = scan \ {t}
    /\ IF Stale(t) THEN internalDeleteByTxId(t) ELSE UNCHANGED pools
    /\ UNCHANGED <<orphanPayments, checked, confirmed, funded, timely, block, reorged>>

StoreEnable ==
    /\ block.phase = "rescan"
    /\ scan = {}
    /\ block' = NoBlock
    /\ reorged' = FALSE
    /\ UNCHANGED <<pools, orphanPayments, checked, confirmed, funded, timely, scan>>

-----------------------------------------------------------------------------
(***************************************************************************)
(* Package block deleting blocks, newest first, one commit per record.     *)
(* The reservoir is enabled again without a Rescan.                        *)
(***************************************************************************)
DeleteDownToBlock ==
    /\ block.phase = "idle"
    /\ confirmed # {}
    /\ block' = [NoBlock EXCEPT !.phase = "delete"]
    /\ UNCHANGED <<pools, orphanPayments, checked, confirmed, funded, timely, scan,
                   reorged>>

Deletable(t) ==
    /\ block.phase = "delete"
    /\ t \in confirmed
    /\ ~ \E s \in Single \cap confirmed : Link[s] = t

DeleteRecord(t) ==
    /\ Deletable(t)
    /\ internalDeleteByTxId(t)
    /\ confirmed' = confirmed \ {t}
    /\ funded' \in SUBSET Grants
    /\ reorged' = TRUE
    /\ UNCHANGED <<orphanPayments, checked, timely, block, scan>>

\* The next NewDBTransaction reports the transaction in use and ends the call.
DeleteRecordCommitFails(t) ==
    /\ Deletable(t)
    /\ internalDeleteByTxId(t)
    /\ funded' \in SUBSET Grants
    /\ block' = [NoBlock EXCEPT !.phase = "wedged", !.current = t]
    /\ UNCHANGED <<orphanPayments, checked, confirmed, timely, scan, reorged>>

\* The height is lower, unless the deletion ends early.  The last commit, of the
\* block itself, may have failed.
DeleteEnable ==
    /\ block.phase = "delete"
    /\ block' \in {NoBlock, [NoBlock EXCEPT !.phase = "wedged"]}
    /\ timely' \in {timely \cup later : later \in SUBSET Grants}
    /\ UNCHANGED <<pools, orphanPayments, checked, confirmed, funded, scan, reorged>>

-----------------------------------------------------------------------------
BlockTxs == {txs \in SUBSET Tx : txs # {} /\ Cardinality(txs) <= MaxTxs}

Next ==
    \/ \E p \in PayId : deleteExpiredItems(p)
    \/ \E t \in Single : storePrepaid(t) \/ storeUnpaid(t)
    \/ \E c \in Caller, b \in Bundle : storeIssuesCheck(c, b)
    \/ \E c \in Caller : \/ storeIssuesPrepaid(c)
                         \/ storeIssuesFull(c)
                         \/ storeIssuesUnpaid(c)
    \/ \E p \in PayId, detail \in {"enough", "short"} : SetTransferVerified(p, detail)
    \/ \E b \in Bundle : verifyIssueByNonce(b)
    \/ \E txs \in BlockTxs : StoreIncoming(txs)
    \/ \E t \in Tx : \/ StoreRemove(t) \/ rescanItem(t)
                    \/ DeleteRecord(t) \/ DeleteRecordCommitFails(t)
    \/ StoreUnlink \/ StorePut \/ StoreCommit \/ StoreCommitFails \/ CacheExpires
    \/ Rescan \/ StoreEnable \/ DeleteDownToBlock \/ DeleteEnable

Spec == Init /\ [][Next]_vars

-----------------------------------------------------------------------------
Held   == pendingTransactions \cup verifiedTransactions
Phases == {"idle", "store", "unlink", "put", "committed", "rescan", "delete", "wedged"}

\* The variables have their types; the counters never go below zero.
TypeOK ==
    /\ pendingTransactions \subseteq Single /\ verifiedTransactions \subseteq Single
    /\ pendingFreeIssues \subseteq Free /\ verifiedFreeIssues \subseteq Free
    /\ pendingPaidIssues \subseteq Bundle \ Free /\ verifiedPaidIssues \subseteq Bundle
    /\ pendingIndex \in [Tx -> PayId \cup {None}]
    /\ verifiedIndex \in [Tx -> PayId \cup {None}]
    /\ inProgressLinks \in [Linkable -> Single \cup {None}]
    /\ pendingFreeCount \in Nat /\ pendingPaidCount \in Nat
    /\ orphanPayments \in [PayId -> {None, "enough", "short"}]
    /\ checked \in [Caller -> Bundle \cup {None}]
    /\ confirmed \subseteq Tx /\ funded \subseteq Grants /\ timely \subseteq Grants
    /\ scan \subseteq Tx
    /\ block \in [phase : Phases, todo : SUBSET Tx, current : Tx \cup {None},
                  done : SUBSET Tx]
    /\ reorged \in BOOLEAN

\* Whatever the callers, the cleaner, the payments and the blocks do between
\* the calls of each other, the pools never hold two transfers of one record
\* (inProgressLinks, "check for double spend").
NoDoubleTransfer ==
    \A s, t \in Held \ Grants : Link[s] = Link[t] => s = t

\* inProgressLinks has an entry for exactly the transfers in the pools: an
\* entry that outlived its transfer would refuse the owner every later one.
LinksExact ==
    \A l \in Linkable :
        \/ inProgressLinks[l] = None /\ \A t \in Held \ Grants : Link[t] # l
        \/ inProgressLinks[l] \in Held \ Grants /\ Link[inProgressLinks[l]] = l

\* A single transaction is in at most one of its two pools and is found through
\* the index of that pool and through no other.
SinglesIndexed ==
    /\ pendingTransactions \cap verifiedTransactions = {}
    /\ \A t \in Single :
           /\ pendingIndex[t] = IF t \in pendingTransactions THEN t ELSE None
           /\ verifiedIndex[t] = IF t \in verifiedTransactions THEN t ELSE None

\* Two calls that store the same bundle at once may count it twice, but never
\* too low: the issues that are pending stay within the limits, which free issues
\* may reach and paid issues may not.
PendingWithinLimits ==
    /\ Total(pendingFreeIssues) <= pendingFreeCount
    /\ Total(pendingPaidIssues) <= pendingPaidCount
    /\ pendingFreeCount <= maximumPendingFreeIssues
    /\ pendingPaidCount < maximumPendingPaidIssues

\* Between blocks, and unless blocks were deleted since the last Rescan, every
\* single transaction in the pools could still be mined: what was stored between
\* the calls of a block does not survive its Rescan.
PoolValidAfterRescan ==
    block.phase = "idle" /\ ~reorged => \A t \in Held : Valid(t)

\* A transaction that has been paid for leaves its pool only for a block: no
\* expiry, payment or resubmission drops it while the proofer may fetch it.
VerifiedStay ==
    [][verifiedTransactions \subseteq verifiedTransactions' \/ ~Enabled]_vars

\* No item waits for a payment that was received and suffices, in whichever order
\* the payment, the item and the expiry of an earlier submission of it came.
PaidNeverWaits ==
    \A p \in pendingTransactions \cup pendingPaidIssues : orphanPayments[p] # "enough"

\* "a single confirmed transfer fails the whole block" (verifyGrant): no grant
\* that is confirmed is offered for mining again.
ConfirmedLeavesPool == Enabled => Held \cap confirmed = {}
=============================================================================
