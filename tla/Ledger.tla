------------------------------- MODULE Ledger -------------------------------
(***************************************************************************)
(* The block store of a node: StoreIncoming, DeleteDownToBlock and the     *)
(* startup validation of package block, over the index database.           *)
(*                                                                         *)
(* StoreIncoming holds the block lock from end to end and writes in one    *)
(* database transaction, so it is one action.  DeleteDownToBlock commits   *)
(* one transaction per record, so it is one action per record and the      *)
(* process may end between any two of them.                                *)
(***************************************************************************)
EXTENDS Ownership, FiniteSets, FiniteSetsExt, TLC

CONSTANTS
    Tx,                    \* the transactions that exist
    TxData,                \* their records
    Digest,                \* digests of the blocks that exist
    BlockData,             \* owner and payments of the foundation of a block
    Version,               \* header version of the blocks
    BlockValidationCounts, \* blocks validated on startup
    Wrap,                  \* 2^64, where unsigned block numbers wrap
    MaxHeight,             \* bound: no block above this one
    MaxTxs,                \* bound: transactions in a block
    MaxMoves,              \* bound: share movements of one balance in a block
    MaxCount               \* bound: positions used in one owner's list

GenesisBlockNumber == 1

ASSUME BoundsAssumption ==
    /\ MaxHeight \in Nat /\ MaxHeight > GenesisBlockNumber
    /\ MaxTxs \in Nat /\ MaxMoves \in Nat /\ MaxCount \in Nat
    /\ Version \in Nat \ {0}
    /\ Wrap \in Nat /\ Wrap > MaxHeight /\ BlockValidationCounts \in 1 .. Wrap

VARIABLES
    db,       \* the committed database
    header,   \* blockheader: number and digest of the highest block
    phase,    \* "run", "delete", "down", "panic" or "refused"
    cursor,   \* where DeleteDownToBlock is: final, block number and record
    wedged    \* a failed commit has left the database transaction in use

vars == <<db, header, phase, cursor, wedged>>

Genesis  == [number |-> GenesisBlockNumber, digest |-> NoValue]
NoCursor == [final |-> 0, number |-> 0, index |-> 0]

Init ==
    /\ db = Empty
    /\ header = Genesis
    /\ phase = "run"
    /\ cursor = NoCursor
    /\ wedged = FALSE

-----------------------------------------------------------------------------
(***************************************************************************)
(* Blocks.  The foundation record of a block is known by its number and    *)
(* digest; the digest is unique to the block.                              *)
(***************************************************************************)
Block(number, digest, txs) ==
    [number |-> number, digest |-> digest, txs |-> txs]

FoundationTxId(b) == <<b.number, b.digest>>

Foundation(b) ==
    [type |-> "foundation", owner |-> BlockData[b.digest].owner,
     payments |-> BlockData[b.digest].payments]

HeaderOf(b) == [number |-> b.number, digest |-> b.digest]

Heights == DOMAIN db.Blocks

LastBlock == Max(Heights)

Linked(t) == TxData[t].type \in {"transfer", "blockTransfer", "share"}

\* The balances a share movement reads and writes.
Balances(t) ==
    LET d == TxData[t]
    IN  CASE d.type = "grant" -> {d.owner, d.recipient} \X {d.share}
          [] d.type = "swap" -> {d.ownerOne, d.ownerTwo} \X {d.shareOne, d.shareTwo}
          [] OTHER -> {}

\* The lists of transactions that miners running this code assemble from their
\* reservoir: no transaction and no link twice.
Lists ==
    LET distinct(txs) == \A i, j \in DOMAIN txs : i # j =>
            /\ txs[i] # txs[j]
            /\ Linked(txs[i]) /\ Linked(txs[j])
                  => TxData[txs[i]].link # TxData[txs[j]].link
        moves(txs, k) == Cardinality({t \in ToSet(txs) : k \in Balances(t)})
    IN  {txs \in UNION {[1 .. n -> Tx] : n \in 0 .. MaxTxs} :
            /\ distinct(txs)
            /\ \A k \in UNION {Balances(t) : t \in ToSet(txs)} :
                  moves(txs, k) <= MaxMoves}

-----------------------------------------------------------------------------
(***************************************************************************)
(* StoreIncoming: validation, against the committed database.              *)
(***************************************************************************)
SufficientUnchecked(trx, owner, share, quantity) == TRUE

Sufficient(trx, owner, share, quantity) ==
    /\ Has(trx, "ShareQuantity", <<owner, share>>)
    /\ Get(trx, "ShareQuantity", <<owner, share>>) >= quantity

CheckGrantBalance(trx, d) == Sufficient(trx, d.owner, d.share, d.quantity)

CheckSwapBalances(trx, d) ==
    /\ Sufficient(trx, d.ownerOne, d.shareOne, d.quantityOne)
    /\ Sufficient(trx, d.ownerTwo, d.shareTwo, d.quantityTwo)

\* Blocks with a version 1 header may repeat assets and issues.
suppressDuplicateRecordChecks == Version = 1

\* The link of t is a confirmed record and the head of its provenance.
OwnedLink(trx, d) ==
    LET linkOwner == OwnerOf(trx, d.link)
    IN  linkOwner # NoValue /\ CurrentlyOwns(trx, linkOwner, d.link)

ValidRecord(trx, txs, i) ==
    LET t == txs[i]
        d == TxData[t]
    IN  CASE d.type = "asset" ->
                suppressDuplicateRecordChecks \/ ~Has(trx, "Assets", d.asset)
          [] d.type = "issue" ->
                /\ suppressDuplicateRecordChecks \/ ~Has(trx, "Transactions", t)
                /\ \/ Has(trx, "Assets", d.asset)
                   \/ \E j \in 1 .. i - 1 : /\ TxData[txs[j]].type = "asset"
                                            /\ TxData[txs[j]].asset = d.asset
          [] d.type = "transfer" ->
                /\ OwnedLink(trx, d)
                /\ Has(trx, "OwnerData", d.link)
                /\ Get(trx, "OwnerData", d.link).kind # "share"
          [] d.type = "blockTransfer" ->
                /\ OwnedLink(trx, d)
                /\ Has(trx, "BlockOwnerTxIndex", d.link)
          [] d.type = "share" ->
                /\ OwnerOf(trx, d.link) # NoValue
                /\ Has(trx, "OwnerData", d.link)
                /\ Get(trx, "OwnerData", d.link).kind = "asset"
          [] d.type = "grant" -> CheckGrantBalance(trx, d)
          [] d.type = "swap" -> CheckSwapBalances(trx, d)

\* A list on which validation finds no error.  Grants and swaps are not asked for
\* in Transactions: one that is confirmed may be confirmed again.
ValidList(txs) ==
    \A i \in DOMAIN txs : ValidRecord(NewDBTransaction(db), txs, i)

\* A list on which validation panics: OwnerOf does, on the link of a record that
\* follows valid ones.
PanickingList(txs) ==
    LET trx == NewDBTransaction(db)
    IN  \E i \in DOMAIN txs :
            /\ Linked(txs[i]) /\ OwnerOfPanics(trx, TxData[txs[i]].link)
            /\ \A j \in 1 .. i - 1 : ValidRecord(trx, txs, j)

-----------------------------------------------------------------------------
(***************************************************************************)
(* StoreIncoming: the records of the block, applied in order within one    *)
(* database transaction.                                                   *)
(***************************************************************************)
PutRecord(trx, t, number) ==
    Put(trx, "Transactions", t, [number |-> number, tx |-> TxData[t]])

\* Balances are unsigned and a balance of zero is not stored.
PutBalance(trx, key, value) ==
    IF value = 0 THEN Delete(trx, "ShareQuantity", key)
                 ELSE Put(trx, "ShareQuantity", key, value)

\* Move a quantity of a share; the receiver's balance is stored last.
MoveWithoutDebit(trx, share, quantity, from, to) ==
    Put(trx, "ShareQuantity", <<to, share>>,
        (GetN(trx, "ShareQuantity", <<to, share>>) + quantity) % Wrap)

Move(trx, share, quantity, from, to) ==
    LET source == GetN(trx, "ShareQuantity", <<from, share>>)
        target == GetN(trx, "ShareQuantity", <<to, share>>)
        less   == PutBalance(trx, <<from, share>>, (source - quantity) % Wrap)
    IN  Put(less, "ShareQuantity", <<to, share>>, (target + quantity) % Wrap)

StoreBlockTransfer(trx, t, number, linkOwner) ==
    LET d     == TxData[t]
        owned == Get(NewDBTransaction(db), "BlockOwnerTxIndex", d.link)
        paid  == Put(PutRecord(trx, t, number), "BlockOwnerPayment", owned, d.payments)
        index == Put(paid, "BlockOwnerTxIndex", t, owned)
    IN  Transfer(Delete(index, "BlockOwnerTxIndex", d.link),
                 d.link, t, number, linkOwner, d.owner)

StoreGrant(trx, t, number) ==
    LET d == TxData[t]
    IN  IF ~Has(trx, "ShareQuantity", <<d.owner, d.share>>)
        THEN Panic(trx)
        ELSE PutRecord(Move(trx, d.share, d.quantity, d.owner, d.recipient), t, number)

StoreSwap(trx, t, number) ==
    LET d   == TxData[t]
        one == Move(trx, d.shareOne, d.quantityOne, d.ownerOne, d.ownerTwo)
        two == Move(one, d.shareTwo, d.quantityTwo, d.ownerTwo, d.ownerOne)
    IN  IF \/ ~Has(trx, "ShareQuantity", <<d.ownerOne, d.shareOne>>)
           \/ ~Has(trx, "ShareQuantity", <<d.ownerTwo, d.shareTwo>>)
        THEN Panic(trx)
        ELSE PutRecord(two, t, number)

StoreIssue(trx, t, number) ==
    LET d == TxData[t]
    IN  IF Has(trx, "Transactions", t) THEN trx
        ELSE CreateAsset(PutRecord(trx, t, number), t, number, d.asset, d.owner)

StoreAsset(trx, t, number) ==
    IF Has(trx, "Assets", TxData[t].asset) THEN trx
    ELSE Put(trx, "Assets", TxData[t].asset, number)

StoreRecord(trx, t, number) ==
    LET d         == TxData[t]
        linkOwner == OwnerOf(NewDBTransaction(db), d.link)
    IN  CASE d.type = "asset" -> StoreAsset(trx, t, number)
          [] d.type = "issue" -> StoreIssue(trx, t, number)
          [] d.type = "transfer" ->
                Transfer(PutRecord(trx, t, number), d.link, t, number, linkOwner, d.owner)
          [] d.type = "blockTransfer" -> StoreBlockTransfer(trx, t, number, linkOwner)
          [] d.type = "share" ->
                Share(PutRecord(trx, t, number), d.link, t, number, linkOwner, d.quantity)
          [] d.type = "grant" -> StoreGrant(trx, t, number)
          [] d.type = "swap" -> StoreSwap(trx, t, number)

\* The foundation record, its ownership, the block itself and its digest.
StoreFoundation(trx, b) ==
    LET id    == FoundationTxId(b)
        paid  == Put(trx, "BlockOwnerPayment", b.number, Foundation(b).payments)
        tx    == Put(paid, "Transactions", id,
                     [number |-> b.number, tx |-> Foundation(b)])
        index == Put(tx, "BlockOwnerTxIndex", id, b.number)
        owned == CreateBlock(index, id, b.number, Foundation(b).owner)
    IN  Put(Put(owned, "Blocks", b.number, b), "BlockHeaderHash", b.number, b.digest)

StoreBlock(b) ==
    LET Step(trx, t) == IF trx.panic THEN trx ELSE StoreRecord(trx, t, b.number)
        records == FoldLeft(Step, NewDBTransaction(db), b.txs)
    IN  IF records.panic THEN records ELSE StoreFoundation(records, b)

WithinBounds ==
    /\ header.number < MaxHeight
    /\ \A o \in DOMAIN db.OwnerNextCount : db.OwnerNextCount[o] < MaxCount

Accepting == phase = "run" /\ ~wedged /\ WithinBounds

StoreIncoming(b) ==
    /\ Accepting
    /\ LET trx == StoreBlock(b)
       IN  IF PanickingList(b.txs) \/ trx.panic
           THEN phase' = "panic" /\ UNCHANGED <<db, header>>
           ELSE db' = Commit(trx) /\ header' = HeaderOf(b) /\ UNCHANGED phase
    /\ UNCHANGED <<cursor, wedged>>

\* The header is set before the commit, and a failed commit is returned without
\* an abort of the transaction.
StoreIncomingCommitFails(b) ==
    /\ Accepting
    /\ ~PanickingList(b.txs) /\ ~StoreBlock(b).panic
    /\ header' = HeaderOf(b)
    /\ wedged' = TRUE
    /\ UNCHANGED <<db, phase, cursor>>

-----------------------------------------------------------------------------
(***************************************************************************)
(* DeleteDownToBlock: one transaction per record, in the order of the      *)
(* block, then one for the block itself.                                   *)
(***************************************************************************)
UndoIssue(trx, t) ==
    IF Has(trx, "Transactions", t)
    THEN Transfer(Delete(trx, "Transactions", t), t, t, 0, TxData[t].owner, NoValue)
    ELSE trx

UndoTransferSwapsOwners(trx, t, owner, linkOwner) ==
    LET link == TxData[t].link
    IN  IF linkOwner = NoValue THEN Panic(trx)
        ELSE Transfer(Delete(trx, "Transactions", t), t, link,
                      Get(trx, "Transactions", link).number, linkOwner, owner)

\* Give the record t owned by owner back to the owner of its link.
UndoTransfer(trx, t, owner, linkOwner) ==
    LET link == TxData[t].link
    IN  IF linkOwner = NoValue THEN Panic(trx)
        ELSE Transfer(Delete(trx, "Transactions", t), t, link,
                      Get(trx, "Transactions", link).number, owner, linkOwner)

UndoBlockTransferKeepsPayment(trx, t) ==
    LET link  == TxData[t].link
        owned == Get(trx, "OwnerData", t)
        back  == UndoTransfer(trx, t, TxData[t].owner, OwnerOf(trx, link))
        index == Put(back, "BlockOwnerTxIndex", link, owned.issueBlockNumber)
    IN  IF back.panic THEN Panic(trx) ELSE Delete(index, "BlockOwnerTxIndex", t)

\* The ownership goes back and with it the payments of the record linked, which
\* has to be a foundation or a block transfer.
UndoBlockTransfer(trx, t) ==
    LET link  == TxData[t].link
        owned == Get(trx, "OwnerData", t)
        back  == UndoTransfer(trx, t, TxData[t].owner, OwnerOf(trx, link))
        paid  == Put(back, "BlockOwnerPayment", owned.issueBlockNumber,
                     Get(trx, "Transactions", link).tx.payments)
        index == Put(paid, "BlockOwnerTxIndex", link, owned.issueBlockNumber)
    IN  IF \/ owned = NoValue \/ owned.kind # "block"
           \/ back.panic
           \/ Get(trx, "Transactions", link).tx.type \notin {"foundation", "blockTransfer"}
        THEN Panic(trx)
        ELSE Delete(index, "BlockOwnerTxIndex", t)

UndoShare(trx, t) ==
    LET owner == OwnerOf(trx, TxData[t].link)
        data  == Get(trx, "OwnerData", t)
        total == Delete(trx, "Shares", data.issueTxId)
        none  == Delete(total, "ShareQuantity", <<owner, data.issueTxId>>)
    IN  IF owner = NoValue \/ data = NoValue \/ data.kind # "share" THEN Panic(trx)
        ELSE UndoTransfer(none, t, owner, owner)

UndoGrant(trx, t) ==
    LET d == TxData[t]
    IN  IF ~Has(trx, "ShareQuantity", <<d.recipient, d.share>>)
        THEN Panic(trx)
        ELSE Move(Delete(trx, "Transactions", t),
                  d.share, d.quantity, d.recipient, d.owner)

UndoSwap(trx, t) ==
    LET d   == TxData[t]
        one == Move(Delete(trx, "Transactions", t),
                    d.shareOne, d.quantityOne, d.ownerTwo, d.ownerOne)
    IN  IF \/ ~Has(trx, "ShareQuantity", <<d.ownerOne, d.shareTwo>>)
           \/ ~Has(trx, "ShareQuantity", <<d.ownerTwo, d.shareOne>>)
        THEN Panic(trx)
        ELSE Move(one, d.shareTwo, d.quantityTwo, d.ownerOne, d.ownerTwo)

UndoRecord(trx, t) ==
    LET d == TxData[t]
    IN  CASE d.type = "asset" -> Delete(trx, "Assets", d.asset)
          [] d.type = "issue" -> UndoIssue(trx, t)
          [] d.type = "transfer" -> UndoTransfer(trx, t, d.owner, OwnerOf(trx, d.link))
          [] d.type = "blockTransfer" -> UndoBlockTransfer(trx, t)
          [] d.type = "share" -> UndoShare(trx, t)
          [] d.type = "grant" -> UndoGrant(trx, t)
          [] d.type = "swap" -> UndoSwap(trx, t)

UndoFoundation(b) ==
    LET id    == FoundationTxId(b)
        tx    == Delete(NewDBTransaction(db), "Transactions", id)
        owned == Transfer(tx, id, id, 0, Foundation(b).owner, NoValue)
        index == Delete(owned, "BlockOwnerTxIndex", id)
        paid  == Delete(index, "BlockOwnerPayment", b.number)
    IN  Delete(Delete(paid, "Blocks", b.number), "BlockHeaderHash", b.number)

Current == db.Blocks[cursor.number]

FinishKeepsHeader(h) ==
    /\ phase' = "run"
    /\ cursor' = NoCursor
    /\ UNCHANGED header

Finish(h) ==
    /\ header' = h
    /\ phase' = "run"
    /\ cursor' = NoCursor

\* NewDBTransaction fails while another commit has left the transaction in use:
\* the call then ends before it deletes anything.
DeleteDownToBlock(final) ==
    /\ phase = "run"
    /\ Heights # {}
    /\ IF wedged
       THEN /\ header' = IF LastBlock < final THEN HeaderOf(db.Blocks[LastBlock])
                                              ELSE header
            /\ UNCHANGED <<phase, cursor>>
       ELSE /\ phase' = "delete"
            /\ cursor' = [final |-> final, number |-> LastBlock, index |-> 1]
            /\ UNCHANGED header
    /\ UNCHANGED <<db, wedged>>

DeleteFinished ==
    /\ phase = "delete"
    /\ cursor.number < cursor.final
    /\ Finish(HeaderOf(Current))
    /\ UNCHANGED <<db, wedged>>

DeletingRecord ==
    /\ phase = "delete"
    /\ cursor.number >= cursor.final
    /\ cursor.index <= Len(Current.txs)

DeleteRecord ==
    /\ DeletingRecord
    /\ LET trx == UndoRecord(NewDBTransaction(db), Current.txs[cursor.index])
       IN  IF trx.panic
           THEN phase' = "panic" /\ UNCHANGED <<db, cursor>>
           ELSE /\ db' = Commit(trx)
                /\ cursor' = [cursor EXCEPT !.index = @ + 1]
                /\ UNCHANGED phase
    /\ UNCHANGED <<header, wedged>>

\* The error of the commit is dropped; the next NewDBTransaction reports that
\* the transaction is in use and ends the call.
DeleteRecordCommitFails ==
    /\ DeletingRecord
    /\ Finish(header)
    /\ wedged' = TRUE
    /\ UNCHANGED db

DeletingBlock ==
    /\ phase = "delete"
    /\ cursor.number >= cursor.final
    /\ cursor.index > Len(Current.txs)

Previous == cursor.number - 1

NextBlockUnchecked ==
    /\ cursor' = [cursor EXCEPT !.number = Previous, !.index = 1]
    /\ UNCHANGED <<phase, header>>

NextBlock ==
    IF Previous \in Heights
    THEN /\ cursor' = [cursor EXCEPT !.number = Previous, !.index = 1]
         /\ UNCHANGED <<phase, header>>
    ELSE Finish(Genesis)

DeleteBlock ==
    /\ DeletingBlock
    /\ LET trx == UndoFoundation(Current)
       IN  IF trx.panic
           THEN phase' = "panic" /\ UNCHANGED <<db, header, cursor>>
           ELSE db' = Commit(trx) /\ NextBlock
    /\ UNCHANGED wedged

\* The loop goes on to the previous block, which may be the one to stop at.
DeleteBlockCommitFails ==
    /\ DeletingBlock
    /\ wedged' = TRUE
    /\ IF Previous \notin Heights THEN Finish(Genesis)
       ELSE IF Previous < cursor.final THEN Finish(HeaderOf(db.Blocks[Previous]))
       ELSE Finish(header)
    /\ UNCHANGED db

-----------------------------------------------------------------------------
(***************************************************************************)
(* The process ends at any point; on startup Initialise validates the      *)
(* index of the highest blocks and refuses to start on any inconsistency.  *)
(***************************************************************************)
Crash ==
    /\ phase \in {"run", "delete"}
    /\ phase' = "down"
    /\ cursor' = NoCursor
    /\ UNCHANGED <<db, header, wedged>>

\* The last block and those above lastCheckedBlockNumber, an unsigned number
\* that wraps when the chain is shorter than BlockValidationCounts.
Validated ==
    LET difference == (LastBlock - BlockValidationCounts) % Wrap
        lastChecked == Max({1, difference})
    IN  {LastBlock} \cup {n \in Heights : n > lastChecked /\ n < LastBlock}

\* Links seen before record i of block n: blocks descend, records ascend.
Prior(n, i, type) ==
    {TxData[db.Blocks[p[1]].txs[p[2]]].link :
        p \in {q \in Validated \X (1 .. MaxTxs) :
                  /\ q[2] <= Len(db.Blocks[q[1]].txs)
                  /\ TxData[db.Blocks[q[1]].txs[q[2]]].type = type
                  /\ q[1] > n \/ (q[1] = n /\ q[2] < i)}}

validateTxOwnerRecords(trx, t, owner) ==
    /\ Has(trx, "OwnerTxIndex", <<owner, t>>)
    /\ Get(trx, "OwnerList", <<owner, Get(trx, "OwnerTxIndex", <<owner, t>>)>>) = t

validateBlockOwnerRecord(trx, id, payments) ==
    /\ Has(trx, "BlockOwnerTxIndex", id)
    /\ Get(trx, "BlockOwnerPayment", Get(trx, "BlockOwnerTxIndex", id)) = payments

isTxWipedOut(trx, t) ==
    /\ ~Has(trx, "OwnerData", t)
    /\ Has(trx, "Transactions", t)
    /\ ~Has(trx, "OwnerTxIndex", <<OwnerOf(trx, t), t>>)

validateRecord(trx, n, i) ==
    LET t == db.Blocks[n].txs[i]
        d == TxData[t]
    IN  IF d.type = "asset" THEN Has(trx, "Assets", d.asset)
        ELSE /\ Has(trx, "Transactions", t)
             /\ d.type = "blockTransfer" =>
                   /\ ~Has(trx, "BlockOwnerTxIndex", d.link)
                   /\ \/ t \in Prior(n, i, "blockTransfer")
                      \/ validateBlockOwnerRecord(trx, t, d.payments)
             /\ d.type = "transfer" => isTxWipedOut(trx, d.link)
             /\ d.type \in {"issue", "transfer"} =>
                   \/ t \in Prior(n, i, "transfer")
                   \/ validateTxOwnerRecords(trx, t, d.owner)

validateTransactionData(trx, n) ==
    LET id == FoundationTxId(db.Blocks[n])
    IN  /\ Has(trx, "Transactions", id)
        /\ \/ id \in Prior(n, 0, "blockTransfer")
           \/ validateBlockOwnerRecord(trx, id, Foundation(db.Blocks[n]).payments)
        /\ \A i \in DOMAIN db.Blocks[n].txs : validateRecord(trx, n, i)

validateNothing == TRUE

validateAndReturnLastBlock ==
    \A n \in Validated : validateTransactionData(NewDBTransaction(db), n)

Initialise ==
    /\ phase \in {"down", "panic"}
    /\ IF Heights = {} THEN phase' = "run" /\ header' = Genesis
       ELSE IF validateAndReturnLastBlock
            THEN phase' = "run" /\ header' = HeaderOf(db.Blocks[LastBlock])
            ELSE phase' = "refused" /\ UNCHANGED header
    /\ wedged' = FALSE
    /\ UNCHANGED <<db, cursor>>

-----------------------------------------------------------------------------
\* The blocks that may arrive on top of the current header, but for those that
\* validation refuses with an error.
Blocks ==
    IF Accepting
    THEN {Block(header.number + 1, d, txs) :
             d \in Digest, txs \in {l \in Lists : ValidList(l) \/ PanickingList(l)}}
    ELSE {}

Next ==
    \/ \E b \in Blocks : StoreIncoming(b)
    \/ \E b \in Blocks : StoreIncomingCommitFails(b)
    \/ \E final \in GenesisBlockNumber + 1 .. MaxHeight + 1 : DeleteDownToBlock(final)
    \/ DeleteFinished
    \/ DeleteRecord
    \/ DeleteRecordCommitFails
    \/ DeleteBlock
    \/ DeleteBlockCommitFails
    \/ Crash
    \/ Initialise

Spec == Init /\ [][Next]_vars

-----------------------------------------------------------------------------
(***************************************************************************)
(* What the index must say, defined from the stored blocks alone.  Nothing *)
(* here refers to how the chain came to be: stored block by block, or      *)
(* stored, deleted and stored again on another branch.                     *)
(***************************************************************************)
Confirmed == UNION {ToSet(db.Blocks[n].txs) : n \in Heights}

Foundations == {FoundationTxId(db.Blocks[n]) : n \in Heights}

BlocksWith(t) == {n \in Heights : t \in ToSet(db.Blocks[n].txs)}

BlockOf(x) == IF x \in Foundations THEN x[1] ELSE Max(BlocksWith(x))

RecordOf(x) ==
    IF x \in Foundations THEN Foundation(db.Blocks[x[1]]) ELSE TxData[x]

Typed(types) == {t \in Confirmed : TxData[t].type \in types}

\* The heads of the provenance chains: records that no confirmed record links.
Heads ==
    (Foundations \cup Typed({"issue", "transfer", "blockTransfer", "share"}))
        \ {TxData[t].link : t \in Typed({"transfer", "blockTransfer", "share"})}

OwnerOfHead(x) ==
    IF RecordOf(x).type = "share" THEN RecordOf(RecordOf(x).link).owner
                                  ELSE RecordOf(x).owner

\* The issue or the foundation a record descends from.
Origin(x) ==
    LET from[y \in Foundations \cup Confirmed] ==
            IF RecordOf(y).type \in {"issue", "foundation"} THEN y
            ELSE from[RecordOf(y).link]
    IN  from[x]

Kind(x) ==
    CASE RecordOf(x).type \in {"foundation", "blockTransfer"} -> "block"
      [] RecordOf(x).type = "share" -> "share"
      [] OTHER -> "asset"

\* The balance of a share as the grants and swaps leave it, each counted as often
\* as it is confirmed.
Balance(o, s) ==
    LET total(S, q(_)) == MapThenSumSet(LAMBDA t : q(t) * Cardinality(BlocksWith(t)), S)
        grants == Typed({"grant"})
        swaps  == Typed({"swap"})
    IN    total({t \in Typed({"share"}) : Origin(t) = s /\ OwnerOfHead(t) = o},
                LAMBDA t : TxData[t].quantity)
        + total({t \in grants : TxData[t].share = s /\ TxData[t].recipient = o},
                LAMBDA t : TxData[t].quantity)
        - total({t \in grants : TxData[t].share = s /\ TxData[t].owner = o},
                LAMBDA t : TxData[t].quantity)
        + total({t \in swaps : TxData[t].shareOne = s /\ TxData[t].ownerTwo = o},
                LAMBDA t : TxData[t].quantityOne)
        - total({t \in swaps : TxData[t].shareOne = s /\ TxData[t].ownerOne = o},
                LAMBDA t : TxData[t].quantityOne)
        + total({t \in swaps : TxData[t].shareTwo = s /\ TxData[t].ownerOne = o},
                LAMBDA t : TxData[t].quantityTwo)
        - total({t \in swaps : TxData[t].shareTwo = s /\ TxData[t].ownerTwo = o},
                LAMBDA t : TxData[t].quantityTwo)

Owners ==
    {TxData[t].owner : t \in {u \in Tx : "owner" \in DOMAIN TxData[u]}}
        \cup {TxData[t].recipient : t \in {u \in Tx : TxData[u].type = "grant"}}
        \cup {BlockData[d].owner : d \in Digest}

ShareIds == {Origin(t) : t \in Typed({"share"})}

-----------------------------------------------------------------------------
RecordsConsistent ==
    /\ DOMAIN db.Transactions = Foundations \cup (Confirmed \ Typed({"asset"}))
    /\ \A x \in DOMAIN db.Transactions :
          db.Transactions[x] = [number |-> BlockOf(x), tx |-> RecordOf(x)]
    /\ db.Assets = [a \in {TxData[t].asset : t \in Typed({"asset"})} |->
                       BlockOf(CHOOSE t \in Typed({"asset"}) : TxData[t].asset = a)]
    /\ db.BlockHeaderHash = [n \in Heights |-> db.Blocks[n].digest]
    /\ DOMAIN db.OwnerData = Heads
    /\ \A x \in Heads :
          /\ db.OwnerData[x].kind = Kind(x)
          /\ db.OwnerData[x].issueTxId = Origin(x)
          /\ db.OwnerData[x].issueBlockNumber = BlockOf(Origin(x))
          /\ db.OwnerData[x].transferBlockNumber = BlockOf(x)

OwnershipConsistent ==
    /\ DOMAIN db.OwnerTxIndex = {<<OwnerOfHead(x), x>> : x \in Heads}
    /\ DOMAIN db.OwnerList =
          {<<k[1], db.OwnerTxIndex[k]>> : k \in DOMAIN db.OwnerTxIndex}
    /\ \A k \in DOMAIN db.OwnerTxIndex : db.OwnerList[<<k[1], db.OwnerTxIndex[k]>>] = k[2]
    /\ \A k \in DOMAIN db.OwnerList : /\ k[1] \in DOMAIN db.OwnerNextCount
                                      /\ k[2] < db.OwnerNextCount[k[1]]

BlockOwnershipConsistent ==
    LET owning == {x \in Heads : Kind(x) = "block"}
    IN  /\ db.BlockOwnerTxIndex = [x \in owning |-> BlockOf(Origin(x))]
        /\ DOMAIN db.BlockOwnerPayment = Heights
        /\ \A x \in owning :
              db.BlockOwnerPayment[BlockOf(Origin(x))] = RecordOf(x).payments

BalancesConsistent ==
    /\ DOMAIN db.Shares = ShareIds
    /\ DOMAIN db.ShareQuantity =
          {k \in Owners \X ShareIds : Balance(k[1], k[2]) # 0}
    /\ \A k \in DOMAIN db.ShareQuantity : db.ShareQuantity[k] = Balance(k[1], k[2])

-----------------------------------------------------------------------------
\* The variables have their types and the blocks on disk have no gap.
TypeOK ==
    /\ DOMAIN db = Pool
    /\ Heights = GenesisBlockNumber + 1 .. GenesisBlockNumber + Cardinality(Heights)
    /\ header.number \in GenesisBlockNumber .. MaxHeight
    /\ phase \in {"run", "delete", "down", "panic", "refused"}
    /\ wedged \in BOOLEAN
    /\ phase = "delete" => cursor.number \in Heights

\* After any sequence of stored blocks, reorganisations, crashes and restarts, a
\* running node's Transactions, Assets, BlockHeaderHash and OwnerData pools are
\* those of its stored chain: deleting blocks undoes exactly what storing them did.
RecordsMatchChain == phase = "run" /\ ~wedged => RecordsConsistent

\* A running node lists every unspent record once, under its owner, and nothing
\* else: one head per provenance chain, OwnerList and OwnerTxIndex inverse to
\* each other, and no list position about to be handed out again.
OwnershipMatchesChain == phase = "run" /\ ~wedged => OwnershipConsistent

\* The payment addresses of each block are those of its latest owner, also when
\* a block transfer has been undone.
BlockOwnershipMatchesChain == phase = "run" /\ ~wedged => BlockOwnershipConsistent

\* Every share balance is what was created plus received less sent in the stored
\* chain, and zero balances are not stored.
BalancesMatchChain == phase = "run" /\ ~wedged => BalancesConsistent

\* The in-memory header is that of the highest stored block, unless a commit has
\* failed (store.go sets the header before it commits).
HeaderMatchesChain ==
    phase = "run" /\ ~wedged =>
        header = IF Heights = {} THEN Genesis ELSE HeaderOf(db.Blocks[LastBlock])

\* No block that passed validation, and no deletion of a stored block, meets one
\* of the "database corrupt" panics of block and ownership.
NeverPanics == phase # "panic"

\* The recorded total of a share equals the sum of its balances ("share total
\* value (constant)", storage/doc.go).
ShareConservation ==
    phase = "run" =>
        \A s \in DOMAIN db.Shares :
            db.Shares[s].quantity =
                MapThenSumSet(LAMBDA k : db.ShareQuantity[k],
                              {k \in DOMAIN db.ShareQuantity : k[2] = s})

\* "this cannot be zero" (delete.go, of the balance from which a grant is undone):
\* when the deletion of a block reaches a grant, its recipient has some of the
\* share to give back.
RecipientHasBalance ==
    DeletingRecord =>
        LET d == TxData[Current.txs[cursor.index]]
        IN  d.type = "grant" => <<d.recipient, d.share>> \in DOMAIN db.ShareQuantity

\* A node refuses to start only on an index that disagrees with its blocks
\* (validateAndReturnLastBlock validates "index db according to the block db").
RefusesOnlyInconsistent ==
    phase = "refused" => ~(/\ RecordsConsistent
                           /\ OwnershipConsistent
                           /\ BlockOwnershipConsistent
                           /\ BalancesConsistent)
=============================================================================
