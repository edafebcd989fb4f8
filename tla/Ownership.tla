----------------------------- MODULE Ownership -----------------------------
(***************************************************************************)
(* The index pools of the database as one transaction sees them, and the   *)
(* operations of package ownership on them.                                *)
(*                                                                         *)
(* A database is a function from pool names to partial functions from keys *)
(* to values.  A transaction is the committed database together with the   *)
(* batch of its own operations; a deletion is recorded as NoValue.         *)
(***************************************************************************)
EXTENDS Integers, Sequences, SequencesExt

CONSTANTS
    NoValue    \* a missing value, owner or record

Pool == {"Transactions", "Assets", "OwnerNextCount", "OwnerList",
         "OwnerTxIndex", "OwnerData", "Shares", "ShareQuantity",
         "BlockOwnerPayment", "BlockOwnerTxIndex", "Blocks", "BlockHeaderHash"}

Empty == [p \in Pool |-> <<>>]

-----------------------------------------------------------------------------
(***************************************************************************)
(* The transaction, as module Storage describes it: a key deleted by the   *)
(* transaction itself still reads as its committed value.  A transaction   *)
(* that is still open when the cache expires is left to Storage.           *)
(***************************************************************************)
NewDBTransaction(committed) ==
    [db |-> committed, batch |-> Empty, panic |-> FALSE]

Get(trx, pool, key) ==
    LET put == key \in DOMAIN trx.batch[pool] /\ trx.batch[pool][key] # NoValue
    IN  IF put THEN trx.batch[pool][key]
        ELSE IF key \in DOMAIN trx.db[pool] THEN trx.db[pool][key]
        ELSE NoValue

Has(trx, pool, key) == Get(trx, pool, key) # NoValue

GetN(trx, pool, key) == IF Has(trx, pool, key) THEN Get(trx, pool, key) ELSE 0

Put(trx, pool, key, value) ==
    [trx EXCEPT !.batch[pool] = (key :> value) @@ @]

Delete(trx, pool, key) == Put(trx, pool, key, NoValue)

Commit(trx) ==
    [p \in Pool |->
        LET all == trx.batch[p] @@ trx.db[p]
        IN  [k \in {x \in DOMAIN all : all[x] # NoValue} |-> all[k]]]

\* logger.Panic: the process ends with the transaction uncommitted.
Panic(trx) == [trx EXCEPT !.panic = TRUE]

-----------------------------------------------------------------------------
\* Append a record to the properties of an owner and store its owner data.
createReusesCount(trx, txId, ownerData, owner) ==
    LET count == GetN(trx, "OwnerNextCount", owner)
        list  == Put(trx, "OwnerList", <<owner, count>>, txId)
        index == Put(list, "OwnerTxIndex", <<owner, txId>>, count)
    IN  Put(index, "OwnerData", txId, ownerData)

create(trx, txId, ownerData, owner) ==
    LET count == GetN(trx, "OwnerNextCount", owner)
        next  == Put(trx, "OwnerNextCount", owner, count + 1)
        list  == Put(next, "OwnerList", <<owner, count>>, txId)
        index == Put(list, "OwnerTxIndex", <<owner, txId>>, count)
    IN  Put(index, "OwnerData", txId, ownerData)

CreateAsset(trx, issue, number, assetId, owner) ==
    create(trx, issue,
           [kind |-> "asset", transferBlockNumber |-> number, issueTxId |-> issue,
            issueBlockNumber |-> number, assetId |-> assetId],
           owner)

CreateBlock(trx, foundation, number, owner) ==
    create(trx, foundation,
           [kind |-> "block", transferBlockNumber |-> number,
            issueTxId |-> foundation, issueBlockNumber |-> number,
            assetId |-> NoValue],
           owner)

\* An asset becomes a share: the whole quantity goes to the converting owner.
createShare(trx, ownerData, txId, number, owner, quantity) ==
    LET share   == ownerData.issueTxId
        total   == Put(trx, "Shares", share, [quantity |-> quantity, txId |-> txId])
        balance == Put(total, "ShareQuantity", <<owner, share>>, quantity)
    IN  create(balance, txId,
               [ownerData EXCEPT !.kind = "share", !.transferBlockNumber = number],
               owner)

\* Remove the ownership of previous, then give transferTxId to its new owner.
transfer(trx, previous, txId, number, owner, newOwner, quantity) ==
    LET count == Get(trx, "OwnerTxIndex", <<owner, previous>>)
        data  == Get(trx, "OwnerData", previous)
        list  == Delete(trx, "OwnerList", <<owner, count>>)
        index == Delete(list, "OwnerTxIndex", <<owner, previous>>)
        gone  == Delete(index, "OwnerData", previous)
        moved == [data EXCEPT !.transferBlockNumber = number]
    IN  IF count = NoValue \/ data = NoValue THEN Panic(trx)
        ELSE IF newOwner = NoValue /\ quantity = 0 THEN gone
        ELSE IF quantity # 0 /\ data.kind # "asset" THEN Panic(trx)
        ELSE IF quantity # 0
             THEN createShare(gone, data, txId, number, owner, quantity)
        ELSE IF data.kind = "share"
             THEN create(gone, txId, [moved EXCEPT !.kind = "asset"], owner)
        ELSE create(gone, txId, moved, newOwner)

Transfer(trx, previous, txId, number, owner, newOwner) ==
    transfer(trx, previous, txId, number, owner, newOwner, 0)

Share(trx, previous, txId, number, owner, quantity) ==
    transfer(trx, previous, txId, number, owner, NoValue, quantity)

-----------------------------------------------------------------------------
\* A record of the Transactions pool is [number, tx]: block number and record.
\* Only these records have an owner; OwnerOf panics on any other one it finds.
HasOwner(record) ==
    record.tx.type \in {"issue", "transfer", "foundation", "blockTransfer"}

OwnerOfPanics(trx, txId) ==
    /\ Has(trx, "Transactions", txId)
    /\ ~HasOwner(Get(trx, "Transactions", txId))

OwnerOf(trx, txId) ==
    IF Has(trx, "Transactions", txId) /\ ~OwnerOfPanics(trx, txId)
    THEN Get(trx, "Transactions", txId).tx.owner
    ELSE NoValue

CurrentlyOwns(trx, owner, txId) == Has(trx, "OwnerTxIndex", <<owner, txId>>)
=============================================================================
