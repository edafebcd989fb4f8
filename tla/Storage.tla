------------------------------ MODULE Storage ------------------------------
(***************************************************************************)
(* The database transaction of package storage: one TransactionData over   *)
(* one AccessData, that is a LevelDB database, a write batch and a cache   *)
(* of the operations that are not committed yet.                           *)
(*                                                                         *)
(* The pools share one key space (a prefix byte tells them apart), so a    *)
(* key stands for a pool together with a key of that pool.  Readers that   *)
(* hold no transaction read through the same Get and Has.                  *)
(***************************************************************************)
EXTENDS Naturals

CONSTANTS
    Key,      \* prefixed keys
    Value,    \* stored byte strings
    Absent    \* the result of a read of a missing key

ASSUME AbsentAssumption == Absent \notin Value

VARIABLES
    db,       \* the committed LevelDB contents
    batch,    \* the leveldb.Batch: the last operation recorded on each key
    cache,    \* the dbCache: the last operation on each key, until it expires
    inUse,    \* AccessData.inUse
    held      \* a caller is between its Begin and its Commit or return

vars == <<db, batch, cache, inUse, held>>

None   == [op |-> "none",   value |-> Absent]
Delete == [op |-> "delete", value |-> Absent]
Put(v) == [op |-> "put",    value |-> v]

Op    == {None, Delete} \cup {Put(v) : v \in Value}
NoOps == [k \in Key |-> None]

\* LevelDB applies a batch in order, so the last operation on a key wins.
Apply(ops, m) ==
    [k \in Key |-> IF ops[k] = None THEN m[k] ELSE ops[k].value]

Init ==
    /\ db = [k \in Key |-> Absent]
    /\ batch = NoOps
    /\ cache = NoOps
    /\ inUse = FALSE
    /\ held = FALSE

-----------------------------------------------------------------------------
(***************************************************************************)
(* Reading.  dbCache.Get reports a key whose last operation is a delete as *)
(* not found, which AccessData.Get takes for a cache miss: the read falls  *)
(* through to the committed database.                                      *)
(***************************************************************************)
CacheFound(k) == cache[k].op = "put"

Get(k) == IF CacheFound(k) THEN cache[k].value ELSE db[k]

Has(k) == CacheFound(k) \/ db[k] # Absent

-----------------------------------------------------------------------------
BeginUnguarded ==
    /\ ~held
    /\ inUse' = TRUE
    /\ held' = TRUE
    /\ UNCHANGED <<db, batch, cache>>

BeginForgetsInUse ==
    /\ ~inUse
    /\ held' = TRUE
    /\ UNCHANGED <<db, batch, cache, inUse>>

Begin ==
    /\ ~inUse
    /\ inUse' = TRUE
    /\ held' = TRUE
    /\ UNCHANGED <<db, batch, cache>>

RecordInCacheOnly(k, o) ==
    /\ held
    /\ cache' = [cache EXCEPT ![k] = o]
    /\ UNCHANGED <<db, batch, inUse, held>>

Record(k, o) ==
    /\ held
    /\ cache' = [cache EXCEPT ![k] = o]
    /\ batch' = [batch EXCEPT ![k] = o]
    /\ UNCHANGED <<db, inUse, held>>

PutKey(k, v) == Record(k, Put(v))

DeleteKey(k) == Record(k, Delete)

ResetKeepsCache ==
    /\ batch' = NoOps
    /\ inUse' = FALSE
    /\ held' = FALSE
    /\ UNCHANGED cache

\* AccessData.Abort
Reset ==
    /\ batch' = NoOps
    /\ cache' = NoOps
    /\ inUse' = FALSE
    /\ held' = FALSE

Abort ==
    /\ held
    /\ Reset
    /\ UNCHANGED db

\* The batch is written as a whole, then the transaction aborts to reset itself.
Commit ==
    /\ held
    /\ db' = Apply(batch, db)
    /\ Reset

\* db.Write fails and Commit returns the error before it resets anything, or
\* the caller returns on an error of its own without an Abort: the operations
\* stay in batch and cache and the transaction stays in use.
Abandon ==
    /\ held
    /\ held' = FALSE
    /\ UNCHANGED <<db, batch, cache, inUse>>

\* go-cache drops an entry two minutes after it was set.
CacheExpire(k) ==
    /\ cache[k] # None
    /\ cache' = [cache EXCEPT ![k] = None]
    /\ UNCHANGED <<db, batch, inUse, held>>

\* The process ends and starts again on the same files.
Restart ==
    /\ Reset
    /\ UNCHANGED db

Next ==
    \/ Begin
    \/ \E k \in Key, v \in Value : PutKey(k, v)
    \/ \E k \in Key : DeleteKey(k)
    \/ Abort
    \/ Commit
    \/ Abandon
    \/ \E k \in Key : CacheExpire(k)
    \/ Restart

Spec == Init /\ [][Next]_vars

-----------------------------------------------------------------------------
Contents   == [Key -> Value \cup {Absent}]
Operations == [Key -> Op]

\* The variables have their types, and the holder has the transaction in use.
TypeOK ==
    /\ db \in Contents
    /\ batch \in Operations
    /\ cache \in Operations
    /\ inUse \in BOOLEAN
    /\ held \in BOOLEAN
    /\ held => inUse

\* While no transaction is in use every read returns the committed value and
\* the batch is empty: nothing of an aborted, committed or lost transaction is
\* left behind for a reader or for the next holder (AccessData.Abort).
CleanWhenFree ==
    ~inUse => /\ batch = NoOps
              /\ \A k \in Key : Get(k) = db[k]

\* A key put by the holder is never read as anything but the value put or, once
\* its cache entry has expired, the committed one (AccessData.Get).
ReadsPutOrCommitted ==
    \A k \in Key : CacheFound(k) => /\ batch[k] = cache[k]
                                    /\ inUse

\* The transaction as its users see it: the batch while somebody holds it.
Atomic == INSTANCE AtomicStore
              WITH open <- held, tx <- IF held THEN batch ELSE NoOps

\* Every commit writes exactly the operations of one holder, all together, and
\* a failed or abandoned transaction never reaches the database.
AtomicCommit == Atomic!Spec
=============================================================================
