--------------------------- MODULE StorageProofs ---------------------------
(***************************************************************************)
(* Storage is correct for every set of keys and values: its invariants,    *)
(* and that it implements AtomicStore.                                     *)
(***************************************************************************)
EXTENDS Storage, TLAPS

\* The inductive invariant.  CleanWhenFree speaks of reads; what keeps it true
\* is that a cache entry is the batch entry of the same key or has expired, and
\* that batch and cache are both empty outside a transaction.
CacheWithinBatch == \A k \in Key : cache[k] = None \/ cache[k] = batch[k]

IndInv ==
    /\ TypeOK
    /\ CacheWithinBatch
    /\ ~inUse => batch = NoOps /\ cache = NoOps

\* The empty set of operations is well typed and applies to nothing.
LEMMA NoOpsType == NoOps \in Operations
  BY DEF NoOps, Operations, Op

\* Committing a well typed batch keeps the database well typed (LevelDB Write).
LEMMA ApplyType ==
  ASSUME NEW ops \in Operations, NEW m \in Contents
  PROVE  Apply(ops, m) \in Contents
  <1> SUFFICES ASSUME NEW k \in Key
               PROVE  (IF ops[k] = None THEN m[k] ELSE ops[k].value)
                         \in Value \cup {Absent}
    BY DEF Apply, Contents
  <1>1. ops[k] \in Op /\ m[k] \in Value \cup {Absent}
    BY DEF Operations, Contents
  <1> QED
    BY <1>1 DEF Op, None, Delete, Put

\* Init establishes the inductive invariant.
LEMMA InitInv == Init => IndInv
  BY NoOpsType DEF Init, IndInv, TypeOK, CacheWithinBatch, Contents, NoOps

\* Recording one operation, in cache and batch alike, keeps the invariant.
LEMMA RecordInv ==
  ASSUME IndInv, NEW k \in Key, NEW o \in Op, Record(k, o)
  PROVE  IndInv'
  <1>1. TypeOK'
    BY DEF IndInv, TypeOK, Record, Operations
  <1>2. CacheWithinBatch'
    BY DEF IndInv, TypeOK, CacheWithinBatch, Record, Operations
  <1> QED
    BY <1>1, <1>2 DEF IndInv, TypeOK, Record

\* AccessData.Abort, on whatever contents the database has after it.
LEMMA ResetInv ==
  ASSUME Reset, db' \in Contents
  PROVE  IndInv'
  BY NoOpsType DEF Reset, IndInv, TypeOK, CacheWithinBatch, NoOps

\* Every step of the transaction keeps the invariant.
LEMMA NextInv == IndInv /\ [Next]_vars => IndInv'
  <1> SUFFICES ASSUME IndInv, [Next]_vars
               PROVE  IndInv'
    OBVIOUS
  <1>1. CASE Begin
    BY <1>1 DEF IndInv, TypeOK, CacheWithinBatch, Begin
  <1>2. ASSUME NEW k \in Key, NEW v \in Value, PutKey(k, v)
        PROVE  IndInv'
    BY <1>2, RecordInv DEF PutKey, Op
  <1>3. ASSUME NEW k \in Key, DeleteKey(k)
        PROVE  IndInv'
    BY <1>3, RecordInv DEF DeleteKey, Op
  <1>4. CASE Abort
    BY <1>4, ResetInv DEF Abort, IndInv, TypeOK
  <1>5. CASE Commit
    BY <1>5, ResetInv, ApplyType DEF Commit, IndInv, TypeOK
  <1>6. CASE Abandon
    BY <1>6 DEF IndInv, TypeOK, CacheWithinBatch, Abandon
  <1>7. ASSUME NEW k \in Key, CacheExpire(k)
        PROVE  IndInv'
    <2>1. TypeOK'
      BY <1>7 DEF IndInv, TypeOK, CacheExpire, Operations, Op
    <2>2. CacheWithinBatch'
      BY <1>7 DEF IndInv, TypeOK, CacheWithinBatch, CacheExpire, Operations
    <2>3. inUse
      BY <1>7 DEF IndInv, CacheExpire, NoOps
    <2> QED
      BY <1>7, <2>1, <2>2, <2>3 DEF IndInv, CacheExpire
  <1>8. CASE Restart
    BY <1>8, ResetInv DEF Restart, IndInv, TypeOK
  <1>9. CASE UNCHANGED vars
    BY <1>9 DEF IndInv, TypeOK, CacheWithinBatch, vars
  <1> QED
    BY <1>1, <1>2, <1>3, <1>4, <1>5, <1>6, <1>7, <1>8, <1>9 DEF Next

\* The inductive invariant holds throughout.
THEOREM Invariance == Spec => []IndInv
  BY InitInv, NextInv, PTL DEF Spec

\* The variables of the database transaction always have their types, and its
\* holder always has it in use.
THEOREM TypeCorrect == Spec => []TypeOK
  <1>1. IndInv => TypeOK
    BY DEF IndInv
  <1> QED
    BY <1>1, Invariance, PTL

\* Outside a transaction every reader sees the committed database and no
\* operation waits in the batch for the next holder (AccessData.Abort).
THEOREM AlwaysCleanWhenFree == Spec => []CleanWhenFree
  <1>1. IndInv => CleanWhenFree
    BY DEF IndInv, CleanWhenFree, NoOps, None, Get, CacheFound
  <1> QED
    BY <1>1, Invariance, PTL

\* A read through the cache is a read of the pending batch (AccessData.Get).
THEOREM AlwaysReadsPutOrCommitted == Spec => []ReadsPutOrCommitted
  <1>1. IndInv => ReadsPutOrCommitted
    BY DEF IndInv, CacheWithinBatch, ReadsPutOrCommitted, CacheFound, NoOps, None
  <1> QED
    BY <1>1, Invariance, PTL

\* Recording an operation is a write of the abstract holder.
LEMMA RecordRefines ==
  ASSUME IndInv, NEW k \in Key, NEW o \in Op \ {None}, Record(k, o)
  PROVE  Atomic!Write
  <1>1. o \in Atomic!Op \ {Atomic!None}
    BY DEF Op, None, Delete, Put,
           Atomic!Op, Atomic!None, Atomic!Delete, Atomic!Put
  <1> QED
    BY <1>1 DEF Record, Atomic!Write

\* Resetting the transaction closes it for the abstract holder.
LEMMA ResetRefines ==
  ASSUME held, Reset
  PROVE  Atomic!Close
  BY DEF Reset, Atomic!Close, NoOps, None, Atomic!NoOps, Atomic!None

\* Every step of the transaction is a step, or a stutter, of the abstract one.
LEMMA NextRefines == IndInv /\ [Next]_vars => [Atomic!Next]_(Atomic!vars)
  <1> SUFFICES ASSUME IndInv, [Next]_vars
               PROVE  Atomic!Next \/ UNCHANGED Atomic!vars
    OBVIOUS
  <1> USE DEF Atomic!Next
  <1>1. CASE Begin
    BY <1>1 DEF Begin, IndInv, TypeOK, Atomic!Begin
  <1>2. ASSUME NEW k \in Key, NEW v \in Value, PutKey(k, v)
        PROVE  Atomic!Write
    <2>1. Put(v) \in Op \ {None}
      BY DEF Op, Put, None
    <2> QED
      BY <1>2, <2>1, RecordRefines DEF PutKey
  <1>3. ASSUME NEW k \in Key, DeleteKey(k)
        PROVE  Atomic!Write
    <2>1. Delete \in Op \ {None}
      BY DEF Op, Delete, None
    <2> QED
      BY <1>3, <2>1, RecordRefines DEF DeleteKey
  <1>4. CASE Abort
    BY <1>4, ResetRefines DEF Abort, Atomic!Drop
  <1>5. CASE Commit
    BY <1>5, ResetRefines
       DEF Commit, Atomic!Commit, Apply, Atomic!Apply, None, Atomic!None
  <1>6. CASE Abandon
    BY <1>6 DEF Abandon, Atomic!Drop, Atomic!Close,
                NoOps, None, Atomic!NoOps, Atomic!None
  <1>7. ASSUME NEW k \in Key, CacheExpire(k)
        PROVE  UNCHANGED Atomic!vars
    BY <1>7 DEF CacheExpire, Atomic!vars
  <1>8. CASE Restart
    <2>1. CASE held
      BY <1>8, <2>1, ResetRefines DEF Restart, Atomic!Drop
    <2>2. CASE ~held
      BY <1>8, <2>2 DEF Restart, Reset, Atomic!vars, IndInv, TypeOK
    <2> QED
      BY <2>1, <2>2
  <1>9. CASE UNCHANGED vars
    BY <1>9 DEF vars, Atomic!vars
  <1> QED
    BY <1>1, <1>2, <1>3, <1>4, <1>5, <1>6, <1>7, <1>8, <1>9 DEF Next

\* The transaction, with its cache, its failures and its restarts, implements
\* the atomic store: what one holder wrote is committed together or never.
THEOREM Refinement == Spec => AtomicCommit
  <1>1. Init => Atomic!Init
    BY DEF Init, Atomic!Init, NoOps, None, Atomic!NoOps, Atomic!None
  <1> QED
    BY <1>1, NextRefines, Invariance, PTL DEF Spec, AtomicCommit, Atomic!Spec
=============================================================================
