---------------------------- MODULE AtomicStore ----------------------------
(***************************************************************************)
(* What a user of storage.NewDBTransaction is promised: at most one holder *)
(* at a time, whose writes reach the database all together at its Commit   *)
(* or not at all, and never mixed with the writes of another holder.       *)
(***************************************************************************)
CONSTANTS Key, Value, Absent

VARIABLES
    db,     \* the committed contents
    open,   \* somebody holds the transaction
    tx      \* the operations of the holder so far

vars == <<db, open, tx>>

None   == [op |-> "none",   value |-> Absent]
Delete == [op |-> "delete", value |-> Absent]
Put(v) == [op |-> "put",    value |-> v]

Op    == {None, Delete} \cup {Put(v) : v \in Value}
NoOps == [k \in Key |-> None]

\* What applying the operations ops to the contents m yields.
Apply(ops, m) ==
    [k \in Key |-> IF ops[k] = None THEN m[k] ELSE ops[k].value]

Init ==
    /\ db = [k \in Key |-> Absent]
    /\ open = FALSE
    /\ tx = NoOps

Begin ==
    /\ ~open
    /\ open' = TRUE
    /\ UNCHANGED <<db, tx>>

Write ==
    /\ open
    /\ \E k \in Key, o \in Op \ {None} : tx' = [tx EXCEPT ![k] = o]
    /\ UNCHANGED <<db, open>>

Close ==
    /\ open
    /\ open' = FALSE
    /\ tx' = NoOps

Commit ==
    /\ Close
    /\ db' = Apply(tx, db)

\* An abort, a failed commit or the end of the process.
Drop ==
    /\ Close
    /\ db' = db

Next == Begin \/ Write \/ Commit \/ Drop

Spec == Init /\ [][Next]_vars
=============================================================================
