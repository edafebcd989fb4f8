SPECIFICATION Spec
CONSTANTS
    Key = {k1, k2}
    Value = {v1, v2}
    Absent = absent
INVARIANTS
    TypeOK
    CleanWhenFree
    ReadsPutOrCommitted
PROPERTY
    AtomicCommit
