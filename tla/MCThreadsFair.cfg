CONSTANTS
    Tcb = {a1, a2, a3}
    Mutex = {m1}
    Cond = {c1}
    NULL = NULL
    Garbage = Garbage
    HeapContent = {NULL, Garbage}
    MaxId = 4
    MaxInits = 1
SPECIFICATION FairSpec
INVARIANTS FullInv
PROPERTIES RoundRobin
