CONSTANTS
    Tcb = {a1, a2, a3}
    Mutex = {m1, m2}
    Cond = {c1}
    NULL = NULL
    Garbage = Garbage
    HeapContent = {NULL}
    MaxId = 4
    MaxInits = 1
SPECIFICATION Spec
SYMMETRY ChunkSymmetry
INVARIANTS TypeOK ThreadPlacement MutualExclusion MutexQueueSound DeadlockIsReal
PROPERTIES SchedulingIsFifo HandoffIsFifo
