CONSTANTS
    Tcb = {a1, a2, a3, a4}
    Mutex = {}
    Cond = {}
    NULL = NULL
    Garbage = Garbage
    HeapContent = {NULL}
    MaxId = 5
    MaxInits = 1
SPECIFICATION Spec
SYMMETRY ChunkSymmetry
INVARIANTS JoinsSound JoinedIsDone NoCrash HeapAccounted
PROPERTIES DeferredDestruction
