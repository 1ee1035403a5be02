CONSTANTS
    Tcb = {a1, a2}
    Mutex = {}
    Cond = {}
    NULL = NULL
    Garbage = Garbage
    HeapContent = {NULL}
    MaxId = 3
    MaxInits = 2
SPECIFICATION Spec
PROPERTIES DeferredDestruction
