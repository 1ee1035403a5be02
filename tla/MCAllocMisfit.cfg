SPECIFICATION Spec
CONSTANTS
    WordBits = 10
    InitSizes = {17}
    Requests <- Misfit
    Offsets = {}
    NumGlobals = 1
    MaxDepth = 1
    ChaseLimit = 10
CHECK_DEADLOCK FALSE
INVARIANT HeapTiled
