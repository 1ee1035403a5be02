SPECIFICATION Spec
CONSTANTS
    WordBits = 10
    InitSizes = {0, 24, 27}
    Requests <- Fitting
    Offsets = {10}
    NumGlobals = 1
    MaxDepth = 2
    ChaseLimit = 10
CHECK_DEADLOCK FALSE
INVARIANTS HeapSound DumpIsComplete
PROPERTIES ReachableSurvives
