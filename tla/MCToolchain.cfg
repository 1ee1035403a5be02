SPECIFICATION TcFairSpec
CONSTANTS
    WordBits = 30
    MemSize = 9
    MaxProcessors = 2
    Files = {}
    Labels = {}
    MaxSymbols = 0
    MemoryFill = {0}
    HeapContent = {"null", "wild"}
    Requests = {}
    MayFail = {"malloc", "mutex", "create"}
    FloatOp <- FloatBits
    StackSize = 2
    Objects <- Disk
    Scripts <- AllScripts
CHECK_DEADLOCK FALSE
INVARIANTS LinkedFilesSound ResultsShown
PROPERTIES ReferencesReach LinkedIsLoadable Terminates
