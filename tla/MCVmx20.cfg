SPECIFICATION FairSpec
CONSTANTS
    WordBits = 30
    MemSize = 28
    MaxProcessors = 2
    Rounds = 2
    Files <- AllFiles
    Labels = {"arithmetic", "none"}
    MaxSymbols = 1
    MemoryFill = {0}
    HeapContent = {"null"}
    Requests <- Calls
    MayFail = {"malloc", "mutex", "create"}
    FloatOp <- SmallFloat
CHECK_DEADLOCK FALSE
INVARIANTS TypeOK LockExclusive FinalWords
PROPERTIES ImplementsCounter ProgramsEnd StacksSound ProgramResults
PROPERTIES LoadedIsWhole ListingIsTrue
