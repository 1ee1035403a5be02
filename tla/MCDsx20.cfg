SPECIFICATION DSpec
CONSTANTS
    WordBits = 30
    Inputs <- AllInputs
    Options = {"", "-r", "bad"}
CHECK_DEADLOCK FALSE
INVARIANTS ClassifiedExactly SameListing
PROPERTY Terminates
