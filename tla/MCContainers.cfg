CONSTANTS
    Item = {x1, x2, x3}
    Data = {d1, d2}
    Handle = {x1, x2, x3}
    Tcb = {a1, a2, a3}
    NULL = NULL
    MaxId = 4
SPECIFICATION MCSpec
SYMMETRY MCSymmetry
INVARIANTS NothingLeaks
CHECK_DEADLOCK FALSE
PROPERTIES ImplementsFifo ImplementsDirectory
