CONSTANTS
    HEAP = 14
    MIN_SPLIT = 2
    Request = {1, 3, 6}
    Client = {c1, c2, c3}
    JUNK = JUNK
    NULL = NULL
    InterruptInCall = FALSE
SYMMETRY Symmetry
SPECIFICATION Spec
INVARIANTS TypeOK HeapTiled DataKept
PROPERTY RefusedOnlyIfNoneFits
