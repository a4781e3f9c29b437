CONSTANTS
    HEADER = 2
    RX_SIZE = 3
    DIGIT = 2
    Length = {1, 2, 3, 5}
    Transfers = 2
    JUNK = JUNK
    NONE = NONE
SPECIFICATION Spec
CHECK_DEADLOCK FALSE
INVARIANT ConfirmedIsSaved
