CONSTANTS
    KERNEL_ORIGIN = 65
    KERNEL_LENGTH = 16
    HEAP_BASE = 73
    HEAP_SIZE = 4
    SLOT_BASE = 81
    SLOT_SIZE = 6
    SLOT_COUNT = 2
    OS_MAX_TASKS = 2
    Program <- MCProgram
    KERNEL = KERNEL
    ZERO = ZERO
    FRAME = FRAME
    NONE = NONE
SPECIFICATION Spec
INVARIANTS TypeOK SlotsAccounted ImageIntact
