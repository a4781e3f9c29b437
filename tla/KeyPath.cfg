CONSTANTS
    MaxKey = 3
    BootWrites = 1
    UART_DEPTH = 1
    FIFO_DEPTH = 2
    RING_BUFFER_SIZE = 3
SPECIFICATION Spec
INVARIANTS TypeOK NoSilentKey StrayCostsKey
PROPERTIES ImplementsLossyFifo CalmKeyArrives
