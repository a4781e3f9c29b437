CONSTANTS
    OS_MAX_TASKS = 3
    NULL = NULL
    Boot = Boot
    Isr = Isr
    InterruptInCall = TRUE
SPECIFICATION Spec
INVARIANT NoReadyTaskLost
