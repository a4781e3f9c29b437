CONSTANTS
    OS_MAX_TASKS = 4
    NULL = NULL
    Boot = Boot
    Isr = Isr
    InterruptInCall = FALSE
SPECIFICATION HSpec
INVARIANTS HTypeOK ListIsRing ReadyIffLinked OneRunner BoundedWait
PROPERTIES ExitIsFinal ImplementsRoundRobin NoStarvation
