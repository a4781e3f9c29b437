CONSTANTS
    Task = {t1, t2, t3}
    NULL = NULL
    HolderMayBlock = FALSE
SPECIFICATION Spec
INVARIANTS TypeOK OwnerOnly WaitersBlocked
PROPERTIES ImplementsFifoLock LockGranted
