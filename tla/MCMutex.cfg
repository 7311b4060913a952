SPECIFICATION Spec
CONSTANTS
    Threads = {t1, t2, t3}
    IdleCtx = {}
    ExternalWakes = FALSE
    Misuse = FALSE
    NULL = NULL
INVARIANTS
    NoLostWakeup
    NoPanic
    NoDeadlock
PROPERTIES
    ImplementsFifoLock
