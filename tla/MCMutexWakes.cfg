SPECIFICATION Spec
CONSTANTS
    Threads = {t1, t2, t3}
    IdleCtx = {t3}
    ExternalWakes = TRUE
    Misuse = TRUE
    NULL = NULL
CHECK_DEADLOCK FALSE
INVARIANTS
    MutualExclusion
    NoLostWakeup
