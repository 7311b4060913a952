SPECIFICATION Spec
CONSTANTS
    Cpus = {c1, c2}
    Threads = {t1, t2, t3}
    Quantum = 2
    TickInWindow = FALSE
SYMMETRY ThreadSymmetry
INVARIANTS
    TypeOK
    OnePlace
    Coherent
    StackInUse
    Resumable
    CountIsExact
PROPERTIES
    ZombieNotResumed
