SPECIFICATION FairSpec
CONSTANTS
    Cpus = {c1, c2}
    Threads = {t1, t2}
    Quantum = 2
    TickInWindow = TRUE
PROPERTIES
    ZombieNotResumed
