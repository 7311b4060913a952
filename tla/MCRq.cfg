SPECIFICATION Spec
CONSTANTS
    Queues = {q1, q2}
    Nodes = {n1, n2, n3}
    Data = {d1, d2}
    NULL = NULL
INVARIANTS
    SoundLists
    UnlinkedIsBare
PROPERTIES
    ImplementsQueue
