SPECIFICATION Spec
CONSTANTS
    Reserved = {10}
    Buffer = {9}
    VAS_USER_START = 1
    VAS_USER_END = 3
    Spaces = {s1, s2}
    Ram <- MCRam
    Room = 4
    Places <- MCPlaces
    Kinds <- MCKinds
    Ranges <- MCRanges
    Values = {1}
    SCHED_PID_MIN = 1
    SCHED_PID_MAX = 2
    MaxLeaked = 1
    MaxCalls = 6
SYMMETRY SpacesAlike
INVARIANTS
    PageRefsExact
    VadsSound
    Resolvable
    PidsSound
PROPERTIES
    ImplementsMemory
CHECK_DEADLOCK FALSE
