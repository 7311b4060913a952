SPECIFICATION Spec
CONSTANTS
    MaxPfn = 8
    MemMaps <- Maps
    MaxOrder = 3
    MaxRef = 2
    DoubleFrees = FALSE
INVARIANTS
    Partition
    FailsOnlyWhenFull
    HeldIsUsed
PROPERTY
    ImplementsPageAlloc
