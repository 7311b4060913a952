SPECIFICATION Spec
CONSTANTS
    MaxPfn = 8
    MemMaps <- Maps
    MaxOrder = 3
    MaxRef = 2
    DoubleFrees = TRUE
PROPERTIES
    DoubleFreeCaught
CHECK_DEADLOCK FALSE
