SPECIFICATION Spec
CONSTANTS
    SDI_REGISTRY_CAPACITY = 3
    Requested = 2
    Drivers <- MCDrivers
    Lines = {1}
    Instances = {1, 2}
    MaxHandle = 4
INVARIANTS
    RegistrySound
    HandlerLive
    LinesSound
PROPERTIES
    IrqServed
CHECK_DEADLOCK FALSE
