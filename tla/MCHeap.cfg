SPECIFICATION Spec
CONSTANTS
    Usable <- MCUsable
    MaxOrder = 2
    PAGE_SIZE = 8
    MaxAlign = 2
    SlabHdr = 1
    LargeHdr = 1
    size_classes <- MCClasses
    Own <- MCOwn
    Sizes = {0, 1, 4, 6, 8, 16}
    SdiSizes = {0, 1, 30, 63}
    SdiHdr = 1
    CacheSize = 2
    TableSize = 2
    Images <- MCImages
    Word = 64
    MaxBlock = 32
    MaxLive = 4
INVARIANTS
    Disjoint
    SlabsSound
    Accounted
    UsersFit
CHECK_DEADLOCK FALSE
