SPECIFICATION Spec
CONSTANTS
    Procs = {p1, p2}
    Paths <- MCPaths
    Archives <- MCArchives
    MaxNodes = 6
    MaxFs = 3
    MaxSize = 2
    Memory = {2, 3, 4, 9}
    Chunk = 2
    MaxCalls = 5
    FirstCapacity = 1
SYMMETRY ProcSymmetry
INVARIANTS RefsExact TreeSound CountersExact ScanComplete
PROPERTIES ArchiveReadable ImplementsFiles
CHECK_DEADLOCK FALSE
