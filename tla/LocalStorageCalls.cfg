SPECIFICATION Spec
CONSTANTS
    Ops = {o1, o2, o3}
    Readers = {r1}
    Paths = {"a", "b", "c"}
    Device <- OneDevice
    Values = {"v1", "v2"}
    WritePaths = {"b"}
    DeletePaths = {"a", "b"}
    MovePairs <- Outwards
    InitialFiles <- MCFiles
    Chunks = 2
    Faults = {"crash", "error"}
    Hole = Hole
    None = None
INVARIANTS
    TypeOK
    ReadsWhole
PROPERTIES
    AtomicCalls
CHECK_DEADLOCK FALSE
