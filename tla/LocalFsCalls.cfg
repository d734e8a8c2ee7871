SPECIFICATION Spec
CONSTANTS
    Ops = {o1, o2}
    Readers = {r1}
    Paths = {"a", "b", "c"}
    Device <- OwnDevice
    Values = {"v1"}
    WritePaths = {"b"}
    DeletePaths = {}
    MovePairs <- Upwards
    InitialFiles <- MCFiles
    Chunks = 2
    Faults = {"crash", "error", "rename", "power"}
    Hole = Hole
    None = None
SYMMETRY Symmetry
INVARIANTS
    TypeOK
    DownloadsWhole
    PathsWhole
    KeptWhilePowered
    NoLitter
CHECK_DEADLOCK FALSE
