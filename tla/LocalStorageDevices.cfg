SPECIFICATION Spec
CONSTANTS
    Ops = {o1, o2, o3}
    Readers = {r1}
    Paths = {"a", "b", "c"}
    Device <- OwnDevice
    Values = {"v1"}
    WritePaths = {"b"}
    DeletePaths = {"b"}
    MovePairs <- Promotions
    InitialFiles <- MCFiles
    Chunks = 2
    Faults = {}
    Hole = Hole
    None = None
INVARIANTS
    OnlyCopiesShow
    MovesConverge
CHECK_DEADLOCK FALSE
