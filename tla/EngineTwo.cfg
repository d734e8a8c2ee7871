SPECIFICATION BothSpec
CONSTANTS
    Ops <- MCOps
    Readers = {}
    Paths <- MCPaths
    Device <- OwnDevice
    Values = {}
    WritePaths = {}
    DeletePaths = {}
    MovePairs <- MCPairs
    InitialFiles <- MCFiles
    Chunks = 2
    Faults = {}
    Hole = Hole
    None = None
    Workers = {w1, w2}
    Posted <- MCPosted
    Garbage = Garbage
    WorkerFaults = {}
    MaxStops = 0
    Programs = {"current"}
    Sent <- Twice
INVARIANTS
    NothingLost
CHECK_DEADLOCK FALSE
