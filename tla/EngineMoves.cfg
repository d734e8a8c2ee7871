SPECIFICATION BothSpec
CONSTANTS
    Ops <- MCOps
    Readers = {}
    Paths <- MCPaths
    Device <- OwnDevice
    Values = {}
    WritePaths = {}
    DeletePaths = {}
    MovePairs <- MCPairs
    InitialFiles <- MCFiles
    Chunks = 2
    Faults = {"error"}
    Hole = Hole
    None = None
    Workers = {w1}
    Posted <- MCPosted
    Garbage = Garbage
    WorkerFaults = {"interrupt", "kill"}
    MaxStops = 1
    Programs = {"current", "legacy"}
    Sent <- MCSent
INVARIANTS
    NothingLost
    SuccessIsWhole
PROPERTIES
    MovesServed
CHECK_DEADLOCK FALSE
