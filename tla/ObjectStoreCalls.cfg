SPECIFICATION ListSpec
CONSTANTS
    Ops = {"o1", "o2"}
    Paths = {"a", "b", "c"}
    Values = {"v1", "v2"}
    WritePaths = {"b"}
    DeletePaths = {"b"}
    MovePairs <- Upwards
    InitialObjects <- MCObjects
    Backends = {"s3", "gcs"}
    Faults = {"crash", "request"}
    Partial = Partial
    None = None
    Scans = {s1}
    Folders = {"here", "dir"}
    Here = "here"
    Folder <- MCFolder
    Rank <- MCRank
INVARIANTS
    TypeOK
    NothingLost
    ListIsTrue
    MovedIsListed
PROPERTIES
    AtomicCalls
CHECK_DEADLOCK FALSE
