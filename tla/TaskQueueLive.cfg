SPECIFICATION FairSpec
CONSTANTS
    Requests = {r1}
    Workers = {w1, w2}
    ParentPaths <- MCParentPaths
    FolderNames <- MCOneName
    Posted <- MCPosted
    Garbage = Garbage
    InitialObjects <- MCObjects
    ClockSteps = {1}
    Faults = {"interrupt", "kill", "storage"}
    MaxStops = 2
    None = None
PROPERTIES
    Served
    Drains
CHECK_DEADLOCK FALSE
