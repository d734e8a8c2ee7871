SPECIFICATION FairSpec
CONSTANTS
    Requests = {r1}
    Workers = {w1}
    ParentPaths <- MCParentPaths
    FolderNames <- MCOneName
    Posted = {}
    Garbage = Garbage
    InitialObjects <- MCObjects
    ClockSteps = {1}
    Faults = {"interrupt"}
    MaxStops = 1
    None = None
PROPERTIES
    AlwaysServed
CHECK_DEADLOCK FALSE
