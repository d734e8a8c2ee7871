SPECIFICATION Spec
CONSTANTS
    Requests = {r1, r2}
    Workers = {w1, w2}
    ParentPaths <- MCParentPaths
    FolderNames <- MCFolderNames
    Posted = {}
    Garbage = Garbage
    InitialObjects <- MCObjects
    ClockSteps = {1}
    Faults = {"interrupt", "kill", "redis", "retry", "storage"}
    MaxStops = 1
    None = None
SYMMETRY Symmetry
INVARIANTS
    TypeOK
    AtMostOnce
    InOrder
    StatusJustified
    SuccessIsReal
PROPERTIES
    StatusStable
CHECK_DEADLOCK FALSE
