SPECIFICATION Spec
CONSTANTS
    Clients = {c1, c2, c3}
    ClockSteps = {1}
    MaxStarts = 2
    None = None
INVARIANTS
    TypeOK
    MapGuarded
    PollFindsTask
PROPERTIES
    Answered
    Stops
CHECK_DEADLOCK FALSE
