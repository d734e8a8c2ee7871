SPECIFICATION Spec
CONSTANTS
    Calls = {c1}
    Requests <- MCRequests
    Entries <- MCEntries
    Backends = {"postgres", "memory"}
    Verifiers <- MCVerifiers
    Faults = {"query"}
    None = None
INVARIANTS
    TypeOK
    PathsCover
    AllowedIsGranted
    DeniedIsDue
PROPERTIES
    Answered
CHECK_DEADLOCK FALSE
