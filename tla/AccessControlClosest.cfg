SPECIFICATION Spec
CONSTANTS
    Calls = {c1}
    Requests <- MCRequests
    Entries <- MCEntries
    Backends = {"postgres"}
    Verifiers <- MCVerifiers
    Faults = {}
    None = None
INVARIANTS
    ClosestWins
CHECK_DEADLOCK FALSE
