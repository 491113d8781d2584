SPECIFICATION Spec
CONSTANTS
    r1 = r1
    r2 = r2
    p1 = p1
    Generations = {1, 2}
    Requests <- MCRequests
    Runner <- MCRunner
    Expected <- MCExpected
    MaxConcurrency <- MCConcurrency
    MaxRevision = 3
    MaxAuthority = 1
    MaxRestarts = 1
INVARIANTS
    WithdrawalTakesEffect
    PlacesAreReturned
    HandsOverCurrent
CHECK_DEADLOCK FALSE
