SPECIFICATION FairSpec
CONSTANTS
    c1 = c1
    c2 = c2
    k1 = k1
    k2 = k2
    i1 = i1
    i2 = i2
    a1 = a1
    a2 = a2
    Calls = {c1, c2}
    Keys = {k1, k2}
    Inputs = {i1, i2}
    Approvals = {a1, a2}
    Nobody = Nobody
    MaxConcurrency = 2
    MaxRecords = 1
INVARIANTS
    ApprovalSpentOnce
    ConcurrencyIsExact
    RepeatsAreSafe
PROPERTIES
    NothingHangs
CHECK_DEADLOCK FALSE
