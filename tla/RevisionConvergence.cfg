SPECIFICATION FairSpec
CONSTANTS
    p1 = p1
    p2 = p2
    b1 = b1
    Processes = {p1, p2}
    Boundaries = {b1}
    Nobody = Nobody
    MaxAttempts = 2
    MaxRevision = 2
    MaxFaults = 1
    MaxLifecycle <- MCMaxLifecycle
INVARIANTS
    SnapshotIsApplied
    OneRecoveryLoop
PROPERTIES
    NothingUnlearnt
    Converges
CHECK_DEADLOCK FALSE
