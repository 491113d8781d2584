SPECIFICATION FairEffectsSpec
CONSTANTS
    g1 = g1
    g2 = g2
    e1 = e1
    r1 = r1
    r2 = r2
    x1 = x1
    x2 = x2
    NoResult = NoResult
    InitialGeneration = g1
    Generations = {g1, g2}
    Effects = {e1}
    Results = {r1, r2}
    Runs = {x1, x2}
    LeaseDuration = 2
    ClaimDurations = {3}
    LastHandover = 2
    MaxToken = 3
    MaxAttempts = 3
    MaxFaults = 1
INVARIANTS
    ClaimWithinAuthority
PROPERTIES
    ClaimsAreExclusive
    DeliveredOnce
    EffectsFinish
CHECK_DEADLOCK FALSE
