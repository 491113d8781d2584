SPECIFICATION FairSpec
CONSTANTS
    r1 = r1
    r2 = r2
    c1 = c1
    c2 = c2
    x1 = x1
    x2 = x2
    Refreshes = {r1, r2}
    Calls = {c1, c2}
    Extensions = {x1, x2}
    Generations = {1, 2}
    Installed <- MCInstalled
    Condemned <- MCCondemned
    MaxSequence = 2
    MaxAttempts = 2
    MaxDisturbances = 1
PROPERTIES
    MirrorIsSound
    RefreshSettles
CHECK_DEADLOCK FALSE
