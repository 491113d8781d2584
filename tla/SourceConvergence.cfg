SPECIFICATION FairSourceSpec
CONSTANTS
    r1 = r1
    r2 = r2
    Runs = {r1, r2}
    NoRun = NoRun
    Shown = Shown
    NoData = NoData
    MaxRevision = 3
    Lag = 1
    LiveAge = 1
    FreshAge = 2
    Workspace = TRUE
    MaxDisturbances = 2
INVARIANTS
    InvalidationIsHonoured
    ReadyCoversHints
PROPERTIES
    ShownRevisionNeverRegresses
    Converges
CHECK_DEADLOCK FALSE
