CONSTANTS
    Generations = {blue, green}
    InitialGeneration = blue
    NoGeneration = none
    Hosts = {h1}
    ReservationIds = {id1, id2, id3}
    NoReservation = noid
    InitialToken = 1
    MaxRevision = 5
    MaxToken = 8
    ReleaseGeneration = green
    Commands = {"deploy", "rollback", "close", "restart"}
    MaxCommands = 2
    Faults = {"crash", "slow", "not-ready"}
    MaxFaults = 2
SPECIFICATION FairDeploymentSpec
CHECK_DEADLOCK FALSE
PROPERTIES
    DeploymentRecovers
    UsesStore
