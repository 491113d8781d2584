CONSTANTS
    Generations = {blue, green}
    InitialGeneration = blue
    NoGeneration = none
    Hosts = {h1, h2}
    ReservationIds = {id1, id2, id3}
    NoReservation = noid
    InitialToken = 1
    MaxRevision = 3
    MaxToken = 3
    ReleaseGeneration = green
    Commands = {"deploy", "deploy-quarantine", "rollback", "close"}
    MaxCommands = 2
    Faults = {"crash", "slow", "worker-lost", "fence-lapse", "not-ready", "window-ends"}
    MaxFaults = 1
SPECIFICATION DeploymentSpec
SYMMETRY Symmetry
CHECK_DEADLOCK FALSE
INVARIANTS
    OneAuthorisedWorker
PROPERTIES
    DestroysTheRetired
