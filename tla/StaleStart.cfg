CONSTANTS
    Generations = {blue, green}
    InitialGeneration = blue
    NoGeneration = none
    Hosts = {h1, h2}
    ReservationIds = {id1, id2, id3}
    NoReservation = noid
    InitialToken = 1
    MaxRevision = 3
    MaxToken = 3
    ReleaseGeneration = green
    Commands = {"deploy"}
    MaxCommands = 2
    Faults = {}
    MaxFaults = 0
SPECIFICATION DeploymentSpec
SYMMETRY Symmetry
CHECK_DEADLOCK FALSE
PROPERTIES
    ExecutorOutlivesDeploys
