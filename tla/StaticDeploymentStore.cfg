CONSTANTS
    Generations = {blue, green, teal}
    InitialGeneration = blue
    NoGeneration = none
    Hosts = {h1, h2}
    ReservationIds = {id1, id2}
    NoReservation = noid
    InitialToken = 1
    MaxRevision = 3
    MaxToken = 5
SPECIFICATION Spec
SYMMETRY Symmetry
CHECK_DEADLOCK FALSE
INVARIANTS
    CheckpointReadable
    AuthorityIsConsistent
    RetirementIsOrdered
PROPERTIES
    ReservedStepFreezesAuthority
    NothingGoesBack
