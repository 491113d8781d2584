SPECIFICATION FairSpec
CONSTANTS
    e1 = e1
    e2 = e2
    w1 = w1
    w2 = w2
    Events <- MCEvents
    Projected <- MCProjected
    Callers <- MCCallers
    NoCaller = NoCaller
    NoEvent = NoEvent
    Ceilings <- MCCeilings
    MaxFaults = 1
INVARIANTS
    PublicationIsCounted
PROPERTIES
    StaleCallsChangeNothing
    EventsSettle
CHECK_DEADLOCK FALSE
