SPECIFICATION Spec
CONSTANTS
    o1 = o1
    o2 = o2
    o3 = o3
    o4 = o4
    c1 = c1
    c2 = c2
    w1 = w1
    w2 = w2
    Generations = {1, 2}
    Compatible = {1, 2}
    Operations = {o1, o2, o3}
    Callers = {c1, c2}
    Worker <- MCWorker
    NoCaller = NoCaller
    NoOperation = NoOperation
    MaxConcurrent = 2
SYMMETRY LifecycleSymmetry
INVARIANTS
    PointersAreSound
    BudgetIsExact
PROPERTIES
    OperationsTakeTurns
    MovesPointer
CHECK_DEADLOCK FALSE
