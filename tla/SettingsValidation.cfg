SPECIFICATION FairSpec
CONSTANTS
    runtime = runtime
    theme = theme
    v1 = v1
    v2 = v2
    Descriptors <- MCDescriptors
    Immediate <- MCImmediate
    Values = {v1}
    Operations = {o1, o2}
    Unset = Unset
    Calls = {c1, c2}
    Owners = {w1, w2}
    Nobody = Nobody
    NoDescriptor = NoDescriptor
    NoOperation = NoOperation
    MaxDisturbances = 1
INVARIANTS
    RevisionsFollowReceipts
PROPERTIES
    PromotionsAreCurrent
    OperationsSettle
CHECK_DEADLOCK FALSE
