SPECIFICATION Spec
CONSTANTS
    runtime = runtime
    theme = theme
    v1 = v1
    v2 = v2
    Descriptors <- MCDescriptors
    Immediate <- MCImmediate
    Values <- MCValues
    Operations = {o1, o2}
    Unset = Unset
    Calls = {c1, c2}
    Owners = {w1, w2}
    Nobody = Nobody
    NoDescriptor = NoDescriptor
    NoOperation = NoOperation
    MaxDisturbances = 2
SYMMETRY Symmetry
INVARIANTS
    RevisionsFollowReceipts
PROPERTIES
    PromotionsAreCurrent
CHECK_DEADLOCK FALSE
