SPECIFICATION Spec
CONSTANTS
    Kinds <- AllKinds
    Depth = 2
    Quotas = {1, 2}
    Periods = {1, 2}
    Placements <- AnyPlace
    MaxUnreadable = 1
    MaxChanges = 2
INVARIANTS
    Attained
    UpperBound
