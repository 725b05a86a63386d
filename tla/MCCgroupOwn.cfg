SPECIFICATION Spec
CONSTANTS
    Kinds <- AllKinds
    Depth = 2
    Quotas = {1, 2}
    Periods = {1, 2}
    Placements <- MountedAbove
    MaxUnreadable = 0
    MaxChanges = 0
INVARIANT
    OwnGroupRead
