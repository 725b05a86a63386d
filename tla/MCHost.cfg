SPECIFICATION Spec
CONSTANTS
    g1 = g1
    g2 = g2
    m1 = m1
    m2 = m2
    a1 = a1
    a2 = a2
    None = None
    Subdevices = Subdevices
    Malformed = Malformed
    ExitCodes = {0, 1, 2, 3, 4, 5, 8, 12, 127}
    Hosts <- AnyHost
INVARIANTS
    CompleteIsAll
    KindRight
    CoresComplete
    VisibilityRight
    HealthAvailableIsComplete
    FailingFound
    NumaHandedOn
    HiddenForReason
    RuntimeDecides
    SelectionInOrder
    UnreadableHidesNothing
