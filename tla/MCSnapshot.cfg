SPECIFICATION Spec
CONSTANT
    Inputs <- OneDeviation
CHECK_DEADLOCK FALSE
INVARIANTS
    Agreement
    RoundTrip
    MissingIsUnknown
    SavedIsWhole
