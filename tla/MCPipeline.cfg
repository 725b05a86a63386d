SPECIFICATION Spec
CONSTANTS
    Requests <- SomeScopes
    Failures <- SomeFailures
    MaxCalls = 3
INVARIANTS
    TypeOK
    OneCall
    OneReading
    SharedSupplied
    LocalityJoined
PROPERTY
    ScopeKept
