SPECIFICATION Spec
CONSTANTS
    Requests <- SmallScopes
    Failures <- NothingFails
    MaxCalls = 1
INVARIANT
    ContainerMarkerSupplied
