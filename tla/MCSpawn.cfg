SPECIFICATION Spec
CONSTANTS
    t1 = t1
    t2 = t2
    Threads <- TwoThreads
    FdLimit = 9
    HostSets <- AnyStreams
    HostFiles = 1
INVARIANTS
    ChildStreams
    OnlyProbeWrites
    Owned
    NoDescriptorLeft
SYMMETRY ThreadSymmetry
