SPECIFICATION Spec
CONSTANTS
    g1 = g1
    g2 = g2
    a1 = a1
    m1 = m1
    m2 = m2
    None = None
    Gpus <- TwoGpus
    Migs <- TwoMigs
    Listing <- Listed
    Computing <- Computed
    Amds <- OneAmd
    ParentOf <- Parents
    InstanceOf <- Instances
    Gaps <- AnyGaps
INVARIANTS
    UniqueIds
    OneToOne
    OrdinalNames
PROPERTY
    IdKept
