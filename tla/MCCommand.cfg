SPECIFICATION FairSpec
CONSTANTS
    HostReaps = {TRUE, FALSE}
    Shell = sh
    Descendants = {d1}
    Limit = 1
    Capacity = 2
    ReadSize = 2
    MaxReads = 2
    MaxWritten = 2
INVARIANTS
    TypeOK
    WholeOutput
    LimitIsExact
    NoShellLeft
    AbortKillsGroup
PROPERTIES
    ImplementsFairContract
