SPECIFICATION Spec
CONSTANTS
    HostReaps = {FALSE}
    Shell = sh
    Descendants = {d1}
    Limit = 1
    Capacity = 1
    ReadSize = 1
    MaxReads = 1
    MaxWritten = 1
INVARIANT
    KillsOnlyProbe
