SPECIFICATION Spec
CONSTANTS
    c1 = c1
    c2 = c2
    c3 = c3
    Conns = {c1}
    Ip <- OwnIp
    Closing = {c1}
    NoConn = NoConn
    NoIp = NoIp
    UIntMax = 7
    Versions <- FullVersions
    Finals <- JustFinalize
    MaxVers = 1
    MaxTest = 0
    MaxNotes = 0
    MaxMerge = 1
CHECK_DEADLOCK FALSE
INVARIANTS
    DownInvalidates
