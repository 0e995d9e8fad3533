SPECIFICATION Spec
CONSTANTS
    c1 = c1
    c2 = c2
    c3 = c3
    Conns = {c1}
    Ip <- OwnIp
    Closing = {}
    NoConn = NoConn
    NoIp = NoIp
    UIntMax = 7
    Versions <- BareVersions
    Finals <- JustFinalize
    MaxVers = 1
    MaxTest = 0
    MaxNotes = 0
    MaxMerge = 1
CHECK_DEADLOCK FALSE
INVARIANTS
    DigestsResponse
