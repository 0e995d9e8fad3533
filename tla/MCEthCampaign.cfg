SPECIFICATION Spec
CONSTANTS
    c1 = c1
    c2 = c2
    c3 = c3
    Conns = {c1, c2, c3}
    Ip <- TwoIps
    Closing = {c1, c2, c3}
    NoConn = NoConn
    NoIp = NoIp
    UIntMax = 1
    Versions <- AnyVersions
    Finals <- OneFinal
    MaxVers = 1
    MaxTest = 1
    MaxNotes = 1
    MaxMerge = 2
CHECK_DEADLOCK FALSE
INVARIANTS
    TypeOK
    IdIsValid
    OneTransferAtATime
PROPERTIES
    PlanInOrder
    RepliesToSender
