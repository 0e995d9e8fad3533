SPECIFICATION CgwFairSpec
CONSTANTS
    NSlots = 3
    DevIds = {"blank", "VDCM", "WPC"}
    DevId <- BuiltinDevId
    PkgType <- BuiltinType
    NoApp = NoApp
    Conns = {}
    j1 = j1
    j2 = j2
    JobIds = {j1, j2}
    SockCap = 2
    MaxReqs = 2
    MaxLines = 0
    i1 = i1
    i2 = i2
    Installers = {i1}
    Ip <- OneIp
    Closing = {i1}
    NoConn = NoConn
    NoIp = NoIp
    UIntMax = 3
    Versions <- FullVersions
    Finals <- BothFinals
    MaxVers = 2
    MaxTest = 1
    MaxNotes = 0
    MaxMerge = 1
CHECK_DEADLOCK FALSE
INVARIANTS
    RequestsKept
    UpgradesWereAsked
PROPERTIES
    EthUpgradeEnds
