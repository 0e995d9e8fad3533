SPECIFICATION FairSpec
CONSTANTS
    NSlots = 3
    DevIds = {"blank", "VDCM", "WPC"}
    DevId <- BuiltinDevId
    PkgType <- BuiltinType
    NoApp = NoApp
    Conns = {c1}
    JobIds = {j1, j2}
    SockCap = 1
    MaxReqs = 2
    MaxLines = 6
CHECK_DEADLOCK FALSE
INVARIANT
    DoneMeansInstalled
PROPERTIES
    ProgressGoesBackOnlyOnRerun
    RunStartsJob
    JobReports
