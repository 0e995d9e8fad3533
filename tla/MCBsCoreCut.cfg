SPECIFICATION Spec
CONSTANTS
    NSlots = 3
    DevIds = {"blank", "VDCM", "WPC"}
    DevId <- BuiltinDevId
    PkgType <- BuiltinType
    NoApp = NoApp
    Conns = {c1}
    JobIds = {j1}
    SockCap = 1
    MaxReqs = 2
    MaxLines = 1
CHECK_DEADLOCK FALSE
INVARIANT
    ReadyOnlyForWholePart
