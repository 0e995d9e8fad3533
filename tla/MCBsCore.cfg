SPECIFICATION Spec
CONSTANTS
    NSlots = 3
    DevIds = {"blank", "VDCM", "WPC", "CGW"}
    DevId <- TwoDevId
    PkgType <- TwoType
    NoApp = NoApp
    Conns = {c1, c2}
    JobIds = {j1, j2}
    SockCap = 2
    MaxReqs = 4
    MaxLines = 1
SYMMETRY Symmetry
CHECK_DEADLOCK FALSE
INVARIANTS
    TypeOK
    ReadyWasAnnounced
    NoLostProgress
PROPERTIES
    StatMoves
