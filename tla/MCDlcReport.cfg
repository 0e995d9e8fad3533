SPECIFICATION FairSpec
CONSTANTS
    t1 = t1
    t2 = t2
    Threads = {t1, t2}
    Body <- TwoBodies
    Hosts <- OneHost
    Loopback <- Home
    IpSize = 4
    CmdSize = 7
    MaxFds = 1
    MaxMoves = 2
    MaxLive = 1
CHECK_DEADLOCK FALSE
INVARIANTS
    LoneReportArrives
    
PROPERTIES
    ReportIsPosted
