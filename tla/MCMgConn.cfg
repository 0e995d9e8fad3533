SPECIFICATION FairSpec
CONSTANTS
    c1 = c1
    c2 = c2
    Conns = {c1, c2}
    NoConn = NoConn
    ReplySizes = {0, 1}
    Foreign = {c1}
    Spoilers = {c1}
    MaxAsks <- OneAsks
    MaxForeign = 1
CHECK_DEADLOCK FALSE
INVARIANTS
    TypeOK
    StreamIntact
    AnswersBeforeClose
PROPERTIES
    Flushed
