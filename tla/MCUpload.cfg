SPECIFICATION FairSpec
CONSTANTS
    c1 = c1
    c2 = c2
    Conns = {c1, c2}
    NoConn = NoConn
    Forms <- TwoClients
    Boundary <- TwoBytes
    ReadSizes <- AnySizes
    Closing = {c1}
CHECK_DEADLOCK FALSE
INVARIANTS
    AnnouncedFile
PROPERTIES
    PartProtocol
    UploadEnds
