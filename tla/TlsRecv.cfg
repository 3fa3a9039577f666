SPECIFICATION Spec
CHECK_DEADLOCK FALSE
CONSTANTS
    Records = 4
    Batch = 2
    Length = 7
    MsgSize = 7
    MinRecv <- MinRecvOfServer
    Chunk = 4
    Stride = 2
    Granule = 4
INVARIANTS
    TypeOK
    ReadAsSent
    OnlyTornFail
PROPERTIES
    AllAreRead
