SPECIFICATION Spec
CHECK_DEADLOCK FALSE
CONSTANTS
    c1 = c1
    c2 = c2
    Clients = {c1, c2}
    Script <- SplitScript
    NUL = NUL
    NoObject = NoObject
    NoClient = NoClient
    ValueLen = 2
    Window = 1
    Chunk = 3
    Pipeline = 1
    MinRead = 1
    ReadLen = 6
    Prealloc = 2
    ResetFirst = FALSE
    AsyncTrim = TRUE
INVARIANTS
    TypeOK
    KeyAsSent
    OnlyNulsIntrude
