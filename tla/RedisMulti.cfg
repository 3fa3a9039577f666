SPECIFICATION Spec
CHECK_DEADLOCK FALSE
CONSTANTS
    c1 = c1
    c2 = c2
    Clients = {c1, c2}
    Script <- ShortScript
    NUL = NUL
    NoObject = NoObject
    NoClient = NoClient
    ValueLen = 2
    Window = 2
    Chunk = 4
    Pipeline = 2
    MinRead = 6
    ReadLen = 6
    Prealloc = 2
    ResetFirst = TRUE
    AsyncTrim = FALSE
PROPERTY AllAnswered
