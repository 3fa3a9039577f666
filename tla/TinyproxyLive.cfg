SPECIFICATION Spec
CHECK_DEADLOCK FALSE
CONSTANTS
    c1 = c1
    b1 = b1
    b2 = b2
    b3 = b3
    Conns = {c1}
    Blocks = {b1, b2}
    NoBlock = NoBlock
    Length <- LengthEven
    BodyLength = 1
    ContentLength = 1
    ReadSize = 2
    MaxSize = 2
    Slow = {"up", "down"}
    Breaks = {"down"}
    SpoilLimit = 1
PROPERTY
    ServerIsHeard
