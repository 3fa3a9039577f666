SPECIFICATION Spec
CHECK_DEADLOCK FALSE
CONSTANTS
    c1 = c1
    b1 = b1
    b2 = b2
    b3 = b3
    Conns = {c1}
    Blocks = {b1, b2, b3}
    NoBlock = NoBlock
    Length <- LengthLong
    BodyLength = 2
    ContentLength = 1
    ReadSize = 2
    MaxSize = 3
    Slow = {"up", "down"}
    Breaks = {"down"}
    SpoilLimit = 1
INVARIANTS
    TypeOK
    RelayedInOrder
    ListIsTheGap
    FlushedAtShutdown
SYMMETRY Symmetric
