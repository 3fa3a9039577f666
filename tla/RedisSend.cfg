SPECIFICATION Spec
CHECK_DEADLOCK FALSE
CONSTANTS
    c1 = c1
    c2 = c2
    k1 = k1
    k2 = k2
    v1 = v1
    v2 = v2
    v3 = v3
    Clients = {c1, c2}
    Script <- TakenAndRead
    Pipeline <- SecondPipelines
    Impatient = {c2}
    Slow = {c2}
    Keys = {k1, k2}
    Values = {v1, v2, v3}
    ValueLen <- Lengths
    InitialDb <- FirstDb
    Blocks = {b1, b2, b3, b4, b5}
    NoBlock = NoBlock
    NoClient = NoClient
    BufSize = 3
    ChunkSize = 6
    MaxWrites = 3
    SendWaits = TRUE
INVARIANTS
    TypeOK
    RepliesAsPromised
    ValuesKept
    NothingLost
PROPERTIES
    AllReplied
