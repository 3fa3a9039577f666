SPECIFICATION Spec
CHECK_DEADLOCK FALSE
CONSTANTS
    c1 = c1
    c2 = c2
    c3 = c3
    Clients = {c1, c2, c3}
    Length <- Lengths
    Epochs <- Counts
    Torn = {c1}
    Quitters = {c1, c2}
    Block = 2
    Garbage = {0, 1}
    MaxFds = 2
    NoClient = NoClient
INVARIANTS
    TypeOK
    StoredAsSent
    ReuseAfterCopies
PROPERTIES
    Served
