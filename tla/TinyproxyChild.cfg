SPECIFICATION Spec
CHECK_DEADLOCK FALSE
CONSTANTS
    c1 = c1
    c2 = c2
    Conns = {c1, c2}
    MaxClients = 2
    Silent = {c1}
    MaxTries = 1
    MaxReloads = 2
    MaxTerms = 1
INVARIANTS
    TypeOK
    ListIsTheThreads
    OneAfterTerm
PROPERTIES
    AcceptsAgain
    TermEnds
