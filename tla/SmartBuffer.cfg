SPECIFICATION Spec
CHECK_DEADLOCK FALSE
CONSTANTS
    Blocks = 3
    Granularity = 2
    Modulus = 4
    Rounds = 3
INVARIANTS TypeOK ReadsThisRound TeardownIdle
PROPERTIES NeverTakenBack Ends
