SPECIFICATION Spec
CONSTANTS
    DECPMAX = 4
    DECEMAX = 5
    DIVDIGITS = 2
    IntMax = 127
    WORD = 2
    BUFFER = 5
    Families <- Payloads
    FollowUps <- NoFollowUps
INVARIANTS
    PayloadsOrdered
CHECK_DEADLOCK FALSE
