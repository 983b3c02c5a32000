SPECIFICATION OneTwoOrThree
CONSTANTS
    Conn = {1, 2, 3}
    Scripts <- Requests
    MaxFd = 4
    Limit = 2
    KaMax = 1
    MaxOut = 1
    MaxTerms = 1
    MaxHups = 1
INVARIANTS
    BoaInv
    Watched
PROPERTIES
    AnsweredInFull
    EveryConnectionEnds
CHECK_DEADLOCK FALSE
