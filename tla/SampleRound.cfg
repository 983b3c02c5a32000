SPECIFICATION FairSpec
CONSTANTS
    Byte = 2
    Unset = Unset
    MaxRounds = 2
INVARIANTS
    SampleInv
    StoredAsRead
PROPERTIES
    ComesRound
CHECK_DEADLOCK FALSE
