SPECIFICATION ShutdownSpec
CONSTANTS
    Cgi = {c1, c2}
    MaxLives = 4
SYMMETRY Symmetry
INVARIANTS
    ShutdownInv
    TogetherUnlessEarly
CHECK_DEADLOCK FALSE
