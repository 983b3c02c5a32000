SPECIFICATION Spec
CONSTANTS
    Cgi = {c1, c2}
    Monitor = monitor
    SEMVMX = 2
    MaxBoots = 2
    MaxSample = 1
    Spurious = TRUE
SYMMETRY Symmetry
INVARIANTS
    EnvInv
    MutualExclusion
    TokensReturned
CHECK_DEADLOCK FALSE
