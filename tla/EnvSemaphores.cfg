SPECIFICATION Spec
CONSTANTS
    Cgi = {c1}
    Monitor = monitor
    SEMVMX = 3
    MaxBoots = 1
    MaxSample = 1
    Spurious = FALSE
INVARIANT WritableOrReadable
CHECK_DEADLOCK FALSE
