SPECIFICATION FairSpec
CONSTANTS
    Cgi = {c1, c2}
    Monitor = monitor
    SEMVMX = 2
    MaxBoots = 1
    MaxSample = 2
    Spurious = FALSE
    None = none
    Busy = busy
INVARIANTS
    TornByAtMostOne
PROPERTIES
    ImplementsBoard
    PageServed
    PagesWearOutMonitor
CHECK_DEADLOCK FALSE
