SPECIFICATION Snapshots
CONSTANTS
    Page = {p1, p2}
    Modes = {0, 3, 7}
    FifoSize = 1
    Options <- RingOrNone
    MaxPictures = 9
    MaxRequests = 3
    MaxTime = 2
    MaxStarts = 2
INVARIANTS
    SnapshotInv
    AsManyAsAsked
PROPERTIES
    PageThrough
CHECK_DEADLOCK FALSE
