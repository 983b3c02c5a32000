SPECIFICATION FairSpec
CONSTANTS
    Worker = {w}
    Stream = {a}
    Single = {b}
    NB_BUFFER = 2
    Kinds = {"picture", "small", "broken", "empty"}
    MinimumSizes = {0, 3}
    MaxFrames = 2
    MayStop = TRUE
CONSTRAINT Within
INVARIANTS
    FrameInv
    WholeAndFresh
PROPERTIES
    Feeds
    Served
CHECK_DEADLOCK FALSE
