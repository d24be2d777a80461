SPECIFICATION FairSpec
CONSTANTS
    n = n
    a = a
    b = b
    Sizes = {n, a, b}
    Native = n
    None = none
    Effective <- Nearest
    Faults = {"clientLost", "streamFails"}
    MaxConns = 1
    MaxLayouts = 2
    MaxEvents = 1
INVARIANTS
    TypeOK
    FramesFit
PROPERTIES
    Settles
    Follows
CHECK_DEADLOCK FALSE
