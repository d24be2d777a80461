SPECIFICATION FairSpec
CONSTANTS
    n = n
    a = a
    b = b
    Sizes = {n, a, b}
    Native = n
    None = none
    Effective <- Nearest
    Faults = {}
    MaxConns = 1
    MaxLayouts = 0
    MaxEvents = 0
PROPERTIES
    QuitStops
CHECK_DEADLOCK FALSE
