SPECIFICATION Spec
CONSTANTS
    n = n
    a = a
    b = b
    Sizes = {n, a, b}
    Native = n
    None = none
    Effective <- Nearest
    Faults = {}
    MaxConns = 2
    MaxLayouts = 1
    MaxEvents = 0
INVARIANTS
    FramesFit
CHECK_DEADLOCK FALSE
