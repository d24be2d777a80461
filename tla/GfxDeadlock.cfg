SPECIFICATION Spec
CONSTANTS
    Sizes = {s1, s2}
    NoSize = nosize
    Worlds <- Slow
    MaxConns = 1
    MaxInbox = 2
INVARIANTS
    NoSelfDeadlock
CHECK_DEADLOCK FALSE
