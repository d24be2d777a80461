SPECIFICATION Spec
CONSTANTS
    Sizes = {s1, s2}
    NoSize = nosize
    Worlds <- TwoClients
    MaxConns = 2
    MaxInbox = 2
INVARIANTS
    OnSurface
CHECK_DEADLOCK FALSE
