SPECIFICATION FairSpec
CONSTANTS
    Sizes = {s1, s2}
    NoSize = nosize
    Worlds <- Environments
    MaxConns = 1
    MaxInbox = 2
INVARIANTS
    TypeOK
    OnSurface
    ActiveHasChannel
    Decodable
PROPERTIES
    Recovers
    ClientSees
CHECK_DEADLOCK FALSE
