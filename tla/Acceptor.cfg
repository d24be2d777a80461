SPECIFICATION FairSpec
CONSTANTS
    Ids = {user, io, c1}
    Securities = {"none", "tls", "hybrid"}
    Stray = {"Channel", "FastPath"}
    MaxReactivations = 2
    MaxInFlight = 2
INVARIANTS
    TypeOK
    Admitted
    ChannelsServed
    SidesAgree
PROPERTIES
    InStep
    Serves
CHECK_DEADLOCK FALSE
