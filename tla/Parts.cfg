SPECIFICATION PartsSpec
CONSTANTS
    MaxCalls = 3
    a = a
    b = b
    none = none
    char = char
    Texts <- MCTexts
    Empty = none
    MaxBackends = 2
    MaxCopies = 2
    MaxEvents = 3
    Keys <- MCKeys
    Chars <- MCChars
    Buttons = {"left", "x1"}
    MaxClients = 1
    Max = 3
    Lengths <- MCLengths
    Widths <- MCSides
    Heights <- MCSides
    MaxFrames = 3
    Targets <- MCTargets
    Pool <- MCPool
    NoMode = none
    Unit = 100
    Tolerance = 20
    Slack = 12
INVARIANTS
    PartsTypeOK
    NoDanglingPointer
    HoldersKnown
    SizesFit
    BuffersReturned
PROPERTIES
    ImplementsService
    BoxesFreed
    
CHECK_DEADLOCK FALSE
