SPECIFICATION FairSpec
CONSTANTS
    Sizes <- MCSizes
    Colours <- MCColours
    Black = "black"
    Source <- MCSource
    MaxMissed = 2
INVARIANTS
    TypeOK
    MemoriesAgree
PROPERTIES
    ImplementsService
    Shows
CHECK_DEADLOCK FALSE
