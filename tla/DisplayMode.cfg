SPECIFICATION FairSpec
CONSTANTS
    Home = home
    Modes = {home, m1, m2}
    NoMode = nomode
    Absent = absent
    Garbage = garbage
    Worlds <- Environments
    MaxLayouts = 2
INVARIANTS
    TypeOK
    Recoverable
    OriginalIsHome
    StartsAtHome
    SavedWhileSwitched
PROPERTIES
    FileOutlivesSwitch
    ReturnsHome
    CrashRestores
