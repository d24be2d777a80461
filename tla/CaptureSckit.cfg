SPECIFICATION Spec
CONSTANTS
    home = home
    other = other
    near = near
    odd = odd
    None = None
    Modes <- MCModes
    Home = home
    Sizes <- MCSizes
    Best <- MCBest
    Shaped <- MCShaped
    Worlds <- MCWorlds
    MaxClients = 2
    MaxLayouts = 2
INVARIANTS
    NoSckitAfterSwitch
CHECK_DEADLOCK FALSE
