CONSTANTS
    g1 = g1
    g2 = g2
    None = None
    NoGroup = NoGroup
    Groups = {g1, g2}
    GenMod = 2
    CommandPackets <- AllCommands
    MaxOps = 3
    MaxCrashes = 2
SPECIFICATION Spec
VIEW View
CHECK_DEADLOCK FALSE
INVARIANTS DeviceInv WakesAsIs LinkIsWhole
PROPERTIES ResultSurvives
