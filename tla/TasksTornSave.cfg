CONSTANTS
    g1 = g1
    g2 = g2
    None = None
    NoGroup = NoGroup
    Groups = {g1, g2}
    GenMod = 8
    CommandPackets <- AllCommands
    MaxOps = 1
    MaxCrashes = 1
SPECIFICATION Spec
CHECK_DEADLOCK FALSE
INVARIANTS GenNamesLink
