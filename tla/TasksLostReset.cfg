CONSTANTS
    g1 = g1
    g2 = g2
    None = None
    NoGroup = NoGroup
    Groups = {g1, g2}
    GenMod = 8
    CommandPackets <- ArmOnly
    MaxOps = 2
    MaxCrashes = 0
SPECIFICATION Spec
CHECK_DEADLOCK FALSE
INVARIANTS LongHoldClears
