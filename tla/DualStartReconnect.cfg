CONSTANTS
    d1 = d1
    d2 = d2
    gx = gx
    None = None
    NoGroup = NoGroup
    Groups = {g1, gx}
    Devices = {d1}
    GenMod = 1
    ForeignPackets <- Takeover
    LoadedRecords <- OneRecord
    SeqWrap = 6
    InboxCap = 2
    MaxCmds = 0
    MaxPress = 2
    MaxFaults = 2
SPECIFICATION Spec
VIEW View
INVARIANTS ActiveInv ActiveEarned BaselineCurrent
PROPERTIES ToggledOnce ImplementsSwitch
