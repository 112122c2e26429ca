CONSTANTS
    d1 = d1
    d2 = d2
    gx = gx
    None = None
    NoGroup = NoGroup
    Groups = {g1}
    Devices = {d1}
    GenMod = 1
    ForeignPackets <- NoPackets
    LoadedRecords <- NoRecords
    SeqWrap = 4
    InboxCap = 2
    MaxCmds = 2
    MaxPress = 0
    MaxFaults = 0
SPECIFICATION Spec
INVARIANTS DeviceInOneSlot
