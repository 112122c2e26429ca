CONSTANTS
    d1 = d1
    d2 = d2
    gx = gx
    None = None
    NoGroup = NoGroup
    Groups = {g1}
    Devices = {d1}
    GenMod = 1
    ForeignPackets <- NoPackets
    LoadedRecords <- OneRecord
    SeqWrap = 5
    InboxCap = 2
    MaxCmds = 1
    MaxPress = 1
    MaxFaults = 1
SPECIFICATION FairSpecUp
PROPERTIES PressSeen AttemptsSettle
