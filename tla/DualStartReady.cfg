CONSTANTS
    d1 = d1
    d2 = d2
    gx = gx
    None = None
    NoGroup = NoGroup
    Groups = {g1}
    Devices = {d1, d2}
    GenMod = 1
    ForeignPackets <- NoPackets
    LoadedRecords <- BothRecords
    SeqWrap = 5
    InboxCap = 2
    MaxCmds = 1
    MaxPress = 1
    MaxFaults = 1
SPECIFICATION TimerSpecUp
VIEW View
INVARIANTS SyncInv ShownJustified ReadyTwoDevices InSync PanelsAgree
PROPERTIES StepsAsSwitch StaleReadyGoes
