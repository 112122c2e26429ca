CONSTANTS
    d1 = d1
    d2 = d2
    gx = gx
    None = None
    NoGroup = NoGroup
    Groups = {g1, g2}
    Devices = {d1}
    GenMod = 1
    ForeignPackets <- NoPackets
    LoadedRecords <- NoRecords
    SeqWrap = 5
    InboxCap = 2
    MaxCmds = 2
    MaxPress = 0
    MaxFaults = 1
SPECIFICATION Spec
VIEW View
SYMMETRY HostGroups
INVARIANTS TypeOK RecordInv RecordConfirmed EntryFollowsConnection
PROPERTIES ReloadKeepsPair
