CONSTANTS
    None = None
    SeqWrap = 3
    MaxPress = 1
    MaxBle = 1
SPECIFICATION Spec
INVARIANT EveryPressSent
