CONSTANTS
    Browsed = {b1}
    Flows = {f1, f2}
    None = None
    SeqWrap = 3
    MaxPress = 2
    MaxDrops = 2
SPECIFICATION Spec
VIEW View
SYMMETRY FlowsAlike
INVARIANTS ConnectInv EdgeTogglesOnce CardCurrent
