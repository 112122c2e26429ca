CONSTANTS
    Byte = 64
    None = None
    Halves <- Digits16
    Words <- Digits32
    DeviceHash <- Hash
SPECIFICATION Spec
INVARIANTS StateReadBack CommandReadBack ToolAgrees
