CONSTANTS
    ClockWrap = 10
    AuxMax = 5
    DSB_DEBOUNCE_MS = 2
    DSB_LONG_HOLD_RESET_MS = 4
    DSB_HEARTBEAT_MS = 3
    MaxStep = 2
SPECIFICATION Spec
INVARIANTS ButtonInv OneResetPerHold HoldTimeHonest
PROPERTIES Debounced BeatInTime
