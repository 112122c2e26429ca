CONSTANTS
    Browsed = {b1}
    Flows = {f1}
    None = None
    SeqWrap = 2
    MaxPress = 0
    MaxDrops = 0
SPECIFICATION PatientSpec
PROPERTIES CardLives
