CONSTANTS
    None = None
SPECIFICATION FairSpec
PROPERTIES RestartsWhenFree Reachable
