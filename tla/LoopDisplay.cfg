CONSTANTS
    None = None
SPECIFICATION FairSpec
PROPERTIES DisplaySettles
