SPECIFICATION FairSpec
CONSTANTS
    Sessions = {1}
    MaxIn = 1
    MaxOut = 1
    Capacity = 9
    Drops = FALSE
PROPERTIES
    UncertainIsReported
