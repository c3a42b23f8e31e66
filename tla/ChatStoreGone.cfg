CONSTANTS
    Messages = {m1}
    MaxContent = 1
SPECIFICATION FairSpec
CHECK_DEADLOCK FALSE
PROPERTIES
    GoneIsNotShown
