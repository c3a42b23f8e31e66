CONSTANTS
    MaxVersion = 3
    Subscribers = {x1, x2}
    MaxFailures = 1
SPECIFICATION FairSpec
CHECK_DEADLOCK FALSE
INVARIANTS
    TypeOK
    AwakeWhileWatched
PROPERTIES
    PollCoversSilentChanges
    ImplementsReader
