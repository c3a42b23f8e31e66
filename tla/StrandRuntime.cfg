CONSTANTS
    Strands = {f, j}
    Founded = {f}
    MaxRestarts = 1
    MaxOperations = 3
SPECIFICATION Spec
CHECK_DEADLOCK FALSE
INVARIANTS
    TypeOK
    GuardedAttachesAreAlone
    JoinsAreKept
    LeaveLasts
    OffersAreFollowed

