CONSTANTS
    w1 = w1
    w2 = w2
    s1 = s1
    Writes = {w1, w2}
    Strands = {s1}
    StrandOf <- MCOneStrand
    OnlineWrites = {w2}
    EarlyEvents = 1
    MaxAttempts = 2
    MaxRestarts = 2
SPECIFICATION FairSpec
CHECK_DEADLOCK FALSE
INVARIANTS
    TypeOK
    PendingAgrees
    MarksAreTrue
    WithdrawalIsSafe
    StaysRemembered
PROPERTIES
    NeverRetreats
    NeverStuckPending
    RefusalSurfaces
