CONSTANTS
    w1 = w1
    w2 = w2
    s1 = s1
    Writes = {w1}
    Strands = {s1}
    StrandOf <- MCOneStrand
    OnlineWrites = {}
    EarlyEvents = 1
    MaxAttempts = 1
    MaxRestarts = 2
SPECIFICATION Spec
CHECK_DEADLOCK FALSE
INVARIANTS
    UnconfirmedIsCommitted
