CONSTANTS
    Messages = {m1, m2}
    MaxContent = 3
SPECIFICATION FairSpec
CHECK_DEADLOCK FALSE
INVARIANTS
    TypeOK
    NeverVanishes
    FailedEditIsNotShown
PROPERTIES
    ShowsTheStrand
