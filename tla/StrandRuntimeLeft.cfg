CONSTANTS
    Strands = {j}
    Founded = {}
    MaxRestarts = 1
    MaxOperations = 2
SPECIFICATION Spec
CHECK_DEADLOCK FALSE
INVARIANTS
    LeftIsWithdrawn
