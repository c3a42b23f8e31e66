CONSTANTS
    Strands = {j, k}
    Founded = {}
    MaxRestarts = 0
    MaxOperations = 2
SPECIFICATION Spec
CHECK_DEADLOCK FALSE
INVARIANTS
    RememberedIsKept
