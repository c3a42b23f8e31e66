CONSTANTS
    Strands = {f}
    Founded = {f}
    MaxRestarts = 1
    MaxOperations = 2
SPECIFICATION Spec
CHECK_DEADLOCK FALSE
INVARIANTS
    OfferedIsAttached
