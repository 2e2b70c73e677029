CONSTANTS
    Scanner = {s1}
    CheckEvery = 2
    MaxSize = 1
    MaxBlock = 1
    MaxLen = 3
    MaxFaults = 0
SPECIFICATION Spec
CHECK_DEADLOCK FALSE
INVARIANTS
    ProcessedWhole
