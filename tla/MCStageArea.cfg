CONSTANTS
    Scanner = {s1, s2}
    CheckEvery = 2
    MaxSize = 1
    MaxBlock = 1
    MaxLen = 3
    MaxFaults = 1
SPECIFICATION FairSpec
CHECK_DEADLOCK FALSE
INVARIANTS
    ScannedStored
    BlockBounded
PROPERTIES
    AcquiredProcessed
