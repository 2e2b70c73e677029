CONSTANTS
    u1 = u1
    u2 = u2
    c1 = c1
    Unit <- MCUnit
    Cuid <- MCCuid
SPECIFICATION FairSpec
INVARIANTS
    TypeOK
    OneUnitPerCuid
    ServesWhilePublished
    QuietWhenGone
    OneSMThread
PROPERTIES
    StopReturns
    UnloadEnds
    SubmittedSettles
CHECK_DEADLOCK FALSE
