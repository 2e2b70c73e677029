CONSTANTS
    u1 = u1
    u2 = u2
    c1 = c1
    Unit <- MCUnit
    Cuid <- MCCuid
SPECIFICATION Spec
INVARIANT RunsWithCache
CHECK_DEADLOCK FALSE
