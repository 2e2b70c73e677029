CONSTANTS
    r1 = r1  r2 = r2  r3 = r3
    Request = {r1, r2, r3}
    Mode <- MCMode
    NULL = NULL
SPECIFICATION FairSpec
CHECK_DEADLOCK FALSE
PROPERTIES
    AnsweredReturns
