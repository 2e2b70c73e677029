CONSTANTS
    Command = {c1, c2}
    NoCommand = NoCommand
    Kinds <- MCNormalKinds
    HandlerRP = {"RP_Normal"}
    MaxStarts = 1
SPECIFICATION UntouchedSpec
CHECK_DEADLOCK FALSE
PROPERTY StopReturns
