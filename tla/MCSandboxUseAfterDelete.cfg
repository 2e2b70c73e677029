CONSTANTS
    Command = {c1, c2}
    NoCommand = NoCommand
    Kinds <- MCKinds
    HandlerRP = {"RP_End"}
    MaxStarts = 1
SPECIFICATION Spec
SYMMETRY Symmetry
CHECK_DEADLOCK FALSE
INVARIANT ReadsLiveCommand
