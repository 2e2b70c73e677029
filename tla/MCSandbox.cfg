CONSTANTS
    Command = {c1, c2}
    NoCommand = NoCommand
    Kinds <- MCKinds
    HandlerRP = {"RP_Exsc", "RP_End"}
    MaxStarts = 2
SPECIFICATION Spec
SYMMETRY Symmetry
CHECK_DEADLOCK FALSE
INVARIANTS
    Inv
    EventsAgree
    NoLostWakeup
    FunctorsLive
    OnePlace
PROPERTIES
    ExclusiveStays
    FollowsLifecycle
