CONSTANTS
    MaxCommands = 3
    MaxInits = 1
    command_state_queue_max_size = 1
SPECIFICATION FairSpec
CHECK_DEADLOCK FALSE
INVARIANTS
    TypeOK
    QueueMapAgree
    ActiveIsKnown
PROPERTIES
    OnlyTerminatedForgotten
    CapExact
    HistoryShrinks
