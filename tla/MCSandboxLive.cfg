CONSTANTS
    Command = {c1, c2}
    NoCommand = NoCommand
    Kinds <- MCStackKinds
    HandlerRP = {"RP_End"}
    MaxStarts = 1
SPECIFICATION UnstoppedSpec
CHECK_DEADLOCK FALSE
PROPERTIES
    EndedRetired
    CompatibleServed
