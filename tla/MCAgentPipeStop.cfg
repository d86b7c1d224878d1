\* What the contract says of a normal end.
SPECIFICATION Spec
CONSTANTS
    QueueDepth = 1
    NetDepth = 1
    MaxCommands = 2
    MaxEvents = 2
CHECK_DEADLOCK FALSE
INVARIANT NormalEndIsAnnounced
