\* What the docs say of a disconnect.
SPECIFICATION Spec
CONSTANTS
    QueueDepth = 1
    NetDepth = 1
    MaxCommands = 2
    MaxEvents = 2
CHECK_DEADLOCK FALSE
PROPERTY DisconnectFreesSlot
