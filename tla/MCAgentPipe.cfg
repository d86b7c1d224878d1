\* A session ends, a gateway stops, and with it the behaviour.
SPECIFICATION MCSpec
CONSTANTS
    QueueDepth = 1
    NetDepth = 1
    MaxCommands = 2
    MaxEvents = 2
    Clients = {"c1", "c2"}
    MaxSessions = 1
    InboundDepth = 1
    Agents = {"personal", "account"}
    AgentProtocol <- PersonalAndAccount
CHECK_DEADLOCK FALSE
INVARIANTS
    PipeTypeOK
    NoCommandLost
    NoEventLost
    StoppedIsClosed
    CleanedUp
    IdentityStaysOnV2
PROPERTIES
    CloseIsReturned
    ShutdownFreesSlot
    SlotsComeBack
