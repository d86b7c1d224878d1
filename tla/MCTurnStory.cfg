\* The owner stops after an error, so behaviours end.
SPECIFICATION Spec
CONSTANTS
    None = None
    Inputs = {a, b}
    Generated = {g}
    Contents = {x, y}
    MaxTurns = 2
    MaxContents = 2
    MaxPairs = 1
    MaxAudio = 2
SYMMETRY Symmetry
VIEW Control
CONSTRAINT StateBound
CHECK_DEADLOCK FALSE
INVARIANTS
    StoryInv
    MessagesPass
PROPERTIES
    InterruptedIsFinal
    AudioContiguous
    AnnouncedOnceFirst
    EventsReachTheClient
