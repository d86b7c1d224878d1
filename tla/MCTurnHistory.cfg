\* The same instance, with all of its state, against what the docs say of the history.
SPECIFICATION Spec
CONSTANTS
    None = None
    Inputs = {a, b}
    Generated = {g}
    Contents = {x, y}
    MaxTurns = 3
    MaxContents = 2
    MaxPairs = 2
    MaxAudio = 2
CONSTRAINT StateBound
CHECK_DEADLOCK FALSE
INVARIANT NoCancelledTurnInHistory
