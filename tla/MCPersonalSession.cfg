\* Limits on turns, contents and calls are out of reach; MCTurnStory and
\* MCActionConsent reach them.  The session may end.
SPECIFICATION Spec
CONSTANTS
    None = None
    Nil = Nil
    Malformed = Malformed
    remove = remove
    delete = delete
    Inputs = {a}
    Generated = {g}
    MaxTurns = 128
    MaxContents = 1024
    MaxPairs = 1
    Items = {x}
    Parts = {p}
    CallIDs = {c}
    Keys = {remove}
    Tools = {delete}
    ToolOf <- MCToolOf
    Policy <- MCPolicy
    DirectTools = {}
    UITools = {delete}
    MaxCalls = 128
    TTL = 1
    MaxTime = 1
    MaxActive = 1
    MaxRenewals = 1
SYMMETRY Symmetry
VIEW Control
CONSTRAINT StateBound
CHECK_DEADLOCK FALSE
INVARIANTS
    LoopInv
    ResultsToTheirStream
    RespondingIsTimed
PROPERTIES
    JobsOfTheLiveTurn
    ConsentStaysOnItsStream
