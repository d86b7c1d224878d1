SPECIFICATION Spec
CONSTANTS
    None = None
    Nil = Nil
    Malformed = Malformed
    remove = remove
    delete = delete
    Inputs = {a}
    Generated = {g}
    MaxTurns = 128
    MaxContents = 1024
    MaxPairs = 1
    Items = {x, y}
    Parts = {p}
    CallIDs = {c}
    Keys = {remove}
    Tools = {delete}
    ToolOf <- MCToolOf
    Policy <- MCPolicy
    DirectTools = {}
    UITools = {delete}
    MaxCalls = 128
    TTL = 1
    MaxTime = 0
    MaxActive = 1
    MaxRenewals = 0
SYMMETRY Symmetry
CONSTRAINT StateBound
CHECK_DEADLOCK FALSE
PROPERTY ApprovalIsLaterSpeech
