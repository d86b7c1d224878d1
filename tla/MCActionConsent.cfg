\* One call more than there are ids; two instants after the question lapses.
SPECIFICATION Spec
CONSTANTS
    deleteA = deleteA
    deleteB = deleteB
    cancel = cancel
    create = create
    list = list
    delete = delete
    agenda = agenda
    notes = notes
    read = read
    None = None
    Malformed = Malformed
    Keys <- MCKeys
    Tools <- MCTools
    ToolOf <- MCToolOf
    Policy <- MCPolicy
    DirectTools = {notes}
    UITools = {delete}
    CallIDs = {c1, c2}
    Turns = {t1, t2}
    MaxCalls = 4
    TTL = 1
    MaxTime = 2
SYMMETRY Symmetry
INVARIANTS
    IInv
    IssuedOnce
    OneIdOneOperation
PROPERTY ConsentBeforeIssue
