\* All jobs end, and with them the behaviour.
SPECIFICATION Spec
CONSTANTS
    s1 = s1
    s2 = s2
    a = a
    b = b
    cancelA = cancelA
    Sessions = {s1, s2}
    Creates = {a, b}
    Removes = {cancelA}
    Target <- MCTarget
    Overlaps <- MCOverlaps
    PipeDepth = 1
    Asks <- MCAsks
CHECK_DEADLOCK FALSE
INVARIANTS
    PathInv
    NoOverlap
    OkIsDurable
PROPERTIES
    Once
    JobsEnd
