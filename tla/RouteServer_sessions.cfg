SPECIFICATION Spec
CONSTANTS
    Procs = {p1, p2}
    Workers = {w1, w2}
    Objs = {o1, o2, o3}
    NFds = 2
    MaxShort = 0
    Loaders = {p1}
    Quitters = {p2}
    NULL = NULL
SYMMETRY Symmetry
CHECK_DEADLOCK FALSE
INVARIANTS
    ExclusiveSession
    TableInv
    SessionIdentity
