SPECIFICATION FairSpec
CONSTANTS
    Procs = {p1, p2}
    Workers = {w1}
    Objs = {o1, o2}
    NFds = 2
    MaxShort = 1
    Loaders = {}
    Quitters = {}
    NULL = NULL
CHECK_DEADLOCK FALSE
PROPERTIES
    RouteLive
