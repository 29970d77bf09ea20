SPECIFICATION FairSpec
CONSTANTS
    Clients = {c1, c2}
    c1 = c1
    c2 = c2
    UserOf <- OneUser
    Workers = {w1, w2}
    NFds = 2
    Cmds <- Short
    Files = {small, large, empty}
    empty = empty
    small = small
    large = large
    Size <- Sizes
    BigSize = 2
    nofile = nofile
    Missing = nofile
    Wants <- Wanted
    MaxCmds <- Bounds
    Quitters = {c1}
    NULL = NULL
CHECK_DEADLOCK FALSE
INVARIANTS
    PoolInv
    DownloadCorrect
    AnswerToAsker
PROPERTIES
    StopEnds
    GetsEnds
