SPECIFICATION FairSpec
CONSTANTS
    Procs = {p1, p2, p3}
    p1 = p1
    p2 = p2
    p3 = p3
    m1 = m1
    m2 = m2
    Workers = {w1, w2}
    NFds = 3
    Scenarios <- Cases
    Dirs = {"d"}
    File = "f"
    Md5 <- Uploads
    Body <- Contents
    BigSize = 3
    Pages <- Aligned
    IntMax = 4
    MaxDepth = 1
    NULL = NULL
CHECK_DEADLOCK FALSE
INVARIANTS
    SessionInv
    
    DownloadWhole
PROPERTIES
    TaskEnds
