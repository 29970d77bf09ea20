SPECIFICATION FairSpec
CONSTANTS
    Clients = {c1, c2}
    c1 = c1
    c2 = c2
    m1 = m1
    m2 = m2
    m3 = m3
    Content <- Files
    BigPages = 4
    NThreads = 2
    Scenarios <- Cases
    MaxTries = 3
    NULL = NULL
CHECK_DEADLOCK FALSE
INVARIANTS
    TransferInv
    ContentInv
PROPERTIES
    ComesToRest
