SPECIFICATION Spec
CONSTANTS
    Sessions = {s1}
    Owner <- OwnUser
    Names = {a, b}
    Md5s = {m1}
    Places = {p1, p2}
    Workers = 1
    MaxRows = 4
    MaxDepth = 3
    NULL = NULL
SYMMETRY Symmetry
INVARIANTS
    SessionInv
    NoOrphanDirs
PROPERTIES
    ContentKept
