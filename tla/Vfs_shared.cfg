SPECIFICATION Spec
CONSTANTS
    Sessions = {s1, s2}
    Owner <- OwnUser
    Names = {a}
    Md5s = {m1}
    Places = {p1, p2}
    Workers = 2
    MaxRows = 2
    MaxDepth = 1
    NULL = NULL
SYMMETRY Symmetry
INVARIANTS
    ContentPlaced
    ResultFreed
