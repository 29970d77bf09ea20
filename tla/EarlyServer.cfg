SPECIFICATION EarlyFairSpec
CONSTANTS
  s1 = s1
  s2 = s2
  a = a
  m1 = m1
  Sessions = {s1, s2}
  Owner <- MCOwner
  MainFd <- MCMainFd
  Names = {a}
  Md5s = {m1, none}
  EmptyMd5 = none
  Places = {p1}
  Workers = 9
  MaxRows = 3
  MaxDepth = 2
  NULL = NULL
  Pool = {w1}
  Fds = {1, 2, 3, 4}
  QueueSize = 1
  MaxEvict = 1
  MayLeave = {s1}
  Scripts <- MCScripts
CHECK_DEADLOCK FALSE
INVARIANTS
    EarlyInv
    ForItsSender
    DirInv
PROPERTIES
    CommandEnds
