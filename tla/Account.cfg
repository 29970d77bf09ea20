CONSTANTS
  c1 = c1
  c2 = c2
  c3 = c3
  s1 = s1
  s2 = s2
  Clients = {c1, c2, c3}
  Workers = {w1, w2}
  Salts = {s1, s2}
  Other = other
  NULL = NULL
  TableSize = 3
  MayVanish = {c1}
  MaxOther = 1
  Hash <- MCHash
  Scenarios <- MCScenarios
SPECIFICATION FairSpec
CHECK_DEADLOCK FALSE
INVARIANTS
    NamesUnique
    LoginInv
    ConfigFound
PROPERTIES
    AllEnds
