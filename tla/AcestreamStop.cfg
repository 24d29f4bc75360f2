SPECIFICATION Spec
CONSTANTS
  Client = {c1, c2, c3}
  MaxPid = 3
  CountMod = 8
  Ttl = 1
  NoSession = NoSession
SYMMETRY Symmetry
INVARIANT StopOnlyAfterLastClient
CHECK_DEADLOCK FALSE
