SPECIFICATION FairSpec
CONSTANTS
  Client = {c1, c2, c3}
  MaxPid = 3
  CountMod = 8
  Ttl = 1
  NoSession = NoSession
INVARIANTS
  TypeOK
  CountIsClients
  StopIsSafeUndisturbed
PROPERTIES
  ReconnectGetsFreshPid
  AbandonedEngineStops
CHECK_DEADLOCK FALSE
