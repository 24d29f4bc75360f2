SPECIFICATION FairSpec
CONSTANTS
  Thread = {h1, h2}
  MaxStarts = 3
  Port = {p1, p2}
  AnyPort = AnyPort
  None = None
INVARIANTS
  TypeOK
  FlagTracksServer
  RunningIsTrue
PROPERTIES
  UnreachableServersStop
  CallsReturn
CHECK_DEADLOCK FALSE
