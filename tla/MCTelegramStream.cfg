SPECIFICATION FairSpec
CONSTANTS
  Stream = {s1, s2}
  Client = {c1, c2, c3}
  None = None
  Job <- MCJob
  Chunk = 2
  MaxReconnects = 1
INVARIANTS
  TypeOK
  BodyIsRange
  EndedIsComplete
  NotTheBrokenOneAgain
PROPERTIES
  RequestsEnd
CHECK_DEADLOCK FALSE
