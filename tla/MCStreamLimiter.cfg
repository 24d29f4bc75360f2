SPECIFICATION FairSpec
CONSTANTS
  Request = {r1, r2, r3}
  Thread = {w1, w2}
  Sem = {s1, s2, s3}
  Watched = s1
  None = None
  Kinds = {"get", "head", "bytes", "forward"}
  Max = 1
INVARIANTS
  PermitsConserved
  StreamsPerThread
PROPERTIES
  SemaphoreKeepsPromise
  QueueMoves
CHECK_DEADLOCK FALSE
