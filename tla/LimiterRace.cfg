SPECIFICATION Spec
CONSTANTS
  Request = {r1, r2, r3}
  Thread = {w1, w2}
  Sem = {s1, s2, s3}
  Watched = s1
  None = None
  Kinds = {"get"}
  Max = 1
INVARIANT StreamsPerHost
CHECK_DEADLOCK FALSE
