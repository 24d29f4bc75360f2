SPECIFICATION Spec
CONSTANTS
  Thread = {h1}
  MaxStarts = 2
  Port = {p1, p2}
  AnyPort = AnyPort
  None = None
INVARIANT ServingIsReported
CHECK_DEADLOCK FALSE
