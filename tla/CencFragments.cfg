SPECIFICATION CencSpec
CONSTANTS
  None = None
  Block = 2
  Segment <- MCSegment
INVARIANTS
  BufferDecrypted
CHECK_DEADLOCK FALSE
