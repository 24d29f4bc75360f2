SPECIFICATION DashSpec
CONSTANTS
  None = None
  Player = {p1}
  Channel = {"zero"}
  Publish <- MCPublish
  Index <- MCIndex
  Query <- MCQuery
  Truth <- MCTruth
  Configured = 1
  MpdTtl = 2
  MaxFetch = 1
  MaxTime = 3
  Floor = 2
  FloorTs = 3
  Safety = 1
  SafetyTs = 2
  DefaultOffset = 2
  MaxVideo = 2
  MaxAudio = 2
INVARIANTS
  TimeReplaced
CHECK_DEADLOCK FALSE
