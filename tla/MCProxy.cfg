SPECIFICATION ProxySpec
CONSTANTS
  Block = 2
  Segment <- MCSegment
  None = None
  Player = {p1, p2}
  Channel = {"film", "parts", "list", "file", "timeline", "numbers"}
  Publish <- MCPublish
  Index <- MCIndex
  Query <- MCQuery
  Truth <- MCTruth
  Configured = 1
  MpdTtl = 2
  MaxFetch = 1
  MaxTime = 3
  Floor = 2
  FloorTs = 3
  Safety = 1
  SafetyTs = 2
  DefaultOffset = 2
  MaxVideo = 2
  MaxAudio = 2
  Server <- MCServer
  Generated <- MCGenerated
  Typed <- MCTyped
  Flags <- MCFlags
  Moved <- MCMoved
  Content <- MCContent
  Prefetch = 2
  Allowed <- MCAllowed
  Dropped = {"host"}
  Client = {"home", "away"}
  Ranges = {None, "5-"}
  MaxClock = 2
  Account <- MCAccount
  ShortNumber <- MCShortNumber
  ApiPassword = {None, "api"}
  Listed <- MCListed
  Kind <- MCKind
  Ext = {None, "ts", "m3u8"}
  Login = {l1, l2}
  Call = {c1, c2, c3}
  Ttl = 2
  MaxSeconds = 4
SYMMETRY DashSymmetry
INVARIANTS
  BoxwiseOutput
  
  OffsetsHit
  PathsAgree
  PlaylistComplete
  SequenceNamesSegment
  SegmentDecodable
  MpdFreshEnough
  MasterPlayable
  
  GrantHonoured
  PrefetchIsAskedFor
  LoginInOnePlace
  
CHECK_DEADLOCK FALSE
