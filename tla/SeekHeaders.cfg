SPECIFICATION GatewaySpec
CONSTANTS
  None = None
  Server <- MCServer
  Generated <- MCGenerated
  Typed <- MCTyped
  Flags <- MCFlags
  Moved <- MCMoved
  Content <- MCContent
  Prefetch = 2
  Allowed <- MCAllowed
  Dropped = {"host"}
  Client = {"home", "away"}
  Ranges = {None, "5-"}
  MaxClock = 2
INVARIANTS
  SeekHeadersReach
CHECK_DEADLOCK FALSE
