SPECIFICATION FairSpec
CONSTANTS
  s1 = s1
  s2 = s2
  Playlist = {p1}
  Segment = {s1, s2}
  Headers = {h1, h2}
  Queues <- MCQueues
  Task = {t1, t2}
  Prefetcher = {x1, x2}
  None = None
  Ahead = 1
INVARIANTS
  TypeOK
  OneWorkerPerPlaylist
  UpdatesReachTheWorker
  NoLostWakeup
  FetchedUnderOwnHeaders
PROPERTIES
  QueueDrains
  InactiveIsEvicted
CHECK_DEADLOCK FALSE
