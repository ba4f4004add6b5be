SPECIFICATION FairTilesSpec
CONSTANTS
  d1 = d1
  d2 = d2
  Device = {d1, d2}
  Registered = {d1}
  Ts = {1, 2, 3}
  Published <- Messages
  QueueMax = 2
  BatchMax = 2
  MaxMessages = 3
  MaxFaults = 1
  Viewer = {v1}
  Watched = d1
  CatchUpFrom = {0}
  SoftCap = 1
  NotifyMax = 2
  MaxConnects = 1
  Ask = {r1, r2}
  PerHour = 3
  NoTile = NoTile
  MaxAsks = 2
  Heard <- ByFocus
INVARIANTS NothingLost SeenNotForgotten FramesBounded NoRowUnannounced TilesComplete
PROPERTIES RowsGetShown
CHECK_DEADLOCK FALSE
