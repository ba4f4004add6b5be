SPECIFICATION FairDeviceSpec
CONSTANTS
  Event = {e1, e2}
  MaxInterruptions = 2
  CapBinds = TRUE
  ReloadLimit = 1
INVARIANT OpenClipIsKept
INVARIANT QueueBounded
CHECK_DEADLOCK FALSE
PROPERTY EveryClipIsLetGo
