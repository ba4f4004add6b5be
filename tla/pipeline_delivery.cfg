SPECIFICATION FairSpec
CONSTANTS
  pi = pi
  clip = clip
  Event = {e1}
  Device <- OnePi
  Meta <- OneMeta
  Pi <- pi
  ClipMeta <- clip
  Intent = {h1}
  Viewer = {v1}
  Deleter = {}
  CapBinds = FALSE
  ReloadLimit = 1
  InboxMax = 2
  MaxInterruptions = 1
  MaxFaults = 2
  FaultKinds <- NetworkFaults
PROPERTY FollowsLifecycle
PROPERTY EveryClipArrives
CHECK_DEADLOCK FALSE
