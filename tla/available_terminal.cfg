SPECIFICATION Spec
CONSTANTS
  pi = pi
  clip = clip
  Event = {e1}
  Device <- OnePi
  Meta <- OneMeta
  Pi <- pi
  ClipMeta <- clip
  Intent = {h1, h2}
  Viewer = {v1}
  Deleter = {}
  CapBinds = FALSE
  ReloadLimit = 1
  InboxMax = 2
  MaxInterruptions = 0
  MaxFaults = 1
  FaultKinds = {"httpTimeout"}
PROPERTY AvailableIsTerminal
CHECK_DEADLOCK FALSE
