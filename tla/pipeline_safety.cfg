SPECIFICATION Spec
CONSTANTS
  pi = pi
  clip = clip
  Event = {e1}
  Device <- OnePi
  Meta <- OneMeta
  Pi <- pi
  ClipMeta <- clip
  Intent = {h1, h2}
  Viewer = {v1}
  Deleter = {d1}
  CapBinds = TRUE
  ReloadLimit = 1
  InboxMax = 2
  MaxInterruptions = 1
  MaxFaults = 1
  FaultKinds <- AllFaults
SYMMETRY Symmetry
INVARIANT AudioKept
INVARIANT UploadedIsStored
CHECK_DEADLOCK FALSE
