SPECIFICATION CloudSpec
CONSTANTS
  Event = {e1}
  Device = {d1, d2}
  Meta = {m1, m2}
  Intent = {h1}
  Viewer = {v1}
  Deleter = {}
  InboxMax = 1
INVARIANT AvailableWasVerified
PROPERTY RowIdentityKept
PROPERTY UploadedByItsOwner
CHECK_DEADLOCK FALSE
