SPECIFICATION Spec
CONSTANTS
  ann = ann
  bob = bob
  id1 = id1
  id2 = id2
  id3 = id3
  b1 = b1
  b2 = b2
  None = None
  Keep = Keep
  Email = {ann, bob}
  Account = {id1, id2, id3}
  Browser = {b1, b2}
  Slot = {s1, s2}
  Replica = {p1, p2}
  TTL = 3
  AdminEmail = ann
  Scenario <- Scenarios
INVARIANTS SessionTypeOK TrustIsBounded PollingKeepsSession AdminRemains LogoutHolds
CHECK_DEADLOCK FALSE
