SPECIFICATION FairSpec
CONSTANTS
  k1 = k1
  k2 = k2
  r1 = r1
  r2 = r2
  car = "car"
  wind = "wind"
  Settings <- SettingsSet
  Settle = 1
  MaxScan = 3
  RelinkWindow = 4
  SeedSpan = 3
  Never = Never
  Clip = {k1, k2}
  World <- Worlds
  Reviewer = {r1, r2}
  Label = {"car", "wind"}
  CapRatio = 1
  TimeRange <- Ranges
INVARIANTS LoneEventsFound SnapshotWhole VerdictIsOne
PROPERTIES RetiredWasHunted LateClipFound TrainedOnVerdicts
CHECK_DEADLOCK FALSE
