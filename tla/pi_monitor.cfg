SPECIFICATION Spec
CONSTANTS
  PreRoll = 1
  PostRoll = 2
  MinDuration = 2
  MaxDuration = 3
  Cooldown = 2
  Hysteresis = 1
  Threshold = {3, 4}
  Level = {1, 2, 3}
  SpectMax = 2
  PruneBatch = 2
  Command = {c1, c2}
  Scenario <- Scenarios
INVARIANTS ClipIsWhole EventsApart LatchHolds SamplesAccounted FramesLive
CHECK_DEADLOCK FALSE
