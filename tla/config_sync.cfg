SPECIFICATION FairConfigSpec
CONSTANTS
  StartLimitBurst = 2
  MaxTroubles = 2
  Key = {threshold}
  Value = {on, off}
  Admin = {a1, a2}
  MaxPuts = 2
  MaxFaults = 2
  FaultKinds <- AllFaults
INVARIANTS CommittedWasTaken PiHasRetained
PROPERTY PiCatchesUp
CHECK_DEADLOCK FALSE
