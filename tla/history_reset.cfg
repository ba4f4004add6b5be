SPECIFICATION FairSpec
CONSTANTS
  p1 = p1
  p2 = p2
  x1 = x1
  h1 = h1
  h2 = h2
  Pi = {p1, p2}
  Stranger = {x1}
  Host = {h1, h2}
  Pair = {p1, p2}
  Arguments <- Lines
  Addresses <- Answers
  Initially <- Starts
  MaxFaults = 1
INVARIANTS ResetTypeOK VerifiedMeansEmpty RestoredOrReported
PROPERTIES OthersKept RerunSucceeds
CHECK_DEADLOCK FALSE
