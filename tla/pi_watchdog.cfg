SPECIFICATION FairProcessSpec
CONSTANTS
  StartLimitBurst = 5
  MaxTroubles = 2
PROPERTY AudioComesBack
CHECK_DEADLOCK FALSE
