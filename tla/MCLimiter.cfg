SPECIFICATION Spec
CONSTANTS
  MaxCalls = 2
  Period = 3
  MaxTime = 12
INVARIANTS
  TypeOK
  RateHolds
  NoNeedlessWait
CHECK_DEADLOCK FALSE
