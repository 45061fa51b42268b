SPECIFICATION Spec
CONSTANTS
  Commands <- AllCommands
  StartOwn <- OwnPositions
  Others <- OtherMonths
  CloseOpenRetries = 2
  MayDayRetries = 1
  MaxOwn = 4
INVARIANTS
  TypeOK
  NetOnTarget
PROPERTIES
  MayDaySuccessIsFlat
