SPECIFICATION Spec
CONSTANTS
  Commands <- AllCommands
  MaxCommands = 3
  StartPositions <- Positions
  StartWorking = {0, 2}
  BatchQty = 1
  CloseOpenRetries = 2
  MayDayRetries = 1
  PlaceRetries = 0
  Floor = 0
  Faults = {"margin", "reject", "query_error", "send_error", "session_dead", "withdraw"}
  MaxFaults = 3
INVARIANTS
  TypeOK
  NoOvershoot
  NoCrossing
  CapRespected
  DryRunTradesNothing
PROPERTIES
  SuccessIsReal
  PromiseKept
CHECK_DEADLOCK FALSE
