SPECIFICATION FairSpec
CONSTANTS
  Commands <- PositiveCommands
  MaxCommands = 1
  StartPositions <- EndPositions
  StartWorking = {0, 1}
  BatchQty = 1
  CloseOpenRetries = 2
  MayDayRetries = 1
  PlaceRetries = 0
  Floor = 0
  Faults = {"margin", "reject", "query_error", "refresh_error", "send_error", "lost_ack", "session_dead", "withdraw", "cancel_error", "skew"}
  MaxFaults = 2
PROPERTIES
  CommandTerminates
  StepsRunDown
CHECK_DEADLOCK FALSE
