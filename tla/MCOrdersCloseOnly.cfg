SPECIFICATION FairSpec
CONSTANTS
  Commands <- CloseOnly
  MaxCommands = 1
  StartPositions <- Short
  StartWorking = {0}
  BatchQty = 20
  CloseOpenRetries = 2
  MayDayRetries = 1
  PlaceRetries = 0
  Floor = 0
  Faults = {"margin"}
  MaxFaults = 0
PROPERTIES
  CommandTerminates
CHECK_DEADLOCK FALSE
