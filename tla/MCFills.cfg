SPECIFICATION FairSpec
CONSTANTS
  Agents <- TwoAgents
  None = None
  Sessions = {s1}
  Fills <- FillKinds
  Disconnect = Disconnect
  FeedbackRetries = 1
  MaxCommands = 3
  MaxFills = 2
INVARIANTS
  TypeOK
  NamesBelongTogether
  StockStaysOut
PROPERTIES
  FillsAreReported
  DisconnectGetsThrough
