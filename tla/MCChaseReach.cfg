SPECIFICATION Spec
CONSTANTS
  InitialPrices <- SomePrices
  Quotes <- SomeQuotes
  NoMarket = NoMarket
  Buffer = 3
  Step = 5
  Offset = 20
  MaxRetries = 5
INVARIANTS
  TypeOK
  NeverShyOfInitial
  WithinReach
  CapWithoutMarket
  SellMirrorsBuy
CHECK_DEADLOCK FALSE
