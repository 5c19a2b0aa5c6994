SPECIFICATION FairSpec
CONSTANTS
  Symbols = {ES, XX}
  Products = {ES}
  Ids = {a, b, c}
  NoId = NoId
  RawPrices <- MCTwoPrices
  NaN = NaN
  None = None
  Quantities = {0, 1, 2}
  MinTick <- MCMinTick
  MaxTick = 2
  MaxSequence = 8
INVARIANTS
  TypeOK
  QueuedOrdersAreLive
  RegistryMatchesBook
  IncomingIsNew
  BookUncrossed
  FifoBySequence
  BatchIsSound
PROPERTIES
  PriceTimePriority
  OperationReturns
