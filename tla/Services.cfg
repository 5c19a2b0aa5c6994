SPECIFICATION ServicesSpec
CONSTANTS
  Symbols = {ES}
  Products = {ES}
  Quoted = ES
  Ids = {a, b}
  NoId = NoId
  RawPrices <- MCPrices
  NaN = NaN
  None = None
  Quantities = {1, 2}
  MinTick <- MCMinTick
  MaxTick = 3
  MaxSequence = 8
  MaxFills = 3
  Multiplier <- MCMultiplier
  MaxLevels = 1
  MaxBuffer = 2
  Base = 2
  Ceiling = 9
  StaleAfter = 3
  ReportEvery = 2
  MaxProviderTurns = 5
  StartRounds = 3
  Patience = 3
  MaxFaults = 3
  Writers = {w1, w2}
  Capacity = 3
  MaxEntries = 5
INVARIANTS
  LedgerFollowsFills
  FedViewMatchesBook
  ListedIsWhatWasPrinted
PROPERTIES
  FeedRecovers
  HostRecovers
CHECK_DEADLOCK FALSE
