SPECIFICATION CoverSpec
CONSTANTS
  E = E
  M = M
  N = N
  ES = ES
  Symbols = {ES}
  Products = {ES}
  Ids <- MCIds
  NoId = NoId
  RawPrices <- MCPrices
  NaN = NaN
  None = None
  Quantities = {1, 2}
  MinTick = 0
  MaxTick = 4
  MaxSequence = 60
  Clients = {h1, h2}
  Feed = md
  Nobody = Nobody
  Jobs <- MCFillJobs
  Entries <- MCEntries
  CoverTicks = 1
  MaxClock = 1
  MaxFaults = 0
INVARIANTS
  CoverFollowsFill
CHECK_DEADLOCK FALSE
