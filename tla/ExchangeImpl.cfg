SPECIFICATION ImplSpec
CONSTANTS
  Symbols = {ES}
  Products = {ES}
  Ids = {a, b, c}
  NoId = NoId
  RawPrices = {2, 3}
  NaN = NaN
  None = None
  Quantities = {1, 2}
  MinTick = 0
  MaxTick = 3
  MaxSequence = 8
PROPERTY ImplementsOrderBook
