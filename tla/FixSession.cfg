SPECIFICATION Spec
CONSTANTS
  a = a
  b = b
  Clients = {h1, h2}
  Main = main
  Requests <- MCOrders
  FreshId <- MCOrdersId
  MaxPeer = 2
  MaxBeats = 0
  None = None
INVARIANTS
  SessionIsOrderly
  NoHandlerLeft
CHECK_DEADLOCK FALSE
SYMMETRY MCSymmetry
