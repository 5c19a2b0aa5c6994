SPECIFICATION FairSpec
CONSTANTS
  a = a
  b = b
  Clients = {h1}
  Main = main
  Requests <- MCCancel
  FreshId <- MCCancelId
  MaxPeer = 2
  MaxBeats = 1
  None = None
PROPERTIES
  TestRequestsAnswered
  
CHECK_DEADLOCK FALSE
