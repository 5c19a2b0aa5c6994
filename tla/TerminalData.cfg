SPECIFICATION DataSpec
CONSTANTS
  None = None
  Ids = {1, 2}
  Held = {1}
  MinPos = 1
  MinSize = 2
  MaxSize = 3
  Margin = 0
  Offset = 1
  Views = {2, 3}
  Edge = 1
  MaxCanvas = 3
  Fills = {f1, f2}
  ListedFills = {f1}
  MaxVersion = 2
  MaxFlight = 2
  MaxOutages = 1
  MaxChanges = 1
  MaxHealthPulls = 2
  ChartSymbols = {"ES", "NQ"}
  Lookbacks = {20, 50}
  MaxSwitches = 2
  Spreads = {"ES"}
  PlanIds = {1, 2}
  Windows = {2, 3, 9}
  MaxLookback = 4
  MaxDraftEdits = 2
  MaxStagings = 1
  Goods = {"ES"}
  TapeCap = 3
  TapeAsked = 2
  MaxVenue = 3
  MaxAnswers = 3
  MaxRewatches = 2
  Tabs = {"a", "b"}
  Attempts = 3
  MaxSessions = 3
  MaxPortalOutages = 1
  MaxLoads = 3
  Entries <- MCEntries
  PollLimit = 2
  MaxJournal = 3
  MaxFlying = 2
  MaxMonitorSwitches = 2
  Credentials = {"good", "bad"}
  GoodCredentials = {"good"}
  AccountKeys = {"k"}
  MaxChains = 2
  MaxTypings = 4
  Journals <- MCJournals
  MonthLength = 2
  DayLength = 4
  Zone <- MCZone
  Texts = {"t"}
  MaxFetches = 2
  MaxEdits = 2
  FeedProducts = {"ES", "NQ"}
  FeedPrices = {4}
  AccountHeld <- MCHeld
  Multiplier = 50
  MaxEffects = 3
  MaxDrops = 1
  MaxFigures = 1
INVARIANTS
  WindowsStayInReach
  
  OneRetryAtATime
PROPERTIES
  AnswersOfWhatIsShown
  OnlyTheVerified
  WhatIsThereIsShown
  WaitsEnd
CHECK_DEADLOCK FALSE
