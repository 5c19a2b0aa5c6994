SPECIFICATION DeskSpec
CONSTANTS
  None = None
  Names <- MCNames
  KeyOf <- MCKeyOf
  DeskName = "Desk"
  TedName = "Ted"
  TedSName = "TedS"
  Typed = {"ted s"}
  Toggled = {"alerts"}
  MaxSaves = 1
  Latest <- MCLatest
  MaxBackups = 2
  MaxTime = 1
  Algos = {1}
  Managers = {"man"}
  Builders = {"bld"}
  Tabs = {"A", "B"}
  SavedAs = {"draft"}
  MaxWaiting = 2
  Seatings <- MCSeatings
  Ladder = "L"
  SingleChart = "C"
  OldSettings <- MCOldSettings
  Drags <- MCDrags
  Pulls <- MCPulls
  Multiples = {2, 10}
  MaxChanges = 2
  AlertIds = {"a"}
  Wares = {"ES", "NQ"}
  DefaultWare = "ES"
  Quotes = {1, 2}
  MaxFills = 1
  MaxEdits = 1
  Goods = {"ES"}
  OrderIds = {1, 2}
  TapeCap = 2
  MaxSends = 1
  OrderOf <- MCOrderOf
  Cells <- MCCells
  TableColumns = 2
  MaxRows = 1
  Pnls <- MCPnls
  Times <- MCTimes
  MaxRecords = 3
  AccountSize = 400
  Falls = {0, 5}
  FillFiles = {f1, f2}
  MaxImports = 2
  Walks <- MCWalks
  Frames = {1, 2}
  LivePrices = {9}
  StudyLength = 2
  Bins = 8
  Spellings = {"m", "M ", "n"}
  Folded <- MCFolded
  Texts = {"t", "u"}
  OldCurrents <- MCOldCurrents
  OldLegacies <- MCOldLegacies
  MaxVariantSaves = 3
  Pairs = {"ES_NQ"}
  PublishedStudies <- MCStudies
  PairPrices = {0, 1, 2, 7}
  MaxPublished = 2
  MaxPairTicks = 2
  Events = {"m"}
  Chances = {20, 50, 80}
  Stake = 10000
  TradeList = 2
  RestoredSum = 33820
  OldTrades <- MCOldTrades
  SignalIds = {"s"}
  MaxOpened = 2
  MaxMoves = 2
  Odds = {15, 35, 52, 80}
  Configs <- MCConfigs
  MinPoints = 4
  HistoryLength = 5
  EventSlots <- MCEventSlots
  Cents = {40}
  EventMarkets = {"m", "k"}
  MarkerLimit = 2
  BookLevels <- MCBookLevels
  BookTimes = {1, 2}
  MaxEntries = 2
  MaxToggles = 2
  MaxBooks = 3
  Instruments <- MCInstruments
  Tickets <- MCTickets
  PositionFigures <- MCPositions
  MaxReports = 3
  SettingsTabs = {"a", "b"}
  Themes = {"dark-navy", "abyss"}
  DefaultTheme = "dark-navy"
  LimitsTyped = {0, 3}
  DefaultLimit = 7
  OldPreferences <- MCOldPreferences
  MaxSettingChanges = 4
  MaxPosts = 2
  Period = 3
  DeadZone = 1
  LastTick = 4
  BestPrices <- MCBest
  UpPercents = {50}
  LimitTexts = {0, 30, 100, None}
  Holdings <- MCHoldings
  PositionLimits = {0, 1}
  MaxEvents = 3
  SyncSlots <- MCSlots
  Providers = {"cme", "kalshi"}
  StartAsset = "ES"
  MaxPicks = 3
  LadderSymbols = {"ES", "NQ"}
  Mids <- MCMidsOf
  Resting <- MCResting
  Multipliers = {1, 4}
  BodyHeights = {0, 120}
  MaxPulls = 2
  MaxOffset = 24
  LadderSides = {"BID"}
  PriceKeys = {1, 2}
  TicketSize = 2
  MaxTickets = 1
  MaxDrags = 2
  MaxCalls = 2
  MaxLocal = 1
  Listing <- MCListing
  Watched = {"ES_NQ_5min"}
  MaxPeriod = 2
  MaxPoints = 3
  MaxTicks = 1
INVARIANTS
  WorkspacesAreKept
  StoppedStaysStopped
  StoredIsShown
  TradesAddUp
  PricesAreWhole
  CallsAreSettled
PROPERTIES
  NamesAreNotLost
  AnnouncedOnCrossing
  GesturesDoAsAsked
  ShownIsOfTheMarket
CHECK_DEADLOCK FALSE
