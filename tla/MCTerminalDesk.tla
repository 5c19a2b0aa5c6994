---------------------------- MODULE MCTerminalDesk ----------------------------
(***************************************************************************)
(* Small instances of the terminal's windows and pages for TLC, one after  *)
(* the other: focus is the one whose steps a behaviour is made of, and the  *)
(* others stay at one of their initial states.                             *)
(***************************************************************************)
EXTENDS Workspaces, AlgoDesk, WindowSettings, Alerts, Blotter, TradeReport, ChartFigures,
        ResearchWindows, PaperTrade, EventMarket, DepthLadder, MarketStore

VARIABLE focus

deskVars == <<focus, workspaceVars, algoVars, settingsVars, alertVars, blotterVars, reportVars,
              figureChartVars, variantVars, spreadVars, paperVars, backtestVars, ladder2Vars,
              accountVars, preferenceVars, ticketVars, syncVars, viewVars, ladderVars,
              marketVars>>

Parts == {"workspaces", "algos", "settings", "alerts", "blotter", "report", "chart", "variants",
          "spreads", "paper", "backtest", "events", "books", "account", "preferences", "ticket",
          "sync", "view", "tickets", "markets"}

\* An event market's ladder goes in two parts, its markers and its books, which share
\* nothing but the market.
\* Among the initial states of a part that stays still, one.
DeskInit ==
  /\ focus \in Parts
  /\ WorkspacesInit /\ (focus # "workspaces" => disk = EmptyDisk)
  /\ AlgoDeskInit /\ (focus # "algos" => defs = NoAlgos /\ tabOf = CHOOSE s \in Seatings : TRUE)
  /\ SettingsInit /\ (focus # "settings" => ladderDefault = LadderDefault /\ stored[Ladder] = None)
  /\ AlertsInit /\ (focus # "alerts" => rules = Unset)
  /\ BlotterInit
  /\ ReportInit /\ (focus # "report" => part = "window")
  /\ ChartInit /\ (focus # "chart" => frame = 1)
  /\ VariantsInit /\ (focus # "variants" => stores.current = None /\ stores.legacy = None)
  /\ SpreadInit
  /\ PaperInit /\ (focus # "paper" => closings = <<>> /\ \A e \in Events : chance[e] = 20)
  /\ BacktestInit
  /\ Ladder2Init /\ (focus \notin {"events", "books"} => market = (CHOOSE m \in EventMarkets : TRUE))
                  /\ (focus # "events" => fast = FALSE)
  /\ AccountInit
  /\ PreferencesInit /\ (focus # "preferences" => keptSettings = None)
  /\ TicketInit /\ (focus # "ticket" => ticketMarket = None)
                /\ (focus # "ticket" => most = 0)
  /\ SyncInit /\ (focus # "sync" => lists["main"] = <<>>)
  /\ ViewInit
  /\ LadderInit /\ (focus # "tickets" => fastTrade = FALSE)
  /\ MarketInit

\* The parts that do not move.
Still ==
  /\ (focus # "workspaces" => UNCHANGED workspaceVars)
  /\ (focus # "algos" => UNCHANGED algoVars)
  /\ (focus # "settings" => UNCHANGED settingsVars)
  /\ (focus # "alerts" => UNCHANGED alertVars)
  /\ (focus # "blotter" => UNCHANGED blotterVars)
  /\ (focus # "report" => UNCHANGED reportVars)
  /\ (focus # "chart" => UNCHANGED figureChartVars)
  /\ (focus # "variants" => UNCHANGED variantVars)
  /\ (focus # "spreads" => UNCHANGED spreadVars)
  /\ (focus # "paper" => UNCHANGED paperVars)
  /\ (focus # "backtest" => UNCHANGED backtestVars)
  /\ (focus \notin {"events", "books"} => UNCHANGED ladder2Vars)
  /\ (focus # "account" => UNCHANGED accountVars)
  /\ (focus # "preferences" => UNCHANGED preferenceVars)
  /\ (focus # "ticket" => UNCHANGED ticketVars)
  /\ (focus # "sync" => UNCHANGED syncVars)
  /\ (focus # "view" => UNCHANGED viewVars)
  /\ (focus # "tickets" => UNCHANGED ladderVars)
  /\ (focus # "markets" => UNCHANGED marketVars)

DeskNext ==
  /\ UNCHANGED focus /\ Still
  /\ \/ focus = "workspaces" /\ WorkspacesNext
     \/ focus = "algos" /\ AlgoDeskNext
     \/ focus = "settings" /\ SettingsNext
     \/ focus = "alerts" /\ AlertsNext
     \/ focus = "blotter" /\ BlotterNext
     \/ focus = "report" /\ ReportNext
     \/ focus = "chart" /\ ChartNext
     \/ focus = "variants" /\ VariantsNext
     \/ focus = "spreads" /\ SpreadNext
     \/ focus = "paper" /\ PaperNext
     \/ focus = "backtest" /\ BacktestNext
     \/ focus = "events" /\ (MarkersNext \/ Choosing)
     \/ focus = "books" /\ (BooksNext \/ Choosing)
     \/ focus = "account" /\ AccountNext
     \/ focus = "preferences" /\ PreferencesNext
     \/ focus = "ticket" /\ TicketNext
     \/ focus = "sync" /\ SyncNext
     \/ focus = "view" /\ ViewNext
     \/ focus = "tickets" /\ LadderNext
     \/ focus = "markets" /\ MarketNext

DeskSpec == DeskInit /\ [][DeskNext]_deskVars
-----------------------------------------------------------------------------
(***************************************************************************)
(* What is asked of several windows and pages alike; the parts are stated   *)
(* and explained in their modules.                                          *)
(***************************************************************************)

\* What a window keeps is what it shows, and comes back as it was: a ladder's columns
\* and switches over settings of older builds, the settings page over several tabs,
\* the variants of a model over three places they were stored in, with none deleted
\* coming back, and the imported report over a storage that may be full.
StoredIsShown ==
  /\ HeldIsShown /\ EveryColumnOnce
  /\ SettingsAreWhole
  /\ SavedVariantStays /\ DeletedStaysDeleted
  /\ ShownIsStored

\* Figures made of one set of trades along different ways come to the same: the totals,
\* curve, drawdown and words of a report of a file that reads back as it was written,
\* the lifetime account of paper trading and its list, the back test and its strategy,
\* a net position and its fills, an account's totals and its positions.
TradesAddUp ==
  /\ ExportReadsBack /\ FiguresAgree /\ LevelAgreesWithStudies
  /\ LifetimeHoldsEveryClose /\ LifetimeFallIsTheWorst
  /\ TradesAreTheStrategys
  /\ NetIsBoughtLessSold /\ TotalsAreOfThePositions

\* Nothing of a market is lost or doubled on the way to the screen: bars joined with a
\* live price, volume in its bins, a channel on its sample, depth and orders grouped on
\* the rows of either ladder, a history merged from lists and snapshots, a period's dead
\* zone by either of its clocks, prices of the two outcomes, and a spread's advice.
PricesAreWhole ==
  /\ BarsAreWhole /\ VolumeIsWhole /\ ChannelIsTheFit /\ BandsHoldTheMoves /\ OnlyAnOldPriceThrows
  /\ RowsCarryTheDepth /\ RowsHoldTheBook
  /\ HistoryInOrder
  /\ DeadzoneIsOfThePeriod /\ WholeDollar
  /\ RowSpeaksOnce /\ NoAdviceWithoutStudy

\* While calls that enter, move and cancel orders are under way no order is counted
\* twice, entered by two moves, shown as pending without a call, dragged after it was
\* cancelled, or asked for by two requests; and a cancel is of an order in view.
CallsAreSettled ==
  /\ CountedOnce /\ MoveEntersWhatItTook
  /\ PendingIsOnItsWay /\ DragIsNotCancelled
  /\ OneRequestAtATime
  /\ DetailsOfTheView

\* A gesture does what it says and no more: a cancel-all leaves nothing to be filled, an
\* order leaves once for each click or move, a resize keeps a column and its neighbour
\* within their limits, and a tab wears the theme picked in it.
GesturesDoAsAsked ==
  /\ CancelAllLeavesNothing
  /\ EveryEntryHasItsClick
  /\ LimitsKept
  /\ ThemeOfTheTab

\* What is shown of a market changes only to what belongs to it: the depth to a book of
\* the ladder's product whatever answers are still on their way, and, when a contract
\* rotates or expires, histories, tapes, books and the followed market to the new one;
\* a window popped out of another shows the market selected there.
ShownIsOfTheMarket ==
  /\ BookOfItsProduct
  /\ RotationStartsClean /\ FollowedIsLive
  /\ []SideFollowsMain

-----------------------------------------------------------------------------
MCNames == {"Desk", "Ted", "TedS", "ted s"}
MCKeyOf == [n \in MCNames |-> IF n = "ted s" THEN "TedS" ELSE n]
MCLatest == {[name |-> "TedS", windows |-> {"ladder", "charts"}, at |-> 1]}

\* The manager and the builder in two tabs.
MCSeatings == {[h \in {"man", "bld"} |-> IF h = "bld" THEN "B" ELSE "A"]}

MCOldSettings == {[columnOrder |-> <<"ask", "depth", "ask">>, priceMultiplier |-> 3,
                   columnWidths |-> [orders |-> 20, bid |-> 999, price |-> None, ask |-> 112]]}
MCDrags == {<<"ask", "orders">>, <<"orders", "price">>, <<"bid", "bid">>}
MCPulls == {<<"orders", 500>>, <<"price", -500>>, <<"ask", -500>>}

\* A buy by hand and a sale of an algo.
MCOrderOf == [id \in {1, 2} |-> IF id = 1 THEN [side |-> "bid", source |-> "manual"]
                               ELSE [side |-> "offer", source |-> "algo"]]

\* Texts of no more than two characters; a CSV line has two of them.
MCCells == UNION {[1 .. n -> {"quote", "comma", "lf", "cr", "blank", "x"}] : n \in 0 .. 2}
MCPnls == {-2, 3}
MCTimes == {None, 1, 2}

Bar(t, o, h, l, c, v) == [time |-> t, open |-> o, high |-> h, low |-> l, close |-> c, volume |-> v]
MCWalks == {<<Bar(0, 2, 3, 1, 2, 1), Bar(1, 6, 6, 6, 6, 2), Bar(2, 2, 5, 1, 1, 3)>>}

MCFolded == [n \in {"m", "M ", "n"} |-> IF n = "n" THEN "n" ELSE "m"]
MCOldCurrents == {None, [name |-> "m", text |-> "t", at |-> 0]}
MCOldLegacies == {None, [name |-> "n", text |-> "t", at |-> 0]}

MCStudies == {[last |-> 4, basis |-> 4, atr |-> 4, score |-> Level],
              [last |-> 8, basis |-> 4, atr |-> 4, score |-> Level],
              [last |-> 4, basis |-> 0, atr |-> 0, score |-> Level],
              [last |-> 4, basis |-> 0, atr |-> 0, score |-> [n |-> -7, d |-> 4]]}

MCOldTrades == {<<>>, <<-5, 9>>}

Config(s, low, high, target) ==
  [strategy |-> s, low |-> low, high |-> high, target |-> target,
   stop |-> 50, take |-> 100, stake |-> 100]
MCConfigs == {Config("mean_reversion", 35, 65, 50), Config("threshold", 35, 65, 50),
              Config("momentum", 35, 65, 60)}

MCEventSlots == {<<"yes", "bid">>, <<"no", "offer">>}
MCBookLevels == {{[price |-> 400, size |-> 3], [price |-> 404, size |-> 2],
                  [price |-> 15, size |-> 1], [price |-> 998, size |-> 9]}}

MCInstruments == {[key |-> "es", label |-> "ES", multiplier |-> 50],
                  [key |-> "nq", label |-> "NQ", multiplier |-> 20]}
MCTickets == {[id |-> 1, key |-> "es", size |-> 2], [id |-> 2, key |-> "nq", size |-> 1]}
MCPositions == {[qty |-> 2, avg |-> 10, mark |-> 11, realized |-> 0],
                [qty |-> -1, avg |-> 10, mark |-> 12, realized |-> 30],
                [qty |-> 0, avg |-> 0, mark |-> 12, realized |-> -7]}

MCOldPreferences == {[limit |-> 3], [theme |-> "abyss", detail |-> TRUE]}

MCBest == {None, <<40, 42>>}
MCHoldings == {[yes |-> 1, no |-> 3]}

MCSlots == <<[key |-> "ES5", asset |-> "ES", live |-> TRUE],
             [key |-> "ES15", asset |-> "ES", live |-> TRUE],
             [key |-> "NQ15", asset |-> "NQ", live |-> FALSE]>>

MCMidsOf == [s \in {"ES", "NQ"} |-> IF s = "ES" THEN {100, 104} ELSE {230}]
MCResting == {[symbol |-> "ES", price |-> 98, size |-> 3], [symbol |-> "ES", price |-> 112, size |-> 5]}

MCListing == <<[key |-> "ES", asset |-> "ES", head |-> "ES", rank |-> 0],
               [key |-> "ES_NQ_5min", asset |-> "ES_NQ", head |-> "ES", rank |-> 1]>>
=============================================================================
