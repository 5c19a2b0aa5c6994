---------------------------- MODULE MCTerminalData ----------------------------
(***************************************************************************)
(* Small instances of the parts of the terminal that wait for answers, one *)
(* after the other: focus is the part whose steps a behaviour is made of,  *)
(* and the others stay at one of their initial states.                     *)
(***************************************************************************)
EXTENDS WindowFrames, StorePolls, ServiceMonitors, ChartFeed, DeployPlan,
        Access, PerformancePage, FeedSocket

VARIABLE focus

dataVars == <<focus, frameVars, tradingVars, healthVars, chartVars, planVars, watchVars,
              portalVars, monitorVars, connectionVars, performanceVars, feedVars>>

Parts == {"frames", "trading", "health", "chart", "plans", "watch", "portal", "monitor",
          "connections", "performance", "feed"}

\* Among the initial states of a part that stays still, one.
DataInit ==
  /\ focus \in Parts
  /\ FramesInit /\ (focus # "frames" => view = 3 /\ frames = DefaultFrames(1, 2))
  /\ TradingInit
  /\ HealthInit
  /\ ChartFeedInit
  /\ (focus # "chart" => chartOf = "ES" /\ lookback = 20)
  /\ PlanInit
  /\ WatchInit
  /\ PortalInit
  /\ MonitorInit
  /\ ConnectionsInit /\ (focus # "connections" => credentialsStored = None)
  /\ PerformanceInit /\ (focus # "performance" => note = None)
  /\ FeedInit /\ (focus # "feed" => ~legacy /\ effect.product = "ES")

\* The parts that do not move.
Still ==
  /\ (focus # "frames" => UNCHANGED frameVars)
  /\ (focus # "trading" => UNCHANGED tradingVars)
  /\ (focus # "health" => UNCHANGED healthVars)
  /\ (focus # "chart" => UNCHANGED chartVars)
  /\ (focus # "plans" => UNCHANGED planVars)
  /\ (focus # "watch" => UNCHANGED watchVars)
  /\ (focus # "portal" => UNCHANGED portalVars)
  /\ (focus # "monitor" => UNCHANGED monitorVars)
  /\ (focus # "connections" => UNCHANGED connectionVars)
  /\ (focus # "performance" => UNCHANGED performanceVars)
  /\ (focus # "feed" => UNCHANGED feedVars)

DataNext ==
  /\ UNCHANGED focus /\ Still
  /\ \/ focus = "frames" /\ FramesNext
     \/ focus = "trading" /\ TradingNext
     \/ focus = "health" /\ HealthNext
     \/ focus = "chart" /\ ChartFeedNext
     \/ focus = "plans" /\ PlanNext
     \/ focus = "watch" /\ WatchNext
     \/ focus = "portal" /\ PortalNext
     \/ focus = "monitor" /\ MonitorNext
     \/ focus = "connections" /\ ConnectionsNext
     \/ focus = "performance" /\ PerformanceNext
     \/ focus = "feed" /\ FeedNext

\* The fairness of the modules' specifications, for the part that moves.
Fairness ==
  /\ WF_frameVars(focus = "frames" /\ DragFrame)
  /\ WF_frameVars(focus = "frames" /\ EdgeStep)
  /\ \A by \in {"hydrator", "positions"} : WF_tradingVars(focus = "trading" /\ Poll(by))
  /\ WF_tradingVars(focus = "trading" /\ TrimFills)
  /\ \A payload \in Answers :
       /\ WF_tradingVars(focus = "trading" /\ HydratorAnswered([by |-> "hydrator", payload |-> payload]))
       /\ WF_tradingVars(focus = "trading" /\ PositionsAnswered([by |-> "positions", payload |-> payload]))
       /\ \A kind \in Kinds : WF_tradingVars(focus = "trading" /\ CallAnswered(Answered(kind, payload)))
  /\ \A kind \in Kinds : WF_tradingVars(focus = "trading" /\ ReadBack(Routed(kind)))
  /\ WF_healthVars(focus = "health" /\ PanelPulls)
  /\ \A slot \in Slots :
       WF_healthVars(focus = "health" /\ (\/ PullReadiness(slot) \/ Settles(slot)
                                          \/ \E call \in Calls : CallReturns(slot, call)))
  /\ \A answer \in Replies : WF_healthVars(focus = "health" /\ PanelReceives(answer))
  /\ WF_chartVars(focus = "chart" /\ \E link \in chain : link.alive /\ (BarsReturn(link) \/ PullBars(link)))
  /\ WF_chartVars(focus = "chart" /\ \E round \in rounds : round.alive
                                       /\ (StudiesReturn(round) \/ PullStudies(round)))
  /\ WF_planVars(focus = "plans" /\ StudiesReturned)
  /\ \A g \in Goods : WF_watchVars(focus = "watch" /\ \E w \in {"rows", "ladder"} : PollBook(w, g))
  /\ \A g \in Goods : WF_watchVars(focus = "watch" /\ \E a \in flight : a.good = g /\ WatchAnswered(a))
  /\ \A t \in Tabs : /\ WF_portalVars(focus = "portal" /\ (Validate(t) \/ AutoLogin(t)))
                     /\ WF_portalVars(focus = "portal" /\ LoginAnswer(t))
  /\ WF_monitorVars(focus = "monitor" /\ FetchJournal)
  /\ \A n \in 0 .. MaxJournal :
       WF_monitorVars(focus = "monitor" /\ \E poll \in journalPolls :
                         /\ poll = LastOf([k \in 1 .. n |-> k], PollLimit)
                         /\ JournalAnswered(poll) \/ Fails(poll))
  /\ \A c \in Chains : WF_connectionVars(focus = "connections" /\ c \in chains /\ ChainEnds(c))
  /\ WF_performanceVars(focus = "performance" /\ Fetch)
  /\ WF_performanceVars(focus = "performance" /\ HandleBlur)
  /\ \A t \in Texts \cup {"", None} :
       /\ WF_performanceVars(focus = "performance" /\ t \in fetches /\ (Fetched(t) \/ FetchFails(t)))
       /\ WF_performanceVars(focus = "performance" /\ t \in saves /\ (SaveArrives(t) \/ SaveIsLost(t)))
  /\ \A n \in Numbers : /\ WF_feedVars(focus = "feed" /\ SocketOpens(n))
                        /\ WF_feedVars(focus = "feed" /\ SocketEnds(n))
  /\ \A run \in 1 .. MaxEffects : WF_feedVars(focus = "feed" /\ Retry(run))

DataSpec == DataInit /\ [][DataNext]_dataVars /\ Fairness

-----------------------------------------------------------------------------
(***************************************************************************)
(* What is asked of several parts alike; the pieces are stated and          *)
(* explained in their modules.                                              *)
(***************************************************************************)

\* ChartConverges, of the behaviours in which the chart moves.
ChartComesToConverge == focus = "chart" => ChartConverges


\* However retries, switches of the product and closings fall together, one chain of
\* requests and one socket serve what is shown: no timer of what was left goes on.
OneRetryAtATime == OneChain /\ OneSocket

\* What is shown changes only by an answer for what is shown: none for a chart's former
\* product, none of a window that was closed, and orders give way to the gateway's
\* stand-in for a missing exchange only by an order call.
AnswersOfWhatIsShown ==
  /\ AnswersOfTheChart
  /\ NoAnswerAfterTheWindow
  /\ EmptiedOnlyByACall

\* Only what was verified opens or is stored: a locked tab opens again with a session
\* given since, a tab that opened alone carries the token of its session, and the
\* credentials stored are ones the service has authenticated.
OnlyTheVerified ==
  /\ UnlockedByLogin
  /\ [](OpenCarriesItsToken /\ SavedWereVerified)

\* Once the outside stops changing, everything polled, streamed or saved comes to be shown as it is: orders and
\* fills, readiness, books, bars and studies, the FIX journal, the notes of a day.
WhatIsThereIsShown ==
  /\ ViewConverges /\ ReadinessConverges /\ BookConverges
  /\ ChartComesToConverge /\ MonitorConverges /\ NotesConverge

\* Nothing is waited for in vain: a dragged window comes to rest under the pointer, the
\* staged rows get their studies, the portal's check and every login end, a section
\* leaves connecting, and a socket is open again.
WaitsEnd ==
  /\ DragSettles /\ StudiesArrive /\ GateSettles /\ ConnectingEnds /\ FeedReturns

-----------------------------------------------------------------------------
MCEntries == {[direction |-> "sent", type |-> "D", failed |-> FALSE],
              [direction |-> "received", type |-> "3", failed |-> TRUE]}

Closed(a, m, r, c, n, x) ==
  [asset |-> a, model |-> m, regime |-> r, copy |-> c, net |-> n, win |-> n > 0, exit |-> x]
MCJournals ==
  {[trades |-> <<Closed("BTC", "m", "low", FALSE, 3, 5), Closed("ETH", None, "low", TRUE, -2, 1),
                 Closed("BTC", None, "high", FALSE, 4, 3)>>,
    daily |-> [d \in {1, 2} |-> [net |-> d, count |-> d]]]}
MCZone == -1

MCHeld == {[direction |-> "UP", size |-> 2, entry |-> 5, open |-> TRUE],
           [direction |-> "DOWN", size |-> 1, entry |-> 7, open |-> TRUE],
           [direction |-> "UP", size |-> 1, entry |-> 5, open |-> FALSE]}
=============================================================================
