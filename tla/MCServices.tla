------------------------------ MODULE MCServices ------------------------------
(***************************************************************************)
(* Small instances of the services around the engine, one after the other: *)
(* the ledger that books its batches, the book a terminal rebuilds from    *)
(* them, the price feed, the host service and the FIX journal.  focus is   *)
(* the part whose steps a behaviour is made of, and the others stay at one *)
(* of their initial states.                                                *)
(***************************************************************************)
EXTENDS Ledger, EventBook, PriceFeed, Supervisor, FixJournal

VARIABLE focus

feedBooks == <<buffer, view, stale>>
serviceVars == <<focus, vars, books, feedBooks, priceFeedVars, supervisorVars, journalVars>>

ServicesInit ==
  /\ focus \in {"ledger", "feed", "prices", "host", "journal"}
  /\ LedgerInit
  /\ buffer = <<>> /\ view = EmptyView /\ stale = {}
  /\ PriceFeedInit /\ (focus # "prices" => provider = "answers")
  /\ SupervisorInit
  /\ JournalInit

\* The parts that do not move.
Still ==
  /\ (focus \notin {"ledger", "feed"} => UNCHANGED vars)
  /\ (focus # "ledger" => UNCHANGED books)
  /\ (focus # "feed" => UNCHANGED feedBooks)
  /\ (focus # "prices" => UNCHANGED priceFeedVars)
  /\ (focus # "host" => UNCHANGED supervisorVars)
  /\ (focus # "journal" => UNCHANGED journalVars)

ServicesNext ==
  /\ UNCHANGED focus /\ Still
  /\ \/ focus = "ledger" /\ LedgerNext
     \/ focus = "feed" /\ EventBookNext
     \/ focus = "prices" /\ PriceFeedNext
     \/ focus = "host" /\ SupervisorNext
     \/ focus = "journal" /\ JournalNext

\* The fairness of the modules' specifications, for the part that moves.
ServicesFairness ==
  /\ WF_priceFeedVars(focus = "prices" /\ (OpenSession \/ NoRecord \/ SessionFails \/ PauseEnds))
  /\ WF_priceFeedVars(focus = "prices" /\ NextRecord("quote"))
  /\ WF_supervisorVars(focus = "host" /\ LoopSteps)

ServicesSpec == ServicesInit /\ [][ServicesNext]_serviceVars /\ ServicesFairness
-----------------------------------------------------------------------------
\* The books of the server follow the batches of the engine: whatever mix of fills,
\* both sides of each, ticks, replaces and resets came before, positions are what was
\* traded, valued at the newest mark, profits are value less cash, the fills kept have
\* ids of their own, and the sizes filled are those of the fills.
LedgerFollowsFills ==
  focus = "ledger" => /\ LedgerTypeOK /\ NetPositionIsExternal /\ ProfitIsValueLessCash
                      /\ MarksAreCurrent /\ FillIdsUnique /\ FilledSizeMatchesFills

\* A terminal that folds the packets of one render in one go shows the book of the
\* exchange but for the levels it has cut, and never more of them than it keeps.
FedViewMatchesBook == focus = "feed" => EventBookTypeOK /\ ViewMatchesBook

\* The feed comes back by itself: the wait is the one its failures call for, a silent
\* session is left, and with a provider that answers again the feed is heard again.
FeedRecovers ==
  /\ []WaitFitsFailures
  /\ SilenceEnds
  /\ (focus = "prices" => FeedIsHeardAgain)

\* The host service keeps both servers answering through hangs, exits, failed starts and
\* crashes of its own, leaves a process behind only by such a crash, and a stop that was
\* asked for ends.
HostRecovers ==
  /\ OnlyACrashOrphans
  /\ (focus = "host" => ServesAgain)
  /\ StopEnds
-----------------------------------------------------------------------------
\* In half ticks: ticks -1 and 2.
MCPrices == {-1, 3}
MCMinTick == -2
MCMultiplier == [s \in Products |-> 2]
=============================================================================
