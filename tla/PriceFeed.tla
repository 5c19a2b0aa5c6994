------------------------------ MODULE PriceFeed ------------------------------
(***************************************************************************)
(* The price feed process (native/price-feed-cpp/src/main.cpp): a loop of  *)
(* sessions with the data provider, a wait between two of them, and the    *)
(* status lines the gateway reads from its output                          *)
(* (native/gateway-cpp/src/main.cpp, ingest_market_status_line).           *)
(*                                                                         *)
(* Time is counted in turns of the read loop (its timeout is one second);  *)
(* a line is read as soon as it is printed.  The provider's turns are      *)
(* bounded by MaxProviderTurns.                                            *)
(***************************************************************************)
EXTENDS Integers

CONSTANTS
  Base,              \* max(1000, reconnect_ms)
  Ceiling,           \* max_reconnect_ms
  StaleAfter,        \* stale_ms, in turns of the read loop
  ReportEvery,       \* quotes between two "record" lines
  MaxProviderTurns

ASSUME PriceFeedAssumption ==
  /\ Base \in Nat \ {0} /\ Ceiling \in Nat
  /\ StaleAfter \in Nat \ {0} /\ ReportEvery \in Nat \ {0} /\ MaxProviderTurns \in Nat

VARIABLES
  feedAt,         \* "open", "read", "wait" or "ended"
  feedRunning,    \* g_running
  delay,          \* current_reconnect_ms
  pause,          \* the last wait's length
  signalled,      \* gateway_signal_received of the last session
  quietFor,       \* turns since the last record
  quotes,         \* emitted_records since the last "record" line, -1 before the first
  fruitless,      \* sessions in a row that brought no signal
  provider,       \* "answers", "silent" or "refuses"
  providerTurns,
  marketStatus    \* the gateway's market_data_status

priceFeedVars == <<feedAt, feedRunning, delay, pause, signalled, quietFor, quotes, fruitless,
                   provider, providerTurns, marketStatus>>

Records == {"quote", "definition", "heartbeat", "error", "ignored"}
Least(a, b) == IF a < b THEN a ELSE b
Most(a, b) == IF a < b THEN b ELSE a

\* The wait after as many sessions without a signal.
Expected[n \in 0 .. Most(Base, Ceiling)] ==
  IF n = 0 THEN Base ELSE Least(2 * Expected[n - 1], Most(Base, Ceiling))

PriceFeedInit ==
  /\ feedAt = "open" /\ feedRunning = TRUE
  /\ delay = Base /\ pause = Base
  /\ signalled = FALSE /\ quietFor = 0 /\ quotes = -1 /\ fruitless = 0
  /\ provider \in {"answers", "silent", "refuses"} /\ providerTurns = 0
  /\ marketStatus = "process-running"

\* The delay after a session without a signal.
LongerDelay == Least(Most(2 * delay, delay + 1), Most(delay, Ceiling))

\* What follows a session: the wait, unless the process was told to stop.
SessionEnds(heard) ==
  /\ signalled' = heard
  /\ IF feedRunning
     THEN /\ feedAt' = "wait"
          /\ pause' = IF heard THEN Base ELSE delay
          /\ delay' = IF heard THEN Base ELSE LongerDelay
          /\ fruitless' = IF heard THEN 0 ELSE Least(fruitless + 1, Most(Base, Ceiling))
          /\ marketStatus' = "reconnecting"
     ELSE /\ feedAt' = "ended" /\ marketStatus' = "stopped"
          /\ UNCHANGED <<pause, delay, fruitless>>

\* The top of the loop: a session is made, or making one throws.
OpenSession ==
  /\ feedAt = "open"
  /\ UNCHANGED <<feedRunning, quotes, provider, providerTurns>>
  /\ quietFor' = 0
  /\ IF feedRunning /\ provider # "refuses"
     THEN /\ feedAt' = "read" /\ signalled' = FALSE /\ marketStatus' = "session_started"
          /\ UNCHANGED <<delay, pause, fruitless>>
     ELSE SessionEnds(FALSE)

\* The quotes counted after one more; a "record" line is printed when this is zero.
QuotesCounted == IF quotes = -1 THEN 0 ELSE (quotes + 1) % ReportEvery

\* The status the gateway keeps after a record's line, if it prints one.
StatusAfter(record) ==
  CASE record = "quote" -> IF QuotesCounted = 0 THEN "record"
                           ELSE IF marketStatus \in {"error", "reconnecting"} THEN marketStatus
                           ELSE "streaming"
    [] record \in {"definition", "heartbeat", "error"} -> record
    [] OTHER -> marketStatus

\* NextRecord returns one; every kind ends the silence, an unknown one is no signal.
NextRecord(record) ==
  /\ feedAt = "read" /\ feedRunning /\ provider = "answers"
  /\ quietFor' = 0
  /\ signalled' = (signalled \/ record # "ignored")
  /\ quotes' = IF record = "quote" THEN QuotesCounted ELSE quotes
  /\ marketStatus' = StatusAfter(record)
  /\ UNCHANGED <<feedAt, feedRunning, delay, pause, fruitless, provider, providerTurns>>

\* Mutant: a timeout counts as a record.
NoRecordKept ==
  /\ feedAt = "read" /\ feedRunning /\ provider = "silent"
  /\ quietFor' = 0
  /\ UNCHANGED <<feedAt, feedRunning, delay, pause, signalled, quotes, fruitless, provider,
                 providerTurns, marketStatus>>

\* NextRecord times out: one turn more of silence, and the stale session is stopped.
NoRecord ==
  /\ feedAt = "read" /\ feedRunning /\ provider = "silent"
  /\ UNCHANGED <<feedRunning, quotes, provider, providerTurns>>
  /\ quietFor' = quietFor + 1
  /\ IF quietFor + 1 >= StaleAfter THEN SessionEnds(signalled)
     ELSE UNCHANGED <<feedAt, delay, pause, signalled, fruitless, marketStatus>>

\* NextRecord throws, or the loop sees that it was told to stop.
SessionFails ==
  /\ feedAt = "read" /\ (provider = "refuses" \/ ~feedRunning)
  /\ UNCHANGED <<feedRunning, quietFor, quotes, provider, providerTurns>>
  /\ SessionEnds(signalled)

\* The sleep is over.
PauseEnds ==
  /\ feedAt = "wait"
  /\ feedAt' = "open"
  /\ UNCHANGED <<feedRunning, delay, pause, signalled, quietFor, quotes, fruitless, provider,
                 providerTurns, marketStatus>>

\* SIGINT or SIGTERM.
HandleSignal ==
  /\ feedRunning /\ feedAt # "ended"
  /\ feedRunning' = FALSE
  /\ UNCHANGED <<feedAt, delay, pause, signalled, quietFor, quotes, fruitless, provider,
                 providerTurns, marketStatus>>

ProviderTurns ==
  /\ providerTurns < MaxProviderTurns
  /\ providerTurns' = providerTurns + 1
  /\ provider' \in {"answers", "silent", "refuses"} \ {provider}
  /\ UNCHANGED <<feedAt, feedRunning, delay, pause, signalled, quietFor, quotes, fruitless, marketStatus>>

FeedSteps ==
  \/ OpenSession \/ NoRecord \/ SessionFails \/ PauseEnds
  \/ \E record \in Records : NextRecord(record)
PriceFeedNext == FeedSteps \/ HandleSignal \/ ProviderTurns

\* The process runs, and a provider that answers sends something it has a name for
\* and, while it quotes, a quote.
PriceFeedFairness ==
  /\ WF_priceFeedVars(OpenSession \/ NoRecord \/ SessionFails \/ PauseEnds)
  /\ WF_priceFeedVars(NextRecord("quote"))

PriceFeedSpec == PriceFeedInit /\ [][PriceFeedNext]_priceFeedVars /\ PriceFeedFairness
-----------------------------------------------------------------------------
\* The wait before a session is the one its failures call for: the base after a
\* session that brought a signal, and twice the last one, up to the ceiling, after
\* one that did not (main.cpp:396-403).
WaitFitsFailures ==
  feedAt = "wait" => pause = Expected[IF fruitless = 0 THEN 0 ELSE fruitless - 1]

\* A session in which nothing arrives does not last: the feed hears the provider,
\* or it leaves the session (main.cpp:329-342).
SilenceEnds == (feedAt = "read" /\ provider = "silent") ~> (feedAt # "read" \/ provider = "answers")

\* Whatever the provider did before, a feed that was not told to stop listens to
\* one that answers, and the gateway's status says neither that it reconnects nor
\* that it failed (gateway main.cpp:765-794, 821-825).
FeedIsHeardAgain ==
  []<>(\/ ~feedRunning \/ provider # "answers"
       \/ feedAt = "read" /\ signalled /\ marketStatus \notin {"error", "reconnecting"})
=============================================================================
