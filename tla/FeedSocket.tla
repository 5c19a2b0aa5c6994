------------------------------ MODULE FeedSocket ------------------------------
(* The terminal's socket, for a build that has it switched on, and the account's *)
(* figures it shows: an effect per selected product opens a socket and opens it   *)
(* again when it closes, the store marks the positions a message brings with the  *)
(* prices it knows, and a poll fetches the day's figures in any build.            *)
EXTENDS Terminal, Integers, FiniteSets

CONSTANTS FeedProducts,  \* products with a socket of their own
          FeedPrices,    \* prices of ticks and books
          AccountHeld,   \* positions of the account: [direction, size, entry, open]
          Multiplier,    \* resolveFuturesMultiplier
          MaxEffects,    \* bound of the effect's runs
          MaxDrops,      \* bound of the sockets that close by themselves
          MaxFigures     \* bound of the changes of the day's figures
\* The effect has run once when the page is open.
ASSUME FeedAssumption == MaxEffects \in Nat \ {0} /\ MaxDrops \in Nat

VARIABLES legacy,            \* ENABLE_LEGACY_BROWSER_WS
          effect,            \* the run of the effect and its product; alive belongs to the last
          sockets, wsRef,    \* sockets by number: [run, product, phase]; the one last made
          timers, retryRef,  \* retries that are due, by number: their runs; the one last set
          prices,            \* of the market: its book's and its last tick's
          positions,         \* executionPositions
          figures,           \* of the day: the gateway's and those shown
          figurePulls,       \* answers of GET /api/metrics on their way
          drops
feedVars == <<legacy, effect, sockets, wsRef, timers, retryRef, prices, positions, figures, figurePulls, drops>>
Plumbing == <<effect, sockets, wsRef, timers, retryRef, drops>>
Numbers == 1 .. (MaxEffects + MaxDrops)

(* markOpenExecutionPositionsFromKnownMarkets: the book's price, then the tick's.  *)
Contracts(p) == IF p.direction = "DOWN" THEN -p.size ELSE p.size

Marked(p, price) ==
    IF ~p.open \/ price = None THEN p
    ELSE [p EXCEPT !.mark = price, !.pnl = (price - p.entry) * Multiplier * Contracts(p)]
FromKnownMarkets(p, known) == Marked(Marked(p, known.book), known.tick)
Reported == {[direction |-> h.direction, size |-> h.size, entry |-> h.entry, open |-> h.open,
              mark |-> h.entry, pnl |-> 0] : h \in AccountHeld}

(* connect: a run of the effect that is over opens nothing.                        *)
Live == {n \in DOMAIN sockets : sockets[n].phase # "closed"}
Free == {n \in Numbers : sockets[n].phase = "closed"}
Connected(run, product) ==
    LET n == CHOOSE m \in Free : \A k \in Free : m <= k
    IN /\ sockets' = [sockets EXCEPT ![n] = [run |-> run, product |-> product, phase |-> "connecting"]]
       /\ wsRef' = n
(* The product changes: the cleanup of the last run, and the next run.             *)
Switch(product) ==
    /\ legacy /\ effect.run < MaxEffects /\ product # effect.product
    /\ effect' = [run |-> effect.run + 1, product |-> product]
    /\ timers' = timers \ {retryRef}
    /\ LET n == CHOOSE m \in Free : \A k \in Free : m <= k
           ends == IF wsRef \in Live THEN [sockets EXCEPT ![wsRef].phase = "closing"] ELSE sockets
       IN /\ sockets' = [ends EXCEPT ![n] = [run |-> effect.run + 1, product |-> product, phase |-> "connecting"]]
          /\ wsRef' = n
    /\ UNCHANGED <<legacy, retryRef, prices, positions, figures, figurePulls, drops>>

(* The socket's own events: it opens with a snapshot, it closes by itself or as it  *)
(* was asked to, and onclose sets the retry of a run that is not over.              *)
Snapshot(product) ==
    /\ prices' = prices /\ figures' = [figures EXCEPT !.shown = None]
    /\ positions' = {FromKnownMarkets(p, prices) : p \in Reported}
SocketOpens(n) ==
    /\ sockets[n].phase = "connecting" /\ sockets' = [sockets EXCEPT ![n].phase = "open"]
    /\ Snapshot(sockets[n].product)
    /\ UNCHANGED <<legacy, effect, wsRef, timers, retryRef, figurePulls, drops>>

\* Mutant: a socket that closes is opened again whatever has become of its run.
RetryOfAny(n) == timers' = timers \cup {sockets[n].run} /\ retryRef' = sockets[n].run

RetryOf(n) == IF sockets[n].run = effect.run
              THEN timers' = timers \cup {sockets[n].run} /\ retryRef' = sockets[n].run
              ELSE UNCHANGED <<timers, retryRef>>
SocketCloses(n) ==
    /\ sockets' = [sockets EXCEPT ![n].phase = "closed"] /\ RetryOf(n)
    /\ UNCHANGED <<legacy, effect, wsRef, prices, positions, figures, figurePulls>>
SocketEnds(n) == sockets[n].phase = "closing" /\ SocketCloses(n) /\ UNCHANGED drops
SocketDrops(n) == sockets[n].phase \in {"connecting", "open"} /\ drops < MaxDrops /\ drops' = drops + 1 /\ SocketCloses(n)
Retry(run) ==
    /\ run \in timers /\ timers' = timers \ {run} /\ Connected(run, effect.product)
    /\ UNCHANGED <<legacy, effect, retryRef, prices, positions, figures, figurePulls, drops>>

(* What a message does to the store.                                               *)
Message(n) == sockets[n].phase = "open" /\ UNCHANGED <<legacy, Plumbing, figurePulls>>
TickComes(n, price) == /\ Message(n) /\ prices' = [prices EXCEPT !.tick = price]
                       /\ UNCHANGED <<positions, figures>>
BookComes(n, price) == /\ Message(n) /\ prices' = [prices EXCEPT !.book = price]
                       /\ UNCHANGED <<positions, figures>>
PositionsCome(n) == /\ Message(n) /\ positions' = {FromKnownMarkets(p, prices) : p \in Reported}
                    /\ UNCHANGED <<prices, figures>>
FiguresCome(n) == /\ Message(n) /\ figures' = [figures EXCEPT !.shown = figures.held]
                  /\ UNCHANGED <<prices, positions>>

(* The day's figures change, and a poll fetches them as long as the page is open;   *)
(* its answers may overtake each other.                                            *)
FiguresChange == /\ figures.held < MaxFigures /\ figures' = [figures EXCEPT !.held = @ + 1]
                 /\ UNCHANGED <<legacy, Plumbing, prices, positions, figurePulls>>
PollMetrics == /\ Cardinality(figurePulls) < 2 /\ figurePulls' = figurePulls \cup {figures.held}
               /\ UNCHANGED <<legacy, Plumbing, prices, positions, figures>>
SetMetrics(answer) == answer
PollAnswered(answer) ==
    /\ answer \in figurePulls /\ figurePulls' = figurePulls \ {answer}
    /\ figures' = [figures EXCEPT !.shown = SetMetrics(answer)]
    /\ UNCHANGED <<legacy, Plumbing, prices, positions>>

NoSocket == [run |-> 0, product |-> None, phase |-> "closed"]
FeedInit ==
    /\ legacy \in BOOLEAN /\ \E product \in FeedProducts : effect = [run |-> 1, product |-> product]
    /\ sockets = [n \in Numbers |-> IF n = 1 /\ legacy THEN [run |-> 1, product |-> effect.product, phase |-> "connecting"] ELSE NoSocket]
    /\ wsRef = 1 /\ timers = {} /\ retryRef = 0
    /\ prices = [book |-> None, tick |-> None] /\ positions = {}
    /\ figures = [held |-> 0, shown |-> None] /\ figurePulls = {} /\ drops = 0
FeedNext ==
    \/ \E product \in FeedProducts : Switch(product)
    \/ \E n \in Numbers : SocketOpens(n) \/ SocketEnds(n) \/ SocketDrops(n) \/ PositionsCome(n) \/ FiguresCome(n)
    \/ \E n \in Numbers, price \in FeedPrices : TickComes(n, price) \/ BookComes(n, price)
    \/ \E run \in 1 .. MaxEffects : Retry(run)
    \/ FiguresChange \/ PollMetrics
    \/ \E answer \in 0 .. MaxFigures : PollAnswered(answer)
(* A server that accepts opens the sockets, a timer fires, and the poll's interval  *)
(* and its answers come.                                                           *)
FeedFairness ==
    /\ \A n \in Numbers : WF_feedVars(SocketOpens(n)) /\ WF_feedVars(SocketEnds(n))
    /\ \A run \in 1 .. MaxEffects : WF_feedVars(Retry(run))
    /\ WF_feedVars(PollMetrics)
    /\ \A answer \in 0 .. MaxFigures : WF_feedVars(PollAnswered(answer))
FeedSpec == FeedInit /\ [][FeedNext]_feedVars /\ FeedFairness

\* There is never more than one socket in use or one that is about to be opened,
\* and it is the selected product's, however retries and switches of the product
\* fall together.
OneSocket ==
    LET used == {n \in Numbers : sockets[n].phase \in {"connecting", "open"}}
    IN /\ Cardinality(used) + Cardinality(timers) <= 1
       /\ \A n \in used : sockets[n].product = effect.product

\* Once the sockets stop closing there is one open for good.
FeedReturns == <>[](legacy => \E n \in Numbers : sockets[n].phase = "open")

\* The profit of the positions is what the account has made at their marks: together
\* with what was paid for them it is what they are worth, long and short.
PositionsAreWorthTheirMarks ==
    \A p \in positions : p.open =>
        p.pnl + (IF p.direction = "DOWN" THEN -1 ELSE 1) * p.size * p.entry * Multiplier
          = (IF p.direction = "DOWN" THEN -1 ELSE 1) * p.size * p.mark * Multiplier
=============================================================================
