---------------------------- MODULE StorePolls ----------------------------
(* What the windows of the terminal keep in the store by polling the gateway:    *)
(* the orders, positions and fills of the account, and the market data of the    *)
(* products that are watched.                                                    *)
EXTENDS Terminal, FiniteSets, SequencesExt

-----------------------------------------------------------------------------
(* The orders, positions and fills every window shows: one part of the store,    *)
(* filled by polls of the gateway, by the answers of order calls, and trimmed by *)
(* the market list.                                                              *)

CONSTANTS Fills,        \* executions the exchange may report
          ListedFills,  \* those whose market stays in the gateway's list
          MaxVersion,   \* bound on the commands the exchange carries out
          MaxFlight,    \* bound on the answers on their way to the terminal
          MaxOutages    \* bound on the times the exchange goes away

\* No version is null, the version of the gateway's stand-in.
ASSUME TradingAssumption == ListedFills \subseteq Fills /\ None \notin Int

VARIABLES engine,   \* the exchange: is it up, what it has carried out
          trading,  \* simOrders and simPositions (as a version) and fills
          polls,    \* answers of GET positions-orders on their way
          calls,    \* order calls: routed, then answered
          window    \* what the positions window keeps for itself
tradingVars == <<engine, trading, polls, calls, window>>

(* An answer's state: what the exchange held when the gateway asked it, or   *)
(* the gateway's empty stand-in when the exchange did not answer.             *)
Content(e) == [version |-> e.version, fills |-> e.fills]
StandIn == [version |-> None, fills |-> {}]
StateJson == IF engine.up THEN Content(engine) ELSE StandIn

SnapshotUnavailable(payload) == payload.version = None

(* Order calls: an order or cancel whose answer counts only when it is ok, a *)
(* deploy or kill whose state is applied in any case, a session reset.        *)
Kinds == {"order", "manager", "reset"}
Unread == [version |-> -1, fills |-> {}]
Routed(kind) == [kind |-> kind, state |-> Unread]
Answered(kind, state) == [kind |-> kind, state |-> state]

TradingInit ==
    /\ engine = [up |-> TRUE, version |-> 0, fills |-> {}, outages |-> 0]
    /\ trading = [version |-> 0, fills |-> {}]
    /\ polls = {} /\ calls = {}
    /\ window = StandIn

Room == Cardinality(polls) + Cardinality(calls) < MaxFlight

Outage ==
    /\ engine.up /\ engine.outages < MaxOutages
    /\ engine' = [engine EXCEPT !.up = FALSE, !.outages = @ + 1]
    /\ UNCHANGED <<trading, polls, calls, window>>
Recovery ==
    /\ ~engine.up
    /\ engine' = [engine EXCEPT !.up = TRUE]
    /\ UNCHANGED <<trading, polls, calls, window>>

(* A command reaches the exchange; an order may execute at once.             *)
Carry(kind, executed) ==
    /\ engine.up /\ engine.version < MaxVersion /\ Room
    /\ engine' = [engine EXCEPT !.version = @ + 1,
                                !.fills = IF kind = "reset" THEN {} ELSE @ \cup executed]
    /\ calls' = calls \cup {Routed(kind)}
    /\ UNCHANGED <<trading, polls, window>>
(* With the exchange away a manager call still answers with a state.         *)
Refuse ==
    /\ ~engine.up /\ Room
    /\ calls' = calls \cup {Routed("manager")}
    /\ UNCHANGED <<engine, trading, polls, window>>
(* The toolbar's reset, once the operator has confirmed it: an exchange that is   *)
(* away refuses it, and a refusal leaves what is shown as it is.                   *)
ResetSession == Carry("reset", {})
ReadBack(call) ==
    /\ call \in calls /\ call.state = Unread
    /\ calls' = (calls \ {call}) \cup {Answered(call.kind, StateJson)}
    /\ UNCHANGED <<engine, trading, polls, window>>

\* Mutant: fills are added to those of the store.
SetSimTradingStateMerging(payload) == trading' = [payload EXCEPT !.fills = @ \cup trading.fills]

(* setSimTradingState: each part the payload has replaces the store's.       *)
SetSimTradingState(payload) == trading' = payload
CallAnswered(call) ==
    /\ call \in calls /\ call.state # Unread
    /\ calls' = calls \ {call}
    /\ SetSimTradingState(call.state)
    /\ UNCHANGED <<engine, polls, window>>

(* A poll that fails leaves no trace, so only those that are answered count. *)
Poll(by) ==
    /\ Room
    /\ polls' = polls \cup {[by |-> by, payload |-> StateJson]}
    /\ UNCHANGED <<engine, trading, calls, window>>
ApplySnapshot(payload) ==
    IF SnapshotUnavailable(payload) THEN UNCHANGED trading
    ELSE SetSimTradingState(payload)
HydratorAnswered(p) ==
    /\ p \in polls /\ p.by = "hydrator"
    /\ polls' = polls \ {p}
    /\ ApplySnapshot(p.payload)
    /\ UNCHANGED <<engine, calls, window>>
PositionsAnswered(p) ==
    /\ p \in polls /\ p.by = "positions"
    /\ polls' = polls \ {p}
    /\ ApplySnapshot(p.payload)
    /\ window' = IF SnapshotUnavailable(p.payload) THEN window ELSE p.payload
    /\ UNCHANGED <<engine, calls>>

(* setMarkets forgets the fills of markets that are not in the list.         *)
TrimFills ==
    /\ trading' = [trading EXCEPT !.fills = @ \cap ListedFills]
    /\ UNCHANGED <<engine, polls, calls, window>>

TradingNext ==
    \/ Outage \/ Recovery \/ Refuse \/ TrimFills
    \/ ResetSession
    \/ \E kind \in Kinds \ {"reset"} : Carry(kind, {})
    \/ \E f \in Fills : Carry("order", {f}) \/ Carry("manager", {f})
    \/ \E call \in calls : ReadBack(call) \/ CallAnswered(call)
    \/ \E by \in {"hydrator", "positions"} : Poll(by)
    \/ \E p \in polls : HydratorAnswered(p) \/ PositionsAnswered(p)

(* The intervals fire for as long as the page is open, and what is on its    *)
(* way arrives.                                                               *)
Answers == [version : 0..MaxVersion, fills : SUBSET Fills] \cup {StandIn}
TradingFairness ==
    /\ \A by \in {"hydrator", "positions"} : WF_tradingVars(Poll(by))
    /\ WF_tradingVars(TrimFills)
    /\ \A payload \in Answers :
         /\ WF_tradingVars(HydratorAnswered([by |-> "hydrator", payload |-> payload]))
         /\ WF_tradingVars(PositionsAnswered([by |-> "positions", payload |-> payload]))
         /\ \A kind \in Kinds : WF_tradingVars(CallAnswered(Answered(kind, payload)))
    /\ \A kind \in Kinds : WF_tradingVars(ReadBack(Routed(kind)))
TradingSpec == TradingInit /\ [][TradingNext]_tradingVars /\ TradingFairness

\* Once the exchange stays up the orders and positions shown are its own for
\* good, whatever answers were late or out of order, and its fills are shown
\* again and again: between two polls the market list may hide some of them.
ViewConverges ==
    <>[]engine.up => /\ <>[](trading.version = engine.version)
                     /\ []<>(trading.fills = engine.fills)

\* A step that takes the orders off the screen is the answer of a call.
EmptiedByACall ==
    trading.version # None /\ trading'.version = None
      => \E call \in calls \ calls' : call.state = StandIn

\* Orders on the screen give way to the gateway's stand-in for an exchange that
\* does not answer only by the answer of an order call: polls pass it over.
EmptiedOnlyByACall == [][EmptiedByACall]_tradingVars
-----------------------------------------------------------------------------
(* The polled market data of the windows: every window that shows a product asks *)
(* for its book each second and for its tape once, all of them into the one      *)
(* store, and the market data window and the liquidity map show what is there.   *)
(* Answers come in any order; the legacy socket, off by default, is left out.    *)

CONSTANTS Goods,        \* products
          TapeCap,      \* trades the store keeps of a product
          TapeAsked,    \* trades a new subscription takes of the tape
          MaxVenue,     \* bound on the books and on the trades of a product
          MaxAnswers,   \* bound on the answers under way for a product
          MaxRewatches  \* bound on the changes of what is watched

VARIABLES products,    \* products of the market list
          rows,        \* products of the market data window, in order
          ladder,      \* product of the depth ladder, or None
          venueBook, venueTape, \* version of the book, and number of trades, of a product
          flight,      \* answers under way
          booksShown,  \* version of the book in the store, 0 for none
          tape,        \* trades in the store
          ladderTape,  \* trades the ladder itself keeps
          changed      \* changes so far
watchVars == <<products, rows, ladder, venueBook, venueTape, flight, booksShown, tape, ladderTape, changed>>
Venue == <<venueBook, venueTape>>
Shown == <<booksShown, tape, ladderTape>>

(* useCmeMarketDataSubscriptions and useDepthMarketStream: the products of a     *)
(* window. Its subscription is made anew whenever they change: the timers are    *)
(* cleared, and what is under way for the old one is not taken.                  *)
Wanted(pane) == IF pane = "rows" THEN ToSet(rows) ELSE {ladder} \ {None}
WindowsOf(g) == {w \in {"rows", "ladder"} : g \in Wanted(w)}
AskVenue(pane, kind, g, what) == [window |-> pane, kind |-> kind, good |-> g, what |-> what, alive |-> TRUE]
AsksOf(pane, goods) ==
    {AskVenue(pane, "tape", g, LastOf([n \in 1 .. venueTape[g] |-> n], TapeAsked)) : g \in goods}
    \cup {AskVenue(pane, "book", g, venueBook[g]) : g \in goods}
Ended(pane) == {IF a.window = pane THEN [a EXCEPT !.alive = FALSE] ELSE a : a \in flight}
Resubscribe(pane, goods) ==
    /\ changed < MaxRewatches /\ changed' = changed + 1
    /\ flight' = Ended(pane) \cup AsksOf(pane, goods)
    /\ UNCHANGED <<products, Venue, Shown>>

(* The market data window: a product is added once, and taken out by its row.    *)
Offered == products \ ToSet(rows)
AddProduct(g) ==
    /\ g \in Offered /\ rows' = Append(rows, g)
    /\ Resubscribe("rows", ToSet(rows')) /\ UNCHANGED ladder
RemoveRow(g) ==
    /\ g \in ToSet(rows) /\ rows' = SelectSeq(rows, LAMBDA r : r # g)
    /\ Resubscribe("rows", ToSet(rows')) /\ UNCHANGED ladder
PickLadder(g) ==
    /\ g # ladder /\ ladder' = g
    /\ Resubscribe("ladder", {g} \ {None}) /\ UNCHANGED rows

PollBook(pane, g) ==
    /\ g \in Wanted(pane) /\ Cardinality({a \in flight : a.good = g}) < MaxAnswers
    /\ flight' = flight \cup {AskVenue(pane, "book", g, venueBook[g])}
    /\ UNCHANGED <<products, rows, ladder, Venue, Shown, changed>>

(* pushPolyTick: a trade like the last one of the tape is not added again.       *)
Pushed(list, trade) ==
    IF list # <<>> /\ list[Len(list)] = trade THEN list ELSE Append(LastOf(list, TapeCap - 1), trade)

\* Mutant: an answer is taken whoever asked for it.
TakenAlways(answer) == TRUE

Taken(answer) == answer.alive
WatchAnswered(answer) ==
    LET g == answer.good
    IN /\ answer \in flight /\ flight' = flight \ {answer}
       /\ IF ~Taken(answer) THEN UNCHANGED Shown
          ELSE IF answer.kind = "book"
          THEN booksShown' = [booksShown EXCEPT ![g] = answer.what] /\ UNCHANGED <<tape, ladderTape>>
          ELSE /\ tape' = [tape EXCEPT ![g] = FoldLeft(Pushed, @, answer.what)]
               /\ ladderTape' = IF answer.window # "ladder" THEN ladderTape
                                ELSE LastOf(ladderTape \o [n \in DOMAIN answer.what |->
                                                [good |-> g, trade |-> answer.what[n]]], TapeCap)
               /\ UNCHANGED booksShown
       /\ UNCHANGED <<products, rows, ladder, Venue, changed>>

\* Mutant: the last trade is the one that came last.
LatestByArrival(list) == IF list = <<>> THEN 0 ELSE list[Len(list)]

(* What the windows show of a product: its last trade is the latest by time, the *)
(* feed of the map is live with anything from the venue, and a row is open, old  *)
(* or waiting. Trades are numbered by their times.                               *)
LatestTrade(list) == IF list = <<>> THEN 0
                     ELSE SortSeq(list, LAMBDA a, b : a < b)[Len(list)]
TapeContracts(g) == Len(tape[g])
FeedState(g) == IF booksShown[g] > 0 \/ tape[g] # <<>> THEN "live"
                ELSE IF g \in products THEN "partial" ELSE "awaiting"
LiquidityRows == SetToSortSeq({g \in Goods : g \in products}, LAMBDA a, b : TapeContracts(a) > TapeContracts(b))
RowData(g) == [last |-> LatestTrade(tape[g]), book |-> booksShown[g],
               status |-> IF booksShown[g] > 0 \/ tape[g] # <<>> \/ g \in products THEN "OPEN" ELSE "WAIT"]

ProductsArrive == /\ products # Goods /\ products' = Goods
                  /\ UNCHANGED <<rows, ladder, Venue, flight, Shown, changed>>
VenueTrades(g) ==
    /\ \/ venueBook[g] < MaxVenue /\ venueBook' = [venueBook EXCEPT ![g] = @ + 1] /\ UNCHANGED venueTape
       \/ venueTape[g] < MaxVenue /\ venueTape' = [venueTape EXCEPT ![g] = @ + 1] /\ UNCHANGED venueBook
    /\ UNCHANGED <<products, rows, ladder, flight, Shown, changed>>

WatchInit ==
    /\ products = {} /\ rows = <<>> /\ ladder = None /\ changed = 0 /\ flight = {}
    /\ venueBook = [g \in Goods |-> 1] /\ venueTape = [g \in Goods |-> 1]
    /\ booksShown = [g \in Goods |-> 0] /\ tape = [g \in Goods |-> <<>>] /\ ladderTape = <<>>
PollBooks == \E w \in {"rows", "ladder"}, g \in Goods : PollBook(w, g)
WatchNext ==
    \/ ProductsArrive \/ PollBooks
    \/ \E g \in Goods : AddProduct(g) \/ RemoveRow(g) \/ VenueTrades(g)
    \/ \E g \in products \cup {None} : PickLadder(g)
    \/ \E a \in flight : WatchAnswered(a)
WatchSpec ==
    /\ WatchInit /\ [][WatchNext]_watchVars
    /\ \A g \in Goods : WF_watchVars(\E w \in {"rows", "ladder"} : PollBook(w, g))
    /\ \A g \in Goods : WF_watchVars(\E a \in flight : a.good = g /\ WatchAnswered(a))

\* The last trade a row shows is the newest trade the store has of the product,
\* although a window opened later fetches the tape again, and an older answer can
\* come after a newer one.
LatestIsNewest == \A g \in Goods : \A n \in DOMAIN tape[g] : tape[g][n] <= RowData(g).last

\* A step that changes what is shown of a product, while a window shows it.
ChangesAreWatched ==
    \A g \in Goods : booksShown'[g] # booksShown[g] \/ tape'[g] # tape[g] => WindowsOf(g) # {}

\* The store changes only for what a window shows at the time: an answer that
\* arrives after its window moved on or was closed changes nothing.
NoAnswerAfterTheWindow == [][ChangesAreWatched]_watchVars

\* What is watched comes to show the book of the venue once that rests, although
\* the answers overtake each other and several windows ask for the same product.
BookConverges == \A g \in Goods : <>[](WindowsOf(g) # {}) => <>[](booksShown[g] = venueBook[g])
=============================================================================
