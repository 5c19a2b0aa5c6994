----------------------------- MODULE DepthLadder -----------------------------
(* The orders of a depth ladder: the tickets it keeps itself, the shared ones  *)
(* of the store, the calls that enter, cancel and move them, and the fills     *)
(* that go on at the exchange meanwhile. A shared order is moved by a cancel   *)
(* and, when that was answered well, a new order under the same id.            *)
EXTENDS Terminal, FiniteSets, SequencesExt, FiniteSetsExt

CONSTANTS LadderSides,   \* "BID", "ASK"
          PriceKeys,     \* the rows of the ladder
          TicketSize,    \* contracts of a click
          MaxTickets,    \* bound on the clicks
          MaxDrags,      \* bound on the drags
          MaxCalls,      \* bound on the calls on their way at a time
          MaxLocal       \* stands for the 80 tickets a ladder keeps

TicketIds == 1..MaxTickets

VARIABLES ticketVenue,  \* the exchange: per ticket [side, priceKey, size] or None
          shared,       \* the working orders of the store's simOrders, as a set
          activeOrders, sim, fastTrade, \* the ladder and its two switches
          dragging,     \* draggingOrder, dragTargetPriceKey and the switches its listener saw
          ticketCalls,  \* calls on their way or answered, by ticket
          sent, moved   \* clicks and drags so far (bounds)
ladderVars == <<ticketVenue, shared, activeOrders, sim, fastTrade, dragging, ticketCalls, sent, moved>>

WorkingNow == {[id |-> t, side |-> ticketVenue[t].side, priceKey |-> ticketVenue[t].priceKey,
                size |-> ticketVenue[t].size, status |-> "working"] : t \in {t \in TicketIds : ticketVenue[t] # None}}

(* displayActiveOrders, simDepthOrders: a ticket the store knows is not shown *)
(* a second time, and in simulation only the shared ones are shown.           *)
KnownToTheStore == {o \in Range(activeOrders) : \E order \in shared : order.id = o.id}
Displayed == IF sim THEN <<>> ELSE Without(activeOrders, KnownToTheStore)
WorkingShown == {i \in DOMAIN Displayed : Displayed[i].status \in {"pending", "working"}}
TotalTickets == Cardinality(WorkingShown) + Cardinality(shared)

TicketOrders == [id : TicketIds, side : LadderSides, priceKey : PriceKeys, size : 1..TicketSize,
                 status : {"pending", "working", "rejected"}]
ASSUME LadderAssumption ==
    /\ MaxTickets \in Nat /\ TicketSize \in Nat \ {0} /\ MaxLocal \in Nat \ {0}
    /\ \A some \in SUBSET TicketOrders : some # None

LadderInit ==
    /\ ticketVenue = [t \in TicketIds |-> None] /\ shared = {} /\ activeOrders = <<>>
    /\ sim = TRUE /\ fastTrade \in BOOLEAN
    /\ dragging = None /\ ticketCalls = {} /\ sent = 0 /\ moved = 0

(* turn tells the calls of two drags apart that say the same.                *)
Call(kind, order) == [kind |-> kind, order |-> order, turn |-> moved, state |-> None, ok |-> FALSE]
(* Tickets are limit orders.                                                       *)
Apply(order, atOnce) == [order EXCEPT !.status = IF atOnce THEN "working" ELSE "pending"]
SubmitDepthOrder(side, key) ==
    LET order == Apply([id |-> sent + 1, side |-> side, priceKey |-> key,
                        size |-> TicketSize, status |-> "pending"], sim \/ fastTrade)
    IN /\ sent < MaxTickets
       /\ sent' = sent + 1
       /\ activeOrders' = IF sim THEN activeOrders ELSE FirstOf(<<order>> \o activeOrders, MaxLocal)
       /\ ticketCalls' = IF sim \/ fastTrade
                   THEN ticketCalls \cup {Call(IF sim THEN "submit" ELSE "send", order)} ELSE ticketCalls
       /\ Cardinality(ticketCalls) < MaxCalls
       /\ UNCHANGED <<ticketVenue, shared, sim, fastTrade, dragging, moved>>

(* A cancel names the order and nothing else; one that is asked for twice while it  *)
(* is on its way is one.                                                           *)
Cancels(orders) == {Call("cancel", [o EXCEPT !.size = None, !.priceKey = None]) : o \in orders}
CallRoom == Cardinality(ticketCalls') <= MaxCalls

LadderTickets == Range(activeOrders) \cup shared

(* A flag cancels its group, a header its side, the orders header and the button of *)
(* the settings everything; the local tickets go at once, the shared by a call.     *)
CancelWhere(gone) ==
    /\ activeOrders' = Without(activeOrders, gone)
    /\ ticketCalls' = ticketCalls \cup Cancels(shared \cap gone)
    /\ CallRoom
    /\ UNCHANGED <<ticketVenue, shared, sim, fastTrade, dragging, sent, moved>>
OnRow(o, side, key) == o.side = side /\ o.priceKey = key
FlagShown(side, key) == \E o \in Range(Displayed) \cup shared : OnRow(o, side, key)
CancelOrderGroup(side, key) ==
    FlagShown(side, key) /\ CancelWhere({o \in LadderTickets : OnRow(o, side, key)})
ClearSide(sides) == CancelWhere({o \in LadderTickets : o.side \in sides})

(* A double click is to send the pending tickets of a flag. Its clicks come first   *)
(* and cancel them.                                                                *)
AfterTheClicks(side, key) ==
    Without(activeOrders, {o \in Range(activeOrders) : OnRow(o, side, key)})
SubmitPending(side, key) ==
    LET kept == AfterTheClicks(side, key)
        pending == {i \in DOMAIN kept : OnRow(kept[i], side, key) /\ kept[i].status = "pending"}
    IN /\ FlagShown(side, key)
       /\ activeOrders' = [i \in DOMAIN kept |->
                            IF i \in pending THEN Apply(kept[i], sim \/ fastTrade) ELSE kept[i]]
       /\ ticketCalls' = ticketCalls \cup Cancels({o \in shared : OnRow(o, side, key)})
                         \cup {Call("send", kept[i]) : i \in IF sim THEN {} ELSE pending}
       /\ CallRoom
       /\ UNCHANGED <<ticketVenue, shared, sim, fastTrade, dragging, sent, moved>>

(* The ticket a flag takes hold of: a local one first, by status.            *)
Grip(side, key) ==
    LET shown == Range(Displayed)
        here == Without(Displayed, {o \in shown : ~OnRow(o, side, key)})
        Among(status) == Without(here, {o \in shown : o.status # status})
        others == {o \in shared : OnRow(o, side, key)}
    IN IF here # <<>> THEN {(Among("working") \o Among("pending") \o here)[1]} ELSE others
Held(order, target) == [order |-> order, target |-> target, sim |-> sim, fast |-> fastTrade]
StartOrderDrag(side, key) ==
    /\ moved < MaxDrags
    /\ \E order \in Grip(side, key) : dragging' = Held(order, key)
    /\ UNCHANGED <<ticketVenue, shared, activeOrders, sim, fastTrade, ticketCalls, sent, moved>>
DragOver(key) ==
    /\ dragging # None /\ dragging.target # key
    /\ dragging' = Held(dragging.order, key)
    /\ UNCHANGED <<ticketVenue, shared, activeOrders, sim, fastTrade, ticketCalls, sent, moved>>

(* The listener of the button's release was made when the drag or its target last   *)
(* changed, and goes by the switches of then.                                      *)
MoveOrder ==
    /\ dragging # None
    /\ dragging' = None
    /\ LET order == [dragging.order EXCEPT !.priceKey = dragging.target]
           still == dragging.target = dragging.order.priceKey
       IN /\ activeOrders' = [i \in DOMAIN activeOrders |->
               IF ~still /\ activeOrders[i].id = order.id
               THEN Apply([activeOrders[i] EXCEPT !.priceKey = order.priceKey],
                          dragging.sim \/ dragging.fast) ELSE activeOrders[i]]
          /\ ticketCalls' = IF dragging.sim /\ ~still THEN ticketCalls \cup {Call("move", order)}
                            ELSE ticketCalls
          /\ CallRoom
          /\ moved' = moved + IF still THEN 0 ELSE 1
    /\ UNCHANGED <<ticketVenue, shared, sim, fastTrade, sent>>

(* The exchange behind the gateway: an id that works is refused, an order     *)
(* that no longer works cannot be cancelled; a call may fail on its way there  *)
(* or back.                                                                  *)
Enters(call) == call.kind \in {"submit", "send"}
ServerTakes(call) ==
    LET t == call.order.id
        ok == IF Enters(call) THEN ticketVenue[t] = None ELSE ticketVenue[t] # None
    IN /\ call \in ticketCalls /\ call.state = None
       /\ ticketVenue' = IF ~ok THEN ticketVenue
                   ELSE [ticketVenue EXCEPT ![t] = IF Enters(call)
                           THEN [side |-> call.order.side, priceKey |-> call.order.priceKey,
                                 size |-> call.order.size] ELSE None]
       /\ ticketCalls' = (ticketCalls \ {call}) \cup {[call EXCEPT !.state = WorkingNow', !.ok = ok]}
       /\ UNCHANGED <<shared, activeOrders, sim, fastTrade, dragging, sent, moved>>
CallFails(call) ==
    /\ call \in ticketCalls
    /\ ticketCalls' = ticketCalls \ {call}
    /\ activeOrders' = [i \in DOMAIN activeOrders |->
         IF call.kind = "send" /\ activeOrders[i].id = call.order.id
         THEN [activeOrders[i] EXCEPT !.status = "rejected"] ELSE activeOrders[i]]
    /\ UNCHANGED <<ticketVenue, shared, sim, fastTrade, dragging, sent, moved>>
Fill(t) ==
    /\ ticketVenue[t] # None
    /\ LET left == ticketVenue[t].size - 1
       IN ticketVenue' = [ticketVenue EXCEPT ![t] = IF left = 0 THEN None
                                                    ELSE [ticketVenue[t] EXCEPT !.size = left]]
    /\ UNCHANGED <<shared, activeOrders, sim, fastTrade, dragging, ticketCalls, sent, moved>>

\* Mutant: a move goes on whatever its first call was answered.
GoesOnBlindly(call) == call.kind = "move"

(* The answer of a call that was refused ends the flow, whatever it was; that *)
(* of a plain send is not read.                                               *)
GoesOn(call) == call.kind = "move" /\ call.ok
CallAnswer(call) ==
    /\ call \in ticketCalls /\ call.state # None
    /\ ticketCalls' = (ticketCalls \ {call}) \cup
                      IF GoesOn(call) THEN {[call EXCEPT !.kind = "submit", !.state = None, !.ok = FALSE]}
                      ELSE {}
    /\ shared' = IF call.ok /\ call.kind # "send" THEN call.state ELSE shared
    /\ UNCHANGED <<ticketVenue, activeOrders, sim, fastTrade, dragging, sent, moved>>
RefreshOrders ==
    /\ shared' = WorkingNow
    /\ UNCHANGED <<ticketVenue, activeOrders, sim, fastTrade, dragging, ticketCalls, sent, moved>>

ToggleSim ==
    /\ sim' = ~sim
    /\ UNCHANGED <<ticketVenue, shared, activeOrders, fastTrade, dragging, ticketCalls, sent, moved>>
ToggleFastTicket ==
    /\ fastTrade' = ~fastTrade
    /\ UNCHANGED <<ticketVenue, shared, activeOrders, sim, dragging, ticketCalls, sent, moved>>
(* Another product in the ladder, and back: its own tickets are dropped, the shared *)
(* ones and the calls on their way are not.                                        *)
LeaveMarket ==
    /\ activeOrders' = <<>> /\ dragging' = None
    /\ UNCHANGED <<ticketVenue, shared, sim, fastTrade, ticketCalls, sent, moved>>

LadderNext ==
    \/ \E side \in LadderSides, key \in PriceKeys :
         \/ SubmitDepthOrder(side, key) \/ SubmitPending(side, key)
         \/ CancelOrderGroup(side, key) \/ StartOrderDrag(side, key)
    \/ ClearSide(LadderSides)
    \/ \E side \in LadderSides : ClearSide({side})
    \/ \E key \in PriceKeys : DragOver(key)
    \/ MoveOrder
    \/ \E call \in ticketCalls : ServerTakes(call) \/ CallFails(call) \/ CallAnswer(call)
    \/ \E t \in TicketIds : Fill(t)
    \/ RefreshOrders \/ ToggleSim \/ ToggleFastTicket \/ LeaveMarket
LadderSpec == LadderInit /\ [][LadderNext]_ladderVars

\* A ticket is counted once: the ladder's own copy and the store's are never both
\* among its working orders, through sends, moves, refusals and refreshes.
CountedOnce == TotalTickets = Cardinality({Displayed[i].id : i \in WorkingShown}
                                           \cup {o.id : o \in shared})

\* A move enters an order only when it has itself taken it out: while its second
\* call is on its way the ticket does not work at the exchange, and no other
\* move is about to enter it as well.
MoveEntersWhatItTook ==
    \A call \in ticketCalls : (call.kind = "submit" /\ call.state = None)
        => /\ ticketVenue[call.order.id] = None
           /\ \A other \in ticketCalls : (other.kind = "submit" /\ other.state = None
                                      /\ other.order.id = call.order.id) => other = call

\* An order leaves for the exchange once for each click on a row, and once more
\* for each move whose cancel was taken: no double click, switch or drag sends a
\* ticket again. So a ticket clicked without FAST and SIM never leaves.
EveryEntryHasItsClick ==
    [][\A call \in ticketCalls' \ ticketCalls : (Enters(call) /\ call.state = None)
         => \/ sent' = sent + 1 /\ call.order.id = sent'
            \/ \E move \in ticketCalls : move.kind = "move" /\ move.ok /\ move.order = call.order]_ladderVars
-----------------------------------------------------------------------------
(* What a depth ladder shows: the stream of its product's book, the rows       *)
(* around an anchor that stays until it is moved, the depth and the shared     *)
(* orders grouped on the rows (a ladder's own tickets keep the row they were    *)
(* clicked on). Prices are in half ticks: a tick is 2.                         *)
CONSTANTS LadderSymbols,  \* products
          Mids,           \* per product, the bids its market moves between
          Resting,        \* shared working orders, [symbol, price, size]
          Multipliers,    \* of 1, 2, 4, 8, 16
          BodyHeights,    \* measured heights in pixels, 0 before the first
          MaxPulls,       \* bound on the requests on their way
          MaxOffset       \* bound on how far the ladder is scrolled

ViewTick == 2
RowHeight == 24

VARIABLES bestBid,     \* the venue: the best bid per product
          shownSymbol, pulling, \* the product and the requests on their way
          depth,       \* the book of the stream, [symbol, bid]
          anchor,      \* ladderAnchor, [symbol, center]
          centredFor,  \* initialCenterMarketRef
          multiplier, bodyHeight
viewVars == <<bestBid, shownSymbol, pulling, depth, anchor, centredFor, multiplier, bodyHeight>>

(* Three levels a side, a tick apart; a level's size tells it from the rest. *)
BidLevels(bid) == [n \in 1..3 |-> [price |-> bid - ViewTick * (n - 1), size |-> n]]
AskLevels(bid) == [n \in 1..3 |-> [price |-> bid + ViewTick * n, size |-> n + 3]]
RowStep == ViewTick * multiplier
RoundTo(price, step) == ((2 * price + step) \div (2 * step)) * step
(* The middle of the book, or the price the product is listed with.          *)
Middle(symbol, book) == IF book = None THEN Min(Mids[symbol]) ELSE book.bid + ViewTick \div 2

(* The sum of what rounds to a row, over levels or orders.                   *)
Grouped(levels, key) ==
    MapThenSumSet(LAMBDA l : l.size, {l \in levels : RoundTo(l.price, RowStep) = key})
DepthLevels == IF depth = None THEN {}
               ELSE Range(BidLevels(depth.bid)) \cup Range(AskLevels(depth.bid))
OrdersHere == {order \in Resting : order.symbol = shownSymbol}

(* An odd number of rows around the anchor, enough for the body.             *)
RowCount == LET measured == ClampLow(((IF bodyHeight = 0 THEN 504 ELSE bodyHeight)
                                      + RowHeight - 1) \div RowHeight + 2, 9, 241)
            IN IF measured % 2 = 0 THEN Lesser(241, measured + 1) ELSE measured
Levels ==
    IF anchor = None \/ anchor.symbol # shownSymbol THEN <<>>
    ELSE [i \in 1..RowCount |->
            LET key == RoundTo(anchor.center + (RowCount \div 2 + 1 - i) * RowStep, RowStep)
            IN [key |-> key, size |-> Grouped(DepthLevels, key), mine |-> Grouped(OrdersHere, key)]]

ViewInit ==
    /\ bestBid = [s \in LadderSymbols |-> Min(Mids[s])]
    /\ shownSymbol = None /\ pulling = {} /\ depth = None
    /\ anchor = None /\ centredFor = None
    /\ multiplier = 1 /\ bodyHeight = 0

(* The effect that centres: once for a product, on the first book there is.  *)
Centred(symbol, book, ref, kept) ==
    IF symbol # None /\ ref # symbol /\ book # None
    THEN /\ anchor' = [symbol |-> symbol, center |-> RoundTo(Middle(symbol, book), RowStep)]
         /\ centredFor' = symbol
    ELSE anchor' = kept /\ centredFor' = ref

QuoteMoves(s) == \E bid \in Mids[s] :
    /\ bestBid' = [bestBid EXCEPT ![s] = bid]
    /\ UNCHANGED <<shownSymbol, pulling, depth, anchor, centredFor, multiplier, bodyHeight>>
(* Another product: the anchor goes, the book stays until the next answer,    *)
(* and the effect that centres runs with it.                                  *)
SelectLadder(s) ==
    /\ shownSymbol # s
    /\ shownSymbol' = s
    /\ pulling' = {[pull EXCEPT !.alive = FALSE] : pull \in pulling}
    /\ depth' = depth
    /\ Centred(s, depth, None, None)
    /\ UNCHANGED <<bestBid, multiplier, bodyHeight>>
PullBook ==
    /\ shownSymbol # None
    /\ Cardinality(pulling) < MaxPulls
    /\ pulling' = pulling \cup {[symbol |-> shownSymbol, bid |-> bestBid[shownSymbol], alive |-> TRUE]}
    /\ UNCHANGED <<bestBid, shownSymbol, depth, anchor, centredFor, multiplier, bodyHeight>>

\* Mutant: an answer is taken whatever product the ladder shows.
AnyAnswer(pull) == TRUE

(* ingestBook: the answer of a product that was left is not taken.           *)
Accepted(pull) == pull.alive
DepthArrives(pull) ==
    /\ pull \in pulling
    /\ pulling' = pulling \ {pull}
    /\ IF Accepted(pull)
       THEN /\ depth' = [symbol |-> pull.symbol, bid |-> pull.bid]
            /\ Centred(shownSymbol, depth', centredFor, anchor)
       ELSE UNCHANGED <<depth, anchor, centredFor>>
    /\ UNCHANGED <<bestBid, shownSymbol, multiplier, bodyHeight>>

(* recenterLadder, with or without a book; shiftLadderRows.                  *)
Recenter ==
    /\ shownSymbol # None
    /\ anchor' = [symbol |-> shownSymbol, center |-> RoundTo(Middle(shownSymbol, depth), RowStep)]
    /\ centredFor' = shownSymbol
    /\ UNCHANGED <<bestBid, shownSymbol, pulling, depth, multiplier, bodyHeight>>
ShiftRows(rows) ==
    /\ shownSymbol # None
    /\ LET current == IF anchor # None THEN anchor.center ELSE RoundTo(Middle(shownSymbol, depth), RowStep)
           center == RoundTo(current + rows * RowStep, RowStep)
       IN /\ center - Middle(shownSymbol, depth) \in (-MaxOffset)..MaxOffset
          /\ anchor' = [symbol |-> shownSymbol, center |-> center]
    /\ UNCHANGED <<bestBid, shownSymbol, pulling, depth, centredFor, multiplier, bodyHeight>>
SetMultiplier(m) ==
    /\ multiplier' = m
    /\ UNCHANGED <<bestBid, shownSymbol, pulling, depth, anchor, centredFor, bodyHeight>>
MeasureBody(h) ==
    /\ bodyHeight' = h
    /\ UNCHANGED <<bestBid, shownSymbol, pulling, depth, anchor, centredFor, multiplier>>

ViewNext ==
    \/ \E s \in LadderSymbols : QuoteMoves(s) \/ SelectLadder(s)
    \/ PullBook \/ Recenter
    \/ \E pull \in pulling : DepthArrives(pull)
    \/ \E rows \in {-10, -3, -1, 1, 3, 10} : ShiftRows(rows)
    \/ \E m \in Multipliers : SetMultiplier(m)
    \/ \E h \in BodyHeights : MeasureBody(h)
ViewSpec == ViewInit /\ [][ViewNext]_viewVars

SizesOf(levels) == MapThenSumSet(LAMBDA l : l.size, levels)

\* Whatever the multiplier was when the ladder was anchored and scrolled, no two
\* rows carry one price, and the rows carry the whole of the depth and of the
\* shared orders that lie in their range: nothing falls between two rows.
RowsCarryTheDepth ==
    LET rows == Levels
        InRange(levels) == {l \in levels : LET key == RoundTo(l.price, RowStep)
                            IN key <= rows[1].key /\ key >= rows[Len(rows)].key}
        Shown(Of(_)) == FoldSeq(LAMBDA row, sum : Of(row) + sum, 0, rows)
    IN rows # <<>> =>
        /\ \A i \in 1..(Len(rows) - 1) : rows[i].key > rows[i + 1].key
        /\ Shown(LAMBDA row : row.size) = SizesOf(InRange(DepthLevels))
        /\ Shown(LAMBDA row : row.mine) = SizesOf(InRange(OrdersHere))

\* The book changes only to one of the product the ladder shows, whatever answers
\* of products it has left are still on their way.
BookOfItsProduct == [][depth' # depth => depth'.symbol = shownSymbol']_viewVars
=============================================================================
