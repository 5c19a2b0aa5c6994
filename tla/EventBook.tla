------------------------------ MODULE EventBook -------------------------------
(***************************************************************************)
(* The book a terminal rebuilds from the deltas of the exchange:           *)
(* apps/terminal/src/hooks/useGatewayEventBook.ts behind a feed of the     *)
(* event packets.  Packets are buffered as they come and applied together  *)
(* by a timer.  The hook never reconnects: after the connection the view   *)
(* is what it was, so the model ends there and has no Restart.             *)
(***************************************************************************)
EXTENDS Exchange

CONSTANTS
  Quoted,      \* the product of the feed; the hook does not look at the symbol
  MaxLevels,   \* maxLevels
  MaxBuffer    \* bound: packets that may wait for the timer

ASSUME EventBookAssumption ==
  /\ Products = {Quoted}
  /\ MaxLevels \in Nat \ {0} /\ MaxBuffer \in Nat \ {0}

VARIABLES
  buffer,      \* incomingBuffer
  view,        \* orderBook: view[d][p], NoLevel where there is no such key
  stale        \* history: levels that changed, or left the view, without a delta

eventBookVars == <<vars, buffer, view, stale>>

Level == [qty: Int, orders: Nat]
NoLevel == [qty |-> 0, orders |-> 0]

EmptyView == [d \in Sides |-> [p \in Ticks |-> NoLevel]]

\* What the book holds at a level.
LevelOf(d, p) ==
  LET q == queue[Quoted][d][p] IN [qty |-> AggregateQuantity(q), orders |-> Len(q)]

(***************************************************************************)
(* applyGatewayEventPacket.                                                *)
(***************************************************************************)
Removed(delta) == delta.act = "delete" \/ delta.qty <= 0 \/ delta.orders <= 0

ApplyDelta(book, delta) ==
  [book EXCEPT ![delta.side][ToTicks(delta.px)] =
     IF Removed(delta) THEN NoLevel ELSE [qty |-> delta.qty, orders |-> delta.orders]]

\* The prices of side d ahead of p: above it for the bids, below it for the asks.
AheadOf(book, d, p) == {r \in Ticks : book[d][r] # NoLevel /\ Better(d, r, p)}

\* boundBook, on both sides: the best MaxLevels levels.
BoundBook(book) ==
  [d \in Sides |-> [p \in Ticks |->
     IF Cardinality(AheadOf(book, d, p)) < MaxLevels THEN book[d][p] ELSE NoLevel]]

ApplyPacket(book, deltas) == BoundBook(FoldLeft(ApplyDelta, book, deltas))

\* Mutant: of the packets that waited only the newest is applied.
ViewAfterNewest(packets) == ApplyPacket(view, Last(packets))

ViewAfter(packets) == FoldLeft(ApplyPacket, view, packets)

(***************************************************************************)
(* Actions.                                                                *)
(***************************************************************************)
EventBookInit ==
  /\ Init
  /\ buffer = <<>> /\ view = EmptyView /\ stale = {}

Queued == {l \in Sides \X Ticks : queue[Quoted][l[1]][l[2]] # <<>>}

Named(deltas) == {<<deltas[i].side, ToTicks(deltas[i].px)>> : i \in DOMAIN deltas}

\* A step of an operation; the packet of one that returns goes out to the feed.
Operate ==
  /\ Len(buffer) < MaxBuffer
  /\ \/ \E c \in Command : SubmitOrder(c)
     \/ \E id \in Ids : CancelOrder(id)
     \/ \E id \in Ids, px \in RawPrices \cup {None, NaN}, qty \in Quantities \cup {None} :
          ReplaceOrder(id, px, qty)
     \/ \E t \in Tick : ApplyMarketData(t)
     \/ Step
  /\ buffer' = IF ctl' = "idle" /\ batch'.deltas # <<>> THEN Append(buffer, batch'.deltas) ELSE buffer
  /\ stale' = IF ctl' = "idle" THEN stale \ Named(batch'.deltas) ELSE stale
  /\ UNCHANGED view

\* The timer: every packet that waits is applied.
Render ==
  /\ buffer # <<>>
  /\ LET unbounded == FoldLeft(LAMBDA b, deltas : FoldLeft(ApplyDelta, b, deltas), view, buffer)
         dropped(d, p) == unbounded[d][p] # NoLevel /\ ViewAfter(buffer)[d][p] = NoLevel
     IN stale' = stale \cup {l \in Sides \X Ticks : dropped(l[1], l[2])}
  /\ view' = ViewAfter(buffer)
  /\ buffer' = <<>>
  /\ UNCHANGED vars

\* The levels a reset empties are told to nobody.
ResetBook ==
  /\ Reset
  /\ stale' = stale \cup Queued
  /\ UNCHANGED <<buffer, view>>

EventBookNext == Operate \/ Render \/ ResetBook

EventBookSpec == EventBookInit /\ [][EventBookNext]_eventBookVars
-----------------------------------------------------------------------------
(***************************************************************************)
(* Properties.                                                             *)
(***************************************************************************)
\* Type invariant.  Neither side of the view is ever deeper than MaxLevels.
EventBookTypeOK ==
  /\ view \in [Sides -> [Ticks -> Level]]
  /\ stale \subseteq Sides \X Ticks
  /\ \A d \in Sides : Cardinality({p \in Ticks : view[d][p] # NoLevel}) <= MaxLevels

CaughtUp == ctl = "idle" /\ buffer = <<>>

\* The deltas suffice: whatever trades, replaces and sweeps an operation was made of,
\* and however many of their packets were applied at once, a level the view was told
\* of last has the quantity and the number of orders it has in the book, and a level
\* it has not is empty there.
ViewMatchesBook ==
  CaughtUp => \A d \in Sides, p \in Ticks :
    <<d, p>> \notin stale => view[d][p] = LevelOf(d, p)
=============================================================================
