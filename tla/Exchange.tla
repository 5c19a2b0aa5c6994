------------------------------- MODULE Exchange -------------------------------
(***************************************************************************)
(* The matching engine, class DeterministicExchange of                     *)
(* native/cerious-exchange-cpp/src/DeterministicExchange.hpp, one step per *)
(* iteration of its loops.                                                 *)
(*                                                                         *)
(* server.cpp runs every operation under one mutex, so an operation starts *)
(* only when the previous one has returned: ctl = "idle".  SubmitOrder and *)
(* ReplaceOrder then hand the accepted order to the matching loop          *)
(* (ctl = "match": MatchIncoming until it ends in FinishIncoming), and     *)
(* ApplyMarketData hands its tick to the sweep (ctl = "sweep").  No other  *)
(* action is enabled in between.                                           *)
(***************************************************************************)
EXTENDS ExchangeTypes, SequencesExt

CONSTANT MaxSequence   \* no operation starts once sequence_ has reached it

ASSUME MaxSequenceAssumption == MaxSequence \in Nat

VARIABLES
  queue,      \* books_: queue[s][d][p] is the FIFO queue of symbol s, side d at
              \* tick p; <<>> when the map has no such level
  registry,   \* registry_: where each resting order is, or Nowhere
  sequence,   \* sequence_
  ctl,        \* what the running operation is doing: "idle", "match", "sweep"
  incoming,   \* the order match_incoming works on, None outside it
  tick,       \* book.market while the sweep reads it, None outside it
  batch       \* GatewayEventBatch of the running, or of the last, operation

vars == <<queue, registry, sequence, ctl, incoming, tick, batch>>

EmptyBook == [s \in Products |-> [d \in Sides |-> [p \in Ticks |-> <<>>]]]

EmptyBatch == [reports |-> <<>>, deltas |-> <<>>]

(***************************************************************************)
(* Execution reports and book deltas.                                      *)
(***************************************************************************)
\* report_for, with the sequence number n it draws.  lim is limit_price.
ReportFor(o, status, n) ==
  [id |-> o.id, contra |-> NoId, sym |-> o.sym, side |-> o.side, status |-> status,
   lim |-> FromTicks(o.px), px |-> 0, fill |-> 0, rem |-> o.rem, seq |-> n]

\* reject
Reject(id, n) ==
  [id |-> id, contra |-> NoId, sym |-> None, side |-> None, status |-> "rejected",
   lim |-> 0, px |-> 0, fill |-> 0, rem |-> 0, seq |-> n]

\* fill_report: o has just traded qty at tick p with contra.
FillReport(o, contra, qty, p, n) ==
  [ReportFor(o, IF o.rem = 0 THEN "filled" ELSE "partial", n)
     EXCEPT !.contra = contra, !.px = FromTicks(p), !.fill = qty]

\* The contra id of a fill the market-data sweep makes.
MarketData == "MARKET_DATA"

\* aggregate_quantity of a queue
AggregateQuantity(q) == FoldLeft(LAMBDA total, o : total + o.rem, 0, q)

\* append_book_delta: what one level has become.
BookDelta(s, d, p, act, q, n) ==
  [sym |-> s, side |-> d, px |-> FromTicks(p), act |-> act,
   qty |-> AggregateQuantity(q), orders |-> Len(q), seq |-> n]

\* The delta for a level that an order has left: Delete once it is empty.
LevelDelta(s, d, p, q, n) ==
  BookDelta(s, d, p, IF q = <<>> THEN "delete" ELSE "modify", q, n)

(***************************************************************************)
(* The book.                                                               *)
(***************************************************************************)
SetLevel(s, d, p, q) == [queue EXCEPT ![s][d][p] = q]

\* Mutant: both maps are ordered like the bids.
IsHighest(s, d, p) ==
  /\ queue[s][d][p] # <<>>
  /\ \A r \in Ticks : queue[s][d][r] # <<>> => r <= p

\* p is the first level of the std::map of side d.
IsBest(s, d, p) ==
  /\ queue[s][d][p] # <<>>
  /\ \A r \in Ticks : queue[s][d][r] # <<>> => r = p \/ Better(d, p, r)

\* OrderLocation::iterator
PositionOf(id, q) == CHOOSE i \in DOMAIN q : q[i].id = id

\* remove_registered: the level of id without it.
LevelWithout(id) ==
  LET q == queue[registry[id].sym][registry[id].side][registry[id].px]
  IN RemoveAt(q, PositionOf(id, q))

RegisteredOrder(id) ==
  LET q == queue[registry[id].sym][registry[id].side][registry[id].px]
  IN q[PositionOf(id, q)]

RemovalDelta(id) ==
  LET loc == registry[id]
  IN LevelDelta(loc.sym, loc.side, loc.px, LevelWithout(id), sequence)

\* Mutant: registry_.erase is forgotten.
RemoveFromQueueOnly(id) ==
  LET loc == registry[id]
  IN /\ queue' = SetLevel(loc.sym, loc.side, loc.px, LevelWithout(id))
     /\ registry' = registry

\* The queues and the registry after remove_registered(id).
RemoveRegistered(id) ==
  LET loc == registry[id]
  IN /\ queue' = SetLevel(loc.sym, loc.side, loc.px, LevelWithout(id))
     /\ registry' = [registry EXCEPT ![id] = Nowhere]

Init ==
  /\ queue = EmptyBook
  /\ registry = [id \in Ids |-> Nowhere]
  /\ sequence = 0
  /\ ctl = "idle"
  /\ incoming = None
  /\ tick = None
  /\ batch = EmptyBatch

\* The mutex is free.  MaxSequence is the bound of the model.
Ready == ctl = "idle" /\ sequence < MaxSequence

(***************************************************************************)
(* submit_order_batch, up to the matching loop.                            *)
(***************************************************************************)
Registered == {id \in Ids : registry[id] # Nowhere}

\* Accept c after `before` has been reported, with n the last sequence drawn.
Enter(c, n, before) ==
  LET o == OrderOf(c, n + 1)
  IN /\ ctl' = "match"
     /\ incoming' = o
     /\ sequence' = n + 2
     /\ batch' = [before EXCEPT !.reports = Append(@, ReportFor(o, "accepted", n + 2))]

\* The rejection of a command, likewise.
Bounce(c, n, before) ==
  /\ sequence' = n + 1
  /\ batch' = [before EXCEPT !.reports = Append(@, Reject(c.id, n + 1))]
  /\ UNCHANGED <<ctl, incoming>>

SubmitOrder(c) ==
  /\ Ready
  /\ \/ Refused(c, Registered) /\ Bounce(c, sequence, EmptyBatch)
     \/ ~Refused(c, Registered) /\ Enter(c, sequence, EmptyBatch)
  /\ UNCHANGED <<queue, registry, tick>>

(***************************************************************************)
(* match_incoming: one trade with the oldest order of the best level.  The *)
(* level's delta follows the last trade at it.                             *)
(***************************************************************************)
CanMatch(p) ==
  /\ incoming.rem > 0
  /\ IsBest(incoming.sym, Opposite(incoming.side), p)
  /\ Crosses(incoming.side, incoming.px, p)

\* Mutant: the resting quantity is traded whatever is asked for.
TradeWhole(in, at) == at.rem

\* std::min(incoming.remaining_quantity, resting.remaining_quantity)
TradeQuantity(in, at) == IF in.rem <= at.rem THEN in.rem ELSE at.rem

MatchIncoming(p) ==
  /\ ctl = "match"
  /\ CanMatch(p)
  /\ LET s == incoming.sym
         d == Opposite(incoming.side)
         q == queue[s][d][p]
         resting == Head(q)
         qty == TradeQuantity(incoming, resting)
         taker == [incoming EXCEPT !.rem = @ - qty]
         maker == [resting EXCEPT !.rem = @ - qty]
         left == IF maker.rem = 0 THEN Tail(q) ELSE [q EXCEPT ![1] = maker]
         fills == <<FillReport(taker, maker.id, qty, p, sequence + 1),
                    FillReport(maker, taker.id, qty, p, sequence + 2)>>
         done == left = <<>> \/ taker.rem = 0
     IN /\ incoming' = taker
        /\ queue' = SetLevel(s, d, p, left)
        /\ registry' = IF maker.rem = 0
                       THEN [registry EXCEPT ![maker.id] = Nowhere]
                       ELSE registry
        /\ sequence' = sequence + 2
        /\ batch' = [reports |-> batch.reports \o fills,
                     deltas |-> IF done
                                THEN Append(batch.deltas, LevelDelta(s, d, p, left, sequence + 2))
                                ELSE batch.deltas]
  /\ UNCHANGED <<ctl, tick>>

\* Mutant: the new order goes in front of its level.
EnqueueInFront(q, o) == <<o>> \o q

\* rest_order: behind every order of its level.
Enqueue(q, o) == Append(q, o)

RestOrder ==
  LET o == incoming
      q == queue[o.sym][o.side][o.px]
      act == IF q = <<>> THEN "add" ELSE "modify"
  IN /\ queue' = SetLevel(o.sym, o.side, o.px, Enqueue(q, o))
     /\ registry' = [registry EXCEPT ![o.id] = [sym |-> o.sym, side |-> o.side, px |-> o.px]]
     /\ sequence' = sequence + 1
     /\ batch' = [reports |-> Append(batch.reports, ReportFor(o, "working", sequence + 1)),
                  deltas |-> Append(batch.deltas,
                               BookDelta(o.sym, o.side, o.px, act, Enqueue(q, o), sequence))]

\* The loop is over: rest the remainder, report it canceled, or nothing is left.
FinishIncoming ==
  /\ ctl = "match"
  /\ \A p \in Ticks : ~CanMatch(p)
  /\ \/ Rests(incoming) /\ RestOrder
     \/ /\ incoming.rem > 0 /\ ~Rests(incoming)
        /\ sequence' = sequence + 1
        /\ batch' = [batch EXCEPT !.reports =
                       Append(@, ReportFor(incoming, "cancelled", sequence + 1))]
        /\ UNCHANGED <<queue, registry>>
     \/ /\ incoming.rem = 0
        /\ UNCHANGED <<queue, registry, sequence, batch>>
  /\ ctl' = "idle"
  /\ incoming' = None
  /\ UNCHANGED tick

(***************************************************************************)
(* cancel_order_batch and replace_order_batch.                             *)
(***************************************************************************)
UnknownOrder(id) ==
  /\ id \notin Registered
  /\ sequence' = sequence + 1
  /\ batch' = [EmptyBatch EXCEPT !.reports = <<Reject(id, sequence + 1)>>]
  /\ UNCHANGED <<queue, registry, ctl, incoming>>

CancelOrder(id) ==
  /\ Ready
  /\ \/ UnknownOrder(id)
     \/ /\ id \in Registered
        /\ RemoveRegistered(id)
        /\ sequence' = sequence + 1
        /\ batch' = [reports |-> <<ReportFor(RegisteredOrder(id), "cancelled", sequence + 1)>>,
                     deltas |-> <<RemovalDelta(id)>>]
        /\ UNCHANGED <<ctl, incoming>>
  /\ UNCHANGED tick

ReplaceOrder(id, px, qty) ==
  /\ Ready
  /\ \/ UnknownOrder(id)
     \/ /\ id \in Registered
        /\ RemoveRegistered(id)
        /\ LET old == RegisteredOrder(id)
               c == Amended(old, px, qty)
               n == sequence + 1
               before == [reports |-> <<ReportFor(old, "replaced", n)>>,
                          deltas |-> <<RemovalDelta(id)>>]
           IN \/ Refused(c, Registered \ {id}) /\ Bounce(c, n, before)
              \/ ~Refused(c, Registered \ {id}) /\ Enter(c, n, before)
  /\ UNCHANGED tick

(***************************************************************************)
(* apply_market_data_batch and sweep_marketable_resting_orders.            *)
(***************************************************************************)
ApplyMarketData(t) ==
  /\ Ready
  /\ batch' = EmptyBatch
  /\ \/ t.sym \in Products /\ ctl' = "sweep" /\ tick' = t
     \/ t.sym \notin Products /\ UNCHANGED <<ctl, tick>>
  /\ UNCHANGED <<queue, registry, sequence, incoming>>

CanSweep(d, p) == IsBest(tick.sym, d, p) /\ Triggered(tick, d, p)

\* One order filled in full at its own price; all asks before the first bid.
SweepOrder(d, p) ==
  /\ ctl = "sweep"
  /\ CanSweep(d, p)
  /\ d = "buy" => \A a \in Ticks : ~CanSweep("sell", a)
  /\ LET q == queue[tick.sym][d][p]
         o == [Head(q) EXCEPT !.rem = 0]
     IN /\ queue' = SetLevel(tick.sym, d, p, Tail(q))
        /\ registry' = [registry EXCEPT ![o.id] = Nowhere]
        /\ sequence' = sequence + 1
        /\ batch' = [reports |-> Append(batch.reports,
                                   FillReport(o, MarketData, Head(q).rem, p, sequence + 1)),
                     deltas |-> IF Tail(q) = <<>>
                                THEN Append(batch.deltas,
                                       LevelDelta(tick.sym, d, p, <<>>, sequence + 1))
                                ELSE batch.deltas]
  /\ UNCHANGED <<ctl, incoming, tick>>

\* Mutant: an order that is not triggered does not end the loop.
FinishSweepOnEmptyBook ==
  /\ ctl = "sweep"
  /\ \A d \in Sides, p \in Ticks : queue[tick.sym][d][p] = <<>>
  /\ ctl' = "idle"
  /\ tick' = None
  /\ UNCHANGED <<queue, registry, sequence, incoming, batch>>

\* The best order of each side is out of the tick's reach.
FinishSweep ==
  /\ ctl = "sweep"
  /\ \A d \in Sides, p \in Ticks : ~CanSweep(d, p)
  /\ ctl' = "idle"
  /\ tick' = None
  /\ UNCHANGED <<queue, registry, sequence, incoming, batch>>

\* reset: no report and no delta is produced.
Reset ==
  /\ Ready
  /\ queue' = EmptyBook
  /\ registry' = [id \in Ids |-> Nowhere]
  /\ sequence' = sequence + 1
  /\ batch' = EmptyBatch
  /\ UNCHANGED <<ctl, incoming, tick>>

\* The process ends, even inside an operation, and the host service starts it
\* again (restart_exchange in cerious-host-cpp): nothing is persisted.
Restart ==
  /\ queue' = EmptyBook
  /\ registry' = [id \in Ids |-> Nowhere]
  /\ sequence' = 0
  /\ ctl' = "idle"
  /\ incoming' = None
  /\ tick' = None
  /\ batch' = EmptyBatch

Step ==
  \/ \E p \in Ticks : MatchIncoming(p)
  \/ FinishIncoming
  \/ \E d \in Sides, p \in Ticks : SweepOrder(d, p)
  \/ FinishSweep

Next ==
  \/ \E c \in Command : SubmitOrder(c)
  \/ \E id \in Ids : CancelOrder(id)
  \/ \E id \in Ids, px \in RawPrices \cup {None, NaN}, qty \in Quantities \cup {None} :
       ReplaceOrder(id, px, qty)
  \/ \E t \in Tick : ApplyMarketData(t)
  \/ Reset
  \/ Restart
  \/ Step

Spec == Init /\ [][Next]_vars

\* An operation that has started runs on: its loops contain nothing that blocks.
FairSpec == Spec /\ WF_vars(Step)
-----------------------------------------------------------------------------
(***************************************************************************)
(* Properties.                                                             *)
(***************************************************************************)
\* Type invariant.  One operation at a time: an order is being matched exactly in
\* "match", a tick swept exactly in "sweep".
TypeOK ==
  /\ queue \in [Products -> [Sides -> [Ticks -> Seq(Order)]]]
  /\ registry \in [Ids -> Location \cup {Nowhere}]
  /\ sequence \in Nat
  /\ ctl \in {"idle", "match", "sweep"}
  /\ IF ctl = "match" THEN incoming \in Order ELSE incoming = None
  /\ IF ctl = "sweep" THEN tick \in Tick /\ tick.sym \in Products ELSE tick = None

\* Every queued order is a live limit order filed under its own symbol, side and
\* price: nothing filled, market or immediate-or-cancel is ever left in the book.
QueuedOrdersAreLive ==
  \A s \in Products, d \in Sides, p \in Ticks :
    \A i \in DOMAIN queue[s][d][p] :
      LET o == queue[s][d][p][i]
      IN /\ o.sym = s /\ o.side = d /\ o.px = p
         /\ o.rem > 0 /\ o.rem <= o.orig
         /\ o.type = "limit" /\ o.tif # "ioc"

\* registry_ and the books agree, so that cancel and replace always reach a live
\* list iterator: each registered id is queued where its location says, and each
\* queued order is registered there, once.
RegistryMatchesBook ==
  /\ \A id \in Ids : registry[id] # Nowhere =>
       \E i \in DOMAIN queue[registry[id].sym][registry[id].side][registry[id].px] :
         queue[registry[id].sym][registry[id].side][registry[id].px][i].id = id
  /\ \A s \in Products, d \in Sides, p \in Ticks :
       \A i \in DOMAIN queue[s][d][p] :
         /\ registry[queue[s][d][p][i].id] = [sym |-> s, side |-> d, px |-> p]
         /\ \A j \in DOMAIN queue[s][d][p] :
              queue[s][d][p][i].id = queue[s][d][p][j].id => i = j

\* The order being matched is new to the book: its id is not registered, so
\* nothing can cancel or replace it and resting it overwrites no location, and it
\* is younger than every queued order, so that its place is the last.
IncomingIsNew ==
  ctl = "match" =>
    /\ registry[incoming.id] = Nowhere
    /\ incoming.rem <= incoming.orig
    /\ incoming.seq <= sequence
    /\ \A s \in Products, d \in Sides, p \in Ticks :
         \A i \in DOMAIN queue[s][d][p] : queue[s][d][p][i].seq < incoming.seq

\* No bid rests at or above an ask, whatever sequence of operations led here and
\* even between two trades of one match.
BookUncrossed ==
  \A s \in Products : \A b, a \in Ticks :
    queue[s]["buy"][b] # <<>> /\ queue[s]["sell"][a] # <<>> => b < a

\* "Same-millisecond FIFO is resolved by a monotonic sequence number": the order
\* of a queue is the order of the sequence numbers, all of them drawn already.
FifoBySequence ==
  \A s \in Products, d \in Sides, p \in Ticks :
    \A i, j \in DOMAIN queue[s][d][p] :
      /\ queue[s][d][p][i].seq <= sequence
      /\ i < j => queue[s][d][p][i].seq < queue[s][d][p][j].seq

\* The inductive invariant of the proofs.
BookInv ==
  /\ queue \in [Products -> [Sides -> [Ticks -> Seq(Order)]]]
  /\ registry \in [Ids -> Location \cup {Nowhere}]
  /\ sequence \in Nat
  /\ QueuedOrdersAreLive
  /\ RegistryMatchesBook
  /\ BookUncrossed
  /\ FifoBySequence

IInv == TypeOK /\ BookInv /\ IncomingIsNew

\* "Matching uses price/time priority": an order that a match or a sweep touches
\* has no better order, by price and then by sequence number, beside it.
TouchedFirst ==
  \A s \in Products, d \in Sides, p \in Ticks :
    \A i \in DOMAIN queue[s][d][p] :
      LET o == queue[s][d][p][i]
      IN (\A j \in DOMAIN queue[s][d][p]' : queue[s][d][p]'[j] # o)
         => \A r \in Ticks : \A k \in DOMAIN queue[s][d][r] :
              /\ ~Better(d, r, p)
              /\ r = p => o.seq <= queue[s][d][r][k].seq

PriceTimePriority ==
  [][ctl # "idle" /\ sequence' > sequence => TouchedFirst]_vars

\* "Incoming orders execute at the resting order price", which is never worse
\* than the limit, rounded to a tick, of either order.
FillsWithinLimit ==
  \A i \in DOMAIN batch.reports :
    LET r == batch.reports[i]
    IN r.fill > 0 => IF r.side = "buy" THEN r.px <= r.lim ELSE r.px >= r.lim

\* The sequence numbers of a batch grow, across the match and a replace's two
\* halves, and no delta carries a number the engine has not drawn.
BatchIsSequenced ==
  /\ \A i, j \in DOMAIN batch.reports :
       i < j => batch.reports[i].seq < batch.reports[j].seq
  /\ \A i \in DOMAIN batch.reports : batch.reports[i].seq <= sequence
  /\ \A i, j \in DOMAIN batch.deltas :
       /\ batch.deltas[i].seq <= sequence
       /\ i < j => batch.deltas[i].seq <= batch.deltas[j].seq

\* What a batch tells is sound: no fill beyond either order's limit on either side of
\* zero, and numbers that grow through a match and through both halves of a replace.
BatchIsSound == FillsWithinLimit /\ BatchIsSequenced

\* Every operation returns: neither loop can go round for ever.
OperationReturns == ctl # "idle" ~> ctl = "idle"
=============================================================================
