------------------------------- MODULE Ledger --------------------------------
(***************************************************************************)
(* The fills, positions and marks that ExchangeServerState of              *)
(* native/cerious-exchange-cpp/src/server.cpp keeps beside the engine.     *)
(*                                                                         *)
(* Every endpoint holds one mutex from the engine's operation to the end   *)
(* of apply_batch, so the whole batch is booked in the step that ends the  *)
(* operation; a market tick moves the mark before the sweep.  The history  *)
(* variables cash and external remember what the ledger should amount to.  *)
(***************************************************************************)
EXTENDS Exchange

CONSTANTS
  MaxFills,    \* fills_ keeps the newest that many (5000 in the code)
  Multiplier   \* ProductSpec::multiplier of each product

ASSUME LedgerAssumption ==
  /\ MaxFills \in Nat \ {0}
  /\ Multiplier \in [Products -> Nat \ {0}]

VARIABLES
  fills,       \* fills_
  positions,   \* positions_, NoPosition where the map has no entry
  marks,       \* marks_, None where the map has no entry
  cash,        \* history: what each product's buys cost less what its sells gave
  external,    \* history: the net quantity of each that ticks have filled
  lost         \* history: a recorded fill has been dropped from fills

books == <<fills, positions, marks, cash, external, lost>>
ledgerVars == <<vars, books>>

(***************************************************************************)
(* Averages are fractions: <<n, d>> in lowest terms, d > 0.                *)
(***************************************************************************)
Magnitude(n) == IF n < 0 THEN -n ELSE n

Fraction(n, d) ==
  LET g == CHOOSE k \in 1..d :
             /\ d % k = 0 /\ n % k = 0
             /\ \A j \in (k + 1)..d : d % j = 0 => n % j # 0
  IN <<n \div g, d \div g>>

Whole(n) == <<n, 1>>

Plus(x, y) == Fraction(x[1] * y[2] + y[1] * x[2], x[2] * y[2])

Scaled(x, k) == Fraction(x[1] * k, x[2])

Over(x, k) == Fraction(x[1], x[2] * k)

Minus(x, y) == Plus(x, Scaled(y, -1))

(***************************************************************************)
(* Positions.                                                              *)
(***************************************************************************)
NoPosition == [qty |-> None]

\* A default-constructed PositionState.
FlatPosition ==
  [qty |-> 0, buy |-> 0, sell |-> 0, avg |-> Whole(0), mark |-> Whole(0),
   open |-> Whole(0), realized |-> Whole(0)]

\* recalc_open_pnl
RecalcOpenPnl(pos, s) ==
  [pos EXCEPT !.open = Scaled(Minus(pos.mark, pos.avg), pos.qty * Multiplier[s])]

Signed(f) == IF f.side = "buy" THEN f.qty ELSE -f.qty

SameDirection(pos, f) == pos.qty = 0 \/ (pos.qty > 0 <=> Signed(f) > 0)

\* The fill opens the position or adds to it.
Extended(pos, f) ==
  LET total == Plus(Scaled(pos.avg, Magnitude(pos.qty)), Whole(f.px * f.qty))
  IN [pos EXCEPT !.avg = Over(total, Magnitude(pos.qty + Signed(f))), !.qty = @ + Signed(f)]

\* Mutant: a position that is turned over keeps the average of the closed one.
ReducedWithoutTurning(pos, f) ==
  LET closing == IF Magnitude(pos.qty) <= f.qty THEN Magnitude(pos.qty) ELSE f.qty
      direction == IF pos.qty > 0 THEN 1 ELSE -1
      remaining == pos.qty + Signed(f)
  IN [pos EXCEPT
        !.realized = Plus(@, Scaled(Minus(Whole(f.px), pos.avg),
                                    closing * direction * Multiplier[f.sym])),
        !.avg = IF remaining = 0 THEN Whole(0) ELSE @,
        !.qty = remaining]

\* The fill closes part of the position, or all of it, or turns it over.
Reduced(pos, f) ==
  LET closing == IF Magnitude(pos.qty) <= f.qty THEN Magnitude(pos.qty) ELSE f.qty
      direction == IF pos.qty > 0 THEN 1 ELSE -1
      remaining == pos.qty + Signed(f)
  IN [pos EXCEPT
        !.realized = Plus(@, Scaled(Minus(Whole(f.px), pos.avg),
                                    closing * direction * Multiplier[f.sym])),
        !.avg = IF remaining = 0 THEN Whole(0)
                ELSE IF (remaining > 0) = (pos.qty > 0) THEN @
                ELSE Whole(f.px),
        !.qty = remaining]

\* The mark of a filled position: the known one, or the price of the fill.
Marked(pos, f, known) ==
  RecalcOpenPnl([pos EXCEPT !.mark = IF known[f.sym] = None THEN Whole(f.px)
                                                           ELSE known[f.sym]], f.sym)

\* update_position
UpdatePosition(held, f, known) ==
  LET old == IF held[f.sym] = NoPosition THEN FlatPosition ELSE held[f.sym]
      counted == IF f.side = "buy" THEN [old EXCEPT !.buy = @ + f.qty]
                                   ELSE [old EXCEPT !.sell = @ + f.qty]
      moved == IF SameDirection(old, f) THEN Extended(counted, f) ELSE Reduced(counted, f)
  IN [held EXCEPT ![f.sym] = Marked(moved, f, known)]

(***************************************************************************)
(* Booking a batch.                                                        *)
(***************************************************************************)
FillState(r) ==
  [seq |-> r.seq, id |-> r.id, sym |-> r.sym, side |-> r.side, qty |-> r.fill, px |-> r.px]

\* The newest MaxFills of a sequence of fills.
Newest(s) == IF Len(s) > MaxFills THEN SubSeq(s, Len(s) - MaxFills + 1, Len(s)) ELSE s

\* record_fill, of a report that carries a fill; swept when a tick filled the order.
RecordFill(b, r, known, swept) ==
  LET f == FillState(r)
  IN [fills |-> Newest(Append(b.fills, f)),
      positions |-> UpdatePosition(b.positions, f, known),
      cash |-> [b.cash EXCEPT ![f.sym] = @ + Signed(f) * f.px],
      external |-> IF swept THEN [b.external EXCEPT ![f.sym] = @ + Signed(f)] ELSE b.external,
      lost |-> b.lost \/ Len(b.fills) = MaxFills]

\* The books b once the loop of apply_batch has been through the reports.
Booked(b, reports, known, swept) ==
  FoldLeft(LAMBDA sofar, r : IF r.fill <= 0 THEN sofar ELSE RecordFill(sofar, r, known, swept),
           b, reports)

Held == [fills |-> fills, positions |-> positions, cash |-> cash, external |-> external,
         lost |-> lost]

\* apply_batch
ApplyBatch(reports) ==
  LET b == Booked(Held, reports, marks, ctl = "sweep")
  IN /\ fills' = b.fills /\ positions' = b.positions
     /\ cash' = b.cash /\ external' = b.external /\ lost' = b.lost
     /\ UNCHANGED marks

\* The price update_mark takes from a tick, None when the tick has none.
MarkOf(t) ==
  IF t.last # None THEN Whole(t.last)
  ELSE IF t.bid # None /\ t.ask # None THEN Fraction(t.bid + t.ask, 2)
  ELSE IF t.bid # None THEN Whole(t.bid)
  ELSE IF t.ask # None THEN Whole(t.ask)
  ELSE None

\* update_mark; a symbol that is no product has a mark all the same.
UpdateMark(t) ==
  \/ /\ MarkOf(t) = None
     /\ UNCHANGED <<marks, positions>>
  \/ /\ MarkOf(t) # None
     /\ marks' = [marks EXCEPT ![t.sym] = MarkOf(t)]
     /\ positions' = IF t.sym \in Products /\ positions[t.sym] # NoPosition
                     THEN [positions EXCEPT ![t.sym] =
                             RecalcOpenPnl([positions[t.sym] EXCEPT !.mark = MarkOf(t)], t.sym)]
                     ELSE positions

NoPositions == [s \in Products |-> NoPosition]
NoTotals == [s \in Products |-> 0]

LedgerInit ==
  /\ Init
  /\ fills = <<>> /\ positions = NoPositions
  /\ marks = [s \in Symbols |-> None]
  /\ cash = NoTotals /\ external = NoTotals /\ lost = FALSE

\* The step of an operation of the engine: its batch is booked when it returns.
Book == IF ctl' = "idle" THEN ApplyBatch(batch'.reports) ELSE UNCHANGED books

\* send_order, cancel_order and replace_order
OrderEndpoint ==
  /\ \/ \E c \in Command : SubmitOrder(c)
     \/ \E id \in Ids : CancelOrder(id)
     \/ \E id \in Ids, px \in RawPrices \cup {None, NaN}, qty \in Quantities \cup {None} :
          ReplaceOrder(id, px, qty)
  /\ Book

\* The loops of a running operation.
Run == Step /\ Book

\* apply_market, up to the sweep.
ApplyMarket ==
  /\ \E t \in Tick : ApplyMarketData(t) /\ UpdateMark(t)
  /\ UNCHANGED <<fills, cash, external, lost>>

\* reset: marks_ outlives the positions.
ResetLedger(clearFills) ==
  /\ Reset
  /\ \/ /\ clearFills
        /\ fills' = <<>> /\ positions' = NoPositions
        /\ cash' = NoTotals /\ external' = NoTotals /\ lost' = FALSE
     \/ /\ ~clearFills
        /\ UNCHANGED <<fills, positions, cash, external, lost>>
  /\ UNCHANGED marks

RestartLedger ==
  /\ Restart
  /\ fills' = <<>> /\ positions' = NoPositions
  /\ marks' = [s \in Symbols |-> None]
  /\ cash' = NoTotals /\ external' = NoTotals /\ lost' = FALSE

LedgerNext ==
  \/ OrderEndpoint
  \/ Run
  \/ ApplyMarket
  \/ \E clearFills \in BOOLEAN : ResetLedger(clearFills)
  \/ RestartLedger

LedgerSpec == LedgerInit /\ [][LedgerNext]_ledgerVars
-----------------------------------------------------------------------------
(***************************************************************************)
(* Properties.                                                             *)
(***************************************************************************)
IsFraction(x) == x[1] \in Int /\ x[2] \in Nat \ {0}

\* Type invariant.  fills_ never holds more than its limit, and a position is flat
\* exactly when it has no average price to speak of.
LedgerTypeOK ==
  /\ Len(fills) <= MaxFills
  /\ \A i \in DOMAIN fills : fills[i].qty > 0 /\ fills[i].sym \in Products
  /\ \A s \in Products : positions[s] # NoPosition =>
       /\ positions[s].qty \in Int /\ positions[s].buy \in Nat /\ positions[s].sell \in Nat
       /\ \A x \in {"avg", "mark", "open", "realized"} : IsFraction(positions[s][x])

Position(s) == IF positions[s] = NoPosition THEN FlatPosition ELSE positions[s]

\* Orders matched with each other leave the net position where it was: both sides of
\* a trade are booked, so a position is what was traded against market data.
NetPositionIsExternal ==
  \A s \in Products :
    /\ Position(s).qty = external[s]
    /\ Position(s).qty = Position(s).buy - Position(s).sell

\* Whatever the order in which fills open, add to, reduce and turn over a position,
\* realized and open profit together are the value at the mark less the cash paid.
ProfitIsValueLessCash ==
  \A s \in Products :
    Plus(Position(s).realized, Position(s).open) =
      Scaled(Minus(Scaled(Position(s).mark, Position(s).qty), Whole(cash[s])), Multiplier[s])

\* A position is valued at the newest mark of its product, were it set by a tick that
\* came before the position, by one that filled it or by one that did not touch it.
MarksAreCurrent ==
  \A s \in Products :
    positions[s] # NoPosition /\ marks[s] # None => positions[s].mark = marks[s]

\* "CERX-FILL-" ids are unique among the fills that are kept: no reset, of the orders
\* alone or of everything, gives a sequence number out again.
FillIdsUnique ==
  \A i, j \in DOMAIN fills : fills[i].seq = fills[j].seq => i = j

\* What fills say was filled of an order: those under its id since it was entered.
FilledOf(list, o) ==
  FoldLeft(LAMBDA sum, f : IF f.id = o.id /\ f.seq > o.seq THEN sum + f.qty ELSE sum, 0, list)

\* filledSize of a working order, which working_orders_json computes from the order,
\* is what the fills kept for it say, however its id was used before.
FilledSizeMatchesFills ==
  ctl = "idle" /\ ~lost =>
    \A s \in Products, d \in Sides, p \in Ticks : \A i \in DOMAIN queue[s][d][p] :
      LET o == queue[s][d][p][i]
      IN o.orig - o.rem = FilledOf(fills, o)
=============================================================================
