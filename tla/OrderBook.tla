------------------------------ MODULE OrderBook ------------------------------
(***************************************************************************)
(* What the exchange promises: a book is a set of resting orders, and an   *)
(* operation happens at once.  An accepted order takes, from the crossing  *)
(* orders of the other side, what the better ones leave of its quantity;   *)
(* a market-data tick fills every order it triggers, at the order's price. *)
(***************************************************************************)
EXTENDS ExchangeTypes, Functions

VARIABLES
  live,    \* the resting orders
  clock,   \* the last sequence number drawn
  fills    \* the trades of the last operation, from the resting order's side

vars == <<live, clock, fills>>

\* The counterparty of a market-data fill.
External == "MARKET_DATA"

Quantity(orders) == SumFunction([o \in orders |-> o.rem])

\* o is filled before r.
Ahead(o, r) == Better(o.side, o.px, r.px) \/ (o.px = r.px /\ o.seq < r.seq)

\* What resting order o gives to an order for qty, among the crossing orders.
Share(o, qty, crossing) ==
  LET wanted == qty - Quantity({b \in crossing : Ahead(b, o)})
  IN IF wanted <= 0 THEN 0 ELSE IF wanted < o.rem THEN wanted ELSE o.rem

Fill(o, taker, qty) == [maker |-> o.id, taker |-> taker, qty |-> qty, px |-> FromTicks(o.px)]

Init == live = {} /\ clock = 0 /\ fills = {}

\* Order c trades with `book` and its remainder rests.
Trade(c, book) ==
  \E n \in (clock + 1) .. clock' :
    LET in == OrderOf(c, n)
        crossing == {o \in book : /\ o.sym = in.sym /\ o.side = Opposite(in.side)
                                  /\ Crosses(in.side, in.px, o.px)}
        give == [o \in crossing |-> Share(o, in.rem, crossing)]
        hit == {o \in crossing : give[o] > 0}
        left == [in EXCEPT !.rem = @ - SumFunction(give)]
    IN /\ live' = (book \ hit)
                   \cup {[o EXCEPT !.rem = @ - give[o]] : o \in {h \in hit : give[h] < h.rem}}
                   \cup (IF Rests(left) THEN {left} ELSE {})
       /\ fills' = {Fill(o, in.id, give[o]) : o \in hit}

Submit(c) ==
  /\ ~Refused(c, {o.id : o \in live})
  /\ Trade(c, live)

Refuse == clock' > clock /\ live' = live /\ fills' = {}

Cancel(o) == clock' > clock /\ live' = live \ {o} /\ fills' = {}

\* The replaced order loses its place whatever becomes of its amendment.
Replace(o, px, qty) ==
  LET c == Amended(o, px, qty)
      book == live \ {o}
  IN IF Refused(c, {b.id : b \in book})
     THEN clock' > clock /\ live' = book /\ fills' = {}
     ELSE Trade(c, book)

Mark(t) ==
  LET hit == {o \in live : o.sym = t.sym /\ Triggered(t, o.side, o.px)}
  IN /\ clock' >= clock
     /\ live' = live \ hit
     /\ fills' = {Fill(o, External, o.rem) : o \in hit}

Clear == live' = {} /\ fills' = {} /\ (clock' > clock \/ clock' = 0)

Next ==
  \/ Refuse
  \/ Clear
  \/ \E o \in live : Cancel(o)
  \/ \E t \in Tick : Mark(t)
  \/ \E o \in live, px \in RawPrices \cup {None, NaN}, qty \in Quantities \cup {None} :
       Replace(o, px, qty)
  \/ \E c \in Command : Submit(c)

Spec == Init /\ [][Next]_vars
=============================================================================
