---------------------------- MODULE ExchangeTypes ----------------------------
(***************************************************************************)
(* Constants and values shared by the exchange specifications: sides,      *)
(* prices, order commands and resting orders, as                           *)
(* native/cerious-exchange-cpp/src/DeterministicExchange.hpp declares them.*)
(***************************************************************************)
EXTENDS Integers, Sequences

CONSTANTS
  Symbols,      \* symbols a command may name
  Products,     \* the registered ones
  Ids,          \* order ids a client uses
  NoId,         \* the empty order id
  RawPrices,    \* finite prices a command or a tick may carry, in half ticks
  NaN,          \* a price that is not finite
  None,         \* an absent optional field
  Quantities,   \* quantities a command may carry, zero and below included
  MinTick,      \* std::numeric_limits<PriceTicks>, standing for the boundary
  MaxTick       \* prices a market order is given

\* to_ticks divides by the tick size and rounds to the nearest tick, halves away
\* from zero; with prices in half ticks that is
ToTicks(h) == IF h >= 0 THEN (h + 1) \div 2 ELSE -((1 - h) \div 2)

\* from_ticks
FromTicks(t) == 2 * t

ASSUME ConstantsAssumption ==
  /\ Products \subseteq Symbols
  /\ NoId \notin Ids
  /\ NaN \notin Int /\ None \notin Int /\ NaN # None
  /\ RawPrices \subseteq Int
  /\ Quantities \subseteq Int
  /\ MinTick \in Int /\ MaxTick \in Int /\ MinTick < MaxTick
  /\ \A h \in RawPrices : MinTick < ToTicks(h) /\ ToTicks(h) < MaxTick

Ticks == MinTick .. MaxTick

Sides == {"buy", "sell"}

Opposite(side) == IF side = "buy" THEN "sell" ELSE "buy"

\* Day and Gtc behave alike in the engine and are one value here.
Tifs == {"day", "ioc"}

Types == {"limit", "market"}

\* OrderCommand, with the fields the engine reads.
Command ==
  [id: Ids \cup {NoId}, sym: Symbols, side: Sides, type: Types, tif: Tifs,
   px: RawPrices \cup {NaN}, qty: Quantities]

\* Order
Order ==
  [id: Ids, sym: Products, side: Sides, type: Types, tif: Tifs, px: Ticks,
   orig: Nat, rem: Nat, seq: Nat]

\* OrderLocation; Nowhere is the absence of a registry_ entry.
Location == [sym: Products, side: Sides, px: Ticks]
Nowhere == [sym |-> None]

\* MarketDataTick: each price may be absent.
Tick ==
  LET price == RawPrices \cup {None}
  IN [sym: Symbols, bid: price, ask: price, last: price]

\* The int64 boundary that stands for "any price" on a market order.
MarketPriceBoundary(side) == IF side = "buy" THEN MaxTick ELSE MinTick

\* Mutant: an order does not trade at its own price.
CrossesStrictly(side, in, at) == IF side = "buy" THEN in > at ELSE in < at

\* Mutant: the comparisons of the two sides are exchanged.
CrossesReversed(side, in, at) == IF side = "buy" THEN in <= at ELSE in >= at

\* crosses: the incoming order at price in trades with a resting one at price at.
Crosses(side, in, at) == IF side = "buy" THEN in >= at ELSE in <= at

\* Price p is matched before price r on this side of the book: std::greater for
\* the bids, std::less for the asks.
Better(side, p, r) == IF side = "buy" THEN p > r ELSE p < r

\* buy_triggered_by_market and sell_triggered_by_market
Triggered(t, side, px) ==
  IF side = "buy"
  THEN \/ t.last # None /\ ToTicks(t.last) <= px
       \/ t.ask # None /\ ToTicks(t.ask) <= px
  ELSE \/ t.last # None /\ ToTicks(t.last) >= px
       \/ t.bid # None /\ ToTicks(t.bid) >= px

\* The order a command becomes once it is accepted.
OrderOf(c, n) ==
  [id |-> c.id, sym |-> c.sym, side |-> c.side, type |-> c.type, tif |-> c.tif,
   px |-> IF c.type = "market" THEN MarketPriceBoundary(c.side) ELSE ToTicks(c.px),
   orig |-> c.qty, rem |-> c.qty, seq |-> n]

\* Mutant: the time in force is not looked at.
RestsWhateverTif(o) == o.rem > 0 /\ o.type = "limit"

\* The order is put in the book with what the match left of it.
Rests(o) == o.rem > 0 /\ o.type = "limit" /\ o.tif # "ioc"

\* Mutant: the registry is not looked at.
RefusedUnlessDuplicate(c, live) ==
  \/ c.sym \notin Products
  \/ c.id = NoId
  \/ c.qty <= 0
  \/ c.type = "limit" /\ c.px = NaN

\* The early returns of submit_order_batch; live holds the ids in the registry.
Refused(c, live) ==
  \/ c.sym \notin Products
  \/ c.id = NoId
  \/ c.id \in live
  \/ c.qty <= 0
  \/ c.type = "limit" /\ c.px = NaN

\* The command replace_order_batch resubmits: absent fields keep the old values.
Amended(old, px, qty) ==
  [id |-> old.id, sym |-> old.sym, side |-> old.side, type |-> old.type, tif |-> old.tif,
   px |-> IF px = None THEN FromTicks(old.px) ELSE px,
   qty |-> IF qty = None THEN old.rem ELSE qty]
=============================================================================
