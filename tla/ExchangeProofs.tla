---------------------------- MODULE ExchangeProofs ----------------------------
(***************************************************************************)
(* Theorems of Exchange for every value of its constants: every action     *)
(* keeps the inductive invariant IInv, so the safety invariants hold.      *)
(***************************************************************************)
EXTENDS BookLemmas, SequenceTheorems

\* A step that leaves the book and the registry alone.
LEMMA SameBook ==
  ASSUME BookInv, UNCHANGED <<queue, registry>>, sequence' \in Nat, sequence' >= sequence
  PROVE  BookInv' /\ \A n \in Int : SeqBelow(n) => SeqBelow(n)'
<1>1. \A s \in Products, d \in Sides, p \in Ticks :
        \A i \in DOMAIN queue[s][d][p] : queue[s][d][p][i].seq \in Nat
  BY LevelFacts DEF Order
<1>2. sequence \in Nat
  BY DEF BookInv
<1>3. FifoBySequence'
  BY <1>1, <1>2 DEF BookInv, FifoBySequence
<1>4. QueuedOrdersAreLive' /\ RegistryMatchesBook' /\ BookUncrossed'
  <2>1. QueuedOrdersAreLive'
    BY DEF BookInv, QueuedOrdersAreLive
  <2>2. RegistryMatchesBook'
    <3>1. RegistryMatchesBook
      BY DEF BookInv
    <3>2. queue' = queue /\ registry' = registry
      OBVIOUS
    <3>3. \A id \in Ids : registry'[id] # Nowhere =>
            \E i \in DOMAIN queue'[registry'[id].sym][registry'[id].side][registry'[id].px] :
              queue'[registry'[id].sym][registry'[id].side][registry'[id].px][i].id = id
      BY <3>1, <3>2 DEF RegistryMatchesBook
    <3>4. ASSUME NEW s \in Products, NEW d \in Sides, NEW p \in Ticks,
                 NEW i \in DOMAIN queue'[s][d][p]
          PROVE  /\ registry'[queue'[s][d][p][i].id] = [sym |-> s, side |-> d, px |-> p]
                 /\ \A j \in DOMAIN queue'[s][d][p] :
                      queue'[s][d][p][i].id = queue'[s][d][p][j].id => i = j
      <4>1. i \in DOMAIN queue[s][d][p]
        BY <3>2
      <4>2. registry[queue[s][d][p][i].id] = [sym |-> s, side |-> d, px |-> p]
        BY <4>1, LevelFacts
      <4>3. \A h, g \in DOMAIN queue[s][d][p] :
              queue[s][d][p][h].id = queue[s][d][p][g].id => h = g
        BY LevelFacts, Zenon
      <4> QED
        BY <3>2, <4>1, <4>2, <4>3
    <3> QED
      BY <3>3, <3>4 DEF RegistryMatchesBook
  <2>3. BookUncrossed'
    BY DEF BookInv, BookUncrossed
  <2> QED
    BY <2>1, <2>2, <2>3
<1>5. ASSUME NEW n \in Int, SeqBelow(n)
      PROVE  SeqBelow(n)'
  BY <1>5 DEF SeqBelow
<1> QED
  BY <1>3, <1>4, <1>5 DEF BookInv

\* Every queued order is older than a number the engine has yet to draw.
LEMMA NextSequenceIsYoungest ==
  ASSUME BookInv
  PROVE  \A n \in Int : n > sequence => SeqBelow(n)
<1>1. \A s \in Products, d \in Sides, p \in Ticks :
        \A i \in DOMAIN queue[s][d][p] : queue[s][d][p][i].seq \in Nat
  BY LevelFacts DEF Order
<1> QED
  BY <1>1 DEF BookInv, FifoBySequence, SeqBelow

\* The step is over and nothing is being matched or swept.
LEMMA IdleStep ==
  ASSUME BookInv', ctl' = "idle", incoming' = None, tick' = None
  PROVE  IInv'
  BY DEF IInv, BookInv, TypeOK, IncomingIsNew

\* An accepted command starts the matching loop.
LEMMA EnterStep ==
  ASSUME BookInv', NEW c, c.id \in Ids, c.sym \in Products, c.side \in Sides,
         c.type \in Types, c.tif \in Tifs, c.qty \in Int, c.qty > 0,
         c.type = "limit" => ToTicks(c.px) \in Ticks,
         NEW n \in Nat, NEW before, Enter(c, n, before),
         registry'[c.id] = Nowhere, tick' = None,
         \A s \in Products, e \in Sides, p \in Ticks :
           \A i \in DOMAIN queue'[s][e][p] : queue'[s][e][p][i].seq < n + 1
  PROVE  IInv'
<1>1. OrderOf(c, n + 1) \in Order
  BY OrderOfType
<1>2. ctl' = "match" /\ incoming' = OrderOf(c, n + 1) /\ sequence' = n + 2
  BY DEF Enter
<1>3. /\ incoming'.id = c.id /\ incoming'.seq = n + 1
      /\ incoming'.rem = c.qty /\ incoming'.orig = c.qty
  BY <1>2 DEF OrderOf
<1>4. TypeOK'
  BY <1>1, <1>2 DEF TypeOK, BookInv
<1>5. IncomingIsNew'
  BY <1>2, <1>3 DEF IncomingIsNew
<1> QED
  BY <1>4, <1>5 DEF IInv

\* An order that is taken, answered at once or left to match.
LEMMA SubmitStep ==
  ASSUME IInv, NEW c \in Command, SubmitOrder(c)
  PROVE  IInv'
<1>1. /\ ctl = "idle" /\ incoming = None /\ tick = None /\ tick' = None
      /\ BookInv /\ sequence \in Nat
  BY DEF IInv, TypeOK, SubmitOrder, Ready
<1>2. sequence' \in Nat /\ sequence' >= sequence
  BY <1>1 DEF SubmitOrder, Bounce, Enter
<1>3. BookInv' /\ \A n \in Int : SeqBelow(n) => SeqBelow(n)'
  BY <1>1, <1>2, SameBook DEF SubmitOrder
<1>4. CASE Bounce(c, sequence, EmptyBatch)
  BY <1>1, <1>3, <1>4, IdleStep DEF Bounce
<1>5. CASE ~Refused(c, Registered) /\ Enter(c, sequence, EmptyBatch)
  <2>1. /\ c.sym \in Products /\ c.id \in Ids /\ c.id \notin Registered
        /\ c.side \in Sides /\ c.type \in Types /\ c.tif \in Tifs
        /\ c.qty \in Int /\ c.qty > 0
        /\ c.type = "limit" => c.px \in RawPrices
    <3>1. /\ c.id \in Ids \cup {NoId} /\ c.side \in Sides /\ c.type \in Types
          /\ c.tif \in Tifs /\ c.px \in RawPrices \cup {NaN} /\ c.qty \in Quantities
      BY DEF Command
    <3>2. /\ c.sym \in Products /\ c.id # NoId /\ c.id \notin Registered
          /\ ~(c.qty <= 0) /\ ~(c.type = "limit" /\ c.px = NaN)
      BY <1>5 DEF Refused
    <3>3. c.qty \in Int
      BY <3>1, ConstantsAssumption
    <3> QED
      BY <3>1, <3>2, <3>3
  <2>2. c.type = "limit" => ToTicks(c.px) \in Ticks
    <3>1. \A h \in RawPrices : ToTicks(h) \in Ticks
      <4>1. \A h \in RawPrices : ToTicks(h) \in Int
        BY ConstantsAssumption DEF ToTicks
      <4> QED
        BY <4>1, ConstantsAssumption DEF Ticks
    <3> QED
      BY <2>1, <3>1
  <2>3. registry'[c.id] = Nowhere
    BY <2>1 DEF Registered, SubmitOrder
  <2>4. SeqBelow(sequence + 1)
    BY <1>1, NextSequenceIsYoungest
  <2> QED
    BY <1>1, <1>3, <1>5, <2>1, <2>2, <2>3, <2>4, EnterStep DEF SeqBelow
<1> QED
  BY <1>4, <1>5 DEF SubmitOrder

-----------------------------------------------------------------------------
(***************************************************************************)
(* The matching loop.                                                      *)
(***************************************************************************)
LEMMA MatchStep ==
  ASSUME IInv, NEW p \in Ticks, MatchIncoming(p)
  PROVE  IInv'
<1> DEFINE s == incoming.sym
           d == Opposite(incoming.side)
           q == queue[s][d][p]
           resting == Head(q)
           qty == TradeQuantity(incoming, resting)
           taker == [incoming EXCEPT !.rem = @ - qty]
           maker == [resting EXCEPT !.rem = @ - qty]
           left == IF maker.rem = 0 THEN Tail(q) ELSE [q EXCEPT ![1] = maker]
<1>1. /\ ctl = "match" /\ incoming \in Order /\ tick = None
      /\ BookInv /\ sequence \in Nat /\ IncomingIsNew
  BY DEF IInv, TypeOK, MatchIncoming
<1>2. /\ incoming.rem > 0 /\ IsBest(s, d, p)
      /\ incoming' = taker /\ queue' = SetLevel(s, d, p, left)
      /\ registry' = IF maker.rem = 0 THEN [registry EXCEPT ![maker.id] = Nowhere] ELSE registry
      /\ sequence' = sequence + 2
      /\ ctl' = "match" /\ tick' = tick
  BY <1>1 DEF MatchIncoming, CanMatch
<1>3. s \in Products /\ d \in Sides
  BY <1>1 DEF Order, Opposite, Sides
<1>4. /\ q \in Seq(Order) /\ q # <<>> /\ resting = q[1] /\ resting \in Order
      /\ 1 \in DOMAIN q
  <2>1. q \in Seq(Order)
    BY <1>1, <1>3 DEF BookInv
  <2>2. q # <<>>
    BY <1>2 DEF IsBest
  <2> QED
    BY <2>1, <2>2, TailOfQueue
<1>5. resting.rem > 0 /\ resting.rem \in Nat
  <2>1. resting.rem > 0
    BY <1>1, <1>3, <1>4 DEF BookInv, QueuedOrdersAreLive
  <2> QED
    BY <1>4, <2>1 DEF Order
<1>6. incoming.rem \in Nat /\ incoming.orig \in Nat /\ incoming.seq \in Nat
  BY <1>1 DEF Order
<1>7. /\ qty \in Nat /\ qty > 0 /\ qty <= incoming.rem /\ qty <= resting.rem
  <2>1. incoming.rem > 0
    BY <1>2
  <2> HIDE DEF resting
  <2> QED
    BY <2>1, <1>5, <1>6 DEF TradeQuantity
<1>8. /\ taker \in Order /\ taker.id = incoming.id /\ taker.seq = incoming.seq
      /\ taker.orig = incoming.orig /\ taker.rem = incoming.rem - qty
      /\ taker.rem <= taker.orig
  <2>1. incoming.rem <= incoming.orig
    BY <1>1 DEF IncomingIsNew
  <2> HIDE DEF qty
  <2>2. incoming.rem - qty \in Nat /\ incoming.rem - qty <= incoming.orig
    BY <1>6, <1>7, <2>1
  <2> QED
    BY <1>1, <2>2 DEF Order
<1>9. maker \in Order /\ maker.id = resting.id /\ maker.rem = resting.rem - qty
  <2> HIDE DEF qty, resting
  <2>1. resting.rem - qty \in Nat
    BY <1>5, <1>7
  <2> QED
    BY <1>4, <2>1 DEF Order
<1>10. sequence' \in Nat /\ sequence' >= sequence
  <2>1. sequence' = sequence + 2
    BY <1>2
  <2> QED
    BY <1>1, <2>1
<1>11. BookInv' /\ \A n \in Int : SeqBelow(n) => SeqBelow(n)'
  <2>1. CASE maker.rem = 0
    <3>1. Without(q, 1, Tail(q))
      <4> HIDE DEF q
      <4>1. /\ Tail(q) \in Seq(Order) /\ DOMAIN Tail(q) = 1 .. Len(q) - 1
            /\ \A i \in DOMAIN Tail(q) : Tail(q)[i] = q[i + 1]
        BY <1>4, TailOfQueue
      <4>2. \A i \in DOMAIN Tail(q) : ~(i < 1)
        BY <4>1
      <4> QED
        BY <4>1, <4>2 DEF Without
    <3>2. queue' = SetLevel(s, d, p, Tail(q))
      BY <1>2, <2>1
    <3>3. registry' = [registry EXCEPT ![q[1].id] = Nowhere]
      BY <1>2, <1>4, <1>9, <2>1
    <3> HIDE DEF s, d
    <3> QED
      BY <1>1, <1>3, <1>4, <1>10, <3>1, <3>2, <3>3, RemovalKeepsBook
  <2>2. CASE maker.rem # 0
    <3> DEFINE kept == [q EXCEPT ![1] = maker]
    <3>1. queue' = SetLevel(s, d, p, kept) /\ registry' = registry
      BY <1>2, <2>2
    <3>2. kept \in Seq(Order) /\ DOMAIN kept = DOMAIN q
      <4> HIDE DEF q, maker
      <4> QED
        BY <1>4, <1>9
    <3>3. ASSUME NEW i \in DOMAIN q
          PROVE  SameOrder(q[i], kept[i])
      <4>1. q[i] \in Order /\ q[i].rem > 0
        BY <1>1, <1>3, <1>4 DEF BookInv, QueuedOrdersAreLive
      <4>2. CASE i = 1
        <5>1. kept[i] = maker /\ q[i] = resting
          BY <1>4, <4>2
        <5>2. SameOrder(resting, maker)
          <6> HIDE DEF qty, resting
          <6>1. maker.rem > 0 /\ maker.rem <= resting.rem /\ maker.rem \in Nat
            BY <1>5, <1>7, <1>9, <2>2
          <6> QED
            BY <1>4, <6>1 DEF SameOrder, Order
        <5> QED
          BY <5>1, <5>2
      <4>3. CASE i # 1
        <5>1. kept[i] = q[i]
          BY <4>3
        <5>2. SameOrder(q[i], q[i])
          BY <4>1 DEF SameOrder, Order
        <5> QED
          BY <5>1, <5>2
      <4> QED
        BY <4>2, <4>3
    <3> HIDE DEF s, d, kept
    <3> QED
      BY <1>1, <1>3, <1>4, <1>10, <3>1, <3>2, <3>3, PartialFillKeepsBook
  <2> QED
    BY <2>1, <2>2
<1>12. TypeOK'
  BY <1>1, <1>2, <1>8, <1>11 DEF TypeOK, BookInv
<1>13. IncomingIsNew'
  <2>1. /\ registry[incoming.id] = Nowhere /\ incoming.seq <= sequence
        /\ SeqBelow(incoming.seq)
    BY <1>1 DEF IncomingIsNew, SeqBelow
  <2>2. registry'[taker.id] = Nowhere
    <3>1. incoming.id \in Ids /\ registry \in [Ids -> Location \cup {Nowhere}]
      BY <1>1 DEF Order, BookInv
    <3> QED
      BY <1>2, <1>8, <2>1, <3>1
  <2>3. taker.seq <= sequence'
    <3>1. taker.seq = incoming.seq
      BY <1>8
    <3> HIDE DEF taker
    <3> QED
      BY <1>1, <1>6, <1>10, <2>1, <3>1
  <2>4. \A s2 \in Products, d2 \in Sides, p2 \in Ticks :
          \A i \in DOMAIN queue'[s2][d2][p2] : queue'[s2][d2][p2][i].seq < taker.seq
    BY <1>6, <1>8, <1>11, <2>1 DEF SeqBelow
  <2>5. incoming' = taker /\ taker.rem <= taker.orig
    BY <1>2, <1>8
  <2> HIDE DEF taker
  <2> QED
    BY <2>2, <2>3, <2>4, <2>5 DEF IncomingIsNew
<1> QED
  BY <1>11, <1>12, <1>13 DEF IInv

\* The loop leaves no crossing level behind.
LEMMA LoopEndsUncrossed ==
  ASSUME BookInv, incoming \in Order, incoming.rem > 0, \A p \in Ticks : ~CanMatch(p)
  PROVE  CrossesNothing(incoming)
<1> DEFINE s == incoming.sym
           d == Opposite(incoming.side)
<1>1. /\ s \in Products /\ d \in Sides /\ incoming.side \in Sides
      /\ incoming.px \in Int
  BY ConstantsAssumption DEF Order, Opposite, Sides, Ticks
<1>2. ASSUME NEW r \in Ticks, queue[s][d][r] # <<>>, Crosses(incoming.side, incoming.px, r)
      PROVE  FALSE
  <2>1. PICK b \in Ticks : IsBest(s, d, b) /\ (b = r \/ Better(d, b, r))
    <3>1. queue \in [Products -> [Sides -> [Ticks -> Seq(Order)]]]
      BY DEF BookInv
    <3> HIDE DEF s, d
    <3> QED
      BY <1>1, <1>2, <3>1, BestExists
  <2>2. r \in Int /\ b \in Int
    BY ConstantsAssumption DEF Ticks
  <2>3. Crosses(incoming.side, incoming.px, b)
    BY <1>1, <1>2, <2>1, <2>2 DEF Crosses, Better, Opposite, Sides
  <2> QED
    BY <2>1, <2>3 DEF CanMatch
<1> QED
  BY <1>2 DEF CrossesNothing

\* What is left of an order when nothing crosses it rests or is given up.
LEMMA FinishStep ==
  ASSUME IInv, FinishIncoming
  PROVE  IInv'
<1>1. /\ ctl = "match" /\ incoming \in Order /\ tick = None /\ tick' = None
      /\ ctl' = "idle" /\ incoming' = None
      /\ BookInv /\ sequence \in Nat
  BY DEF IInv, TypeOK, FinishIncoming
<1>2. /\ registry[incoming.id] = Nowhere /\ incoming.rem <= incoming.orig
      /\ incoming.seq <= sequence /\ SeqBelow(incoming.seq)
  BY <1>1 DEF IInv, IncomingIsNew, SeqBelow
<1>3. CASE Rests(incoming) /\ RestOrder
  <2> DEFINE s == incoming.sym
             d == incoming.side
             p == incoming.px
             left == Append(queue[s][d][p], incoming)
  <2>1. s \in Products /\ d \in Sides /\ p \in Ticks
    BY <1>1 DEF Order
  <2>2. Added(queue[s][d][p], incoming, left)
    <3>1. queue[s][d][p] \in Seq(Order)
      BY <1>1, <2>1 DEF BookInv
    <3> QED
      BY <1>1, <3>1, AppendQueue
  <2>3. CrossesNothing(incoming)
    BY <1>1, <1>3, LoopEndsUncrossed DEF FinishIncoming, Rests
  <2>4. /\ queue' = SetLevel(s, d, p, left)
        /\ registry' = [registry EXCEPT ![incoming.id] = [sym |-> s, side |-> d, px |-> p]]
    BY <1>3 DEF RestOrder, Enqueue
  <2>5. sequence' \in Nat /\ sequence' >= sequence
    BY <1>1, <1>3 DEF RestOrder
  <2>6. incoming.sym = s /\ incoming.side = d /\ incoming.px = p
    OBVIOUS
  <2> HIDE DEF s, d, p, left
  <2>7. BookInv'
    BY <1>1, <1>2, <1>3, <2>1, <2>2, <2>3, <2>4, <2>5, <2>6, ArrivalKeepsBook
  <2> QED
    BY <1>1, <2>7, IdleStep
<1>4. CASE UNCHANGED <<queue, registry>> /\ sequence' \in {sequence, sequence + 1}
  <2>1. sequence' \in Nat /\ sequence' >= sequence
    BY <1>1, <1>4
  <2>2. BookInv'
    BY <1>1, <1>4, <2>1, SameBook
  <2> QED
    BY <1>1, <2>2, IdleStep
<1> QED
  BY <1>3, <1>4 DEF FinishIncoming

-----------------------------------------------------------------------------
(***************************************************************************)
(* The market-data sweep.                                                  *)
(***************************************************************************)
LEMMA ApplyStep ==
  ASSUME IInv, NEW t \in Tick, ApplyMarketData(t)
  PROVE  IInv'
<1>1. /\ ctl = "idle" /\ incoming = None /\ incoming' = None /\ tick = None
      /\ BookInv /\ sequence \in Nat /\ sequence' = sequence
      /\ UNCHANGED <<queue, registry>>
  BY DEF IInv, TypeOK, ApplyMarketData, Ready
<1>2. BookInv'
  <2>1. sequence' \in Nat /\ sequence' >= sequence
    BY <1>1
  <2> QED
    BY <1>1, <2>1, SameBook
<1>3. \/ ctl' = "sweep" /\ tick' = t /\ t.sym \in Products
      \/ ctl' = "idle" /\ tick' = None
  BY <1>1 DEF ApplyMarketData
<1>4. TypeOK' /\ IncomingIsNew'
  BY <1>1, <1>2, <1>3 DEF TypeOK, IncomingIsNew, BookInv
<1> QED
  BY <1>2, <1>4 DEF IInv

\* One resting order filled by a price from outside.
LEMMA SweepStep ==
  ASSUME IInv, NEW d \in Sides, NEW p \in Ticks, SweepOrder(d, p)
  PROVE  IInv'
<1> DEFINE s == tick.sym
           q == queue[s][d][p]
<1>1. /\ ctl = "sweep" /\ ctl' = ctl /\ tick \in Tick /\ s \in Products /\ tick' = tick
      /\ incoming = None /\ incoming' = None
      /\ BookInv /\ sequence \in Nat /\ sequence' = sequence + 1
      /\ IsBest(s, d, p)
  BY DEF IInv, TypeOK, SweepOrder, CanSweep
<1>2. /\ q \in Seq(Order) /\ q # <<>> /\ Head(q) = q[1] /\ Head(q) \in Order
      /\ 1 \in DOMAIN q
  <2>1. q \in Seq(Order)
    BY <1>1 DEF BookInv
  <2>2. q # <<>>
    BY <1>1 DEF IsBest
  <2> QED
    BY <2>1, <2>2, TailOfQueue
<1>3. Without(q, 1, Tail(q))
  <2> HIDE DEF q
  <2>1. /\ Tail(q) \in Seq(Order) /\ DOMAIN Tail(q) = 1 .. Len(q) - 1
        /\ \A i \in DOMAIN Tail(q) : Tail(q)[i] = q[i + 1]
    BY <1>2, TailOfQueue
  <2>2. \A i \in DOMAIN Tail(q) : ~(i < 1)
    BY <2>1
  <2> QED
    BY <2>1, <2>2 DEF Without
<1>4. /\ queue' = SetLevel(s, d, p, Tail(q))
      /\ registry' = [registry EXCEPT ![q[1].id] = Nowhere]
  <2>1. [Head(q) EXCEPT !.rem = 0].id = q[1].id
    BY <1>2 DEF Order
  <2> QED
    BY <2>1 DEF SweepOrder
<1>5. sequence' \in Nat /\ sequence' >= sequence
  BY <1>1
<1>6. BookInv'
  <2>1. s \in Products
    BY <1>1
  <2> HIDE DEF s
  <2> QED
    BY <1>1, <1>2, <1>3, <1>4, <1>5, <2>1, RemovalKeepsBook
<1>7. TypeOK' /\ IncomingIsNew'
  BY <1>1, <1>6 DEF TypeOK, IncomingIsNew, BookInv
<1> QED
  BY <1>6, <1>7 DEF IInv

\* A price from outside that fills nothing more.
LEMMA FinishSweepStep ==
  ASSUME IInv, FinishSweep
  PROVE  IInv'
<1>1. /\ ctl' = "idle" /\ incoming' = None /\ tick' = None
      /\ BookInv /\ sequence \in Nat /\ sequence' = sequence
      /\ UNCHANGED <<queue, registry>>
  BY DEF IInv, TypeOK, FinishSweep
<1>2. sequence' \in Nat /\ sequence' >= sequence
  BY <1>1
<1> QED
  BY <1>1, <1>2, SameBook, IdleStep

-----------------------------------------------------------------------------
(***************************************************************************)
(* Cancel and replace.                                                     *)
(***************************************************************************)
\* remove_registered takes out the order of that id and nothing else.
LEMMA RemovalStep ==
  ASSUME BookInv, NEW id \in Ids, id \in Registered, RemoveRegistered(id),
         sequence' \in Nat, sequence' >= sequence
  PROVE  /\ BookInv' /\ registry'[id] = Nowhere
         /\ \A n \in Int : SeqBelow(n) => SeqBelow(n)'
         /\ RegisteredOrder(id) \in Order /\ RegisteredOrder(id).id = id
<1>1. PICK s \in Products, d \in Sides, p \in Ticks :
             /\ registry[id] = [sym |-> s, side |-> d, px |-> p]
             /\ \E i \in DOMAIN queue[s][d][p] : queue[s][d][p][i].id = id
  <2>1. registry[id] # Nowhere
    BY DEF Registered
  <2> QED
    BY <2>1, LocationFacts
<1> DEFINE q == queue[s][d][p]
           k == PositionOf(id, q)
<1>2. registry[id].sym = s /\ registry[id].side = d /\ registry[id].px = p
  BY <1>1
<1>3. k \in DOMAIN q /\ q[k].id = id
  BY <1>1 DEF PositionOf
<1>4. q \in Seq(Order) /\ q[k] \in Order
  BY <1>3 DEF BookInv
<1>5. LevelWithout(id) = RemoveAt(q, k) /\ RegisteredOrder(id) = q[k]
  BY <1>2 DEF LevelWithout, RegisteredOrder
<1> HIDE DEF k
<1>6. Without(q, k, RemoveAt(q, k))
  BY <1>3, <1>4, RemoveAtQueue DEF Without
<1>7. /\ queue' = SetLevel(s, d, p, RemoveAt(q, k))
      /\ registry' = [registry EXCEPT ![q[k].id] = Nowhere]
  BY <1>2, <1>3, <1>5 DEF RemoveRegistered
<1>8. BookInv' /\ \A n \in Int : SeqBelow(n) => SeqBelow(n)'
  BY <1>3, <1>6, <1>7, RemovalKeepsBook
<1>9. registry'[id] = Nowhere
  BY <1>3, <1>7 DEF BookInv
<1> QED
  BY <1>3, <1>4, <1>5, <1>8, <1>9

\* A cancel takes the order out of its queue and out of the registry.
LEMMA CancelStep ==
  ASSUME IInv, NEW id \in Ids, CancelOrder(id)
  PROVE  IInv'
<1>1. /\ ctl = "idle" /\ incoming = None /\ tick = None /\ tick' = None
      /\ ctl' = "idle" /\ incoming' = None
      /\ BookInv /\ sequence \in Nat /\ sequence' = sequence + 1
  BY DEF IInv, TypeOK, CancelOrder, UnknownOrder, Ready
<1>2. sequence' \in Nat /\ sequence' >= sequence
  BY <1>1
<1>3. CASE UnknownOrder(id)
  BY <1>1, <1>2, <1>3, SameBook, IdleStep DEF UnknownOrder
<1>4. CASE id \in Registered /\ RemoveRegistered(id)
  BY <1>1, <1>2, <1>4, RemovalStep, IdleStep
<1> QED
  BY <1>3, <1>4 DEF CancelOrder

\* A replace takes the order out, then the amended one is refused or matches anew.
LEMMA ReplaceStep ==
  ASSUME IInv, NEW id \in Ids, NEW px \in RawPrices \cup {None, NaN},
         NEW qty \in Quantities \cup {None}, ReplaceOrder(id, px, qty)
  PROVE  IInv'
<1>1. /\ ctl = "idle" /\ incoming = None /\ tick = None /\ tick' = None
      /\ BookInv /\ sequence \in Nat
  BY DEF IInv, TypeOK, ReplaceOrder, Ready
<1>2. CASE UnknownOrder(id)
  <2>1. /\ ctl' = "idle" /\ incoming' = None /\ UNCHANGED <<queue, registry>>
        /\ sequence' = sequence + 1
    BY <1>1, <1>2 DEF UnknownOrder
  <2>2. sequence' \in Nat /\ sequence' >= sequence
    BY <1>1, <2>1
  <2> QED
    BY <1>1, <2>1, <2>2, SameBook, IdleStep
<1>3. CASE ~UnknownOrder(id)
  <2> DEFINE old == RegisteredOrder(id)
             c == Amended(old, px, qty)
             n == sequence + 1
             before == [reports |-> <<ReportFor(old, "replaced", n)>>,
                        deltas |-> <<RemovalDelta(id)>>]
  <2>1. /\ id \in Registered /\ RemoveRegistered(id)
        /\ \/ Refused(c, Registered \ {id}) /\ Bounce(c, n, before)
           \/ ~Refused(c, Registered \ {id}) /\ Enter(c, n, before)
    BY <1>3 DEF ReplaceOrder
  <2>2. sequence' \in Nat /\ sequence' >= sequence
    BY <1>1, <2>1 DEF Bounce, Enter
  <2>3. /\ BookInv' /\ registry'[id] = Nowhere
        /\ \A m \in Int : SeqBelow(m) => SeqBelow(m)'
        /\ old \in Order /\ old.id = id
    BY <1>1, <2>1, <2>2, RemovalStep
  <2>4. CASE Bounce(c, n, before)
    BY <1>1, <2>3, <2>4, IdleStep DEF Bounce
  <2>5. CASE ~Refused(c, Registered \ {id}) /\ Enter(c, n, before)
    <3>1. /\ c.id = id /\ c.sym = old.sym /\ c.side = old.side /\ c.type = old.type
          /\ c.tif = old.tif
          /\ c.px = IF px = None THEN FromTicks(old.px) ELSE px
          /\ c.qty = IF qty = None THEN old.rem ELSE qty
      BY <2>3 DEF Amended
    <3> HIDE DEF old, c, before
    <3>2. /\ c.sym \in Products /\ c.side \in Sides /\ c.type \in Types /\ c.tif \in Tifs
      BY <2>3, <3>1 DEF Order
    <3>3. c.qty \in Int /\ c.qty > 0
      <4>1. c.qty \in Int
        BY <2>3, <3>1, ConstantsAssumption DEF Order
      <4>2. ~(c.qty <= 0)
        BY <2>5 DEF Refused
      <4> QED
        BY <4>1, <4>2
    <3>4. c.type = "limit" => ToTicks(c.px) \in Ticks
      <4>1. CASE px = None
        <5>1. old.px \in Ticks /\ old.px \in Int
          BY <2>3, ConstantsAssumption DEF Order, Ticks
        <5>2. ToTicks(c.px) = old.px
          BY <3>1, <4>1, <5>1, RoundTrip
        <5> QED
          BY <5>1, <5>2
      <4>2. CASE px # None
        <5>1. c.type = "limit" => c.px \in RawPrices
          BY <2>5, <3>1, <4>2 DEF Refused
        <5>2. \A h \in RawPrices : ToTicks(h) \in Int
          BY ConstantsAssumption DEF ToTicks
        <5>3. \A h \in RawPrices : ToTicks(h) \in Ticks
          BY <5>2, ConstantsAssumption DEF Ticks
        <5> QED
          BY <5>1, <5>3
      <4> QED
        BY <4>1, <4>2
    <3>5. /\ n + 1 \in Int /\ n \in Nat
          /\ \A s \in Products, e \in Sides, p \in Ticks :
               \A i \in DOMAIN queue'[s][e][p] : queue'[s][e][p][i].seq < n + 1
      <4>1. n + 1 \in Int /\ n + 1 > sequence /\ n \in Nat
        BY <1>1
      <4>2. SeqBelow(n + 1)
        BY <1>1, <4>1, NextSequenceIsYoungest
      <4> QED
        BY <2>3, <4>1, <4>2 DEF SeqBelow
    <3> QED
      BY <1>1, <2>3, <2>5, <3>1, <3>2, <3>3, <3>4, <3>5, EnterStep
  <2> QED
    BY <2>1, <2>4, <2>5
<1> QED
  BY <1>2, <1>3

\* A reset and a restart leave an empty book.
LEMMA EmptyStep ==
  ASSUME IInv, Reset \/ Restart
  PROVE  IInv'
<1>1. /\ ctl' = "idle" /\ incoming' = None /\ tick' = None /\ sequence' \in Nat
      /\ queue' = EmptyBook /\ registry' = [id \in Ids |-> Nowhere]
  BY DEF IInv, TypeOK, Reset, Restart, Ready
<1>2. BookInv'
  <2>1. NothingRests'
    BY <1>1 DEF NothingRests
  <2> QED
    BY <2>1, EmptyBookIsGood, PTL
<1> QED
  BY <1>1, <1>2, IdleStep
-----------------------------------------------------------------------------
(***************************************************************************)
(* The invariants.                                                         *)
(***************************************************************************)
LEMMA InitEstablishesIInv == Init => IInv
<1> SUFFICES ASSUME Init PROVE IInv
  OBVIOUS
<1>1. BookInv
  BY EmptyBookIsGood DEF Init, NothingRests
<1> QED
  BY <1>1 DEF Init, IInv, TypeOK, BookInv, IncomingIsNew

\* What changes no variable of the engine.
LEMMA StutterKeepsIInv ==
  ASSUME IInv, UNCHANGED vars
  PROVE  IInv'
<1>1. BookInv /\ sequence \in Nat /\ sequence' = sequence /\ UNCHANGED <<queue, registry>>
  BY DEF IInv, TypeOK, vars
<1>2. BookInv'
  <2>1. sequence' \in Nat /\ sequence' >= sequence
    BY <1>1
  <2> QED
    BY <1>1, <2>1, SameBook
<1> QED
  BY <1>2 DEF IInv, TypeOK, IncomingIsNew, vars

\* Each step of the engine keeps the invariant.
LEMMA NextKeepsIInv ==
  ASSUME IInv, [Next]_vars
  PROVE  IInv'
<1> SUFFICES ASSUME Next PROVE IInv'
  BY StutterKeepsIInv
<1>1. ASSUME NEW c \in Command, SubmitOrder(c) PROVE IInv'
  BY <1>1, SubmitStep
<1>2. ASSUME NEW id \in Ids, CancelOrder(id) PROVE IInv'
  BY <1>2, CancelStep
<1>3. ASSUME NEW id \in Ids, NEW px \in RawPrices \cup {None, NaN},
             NEW qty \in Quantities \cup {None}, ReplaceOrder(id, px, qty)
      PROVE  IInv'
  BY <1>3, ReplaceStep
<1>4. ASSUME NEW t \in Tick, ApplyMarketData(t) PROVE IInv'
  BY <1>4, ApplyStep
<1>5. CASE Reset \/ Restart
  BY <1>5, EmptyStep
<1>6. ASSUME NEW p \in Ticks, MatchIncoming(p) PROVE IInv'
  BY <1>6, MatchStep
<1>7. CASE FinishIncoming
  BY <1>7, FinishStep
<1>8. ASSUME NEW d \in Sides, NEW p \in Ticks, SweepOrder(d, p) PROVE IInv'
  BY <1>8, SweepStep
<1>9. CASE FinishSweep
  BY <1>9, FinishSweepStep
<1> QED
  BY <1>1, <1>2, <1>3, <1>4, <1>5, <1>6, <1>7, <1>8, <1>9 DEF Next, Step

\* The inductive invariant holds in every reachable state.
THEOREM Invariance == Spec => []IInv
<1>1. IInv /\ [Next]_vars => IInv'
  BY NextKeepsIInv
<1> QED
  BY <1>1, InitEstablishesIInv, PTL DEF Spec

\* One operation at a time, on well-formed books (class state of DeterministicExchange).
THEOREM TypeCorrect == Spec => []TypeOK
<1>1. IInv => TypeOK
  BY DEF IInv
<1> QED
  BY <1>1, Invariance, PTL

\* Nothing filled, market or immediate-or-cancel is left in the book.
THEOREM OnlyLiveOrdersQueued == Spec => []QueuedOrdersAreLive
<1>1. IInv => QueuedOrdersAreLive
  BY DEF IInv, BookInv
<1> QED
  BY <1>1, Invariance, PTL

\* registry_ and the books agree: cancel and replace reach a live list iterator.
THEOREM RegistryAgrees == Spec => []RegistryMatchesBook
<1>1. IInv => RegistryMatchesBook
  BY DEF IInv, BookInv
<1> QED
  BY <1>1, Invariance, PTL

\* The order being matched is absent from the registry and younger than the book.
THEOREM IncomingStaysNew == Spec => []IncomingIsNew
<1>1. IInv => IncomingIsNew
  BY DEF IInv
<1> QED
  BY <1>1, Invariance, PTL

\* No bid rests at or above an ask, between two operations or within one.
THEOREM NeverCrossed == Spec => []BookUncrossed
<1>1. IInv => BookUncrossed
  BY DEF IInv, BookInv
<1> QED
  BY <1>1, Invariance, PTL

\* The order of a queue is the order of the sequence numbers.
THEOREM QueuesAreFifo == Spec => []FifoBySequence
<1>1. IInv => FifoBySequence
  BY DEF IInv, BookInv
<1> QED
  BY <1>1, Invariance, PTL
-----------------------------------------------------------------------------
(***************************************************************************)
(* Price/time priority: each trade of a match or of a sweep takes the head *)
(* of the best level.                                                      *)
(***************************************************************************)

\* Only the head of the best level is touched.
LEMMA HeadGoesFirst ==
  ASSUME BookInv, NEW s \in Products, NEW d \in Sides, NEW p \in Ticks, IsBest(s, d, p),
         NEW left \in Seq(Order), queue' = SetLevel(s, d, p, left),
         \A i \in DOMAIN queue[s][d][p] :
           i # 1 => \E j \in DOMAIN left : left[j] = queue[s][d][p][i]
  PROVE  TouchedFirst
<1>1. /\ queue'[s][d][p] = left
      /\ \A s2 \in Products, d2 \in Sides, p2 \in Ticks :
           <<s2, d2, p2>> # <<s, d, p>> => queue'[s2][d2][p2] = queue[s2][d2][p2]
  <2>1. queue \in [Products -> [Sides -> [Ticks -> Seq(Order)]]]
    BY DEF BookInv
  <2> QED
    BY <2>1, LevelChange
<1>2. ASSUME NEW s2 \in Products, NEW d2 \in Sides, NEW p2 \in Ticks,
             NEW i \in DOMAIN queue[s2][d2][p2],
             \A j \in DOMAIN queue'[s2][d2][p2] :
               queue'[s2][d2][p2][j] # queue[s2][d2][p2][i]
      PROVE  s2 = s /\ d2 = d /\ p2 = p /\ i = 1
  <2>1. CASE <<s2, d2, p2>> # <<s, d, p>>
    BY <1>1, <1>2, <2>1
  <2>2. CASE <<s2, d2, p2>> = <<s, d, p>>
    BY <1>1, <1>2, <2>2
  <2> QED
    BY <2>1, <2>2
<1>3. ASSUME NEW r \in Ticks, NEW k \in DOMAIN queue[s][d][r]
      PROVE  ~Better(d, r, p)
  <2>1. queue[s][d][r] # <<>>
    <3>1. queue[s][d][r] \in Seq(Order)
      BY LevelFacts
    <3> QED
      BY <3>1
  <2>2. r = p \/ Better(d, p, r)
    BY <2>1 DEF IsBest
  <2>3. r \in Int /\ p \in Int
    BY ConstantsAssumption DEF Ticks
  <2> QED
    BY <2>2, <2>3 DEF Better
<1>4. ASSUME 1 \in DOMAIN queue[s][d][p], NEW k \in DOMAIN queue[s][d][p]
      PROVE  queue[s][d][p][1].seq <= queue[s][d][p][k].seq
  <2>1. queue[s][d][p] \in Seq(Order)
    BY LevelFacts
  <2>2. k \in Nat /\ k >= 1
    BY <2>1
  <2>3. queue[s][d][p][1].seq \in Nat /\ queue[s][d][p][k].seq \in Nat
    <3>1. \A i \in DOMAIN queue[s][d][p] : queue[s][d][p][i] \in Order
      BY LevelFacts
    <3> QED
      BY <1>4, <3>1 DEF Order
  <2>4. 1 < k => queue[s][d][p][1].seq < queue[s][d][p][k].seq
    BY <1>4 DEF BookInv, FifoBySequence
  <2> QED
    BY <2>2, <2>3, <2>4
<1> SUFFICES ASSUME NEW s2 \in Products, NEW d2 \in Sides, NEW p2 \in Ticks,
                    NEW i \in DOMAIN queue[s2][d2][p2],
                    \A j \in DOMAIN queue'[s2][d2][p2] :
                      queue'[s2][d2][p2][j] # queue[s2][d2][p2][i],
                    NEW r \in Ticks, NEW k \in DOMAIN queue[s2][d2][r]
             PROVE  /\ ~Better(d2, r, p2)
                    /\ r = p2 => queue[s2][d2][p2][i].seq <= queue[s2][d2][r][k].seq
  BY DEF TouchedFirst
<1>5. s2 = s /\ d2 = d /\ p2 = p /\ i = 1
  BY <1>2
<1> QED
  BY <1>3, <1>4, <1>5

\* A match fills the head of a queue at the best price.
LEMMA MatchTouchesFirst ==
  ASSUME IInv, NEW p \in Ticks, MatchIncoming(p)
  PROVE  TouchedFirst
<1> DEFINE s == incoming.sym
           d == Opposite(incoming.side)
           q == queue[s][d][p]
<1>1. /\ incoming \in Order /\ BookInv /\ IsBest(s, d, p)
  BY DEF IInv, TypeOK, MatchIncoming, CanMatch
<1>2. s \in Products /\ d \in Sides
  BY <1>1 DEF Order, Opposite, Sides
<1>3. q \in Seq(Order) /\ q # <<>>
  BY <1>1, <1>2 DEF BookInv, IsBest
<1>4. PICK m : queue' = SetLevel(s, d, p, IF m.rem = 0 THEN Tail(q) ELSE [q EXCEPT ![1] = m])
  BY DEF MatchIncoming
<1> DEFINE left == IF m.rem = 0 THEN Tail(q) ELSE [q EXCEPT ![1] = m]
<1>5. queue' \in [Products -> [Sides -> [Ticks -> Seq(Order)]]] /\ queue'[s][d][p] = left
  <2>1. IInv'
    BY MatchStep
  <2>2. queue' \in [Products -> [Sides -> [Ticks -> Seq(Order)]]]
    BY <2>1 DEF IInv, TypeOK
  <2> HIDE DEF left
  <2>3. queue' = SetLevel(s, d, p, left)
    BY <1>4 DEF left
  <2>4. queue \in [Products -> [Sides -> [Ticks -> Seq(Order)]]]
    BY <1>1 DEF BookInv
  <2> HIDE DEF s, d
  <2> QED
    BY <1>2, <2>2, <2>3, <2>4 DEF SetLevel
<1>6. left \in Seq(Order)
  <2> HIDE DEF left, s, d
  <2> QED
    BY <1>2, <1>5
<1>7. ASSUME NEW i \in DOMAIN q, i # 1
      PROVE  \E j \in DOMAIN left : left[j] = q[i]
  <2> HIDE DEF q
  <2>1. CASE m.rem = 0
    <3>1. i - 1 \in DOMAIN Tail(q) /\ Tail(q)[i - 1] = q[i]
      BY <1>3, <1>7
    <3> QED
      BY <2>1, <3>1
  <2>2. CASE m.rem # 0
    BY <1>7, <2>2
  <2> QED
    BY <2>1, <2>2
<1>8. queue' = SetLevel(s, d, p, left)
  BY <1>4
<1> HIDE DEF left, s, d
<1> QED
  BY <1>1, <1>2, <1>6, <1>7, <1>8, HeadGoesFirst

\* So does a price from outside.
LEMMA SweepTouchesFirst ==
  ASSUME IInv, NEW d \in Sides, NEW p \in Ticks, SweepOrder(d, p)
  PROVE  TouchedFirst
<1> DEFINE s == tick.sym
           q == queue[s][d][p]
<1>1. s \in Products /\ BookInv /\ IsBest(s, d, p) /\ queue' = SetLevel(s, d, p, Tail(q))
  BY DEF IInv, TypeOK, SweepOrder, CanSweep
<1>2. q \in Seq(Order) /\ q # <<>>
  BY <1>1 DEF BookInv, IsBest
<1>3. Tail(q) \in Seq(Order)
  BY <1>2
<1>4. ASSUME NEW i \in DOMAIN q, i # 1
      PROVE  \E j \in DOMAIN Tail(q) : Tail(q)[j] = q[i]
  <2> HIDE DEF q
  <2>1. i - 1 \in DOMAIN Tail(q) /\ Tail(q)[i - 1] = q[i]
    BY <1>2, <1>4
  <2> QED
    BY <2>1
<1> HIDE DEF s
<1> QED
  BY <1>1, <1>3, <1>4, HeadGoesFirst

\* An order that stops matching fills nobody.
LEMMA FinishTouchesNothing ==
  ASSUME IInv, FinishIncoming
  PROVE  TouchedFirst
<1>1. incoming \in Order /\ BookInv
  BY DEF IInv, TypeOK, FinishIncoming
<1>2. ASSUME NEW s2 \in Products, NEW d2 \in Sides, NEW p2 \in Ticks,
             NEW i \in DOMAIN queue[s2][d2][p2]
      PROVE  \E j \in DOMAIN queue'[s2][d2][p2] :
               queue'[s2][d2][p2][j] = queue[s2][d2][p2][i]
  <2>1. CASE RestOrder
    <3> DEFINE s == incoming.sym
               d == incoming.side
               p == incoming.px
               q == queue[s][d][p]
    <3>1. s \in Products /\ d \in Sides /\ p \in Ticks
      BY <1>1 DEF Order
    <3>2. q \in Seq(Order) /\ Append(q, incoming) \in Seq(Order)
      BY <1>1, <3>1 DEF BookInv
    <3>3. queue' = SetLevel(s, d, p, Append(q, incoming))
      BY <2>1 DEF RestOrder, Enqueue
    <3>4. queue \in [Products -> [Sides -> [Ticks -> Seq(Order)]]]
      BY <1>1 DEF BookInv
    <3>5. /\ queue'[s][d][p] = Append(q, incoming)
          /\ <<s2, d2, p2>> # <<s, d, p>> => queue'[s2][d2][p2] = queue[s2][d2][p2]
      <4> DEFINE left == Append(q, incoming)
      <4>1. left \in Seq(Order) /\ queue' = SetLevel(s, d, p, left)
        BY <3>2, <3>3
      <4> HIDE DEF s, d, p, left
      <4> QED
        BY <3>1, <3>4, <4>1 DEF SetLevel, left
    <3>6. \A h \in DOMAIN q : h \in DOMAIN Append(q, incoming) /\ Append(q, incoming)[h] = q[h]
      <4> HIDE DEF q
      <4> QED BY <3>2
    <3> QED
      BY <3>5, <3>6
  <2>2. CASE UNCHANGED queue
    BY <2>2
  <2> QED
    BY <2>1, <2>2 DEF FinishIncoming
<1> QED
  BY <1>2 DEF TouchedFirst

\* An order is touched by a match or a market-data sweep only when no order of its
\* side is better by price, and none at its price is older.
THEOREM PriceTimePriorityHolds == Spec => PriceTimePriority
<1> DEFINE Good == ctl # "idle" /\ sequence' > sequence => TouchedFirst
<1>1. IInv /\ [Next]_vars => [Good]_vars
  <2> SUFFICES ASSUME IInv, Next, ctl # "idle", sequence' > sequence
               PROVE  TouchedFirst
    OBVIOUS
  <2>1. sequence \in Nat
    BY DEF IInv, TypeOK
  <2>2. ~Restart
    BY <2>1 DEF Restart
  <2>3. ~FinishSweep
    BY <2>1 DEF FinishSweep
  <2>4. Step
    BY <2>2 DEF Next, SubmitOrder, CancelOrder, ReplaceOrder, ApplyMarketData, Reset, Ready
  <2> QED
    BY <2>3, <2>4, MatchTouchesFirst, SweepTouchesFirst, FinishTouchesNothing DEF Step
<1> QED
  BY <1>1, Invariance, PTL DEF Spec, PriceTimePriority
-----------------------------------------------------------------------------
(***************************************************************************)
(* What a batch tells.                                                     *)
(***************************************************************************)
\* Statuses of ExecutionReport.
Statuses ==
  {"accepted", "working", "partial", "filled", "cancelled", "replaced", "rejected"}

\* ExecutionReport and BookDelta, as the engine fills them in.
Report ==
  [id : Ids \cup {NoId}, contra : Ids \cup {NoId, MarketData}, sym : Products \cup {None},
   side : Sides \cup {None}, status : Statuses, lim : Int, px : Int, fill : Nat, rem : Nat, seq : Nat]

Delta ==
  [sym : Products, side : Sides, px : Int, act : {"add", "modify", "delete"},
   qty : {AggregateQuantity(q) : q \in Seq(Order)}, orders : Nat, seq : Nat]

\* A fill is at the limit of its order or better.
WithinLimit(r) ==
  r.fill > 0 => IF r.side = "buy" THEN r.px <= r.lim ELSE r.px >= r.lim

\* The batch b is sound and carries numbers up to n.
Sound(b, n) ==
  /\ b \in [reports : Seq(Report), deltas : Seq(Delta)]
  /\ \A i \in DOMAIN b.reports : WithinLimit(b.reports[i]) /\ b.reports[i].seq <= n
  /\ \A i, j \in DOMAIN b.reports : i < j => b.reports[i].seq < b.reports[j].seq
  /\ \A i \in DOMAIN b.deltas : b.deltas[i].seq <= n
  /\ \A i, j \in DOMAIN b.deltas : i < j => b.deltas[i].seq <= b.deltas[j].seq

\* Nothing has been told yet.
LEMMA EmptyIsSound ==
  ASSUME NEW n \in Nat
  PROVE  Sound(EmptyBatch, n)
  BY DEF Sound, EmptyBatch

\* The numbers of a batch are natural numbers.
LEMMA BatchNumbers ==
  ASSUME NEW b \in [reports : Seq(Report), deltas : Seq(Delta)]
  PROVE  /\ b.reports \in Seq(Report) /\ b.deltas \in Seq(Delta)
         /\ \A R : [b EXCEPT !.reports = R] = [reports |-> R, deltas |-> b.deltas]
         /\ \A i \in DOMAIN b.reports : b.reports[i] \in Report /\ b.reports[i].seq \in Nat
         /\ \A i \in DOMAIN b.deltas : b.deltas[i] \in Delta /\ b.deltas[i].seq \in Nat
<1>1. \A r \in Report : r.seq \in Nat
  BY DEF Report
<1>2. \A e \in Delta : e.seq \in Nat
  BY DEF Delta
<1>3. b.reports \in Seq(Report) /\ b.deltas \in Seq(Delta)
  OBVIOUS
<1>4. \A i \in DOMAIN b.reports : b.reports[i] \in Report
  BY <1>3
<1>5. \A i \in DOMAIN b.deltas : b.deltas[i] \in Delta
  BY <1>3
<1> QED
  BY <1>1, <1>2, <1>3, <1>4, <1>5

\* A batch is not less sound when more numbers have been drawn.
LEMMA SoundLater ==
  ASSUME NEW b, NEW n \in Nat, NEW k \in Nat, k >= n, Sound(b, n)
  PROVE  Sound(b, k)
  BY BatchNumbers DEF Sound

\* A report with a new number.
LEMMA ReportIsSound ==
  ASSUME NEW b, NEW n \in Nat, Sound(b, n), NEW r \in Report, WithinLimit(r), r.seq > n,
         NEW c, c = [reports |-> Append(b.reports, r), deltas |-> b.deltas]
  PROVE  Sound(c, r.seq)
<1>1. Sound(b, r.seq) /\ r.seq \in Nat
  BY SoundLater DEF Report
<1>0. b.reports \in Seq(Report) /\ b.deltas \in Seq(Delta) /\ c.deltas = b.deltas
  BY BatchNumbers DEF Sound
<1>2. /\ c.reports \in Seq(Report) /\ Len(b.reports) \in Nat
      /\ DOMAIN b.reports = 1 .. Len(b.reports)
      /\ DOMAIN c.reports = 1 .. Len(b.reports) + 1
      /\ c.reports[Len(b.reports) + 1] = r
      /\ \A i \in 1 .. Len(b.reports) : c.reports[i] = b.reports[i]
  BY <1>0, AppendProperties
<1>3. \A i \in DOMAIN c.reports : WithinLimit(c.reports[i]) /\ c.reports[i].seq <= r.seq
  BY <1>1, <1>2 DEF Sound
<1>4. \A i, j \in DOMAIN c.reports : i < j => c.reports[i].seq < c.reports[j].seq
  <2>1. \A i \in 1 .. Len(b.reports) : b.reports[i].seq < r.seq
    <3>1. \A i \in DOMAIN b.reports : b.reports[i].seq \in Nat /\ b.reports[i].seq <= n
      BY BatchNumbers DEF Sound
    <3>2. r.seq \in Nat
      BY DEF Report
    <3> QED
      BY <1>2, <3>1, <3>2
  <2> QED
    BY <1>2, <2>1 DEF Sound
<1>5. c \in [reports : Seq(Report), deltas : Seq(Delta)]
  BY <1>0, <1>2
<1> QED
  BY <1>0, <1>1, <1>3, <1>4, <1>5 DEF Sound

\* A delta with the number drawn last.
LEMMA DeltaIsSound ==
  ASSUME NEW b, NEW n \in Nat, Sound(b, n), NEW e \in Delta, e.seq = n,
         NEW c, c = [reports |-> b.reports, deltas |-> Append(b.deltas, e)]
  PROVE  Sound(c, n)
<1>0. b.reports \in Seq(Report) /\ b.deltas \in Seq(Delta) /\ c.reports = b.reports
  BY BatchNumbers DEF Sound
<1>1. /\ c.deltas \in Seq(Delta) /\ Len(b.deltas) \in Nat
      /\ DOMAIN b.deltas = 1 .. Len(b.deltas)
      /\ DOMAIN c.deltas = 1 .. Len(b.deltas) + 1
      /\ c.deltas[Len(b.deltas) + 1] = e
      /\ \A i \in 1 .. Len(b.deltas) : c.deltas[i] = b.deltas[i]
  BY <1>0, AppendProperties
<1>2. \A i, j \in DOMAIN c.deltas : i < j => c.deltas[i].seq <= c.deltas[j].seq
  <2>1. \A i \in DOMAIN b.deltas : b.deltas[i].seq \in Nat
    BY BatchNumbers DEF Sound
  <2> QED
    BY <1>1, <2>1 DEF Sound
<1>3. \A i \in DOMAIN c.deltas : c.deltas[i].seq <= n
  BY <1>1 DEF Sound
<1>4. c \in [reports : Seq(Report), deltas : Seq(Delta)]
  BY <1>0, <1>1
<1> QED
  BY <1>0, <1>2, <1>3, <1>4 DEF Sound

\* The reports and deltas of the engine are well formed.
LEMMA ReportTypes ==
  ASSUME NEW n \in Nat
  PROVE  /\ \A id \in Ids \cup {NoId} :
              Reject(id, n) \in Report /\ WithinLimit(Reject(id, n)) /\ Reject(id, n).seq = n
         /\ \A o \in Order, status \in {"accepted", "working", "cancelled", "replaced"} :
              /\ ReportFor(o, status, n) \in Report /\ WithinLimit(ReportFor(o, status, n))
              /\ ReportFor(o, status, n).seq = n
<1>1. \A o \in Order : FromTicks(o.px) \in Int
  BY ConstantsAssumption DEF Order, Ticks, FromTicks
<1>2. ASSUME NEW o \in Order, NEW status \in {"accepted", "working", "cancelled", "replaced"}
      PROVE  /\ ReportFor(o, status, n) \in Report /\ WithinLimit(ReportFor(o, status, n))
             /\ ReportFor(o, status, n).seq = n
  BY <1>1, <1>2 DEF ReportFor, Report, WithinLimit, Order, Statuses
<1>3. QED
  BY <1>2 DEF Reject, Report, WithinLimit, Statuses

\* A fill at a price within the limit of its order.
LEMMA FillTypes ==
  ASSUME NEW o \in Order, NEW contra \in Ids \cup {MarketData}, NEW qty \in Nat, NEW p \in Ticks,
         NEW n \in Nat, IF o.side = "buy" THEN p <= o.px ELSE p >= o.px
  PROVE  /\ FillReport(o, contra, qty, p, n) \in Report
         /\ WithinLimit(FillReport(o, contra, qty, p, n))
         /\ FillReport(o, contra, qty, p, n).seq = n
<1>1. p \in Int /\ o.px \in Int
  BY ConstantsAssumption DEF Order, Ticks
<1> DEFINE status == IF o.rem = 0 THEN "filled" ELSE "partial"
<1>2. FillReport(o, contra, qty, p, n) =
        [id |-> o.id, contra |-> contra, sym |-> o.sym, side |-> o.side,
         status |-> status,
         lim |-> 2 * o.px, px |-> 2 * p, fill |-> qty, rem |-> o.rem, seq |-> n]
  <2>1. FillReport(o, contra, qty, p, n) =
          [ReportFor(o, status, n) EXCEPT !.contra = contra, !.px = 2 * p, !.fill = qty]
    BY DEF FillReport, FromTicks
  <2> HIDE DEF status
  <2> QED
    BY <2>1 DEF ReportFor, FromTicks
<1>3. 2 * o.px \in Int /\ 2 * p \in Int /\ (IF o.side = "buy" THEN 2 * p <= 2 * o.px ELSE 2 * p >= 2 * o.px)
  BY <1>1
<1>4. status \in {"filled", "partial"}
  OBVIOUS
<1>5. /\ o.id \in Ids /\ o.sym \in Products /\ o.side \in Sides /\ o.rem \in Nat
  BY DEF Order
<1> HIDE DEF status
<1>6. FillReport(o, contra, qty, p, n) \in Report
  <2>1. /\ o.id \in Ids \cup {NoId} /\ contra \in Ids \cup {NoId, MarketData}
        /\ o.sym \in Products \cup {None} /\ o.side \in Sides \cup {None}
        /\ status \in Statuses
    BY <1>4, <1>5 DEF Statuses
  <2> QED
    BY <1>2, <1>3, <1>5, <2>1 DEF Report
<1> QED
  BY <1>2, <1>3, <1>6 DEF WithinLimit

\* A delta of one level.
LEMMA DeltaTypes ==
  ASSUME NEW s \in Products, NEW d \in Sides, NEW p \in Ticks, NEW q \in Seq(Order), NEW n \in Nat
  PROVE  /\ \A act \in {"add", "modify", "delete"} :
              BookDelta(s, d, p, act, q, n) \in Delta /\ BookDelta(s, d, p, act, q, n).seq = n
         /\ LevelDelta(s, d, p, q, n) \in Delta /\ LevelDelta(s, d, p, q, n).seq = n
<1>1. FromTicks(p) \in Int
  BY ConstantsAssumption DEF Ticks, FromTicks
<1>2. \A act \in {"add", "modify", "delete"} :
        BookDelta(s, d, p, act, q, n) \in Delta /\ BookDelta(s, d, p, act, q, n).seq = n
  BY <1>1 DEF BookDelta, Delta
<1>3. QED
  BY <1>2 DEF LevelDelta

-----------------------------------------------------------------------------
\* A rejected command adds one report.
LEMMA BounceIsSound ==
  ASSUME NEW c, c.id \in Ids \cup {NoId}, NEW n \in Nat, NEW before, Sound(before, n),
         Bounce(c, n, before)
  PROVE  Sound(batch', sequence')
<1> DEFINE r == Reject(c.id, n + 1)
<1>1. n + 1 \in Nat /\ n + 1 > n
  OBVIOUS
<1>2. r \in Report /\ WithinLimit(r) /\ r.seq = n + 1
  BY <1>1, ReportTypes
<1>3. sequence' = n + 1 /\ batch' = [before EXCEPT !.reports = Append(@, r)]
  BY DEF Bounce
<1>4. before \in [reports : Seq(Report), deltas : Seq(Delta)]
  BY DEF Sound
<1> HIDE DEF r
<1>5. batch' = [reports |-> Append(before.reports, r), deltas |-> before.deltas]
  BY <1>3, <1>4, BatchNumbers
<1>6. r.seq > n
  BY <1>1, <1>2
<1>7. Sound(batch', r.seq)
  BY <1>2, <1>5, <1>6, ReportIsSound
<1> QED
  BY <1>2, <1>3, <1>7

\* So does an accepted one, with the second number it draws.
LEMMA EnterIsSound ==
  ASSUME NEW c, NEW n \in Nat, OrderOf(c, n + 1) \in Order, NEW before, Sound(before, n),
         Enter(c, n, before)
  PROVE  Sound(batch', sequence')
<1> DEFINE r == ReportFor(OrderOf(c, n + 1), "accepted", n + 2)
<1>1. n + 2 \in Nat /\ n + 2 > n
  OBVIOUS
<1>2. r \in Report /\ WithinLimit(r) /\ r.seq = n + 2
  BY <1>1, ReportTypes
<1>3. sequence' = n + 2 /\ batch' = [before EXCEPT !.reports = Append(@, r)]
  BY DEF Enter
<1>4. before \in [reports : Seq(Report), deltas : Seq(Delta)]
  BY DEF Sound
<1> HIDE DEF r
<1>5. batch' = [reports |-> Append(before.reports, r), deltas |-> before.deltas]
  BY <1>3, <1>4, BatchNumbers
<1>6. r.seq > n
  BY <1>1, <1>2
<1>7. Sound(batch', r.seq)
  BY <1>2, <1>5, <1>6, ReportIsSound
<1> QED
  BY <1>2, <1>3, <1>7

\* What one accepted command becomes.
LEMMA SubmitIsSound ==
  ASSUME IInv, NEW c \in Command, SubmitOrder(c)
  PROVE  Sound(batch', sequence')
<1>1. sequence \in Nat /\ Sound(EmptyBatch, sequence) /\ c.id \in Ids \cup {NoId}
  BY EmptyIsSound DEF IInv, TypeOK, Command
<1>2. CASE Bounce(c, sequence, EmptyBatch)
  BY <1>1, <1>2, BounceIsSound
<1>3. CASE ~Refused(c, Registered) /\ Enter(c, sequence, EmptyBatch)
  <2>1. incoming' \in Order
    <3>1. IInv' /\ ctl' = "match"
      BY <1>3, SubmitStep DEF Enter
    <3> QED
      BY <3>1 DEF IInv, TypeOK
  <2>2. OrderOf(c, sequence + 1) \in Order
    BY <1>3, <2>1 DEF Enter
  <2> QED
    BY <1>1, <1>3, <2>2, EnterIsSound
<1> QED
  BY <1>2, <1>3 DEF SubmitOrder

\* An id the engine does not know is rejected.
LEMMA UnknownIsSound ==
  ASSUME IInv, NEW id \in Ids, UnknownOrder(id)
  PROVE  Sound(batch', sequence')
<1> DEFINE r == Reject(id, sequence + 1)
<1>1. /\ sequence \in Nat /\ sequence + 1 \in Nat /\ sequence + 1 > sequence
      /\ Sound(EmptyBatch, sequence)
  BY EmptyIsSound DEF IInv, TypeOK
<1>2. r \in Report /\ WithinLimit(r) /\ r.seq = sequence + 1
  BY <1>1, ReportTypes
<1>3. sequence' = sequence + 1
  BY DEF UnknownOrder
<1>4. batch' = [reports |-> <<r>>, deltas |-> <<>>]
  BY DEF UnknownOrder, EmptyBatch
<1> HIDE DEF r
<1>5. batch' = [reports |-> Append(EmptyBatch.reports, r), deltas |-> EmptyBatch.deltas]
  BY <1>4 DEF EmptyBatch
<1> QED
  BY <1>1, <1>2, <1>3, <1>5, ReportIsSound

\* A removal: the delta carries the number before the report's.
LEMMA RemovalIsSound ==
  ASSUME IInv, NEW id \in Ids, id \in Registered, RemoveRegistered(id),
         sequence' \in Nat, sequence' >= sequence, NEW status \in {"cancelled", "replaced"}
  PROVE  Sound([reports |-> <<ReportFor(RegisteredOrder(id), status, sequence + 1)>>,
                deltas |-> <<RemovalDelta(id)>>], sequence + 1)
<1> DEFINE r == ReportFor(RegisteredOrder(id), status, sequence + 1)
           e == RemovalDelta(id)
           first == [reports |-> <<>>, deltas |-> <<e>>]
<1>1. /\ sequence \in Nat /\ sequence + 1 \in Nat /\ sequence + 1 > sequence /\ BookInv
      /\ Sound(EmptyBatch, sequence)
  BY EmptyIsSound DEF IInv, TypeOK
<1>2. RegisteredOrder(id) \in Order
  BY <1>1, RemovalStep
<1>3. r \in Report /\ WithinLimit(r) /\ r.seq = sequence + 1
  BY <1>1, <1>2, ReportTypes
<1>4. e \in Delta /\ e.seq = sequence
  <2>1. PICK s \in Products, d \in Sides, p \in Ticks :
               /\ registry[id] = [sym |-> s, side |-> d, px |-> p]
               /\ \E i \in DOMAIN queue[s][d][p] : queue[s][d][p][i].id = id
    BY <1>1, LocationFacts DEF Registered
  <2>2. registry[id].sym = s /\ registry[id].side = d /\ registry[id].px = p
    BY <2>1
  <2>3. queue[s][d][p] \in Seq(Order)
    BY <1>1, LevelFacts
  <2>4. LevelWithout(id) \in Seq(Order)
    <3>1. PositionOf(id, queue[s][d][p]) \in DOMAIN queue[s][d][p]
      BY <2>1 DEF PositionOf
    <3> QED
      BY <2>2, <2>3, <3>1, RemoveAtQueue DEF LevelWithout
  <2>5. e = LevelDelta(s, d, p, LevelWithout(id), sequence)
    BY <2>2 DEF RemovalDelta
  <2> HIDE DEF e
  <2> QED
    BY <1>1, <2>4, <2>5, DeltaTypes
<1> HIDE DEF r, e
<1>5. Sound(first, sequence)
  <2>1. first = [reports |-> EmptyBatch.reports, deltas |-> Append(EmptyBatch.deltas, e)]
    BY DEF EmptyBatch
  <2> QED
    BY <1>1, <1>4, <2>1, DeltaIsSound
<1>6. Sound([reports |-> <<r>>, deltas |-> <<e>>], sequence + 1)
  <2>1. [reports |-> <<r>>, deltas |-> <<e>>] =
          [reports |-> Append(first.reports, r), deltas |-> first.deltas]
    OBVIOUS
  <2> HIDE DEF first
  <2> QED
    BY <1>1, <1>3, <1>5, <2>1, ReportIsSound
<1> QED
  BY <1>6 DEF r, e

\* Cancel: the removal, or a rejection.
LEMMA CancelIsSound ==
  ASSUME IInv, NEW id \in Ids, CancelOrder(id)
  PROVE  Sound(batch', sequence')
<1>1. sequence \in Nat /\ sequence + 1 \in Nat /\ sequence + 1 >= sequence
  BY DEF IInv, TypeOK
<1>2. CASE UnknownOrder(id)
  BY <1>2, UnknownIsSound
<1>3. CASE ~UnknownOrder(id)
  <2>1. /\ id \in Registered /\ RemoveRegistered(id) /\ sequence' = sequence + 1
        /\ batch' = [reports |-> <<ReportFor(RegisteredOrder(id), "cancelled", sequence + 1)>>,
                     deltas |-> <<RemovalDelta(id)>>]
    BY <1>3 DEF CancelOrder
  <2> QED
    BY <1>1, <2>1, RemovalIsSound
<1> QED
  BY <1>2, <1>3

\* Replace: the removal, then the new order's acceptance or rejection.
LEMMA ReplaceIsSound ==
  ASSUME IInv, NEW id \in Ids, NEW px \in RawPrices \cup {None, NaN},
         NEW qty \in Quantities \cup {None}, ReplaceOrder(id, px, qty)
  PROVE  Sound(batch', sequence')
<1>1. sequence \in Nat /\ BookInv
  BY DEF IInv, TypeOK
<1>2. CASE UnknownOrder(id)
  BY <1>2, UnknownIsSound
<1>3. CASE ~UnknownOrder(id)
  <2> DEFINE old == RegisteredOrder(id)
             c == Amended(old, px, qty)
             n == sequence + 1
             before == [reports |-> <<ReportFor(old, "replaced", n)>>,
                        deltas |-> <<RemovalDelta(id)>>]
  <2>1. /\ id \in Registered /\ RemoveRegistered(id)
        /\ \/ Bounce(c, n, before)
           \/ ~Refused(c, Registered \ {id}) /\ Enter(c, n, before)
    BY <1>3 DEF ReplaceOrder
  <2>2. sequence' \in Nat /\ sequence' >= sequence
    BY <1>1, <2>1 DEF Bounce, Enter
  <2>3. old.id = id
    BY <1>1, <2>1, <2>2, RemovalStep
  <2>4. Sound(before, n) /\ n \in Nat
    <3>1. "replaced" \in {"cancelled", "replaced"}
      OBVIOUS
    <3>2. Sound(before, sequence + 1)
      BY <2>1, <2>2, <3>1, RemovalIsSound
    <3> HIDE DEF before
    <3> QED
      BY <1>1, <3>2
  <2>5. CASE Bounce(c, n, before)
    <3>1. c.id \in Ids \cup {NoId}
      BY <2>3 DEF Amended
    <3> HIDE DEF c, n, before
    <3> QED
      BY <2>4, <2>5, <3>1, BounceIsSound
  <2>6. CASE Enter(c, n, before)
    <3>1. IInv' /\ ctl' = "match"
      BY <2>6, ReplaceStep DEF Enter
    <3>2. OrderOf(c, n + 1) \in Order
      BY <2>6, <3>1 DEF Enter, IInv, TypeOK
    <3> HIDE DEF c, n, before
    <3> QED
      BY <2>4, <2>6, <3>2, EnterIsSound
  <2> QED
    BY <2>1, <2>5, <2>6
<1> QED
  BY <1>2, <1>3

\* A trade: the two fills, then the delta of the level when this trade is its last.
LEMMA MatchIsSound ==
  ASSUME IInv, Sound(batch, sequence), NEW p \in Ticks, MatchIncoming(p)
  PROVE  Sound(batch', sequence')
<1> DEFINE s == incoming.sym
           d == Opposite(incoming.side)
           q == queue[s][d][p]
           resting == Head(q)
           qty == TradeQuantity(incoming, resting)
           taker == [incoming EXCEPT !.rem = @ - qty]
           maker == [resting EXCEPT !.rem = @ - qty]
           left == IF maker.rem = 0 THEN Tail(q) ELSE [q EXCEPT ![1] = maker]
           f1 == FillReport(taker, maker.id, qty, p, sequence + 1)
           f2 == FillReport(maker, taker.id, qty, p, sequence + 2)
           done == left = <<>> \/ taker.rem = 0
           e == LevelDelta(s, d, p, left, sequence + 2)
           first == [reports |-> Append(batch.reports, f1), deltas |-> batch.deltas]
           both == [reports |-> Append(first.reports, f2), deltas |-> first.deltas]
           all == [reports |-> both.reports, deltas |-> Append(both.deltas, e)]
<1>1. /\ ctl = "match" /\ incoming \in Order /\ BookInv /\ sequence \in Nat
      /\ IsBest(s, d, p) /\ Crosses(incoming.side, incoming.px, p) /\ incoming.rem > 0
  BY DEF IInv, TypeOK, MatchIncoming, CanMatch
<1>2. /\ sequence' = sequence + 2
      /\ batch' = [reports |-> batch.reports \o <<f1, f2>>,
                   deltas |-> IF done THEN Append(batch.deltas, e) ELSE batch.deltas]
  BY <1>1 DEF MatchIncoming
<1>3. /\ s \in Products /\ d \in Sides /\ incoming.side \in Sides /\ incoming.px \in Int
      /\ incoming.id \in Ids /\ p \in Int
  BY <1>1, ConstantsAssumption DEF Order, Opposite, Sides, Ticks
<1>4. /\ q \in Seq(Order) /\ q # <<>> /\ resting = q[1] /\ resting \in Order
      /\ 1 \in DOMAIN q
  <2>1. q \in Seq(Order)
    BY <1>1, <1>3 DEF BookInv
  <2>2. q # <<>>
    BY <1>1 DEF IsBest
  <2> QED
    BY <2>1, <2>2, TailOfQueue
<1>5. /\ resting.rem \in Nat /\ resting.rem > 0 /\ resting.side = d /\ resting.px = p
      /\ resting.id \in Ids
  <2>1. resting.rem > 0 /\ resting.side = d /\ resting.px = p
    BY <1>1, <1>3, <1>4 DEF BookInv, QueuedOrdersAreLive
  <2> QED
    BY <1>4, <2>1 DEF Order
<1>6. incoming.rem \in Nat
  BY <1>1 DEF Order
<1>7. qty \in Nat /\ incoming.rem - qty \in Nat /\ resting.rem - qty \in Nat
  <2> HIDE DEF resting
  <2> QED
    BY <1>5, <1>6 DEF TradeQuantity
<1>8. /\ taker \in Order /\ taker.id = incoming.id /\ taker.side = incoming.side
      /\ taker.px = incoming.px
  <2> HIDE DEF qty
  <2> QED
    BY <1>1, <1>7 DEF Order
<1>9. /\ maker \in Order /\ maker.id = resting.id /\ maker.side = d /\ maker.px = p
  <2> HIDE DEF qty, resting
  <2> QED
    BY <1>4, <1>5, <1>7 DEF Order
<1>10. left \in Seq(Order)
  <2>1. Tail(q) \in Seq(Order)
    BY <1>4, TailOfQueue
  <2> HIDE DEF maker, q
  <2> QED
    BY <1>4, <1>9, <2>1
<1>11. /\ IF taker.side = "buy" THEN p <= taker.px ELSE p >= taker.px
       /\ IF maker.side = "buy" THEN p <= maker.px ELSE p >= maker.px
  <2>1. IF incoming.side = "buy" THEN incoming.px >= p ELSE incoming.px <= p
    BY <1>1 DEF Crosses
  <2> HIDE DEF taker, maker
  <2> QED
    BY <1>3, <1>8, <1>9, <2>1
<1>12. f1 \in Report /\ WithinLimit(f1) /\ f1.seq = sequence + 1
  <2>1. sequence + 1 \in Nat
    BY <1>1
  <2> HIDE DEF taker, maker, qty, resting
  <2>2. maker.id \in Ids \cup {MarketData}
    BY <1>5, <1>9
  <2> QED
    BY <1>7, <1>8, <1>11, <2>1, <2>2, FillTypes
<1>13. f2 \in Report /\ WithinLimit(f2) /\ f2.seq = sequence + 2
  <2>1. sequence + 2 \in Nat
    BY <1>1
  <2> HIDE DEF taker, maker, qty
  <2>2. taker.id \in Ids \cup {MarketData}
    BY <1>3, <1>8
  <2> QED
    BY <1>7, <1>9, <1>11, <2>1, <2>2, FillTypes
<1>14. e \in Delta /\ e.seq = sequence + 2
  <2>1. sequence + 2 \in Nat
    BY <1>1
  <2> HIDE DEF s, d, left
  <2> QED
    BY <1>3, <1>10, <2>1, DeltaTypes
<1>15. /\ batch \in [reports : Seq(Report), deltas : Seq(Delta)]
       /\ batch.reports \in Seq(Report) /\ batch.deltas \in Seq(Delta)
  BY BatchNumbers DEF Sound
<1> HIDE DEF s, d, q, f1, f2, e, done
<1>16. Sound(first, sequence + 1)
  <2>1. f1.seq > sequence
    BY <1>1, <1>12
  <2>2. Sound(first, f1.seq)
    BY <1>1, <1>12, <2>1, ReportIsSound
  <2> QED
    BY <1>12, <2>2
<1>17. Sound(both, sequence + 2)
  <2>1. f2.seq > sequence + 1 /\ sequence + 1 \in Nat
    BY <1>1, <1>13
  <2> HIDE DEF first
  <2>2. Sound(both, f2.seq)
    BY <1>13, <1>16, <2>1, ReportIsSound
  <2> QED
    BY <1>13, <2>2
<1>18. Sound(all, sequence + 2)
  <2>1. sequence + 2 \in Nat
    BY <1>1
  <2> HIDE DEF both
  <2> QED
    BY <1>14, <1>17, <2>1, DeltaIsSound
<1>19. batch' = IF done THEN all ELSE both
  <2>1. batch.reports \o <<f1, f2>> = Append(Append(batch.reports, f1), f2)
    BY <1>12, <1>13, <1>15
  <2> QED
    BY <1>2, <2>1
<1> HIDE DEF all, both
<1> QED
  BY <1>2, <1>17, <1>18, <1>19

\* The end of the loop: the remainder rests or is reported canceled.
LEMMA FinishIsSound ==
  ASSUME IInv, Sound(batch, sequence), FinishIncoming
  PROVE  Sound(batch', sequence')
<1>1. incoming \in Order /\ BookInv /\ sequence \in Nat
  BY DEF IInv, TypeOK, FinishIncoming
<1>2. sequence + 1 \in Nat /\ sequence + 1 > sequence
  BY <1>1
<1>3. batch \in [reports : Seq(Report), deltas : Seq(Delta)]
  BY DEF Sound
<1>4. ASSUME RestOrder
      PROVE  Sound(batch', sequence')
  <2> DEFINE o == incoming
             q == queue[o.sym][o.side][o.px]
             act == IF q = <<>> THEN "add" ELSE "modify"
             r == ReportFor(o, "working", sequence + 1)
             e == BookDelta(o.sym, o.side, o.px, act, Enqueue(q, o), sequence)
             first == [reports |-> batch.reports, deltas |-> Append(batch.deltas, e)]
  <2>1. /\ sequence' = sequence + 1
        /\ batch' = [reports |-> Append(first.reports, r), deltas |-> first.deltas]
    BY <1>4 DEF RestOrder
  <2>2. r \in Report /\ WithinLimit(r) /\ r.seq = sequence + 1
    BY <1>1, <1>2, ReportTypes
  <2>3. e \in Delta /\ e.seq = sequence
    <3>1. o.sym \in Products /\ o.side \in Sides /\ o.px \in Ticks
      BY <1>1 DEF Order
    <3>2. q \in Seq(Order)
      BY <1>1, <3>1 DEF BookInv
    <3>3. Enqueue(q, o) \in Seq(Order)
      <4> HIDE DEF q
      <4> QED
        BY <1>1, <3>2 DEF Enqueue
    <3>4. act \in {"add", "modify", "delete"}
      OBVIOUS
    <3> HIDE DEF o, act, q
    <3> QED
      BY <1>1, <3>1, <3>3, <3>4, DeltaTypes
  <2> HIDE DEF r, e
  <2>4. Sound(first, sequence)
    BY <1>1, <2>3, DeltaIsSound
  <2>5. r.seq > sequence
    BY <1>2, <2>2
  <2> HIDE DEF first
  <2>6. Sound(batch', r.seq)
    BY <1>1, <2>1, <2>2, <2>4, <2>5, ReportIsSound
  <2> QED
    BY <2>1, <2>2, <2>6
<1>5. ASSUME sequence' = sequence + 1,
             batch' = [batch EXCEPT !.reports =
                         Append(@, ReportFor(incoming, "cancelled", sequence + 1))]
      PROVE  Sound(batch', sequence')
  <2> DEFINE r == ReportFor(incoming, "cancelled", sequence + 1)
  <2>1. r \in Report /\ WithinLimit(r) /\ r.seq = sequence + 1
    BY <1>1, <1>2, ReportTypes
  <2>2. batch' = [batch EXCEPT !.reports = Append(@, r)]
    BY <1>5
  <2> HIDE DEF r
  <2>3. batch' = [reports |-> Append(batch.reports, r), deltas |-> batch.deltas]
    BY <1>3, <2>2, BatchNumbers
  <2>4. r.seq > sequence
    BY <1>2, <2>1
  <2>5. Sound(batch', r.seq)
    BY <1>1, <2>1, <2>3, <2>4, ReportIsSound
  <2> QED
    BY <1>5, <2>1, <2>5
<1>6. ASSUME UNCHANGED <<sequence, batch>>
      PROVE  Sound(batch', sequence')
  BY <1>6
<1> QED
  BY <1>4, <1>5, <1>6 DEF FinishIncoming

\* One order of the sweep, and the delta of the level it empties.
LEMMA SweepIsSound ==
  ASSUME IInv, Sound(batch, sequence), NEW d \in Sides, NEW p \in Ticks, SweepOrder(d, p)
  PROVE  Sound(batch', sequence')
<1> DEFINE s == tick.sym
           q == queue[s][d][p]
           o == [Head(q) EXCEPT !.rem = 0]
           r == FillReport(o, MarketData, Head(q).rem, p, sequence + 1)
           e == LevelDelta(s, d, p, <<>>, sequence + 1)
           first == [reports |-> Append(batch.reports, r), deltas |-> batch.deltas]
           both == [reports |-> first.reports, deltas |-> Append(first.deltas, e)]
<1>1. s \in Products /\ BookInv /\ sequence \in Nat /\ IsBest(s, d, p)
  BY DEF IInv, TypeOK, SweepOrder, CanSweep
<1>2. /\ sequence' = sequence + 1
      /\ batch' = IF Tail(q) = <<>> THEN both ELSE first
  BY DEF SweepOrder
<1>3. /\ q \in Seq(Order) /\ q # <<>> /\ Head(q) = q[1] /\ Head(q) \in Order /\ 1 \in DOMAIN q
  <2>1. q \in Seq(Order)
    BY <1>1 DEF BookInv
  <2>2. q # <<>>
    BY <1>1 DEF IsBest
  <2> QED
    BY <2>1, <2>2, TailOfQueue
<1>4. Head(q).rem \in Nat /\ Head(q).side = d /\ Head(q).px = p
  <2>1. Head(q).side = d /\ Head(q).px = p
    BY <1>1, <1>3 DEF BookInv, QueuedOrdersAreLive
  <2> QED
    BY <1>3, <2>1 DEF Order
<1>5. o \in Order /\ o.side = d /\ o.px = p
  <2> HIDE DEF q
  <2> QED
    BY <1>3, <1>4 DEF Order
<1>6. sequence + 1 \in Nat /\ sequence + 1 > sequence /\ p \in Int
  BY <1>1, ConstantsAssumption DEF Ticks
<1>7. r \in Report /\ WithinLimit(r) /\ r.seq = sequence + 1
  <2>1. MarketData \in Ids \cup {MarketData} /\ (IF o.side = "buy" THEN p <= o.px ELSE p >= o.px)
    BY <1>5, <1>6
  <2> HIDE DEF o, q
  <2> QED
    BY <1>4, <1>5, <1>6, <2>1, FillTypes
<1>8. e \in Delta /\ e.seq = sequence + 1
  <2>1. <<>> \in Seq(Order)
    OBVIOUS
  <2> HIDE DEF s
  <2> QED
    BY <1>1, <1>6, <2>1, DeltaTypes
<1> HIDE DEF r, e, q
<1>9. Sound(first, sequence + 1)
  <2>1. r.seq > sequence
    BY <1>6, <1>7
  <2>2. Sound(first, r.seq)
    BY <1>1, <1>7, <2>1, ReportIsSound
  <2> QED
    BY <1>7, <2>2
<1> HIDE DEF first
<1>10. Sound(both, sequence + 1)
  BY <1>6, <1>8, <1>9, DeltaIsSound
<1> HIDE DEF both
<1> QED
  BY <1>2, <1>9, <1>10

\* The operations that begin with an empty batch and report nothing themselves.
LEMMA SilentIsSound ==
  ASSUME sequence' \in Nat, batch' = EmptyBatch
  PROVE  Sound(batch', sequence')
  BY EmptyIsSound

\* The batch of the running, or of the last, operation is sound.
SoundInv == Sound(batch, sequence)

\* Every step keeps it sound.
LEMMA NextKeepsSoundInv ==
  ASSUME IInv, IInv', SoundInv, [Next]_vars
  PROVE  SoundInv'
<1> SUFFICES ASSUME Sound(batch, sequence) PROVE Sound(batch', sequence')
  BY DEF SoundInv
<1>1. ASSUME NEW c \in Command, SubmitOrder(c) PROVE Sound(batch', sequence')
  BY <1>1, SubmitIsSound
<1>2. ASSUME NEW id \in Ids, CancelOrder(id) PROVE Sound(batch', sequence')
  BY <1>2, CancelIsSound
<1>3. ASSUME NEW id \in Ids, NEW px \in RawPrices \cup {None, NaN},
             NEW qty \in Quantities \cup {None}, ReplaceOrder(id, px, qty)
      PROVE  Sound(batch', sequence')
  BY <1>3, ReplaceIsSound
<1>4. ASSUME NEW t \in Tick, ApplyMarketData(t) PROVE Sound(batch', sequence')
  BY <1>4, SilentIsSound DEF ApplyMarketData, IInv, TypeOK
<1>5. CASE Reset \/ Restart
  BY <1>5, SilentIsSound DEF Reset, Restart, IInv, TypeOK
<1>6. ASSUME NEW p \in Ticks, MatchIncoming(p) PROVE Sound(batch', sequence')
  BY <1>6, MatchIsSound
<1>7. CASE FinishIncoming
  BY <1>7, FinishIsSound
<1>8. ASSUME NEW d \in Sides, NEW p \in Ticks, SweepOrder(d, p)
      PROVE  Sound(batch', sequence')
  BY <1>8, SweepIsSound
<1>9. CASE FinishSweep \/ UNCHANGED vars
  BY <1>9 DEF FinishSweep, vars
<1> QED
  BY <1>1, <1>2, <1>3, <1>4, <1>5, <1>6, <1>7, <1>8, <1>9 DEF Next, Step

\* Every batch is sound at each moment of its operation.
THEOREM BatchInvariance == Spec => []SoundInv
<1>1. Init => SoundInv
  BY EmptyIsSound DEF Init, SoundInv
<1>2. IInv /\ IInv' /\ SoundInv /\ [Next]_vars => SoundInv'
  BY NextKeepsSoundInv
<1> QED
  BY <1>1, <1>2, Invariance, PTL DEF Spec

\* No fill beyond an order's limit, and numbers that only grow, in every batch that
\* an operation of the engine returns or is about to return.
THEOREM BatchesAreSound == Spec => []BatchIsSound
<1>1. SoundInv => BatchIsSound
  BY DEF SoundInv, Sound, BatchIsSound, FillsWithinLimit, BatchIsSequenced, WithinLimit
<1> QED
  BY <1>1, BatchInvariance, PTL
===============================================================================
