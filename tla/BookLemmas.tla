---------------------------- MODULE BookLemmas ----------------------------
(***************************************************************************)
(* What the steps of Exchange do to the book: facts about queues, levels   *)
(* and the best level, three lemmas that say which changes of the book     *)
(* keep its invariant, and what is needed of sums over finite sets and of  *)
(* folds over lists.  The proofs about the engine, the gateway and the     *)
(* services build on them.                                                 *)
(***************************************************************************)
EXTENDS Exchange, FiniteSetTheorems, WellFoundedInduction, TLAPS

\* A book with one level replaced.
LEMMA SetLevelLookup ==
  ASSUME NEW s \in Products, NEW d \in Sides, NEW p \in Ticks, NEW q \in Seq(Order),
         queue \in [Products -> [Sides -> [Ticks -> Seq(Order)]]]
  PROVE  /\ SetLevel(s, d, p, q) \in [Products -> [Sides -> [Ticks -> Seq(Order)]]]
         /\ SetLevel(s, d, p, q)[s][d][p] = q
         /\ \A s2 \in Products, d2 \in Sides, p2 \in Ticks :
              <<s2, d2, p2>> # <<s, d, p>> =>
                SetLevel(s, d, p, q)[s2][d2][p2] = queue[s2][d2][p2]
  BY DEF SetLevel

\* A step that replaces one level of the book.
LEMMA LevelChange ==
  ASSUME NEW s \in Products, NEW d \in Sides, NEW p \in Ticks, NEW q \in Seq(Order),
         queue \in [Products -> [Sides -> [Ticks -> Seq(Order)]]],
         queue' = SetLevel(s, d, p, q)
  PROVE  /\ queue' \in [Products -> [Sides -> [Ticks -> Seq(Order)]]]
         /\ queue'[s][d][p] = q
         /\ \A s2 \in Products, d2 \in Sides, p2 \in Ticks :
              <<s2, d2, p2>> # <<s, d, p>> => queue'[s2][d2][p2] = queue[s2][d2][p2]
  BY SetLevelLookup

\* The rest of a queue whose first order has left it.
LEMMA TailOfQueue ==
  ASSUME NEW q \in Seq(Order), q # <<>>
  PROVE  /\ Tail(q) \in Seq(Order)
         /\ Head(q) \in Order /\ Head(q) = q[1] /\ 1 \in DOMAIN q
         /\ DOMAIN q = 1 .. Len(q) /\ DOMAIN Tail(q) = 1 .. Len(q) - 1
         /\ \A i \in DOMAIN Tail(q) : i + 1 \in DOMAIN q /\ Tail(q)[i] = q[i + 1]
  OBVIOUS

\* RemoveAt keeps the other orders, in their order.
LEMMA RemoveAtQueue ==
  ASSUME NEW q \in Seq(Order), NEW i \in DOMAIN q
  PROVE  /\ RemoveAt(q, i) \in Seq(Order)
         /\ DOMAIN RemoveAt(q, i) = 1 .. Len(q) - 1
         /\ \A j \in DOMAIN RemoveAt(q, i) :
              RemoveAt(q, i)[j] = q[IF j < i THEN j ELSE j + 1]
<1> DEFINE front == SubSeq(q, 1, i - 1)
           back == SubSeq(q, i + 1, Len(q))
<1>1. i \in 1 .. Len(q) /\ Len(q) \in Nat
  OBVIOUS
<1>2. /\ front \in Seq(Order) /\ Len(front) = i - 1
      /\ \A j \in 1 .. i - 1 : front[j] = q[j]
  BY <1>1
<1>3. /\ back \in Seq(Order) /\ Len(back) = Len(q) - i
      /\ \A j \in 1 .. Len(q) - i : back[j] = q[i + j]
  BY <1>1
<1>4. /\ front \o back \in Seq(Order) /\ Len(front \o back) = Len(q) - 1
      /\ \A j \in 1 .. Len(q) - 1 :
           (front \o back)[j] = IF j < i THEN front[j] ELSE back[j - (i - 1)]
  <2> HIDE DEF front, back
  <2> QED BY <1>1, <1>2, <1>3
<1>5. ASSUME NEW j \in 1 .. Len(q) - 1
      PROVE  (front \o back)[j] = q[IF j < i THEN j ELSE j + 1]
  <2> HIDE DEF front, back
  <2>1. CASE j < i
    BY <2>1, <1>1, <1>2, <1>4
  <2>2. CASE ~(j < i)
    <3>1. j - (i - 1) \in 1 .. Len(q) - i /\ i + (j - (i - 1)) = j + 1
      BY <2>2, <1>1
    <3>2. back[j - (i - 1)] = q[i + (j - (i - 1))]
      BY <3>1, <1>3
    <3>3. (front \o back)[j] = back[j - (i - 1)]
      BY <2>2, <1>4
    <3>4. q[IF j < i THEN j ELSE j + 1] = q[j + 1]
      BY <2>2
    <3> QED BY <3>1, <3>2, <3>3, <3>4
  <2> QED BY <2>1, <2>2
<1> HIDE DEF front, back
<1>6. RemoveAt(q, i) = front \o back
  BY DEF RemoveAt, front, back
<1>7. DOMAIN (front \o back) = 1 .. Len(q) - 1
  BY <1>1, <1>4
<1> QED
  BY <1>4, <1>5, <1>6, <1>7

\* The engine keeps an order of every command its checks let through.
LEMMA OrderOfType ==
  ASSUME NEW c, c.id \in Ids, c.sym \in Products, c.side \in Sides, c.type \in Types,
         c.tif \in Tifs, c.qty \in Int, c.qty > 0, NEW n \in Nat,
         c.type = "limit" => ToTicks(c.px) \in Ticks
  PROVE  OrderOf(c, n) \in Order
  BY ConstantsAssumption DEF OrderOf, Order, Types, Ticks, MarketPriceBoundary, Sides
\* A price in ticks survives being sent as a price.
LEMMA RoundTrip ==
  ASSUME NEW p \in Int
  PROVE  ToTicks(FromTicks(p)) = p
  BY DEF ToTicks, FromTicks

-----------------------------------------------------------------------------
(***************************************************************************)
(* How one level of the book changes.                                      *)
(***************************************************************************)
\* left is queue q without its k-th order.
Without(q, k, left) ==
  /\ left \in Seq(Order)
  /\ DOMAIN left = 1 .. Len(q) - 1
  /\ \A j \in DOMAIN left : left[j] = q[IF j < k THEN j ELSE j + 1]

\* The sequence number n is younger than every queued order.
SeqBelow(n) ==
  \A s \in Products, d \in Sides, p \in Ticks :
    \A i \in DOMAIN queue[s][d][p] : queue[s][d][p][i].seq < n

\* What the invariant says of one level.
LEMMA LevelFacts ==
  ASSUME BookInv, NEW s \in Products, NEW d \in Sides, NEW p \in Ticks
  PROVE  /\ queue[s][d][p] \in Seq(Order)
         /\ \A i \in DOMAIN queue[s][d][p] :
              /\ queue[s][d][p][i] \in Order
              /\ queue[s][d][p][i].id \in Ids
              /\ registry[queue[s][d][p][i].id] = [sym |-> s, side |-> d, px |-> p]
         /\ \A i, j \in DOMAIN queue[s][d][p] :
              queue[s][d][p][i].id = queue[s][d][p][j].id => i = j
<1>1. queue[s][d][p] \in Seq(Order)
  BY DEF BookInv
<1>2. \A i \in DOMAIN queue[s][d][p] : queue[s][d][p][i] \in Order
  BY <1>1
<1>3. \A i \in DOMAIN queue[s][d][p] : queue[s][d][p][i].id \in Ids
  BY <1>2 DEF Order
<1>4. \A i \in DOMAIN queue[s][d][p] :
        /\ registry[queue[s][d][p][i].id] = [sym |-> s, side |-> d, px |-> p]
        /\ \A j \in DOMAIN queue[s][d][p] :
             queue[s][d][p][i].id = queue[s][d][p][j].id => i = j
  BY Zenon DEF BookInv, RegistryMatchesBook
<1> QED
  BY <1>1, <1>2, <1>3, <1>4

\* What the invariant says of one registered id.
LEMMA LocationFacts ==
  ASSUME BookInv, NEW id \in Ids, registry[id] # Nowhere
  PROVE  \E s \in Products, d \in Sides, p \in Ticks :
           /\ registry[id] = [sym |-> s, side |-> d, px |-> p]
           /\ \E i \in DOMAIN queue[s][d][p] : queue[s][d][p][i].id = id
<1>1. PICK s \in Products, d \in Sides, p \in Ticks :
             registry[id] = [sym |-> s, side |-> d, px |-> p]
  BY DEF BookInv, Location
<1>2. \E i \in DOMAIN queue[registry[id].sym][registry[id].side][registry[id].px] :
        queue[registry[id].sym][registry[id].side][registry[id].px][i].id = id
  BY DEF BookInv, RegistryMatchesBook
<1>3. registry[id].sym = s /\ registry[id].side = d /\ registry[id].px = p
  BY <1>1
<1> QED
  BY <1>1, <1>2, <1>3

\* An order leaves the book and the registry.
LEMMA RemovalKeepsBook ==
  ASSUME BookInv,
         NEW s \in Products, NEW d \in Sides, NEW p \in Ticks,
         NEW k \in DOMAIN queue[s][d][p], NEW left, Without(queue[s][d][p], k, left),
         queue' = SetLevel(s, d, p, left),
         registry' = [registry EXCEPT ![queue[s][d][p][k].id] = Nowhere],
         sequence' \in Nat, sequence' >= sequence
  PROVE  BookInv' /\ \A n \in Int : SeqBelow(n) => SeqBelow(n)'
<1> DEFINE q == queue[s][d][p]
           id == q[k].id
<1>1. /\ q \in Seq(Order) /\ left \in Seq(Order) /\ k \in 1 .. Len(q)
      /\ DOMAIN q = 1 .. Len(q) /\ DOMAIN left = 1 .. Len(q) - 1
      /\ q[k] \in Order /\ id \in Ids
  <2>1. q \in Seq(Order)
    BY DEF BookInv
  <2>2. DOMAIN q = 1 .. Len(q) /\ q[k] \in Order
    BY <2>1
  <2>3. q[k].id \in Ids
    BY <2>2 DEF Order
  <2> QED
    BY <2>1, <2>2, <2>3 DEF Without
<1>2. /\ queue' \in [Products -> [Sides -> [Ticks -> Seq(Order)]]]
      /\ queue'[s][d][p] = left
      /\ \A s2 \in Products, d2 \in Sides, p2 \in Ticks :
           <<s2, d2, p2>> # <<s, d, p>> => queue'[s2][d2][p2] = queue[s2][d2][p2]
  <2>1. queue \in [Products -> [Sides -> [Ticks -> Seq(Order)]]]
    BY DEF BookInv
  <2> QED
    BY <1>1, <2>1, LevelChange
<1>3. registry' \in [Ids -> Location \cup {Nowhere}]
  BY <1>1 DEF BookInv
<1>4. registry[id] = [sym |-> s, side |-> d, px |-> p]
  BY LevelFacts
\* Each remaining order was in the same queue, elsewhere than at k, and is not id.
<1>5. ASSUME NEW s2 \in Products, NEW d2 \in Sides, NEW p2 \in Ticks,
             NEW i \in DOMAIN queue'[s2][d2][p2]
      PROVE  \E h \in DOMAIN queue[s2][d2][p2] :
               /\ queue'[s2][d2][p2][i] = queue[s2][d2][p2][h]
               /\ queue[s2][d2][p2][h].id # id
               /\ h = IF <<s2, d2, p2>> # <<s, d, p>> \/ i < k THEN i ELSE i + 1
  <2>1. CASE <<s2, d2, p2>> = <<s, d, p>>
    <3>1. i \in 1 .. Len(q) - 1 /\ left[i] = q[IF i < k THEN i ELSE i + 1]
      BY <2>1, <1>1, <1>2 DEF Without
    <3> DEFINE h == IF i < k THEN i ELSE i + 1
    <3>2. h \in DOMAIN q /\ h # k
      BY <3>1, <1>1
    <3>3. \A g1, g2 \in DOMAIN q : q[g1].id = q[g2].id => g1 = g2
      BY LevelFacts, Zenon
    <3>4. q[h].id # q[k].id
      BY <3>2, <3>3, <1>1
    <3> QED
      BY <2>1, <1>2, <3>1, <3>2, <3>4
  <2>2. CASE <<s2, d2, p2>> # <<s, d, p>>
    <3>1. queue'[s2][d2][p2] = queue[s2][d2][p2]
      BY <2>2, <1>2
    <3>2. registry[queue[s2][d2][p2][i].id] = [sym |-> s2, side |-> d2, px |-> p2]
      BY <3>1, LevelFacts
    <3>3. queue[s2][d2][p2][i].id # id
      BY <2>2, <1>4, <3>2
    <3> QED
      BY <2>2, <3>1, <3>3
  <2> QED
    BY <2>1, <2>2
<1>6. QueuedOrdersAreLive'
  <2>1. ASSUME NEW s2 \in Products, NEW d2 \in Sides, NEW p2 \in Ticks,
               NEW i \in DOMAIN queue'[s2][d2][p2]
        PROVE  LET o == queue'[s2][d2][p2][i]
               IN /\ o.sym = s2 /\ o.side = d2 /\ o.px = p2
                  /\ o.rem > 0 /\ o.rem <= o.orig
                  /\ o.type = "limit" /\ o.tif # "ioc"
    <3>1. PICK h \in DOMAIN queue[s2][d2][p2] : queue'[s2][d2][p2][i] = queue[s2][d2][p2][h]
      BY <1>5
    <3> DEFINE o == queue[s2][d2][p2][h]
    <3>2. /\ o.sym = s2 /\ o.side = d2 /\ o.px = p2
          /\ o.rem > 0 /\ o.rem <= o.orig
          /\ o.type = "limit" /\ o.tif # "ioc"
      BY DEF BookInv, QueuedOrdersAreLive
    <3> QED
      BY <3>1, <3>2
  <2> QED
    BY <2>1 DEF QueuedOrdersAreLive
<1>7. FifoBySequence'
  <2> SUFFICES ASSUME NEW s2 \in Products, NEW d2 \in Sides, NEW p2 \in Ticks,
                      NEW i \in DOMAIN queue'[s2][d2][p2],
                      NEW j \in DOMAIN queue'[s2][d2][p2]
               PROVE  /\ queue'[s2][d2][p2][i].seq <= sequence'
                      /\ i < j => queue'[s2][d2][p2][i].seq < queue'[s2][d2][p2][j].seq
    BY DEF FifoBySequence
  <2>1. PICK h \in DOMAIN queue[s2][d2][p2] :
               /\ queue'[s2][d2][p2][i] = queue[s2][d2][p2][h]
               /\ h = IF <<s2, d2, p2>> # <<s, d, p>> \/ i < k THEN i ELSE i + 1
    BY <1>5
  <2>2. PICK g \in DOMAIN queue[s2][d2][p2] :
               /\ queue'[s2][d2][p2][j] = queue[s2][d2][p2][g]
               /\ g = IF <<s2, d2, p2>> # <<s, d, p>> \/ j < k THEN j ELSE j + 1
    BY <1>5
  <2>3. i \in Nat /\ j \in Nat /\ k \in Nat
    BY <1>1, <1>2
  <2>4. i < j => h < g
    BY <2>1, <2>2, <2>3
  <2>5. queue[s2][d2][p2][h].seq <= sequence /\ queue[s2][d2][p2][h].seq \in Nat
    <3>1. queue[s2][d2][p2][h] \in Order
      BY DEF BookInv
    <3> QED
      BY <3>1 DEF BookInv, FifoBySequence, Order
  <2>6. h < g => queue[s2][d2][p2][h].seq < queue[s2][d2][p2][g].seq
    BY DEF BookInv, FifoBySequence
  <2>7. sequence \in Nat
    BY DEF BookInv
  <2> QED
    BY <2>1, <2>2, <2>4, <2>5, <2>6, <2>7
<1>8. BookUncrossed'
  <2> SUFFICES ASSUME NEW s2 \in Products, NEW b \in Ticks, NEW a \in Ticks,
                      queue'[s2]["buy"][b] # <<>>, queue'[s2]["sell"][a] # <<>>
               PROVE  b < a
    BY DEF BookUncrossed
  <2>1. \A d2 \in Sides, p2 \in Ticks :
          queue'[s2][d2][p2] # <<>> => queue[s2][d2][p2] # <<>>
    <3>1. q # <<>>
      BY <1>1
    <3> QED
      BY <3>1, <1>2
  <2> QED
    BY <2>1 DEF BookInv, BookUncrossed, Sides
<1>9. RegistryMatchesBook'
  <2>1. ASSUME NEW other \in Ids, registry'[other] # Nowhere
        PROVE  \E i \in DOMAIN queue'[registry'[other].sym][registry'[other].side]
                                      [registry'[other].px] :
                 queue'[registry'[other].sym][registry'[other].side]
                       [registry'[other].px][i].id = other
    <3>1. other # id /\ registry'[other] = registry[other]
      BY <2>1, <1>1 DEF BookInv
    <3>2. PICK s2 \in Products, d2 \in Sides, p2 \in Ticks :
                 /\ registry[other] = [sym |-> s2, side |-> d2, px |-> p2]
                 /\ \E i \in DOMAIN queue[s2][d2][p2] : queue[s2][d2][p2][i].id = other
      BY <2>1, <3>1, LocationFacts
    <3>3. PICK h \in DOMAIN queue[s2][d2][p2] : queue[s2][d2][p2][h].id = other
      BY <3>2
    <3>4. ASSUME <<s2, d2, p2>> = <<s, d, p>>
          PROVE  \E i \in DOMAIN queue'[s2][d2][p2] : queue'[s2][d2][p2][i].id = other
      <4> DEFINE m == IF h < k THEN h ELSE h - 1
      <4>1. h \in 1 .. Len(q) /\ h # k
        BY <3>1, <3>3, <3>4, <1>1
      <4>2. m \in DOMAIN left /\ (IF m < k THEN m ELSE m + 1) = h
        BY <4>1, <1>1
      <4>3. left[m] = q[h]
        BY <4>2 DEF Without
      <4>4. queue'[s2][d2][p2] = left /\ q[h].id = other
        BY <3>3, <3>4, <1>2
      <4> QED
        BY <4>2, <4>3, <4>4
    <3>5. ASSUME <<s2, d2, p2>> # <<s, d, p>>
          PROVE  \E i \in DOMAIN queue'[s2][d2][p2] : queue'[s2][d2][p2][i].id = other
      <4>1. queue'[s2][d2][p2] = queue[s2][d2][p2]
        BY <3>5, <1>2
      <4> QED
        BY <3>3, <4>1
    <3>6. \E i \in DOMAIN queue'[s2][d2][p2] : queue'[s2][d2][p2][i].id = other
      BY <3>4, <3>5
    <3>7. registry'[other].sym = s2 /\ registry'[other].side = d2 /\ registry'[other].px = p2
      BY <3>1, <3>2
    <3> QED
      BY <3>6, <3>7
  <2>2. ASSUME NEW s2 \in Products, NEW d2 \in Sides, NEW p2 \in Ticks,
               NEW i \in DOMAIN queue'[s2][d2][p2]
        PROVE  /\ registry'[queue'[s2][d2][p2][i].id] = [sym |-> s2, side |-> d2, px |-> p2]
               /\ \A j \in DOMAIN queue'[s2][d2][p2] :
                    queue'[s2][d2][p2][i].id = queue'[s2][d2][p2][j].id => i = j
    <3>1. PICK h \in DOMAIN queue[s2][d2][p2] :
                 /\ queue'[s2][d2][p2][i] = queue[s2][d2][p2][h]
                 /\ queue[s2][d2][p2][h].id # id
                 /\ h = IF <<s2, d2, p2>> # <<s, d, p>> \/ i < k THEN i ELSE i + 1
      BY <1>5
    <3>2. registry'[queue[s2][d2][p2][h].id] = [sym |-> s2, side |-> d2, px |-> p2]
      <4>1. /\ queue[s2][d2][p2][h].id \in Ids
            /\ registry[queue[s2][d2][p2][h].id] = [sym |-> s2, side |-> d2, px |-> p2]
        BY LevelFacts
      <4>2. \A other \in Ids : other # id => registry'[other] = registry[other]
        BY <1>1 DEF BookInv
      <4> QED
        BY <3>1, <4>1, <4>2
    <3>3. ASSUME NEW j \in DOMAIN queue'[s2][d2][p2],
                 queue'[s2][d2][p2][i].id = queue'[s2][d2][p2][j].id
          PROVE  i = j
      <4>1. PICK g \in DOMAIN queue[s2][d2][p2] :
                   /\ queue'[s2][d2][p2][j] = queue[s2][d2][p2][g]
                   /\ g = IF <<s2, d2, p2>> # <<s, d, p>> \/ j < k THEN j ELSE j + 1
        BY <1>5
      <4>2. h = g
        <5>1. \A h2, g2 \in DOMAIN queue[s2][d2][p2] :
                queue[s2][d2][p2][h2].id = queue[s2][d2][p2][g2].id => h2 = g2
          BY LevelFacts, Zenon
        <5>2. queue[s2][d2][p2][h].id = queue[s2][d2][p2][g].id
          BY <3>1, <3>3, <4>1
        <5> QED
          BY <5>1, <5>2
      <4>3. i \in Nat /\ j \in Nat /\ k \in Nat
        BY <1>1, <1>2
      <4> QED
        BY <3>1, <4>1, <4>2, <4>3
    <3> QED
      BY <3>1, <3>2, <3>3
  <2> QED
    BY <2>1, <2>2 DEF RegistryMatchesBook
<1>10. ASSUME NEW n \in Int, SeqBelow(n)
       PROVE  SeqBelow(n)'
  BY <1>5, <1>10 DEF SeqBelow
<1> QED
  BY <1>2, <1>3, <1>6, <1>7, <1>8, <1>9, <1>10 DEF BookInv
-----------------------------------------------------------------------------
(***************************************************************************)
(* The best level.                                                         *)
(***************************************************************************)
\* A set of naturals that is not empty has a least element.
LEMMA LeastNatural ==
  ASSUME NEW T, T \subseteq Nat, T # {}
  PROVE  \E x \in T : \A y \in T : x <= y
<1>1. PICK x \in T : \A y \in T : ~ (<<y, x>> \in OpToRel(<, Nat))
  BY NatLessThanWellFounded, WFMin
<1>2. \A y \in T : ~ (y < x)
  BY <1>1 DEF OpToRel
<1> QED
  BY <1>2

\* A side with a level has a best level, which is p or better than p.
LEMMA BestExists ==
  ASSUME queue \in [Products -> [Sides -> [Ticks -> Seq(Order)]]],
         NEW s \in Products, NEW d \in Sides, NEW p \in Ticks, queue[s][d][p] # <<>>
  PROVE  \E b \in Ticks : IsBest(s, d, b) /\ (b = p \/ Better(d, b, p))
<1> DEFINE levels == {r \in Ticks : queue[s][d][r] # <<>>}
           rank(r) == IF d = "buy" THEN MaxTick - r ELSE r - MinTick
           T == {rank(r) : r \in levels}
<1>1. \A r \in Ticks : r \in Int /\ MinTick <= r /\ r <= MaxTick
  BY ConstantsAssumption DEF Ticks
<1>2. T \subseteq Nat /\ rank(p) \in T
  BY <1>1, ConstantsAssumption
<1>3. PICK x \in T : \A y \in T : x <= y
  <2> HIDE DEF T
  <2> QED BY <1>2, LeastNatural
<1>4. PICK b \in levels : x = rank(b)
  OBVIOUS
<1>5. \A r \in levels : rank(b) <= rank(r)
  BY <1>3, <1>4
<1>6. \A r \in levels : r = b \/ Better(d, b, r)
  BY <1>1, <1>5, ConstantsAssumption DEF Better
<1> QED
  BY <1>6 DEF IsBest
-----------------------------------------------------------------------------
\* n is order o, or what a partial fill has left of it.
SameOrder(o, n) ==
  /\ n.id = o.id /\ n.seq = o.seq /\ n.sym = o.sym /\ n.side = o.side
  /\ n.px = o.px /\ n.orig = o.orig /\ n.type = o.type /\ n.tif = o.tif
  /\ n.rem > 0 /\ n.rem <= o.rem
  /\ n.rem \in Nat /\ o.rem \in Nat /\ o.orig \in Nat

\* A level keeps its orders, one of them partly filled.
LEMMA PartialFillKeepsBook ==
  ASSUME BookInv,
         NEW s \in Products, NEW d \in Sides, NEW p \in Ticks, queue[s][d][p] # <<>>,
         NEW left \in Seq(Order), DOMAIN left = DOMAIN queue[s][d][p],
         \A i \in DOMAIN queue[s][d][p] : SameOrder(queue[s][d][p][i], left[i]),
         queue' = SetLevel(s, d, p, left),
         registry' = registry,
         sequence' \in Nat, sequence' >= sequence
  PROVE  BookInv' /\ \A n \in Int : SeqBelow(n) => SeqBelow(n)'
<1> DEFINE q == queue[s][d][p]
<1>5. /\ queue' \in [Products -> [Sides -> [Ticks -> Seq(Order)]]]
      /\ queue'[s][d][p] = left
      /\ \A s2 \in Products, d2 \in Sides, p2 \in Ticks :
           <<s2, d2, p2>> # <<s, d, p>> => queue'[s2][d2][p2] = queue[s2][d2][p2]
  <2>1. queue \in [Products -> [Sides -> [Ticks -> Seq(Order)]]]
    BY DEF BookInv
  <2> QED
    BY <2>1, LevelChange
\* Seen through every field but rem, the book is what it was.
<1>6. ASSUME NEW s2 \in Products, NEW d2 \in Sides, NEW p2 \in Ticks
      PROVE  /\ DOMAIN queue'[s2][d2][p2] = DOMAIN queue[s2][d2][p2]
             /\ \A i \in DOMAIN queue[s2][d2][p2] :
                  SameOrder(queue[s2][d2][p2][i], queue'[s2][d2][p2][i])
  <2>1. CASE <<s2, d2, p2>> = <<s, d, p>>
    BY <2>1, <1>5
  <2>2. CASE <<s2, d2, p2>> # <<s, d, p>>
    <3>1. queue'[s2][d2][p2] = queue[s2][d2][p2]
      BY <2>2, <1>5
    <3>2. ASSUME NEW i \in DOMAIN queue[s2][d2][p2]
          PROVE  SameOrder(queue[s2][d2][p2][i], queue[s2][d2][p2][i])
      <4>1. queue[s2][d2][p2][i] \in Order
        BY LevelFacts
      <4>2. queue[s2][d2][p2][i].rem > 0
        BY DEF BookInv, QueuedOrdersAreLive
      <4> QED
        BY <4>1, <4>2 DEF Order, SameOrder
    <3> QED
      BY <3>1, <3>2
  <2> QED
    BY <2>1, <2>2
<1>7. QueuedOrdersAreLive'
  <2>1. ASSUME NEW s2 \in Products, NEW d2 \in Sides, NEW p2 \in Ticks,
               NEW i \in DOMAIN queue'[s2][d2][p2]
        PROVE  LET o == queue'[s2][d2][p2][i]
               IN /\ o.sym = s2 /\ o.side = d2 /\ o.px = p2
                  /\ o.rem > 0 /\ o.rem <= o.orig
                  /\ o.type = "limit" /\ o.tif # "ioc"
    <3> DEFINE old == queue[s2][d2][p2][i]
               new == queue'[s2][d2][p2][i]
    <3>1. i \in DOMAIN queue[s2][d2][p2]
      BY <1>6
    <3>2. /\ old.sym = s2 /\ old.side = d2 /\ old.px = p2
          /\ old.rem > 0 /\ old.rem <= old.orig
          /\ old.type = "limit" /\ old.tif # "ioc"
      BY <3>1 DEF BookInv, QueuedOrdersAreLive
    <3>3. SameOrder(old, new)
      BY <3>1, <1>6
    <3> HIDE DEF old, new
    <3>4. /\ new.sym = s2 /\ new.side = d2 /\ new.px = p2
          /\ new.rem > 0 /\ new.rem <= new.orig
          /\ new.type = "limit" /\ new.tif # "ioc"
      BY <3>2, <3>3 DEF SameOrder
    <3> QED
      BY <3>4 DEF new
  <2> QED
    BY <2>1 DEF QueuedOrdersAreLive
<1>8. FifoBySequence'
  <2>1. sequence \in Nat /\ FifoBySequence
    BY DEF BookInv
  <2>2. \A s2 \in Products, d2 \in Sides, p2 \in Ticks :
          \A i \in DOMAIN queue[s2][d2][p2] : queue[s2][d2][p2][i].seq \in Nat
    BY LevelFacts DEF Order
  <2>3. ASSUME NEW s2 \in Products, NEW d2 \in Sides, NEW p2 \in Ticks,
               NEW i \in DOMAIN queue'[s2][d2][p2],
               NEW j \in DOMAIN queue'[s2][d2][p2]
        PROVE  /\ queue'[s2][d2][p2][i].seq <= sequence'
               /\ i < j => queue'[s2][d2][p2][i].seq < queue'[s2][d2][p2][j].seq
    <3>1. i \in DOMAIN queue[s2][d2][p2] /\ j \in DOMAIN queue[s2][d2][p2]
      BY <1>6
    <3>2. /\ queue'[s2][d2][p2][i].seq = queue[s2][d2][p2][i].seq
          /\ queue'[s2][d2][p2][j].seq = queue[s2][d2][p2][j].seq
      BY <3>1, <1>6 DEF SameOrder
    <3>3. /\ queue[s2][d2][p2][i].seq <= sequence
          /\ i < j => queue[s2][d2][p2][i].seq < queue[s2][d2][p2][j].seq
      BY <2>1, <3>1 DEF FifoBySequence
    <3>4. queue[s2][d2][p2][i].seq \in Nat
      BY <2>2, <3>1
    <3>5. queue[s2][d2][p2][i].seq <= sequence'
      BY <2>1, <3>3, <3>4
    <3> QED
      BY <3>2, <3>3, <3>5, Zenon
  <2> QED
    BY <2>3 DEF FifoBySequence
<1>9. BookUncrossed'
  <2>1. \A s2 \in Products, d2 \in Sides, p2 \in Ticks :
          queue'[s2][d2][p2] # <<>> => queue[s2][d2][p2] # <<>>
    <3>1. q # <<>>
      OBVIOUS
    <3>2. ASSUME NEW s2 \in Products, NEW d2 \in Sides, NEW p2 \in Ticks
          PROVE  queue'[s2][d2][p2] # <<>> => queue[s2][d2][p2] # <<>>
      <4>1. CASE <<s2, d2, p2>> = <<s, d, p>>
        BY <4>1, <3>1
      <4>2. CASE <<s2, d2, p2>> # <<s, d, p>>
        BY <4>2, <1>5, Zenon
      <4> QED
        BY <4>1, <4>2
    <3> QED
      BY <3>2
  <2> QED
    BY <2>1 DEF BookInv, BookUncrossed, Sides
<1>10. RegistryMatchesBook'
  <2>1. ASSUME NEW other \in Ids, registry'[other] # Nowhere
        PROVE  \E i \in DOMAIN queue'[registry'[other].sym][registry'[other].side]
                                      [registry'[other].px] :
                 queue'[registry'[other].sym][registry'[other].side]
                       [registry'[other].px][i].id = other
    <3>1. PICK s2 \in Products, d2 \in Sides, p2 \in Ticks :
                 /\ registry[other] = [sym |-> s2, side |-> d2, px |-> p2]
                 /\ \E i \in DOMAIN queue[s2][d2][p2] : queue[s2][d2][p2][i].id = other
      BY <2>1, LocationFacts
    <3>2. PICK i \in DOMAIN queue[s2][d2][p2] : queue[s2][d2][p2][i].id = other
      BY <3>1
    <3>3. i \in DOMAIN queue'[s2][d2][p2] /\ queue'[s2][d2][p2][i].id = other
      <4>1. i \in DOMAIN queue'[s2][d2][p2]
        BY <3>2, <1>6
      <4>2. SameOrder(queue[s2][d2][p2][i], queue'[s2][d2][p2][i])
        BY <3>2, <1>6
      <4> QED
        BY <3>2, <4>1, <4>2 DEF SameOrder
    <3> QED
      BY <3>1, <3>3
  <2>2. ASSUME NEW s2 \in Products, NEW d2 \in Sides, NEW p2 \in Ticks,
               NEW i \in DOMAIN queue'[s2][d2][p2]
        PROVE  /\ registry'[queue'[s2][d2][p2][i].id] = [sym |-> s2, side |-> d2, px |-> p2]
               /\ \A j \in DOMAIN queue'[s2][d2][p2] :
                    queue'[s2][d2][p2][i].id = queue'[s2][d2][p2][j].id => i = j
    <3>1. /\ DOMAIN queue'[s2][d2][p2] = DOMAIN queue[s2][d2][p2]
          /\ \A j \in DOMAIN queue[s2][d2][p2] :
               queue'[s2][d2][p2][j].id = queue[s2][d2][p2][j].id
      BY <1>6 DEF SameOrder
    <3>2. registry[queue[s2][d2][p2][i].id] = [sym |-> s2, side |-> d2, px |-> p2]
      BY <3>1, LevelFacts
    <3>3. \A h, g \in DOMAIN queue[s2][d2][p2] :
            queue[s2][d2][p2][h].id = queue[s2][d2][p2][g].id => h = g
      BY LevelFacts, Zenon
    <3> QED
      BY <3>1, <3>2, <3>3
  <2> QED
    BY <2>1, <2>2 DEF RegistryMatchesBook
<1>11. ASSUME NEW n \in Int, SeqBelow(n)
       PROVE  SeqBelow(n)'
  <2>1. ASSUME NEW s2 \in Products, NEW d2 \in Sides, NEW p2 \in Ticks,
               NEW i \in DOMAIN queue'[s2][d2][p2]
        PROVE  queue'[s2][d2][p2][i].seq < n
    <3>1. i \in DOMAIN queue[s2][d2][p2]
      BY <1>6
    <3>2. queue'[s2][d2][p2][i].seq = queue[s2][d2][p2][i].seq
      BY <3>1, <1>6 DEF SameOrder
    <3> QED
      BY <1>11, <3>1, <3>2 DEF SeqBelow
  <2> QED
    BY <2>1 DEF SeqBelow
<1> QED
  BY <1>5, <1>7, <1>8, <1>9, <1>10, <1>11 DEF BookInv
-----------------------------------------------------------------------------
\* left is queue q with o behind it.
Added(q, o, left) ==
  /\ left \in Seq(Order)
  /\ DOMAIN left = 1 .. Len(q) + 1
  /\ \A j \in DOMAIN left : left[j] = IF j = Len(q) + 1 THEN o ELSE q[j]

\* Queueing at the end adds that order and no other.
LEMMA AppendQueue ==
  ASSUME NEW q \in Seq(Order), NEW o \in Order
  PROVE  Added(q, o, Append(q, o))
  BY DEF Added

\* o is no better than the other side allows: it crosses nothing there.
CrossesNothing(o) ==
  \A r \in Ticks : queue[o.sym][Opposite(o.side)][r] # <<>> => ~Crosses(o.side, o.px, r)

\* A new order, whose price crosses nothing, goes behind its level.
LEMMA ArrivalKeepsBook ==
  ASSUME BookInv,
         NEW s \in Products, NEW d \in Sides, NEW p \in Ticks,
         NEW o \in Order, o.sym = s, o.side = d, o.px = p,
         registry[o.id] = Nowhere, Rests(o), o.rem <= o.orig,
         o.seq <= sequence, SeqBelow(o.seq), CrossesNothing(o),
         NEW left, Added(queue[s][d][p], o, left),
         queue' = SetLevel(s, d, p, left),
         registry' = [registry EXCEPT ![o.id] = [sym |-> s, side |-> d, px |-> p]],
         sequence' \in Nat, sequence' >= sequence
  PROVE  BookInv'
<1> DEFINE q == queue[s][d][p]
           loc == [sym |-> s, side |-> d, px |-> p]
<1>1. /\ o.id \in Ids /\ o.rem > 0 /\ o.seq \in Nat
  BY DEF Order, Rests
<1>2. q \in Seq(Order) /\ DOMAIN q = 1 .. Len(q) /\ Len(q) \in Nat
  <2>1. q \in Seq(Order)
    BY <1>1 DEF BookInv
  <2> QED
    BY <2>1
<1>3. /\ left \in Seq(Order) /\ left # <<>>
      /\ DOMAIN left = 1 .. Len(q) + 1 /\ left[Len(q) + 1] = o
      /\ \A j \in DOMAIN left : left[j] = IF j = Len(q) + 1 THEN o ELSE q[j]
  <2>1. /\ left \in Seq(Order) /\ DOMAIN left = 1 .. Len(q) + 1
        /\ \A j \in DOMAIN left : left[j] = IF j = Len(q) + 1 THEN o ELSE q[j]
    BY DEF Added
  <2>2. Len(q) + 1 \in DOMAIN left
    BY <2>1, <1>2
  <2> QED
    BY <2>1, <2>2
<1>4. /\ queue' \in [Products -> [Sides -> [Ticks -> Seq(Order)]]]
      /\ queue'[s][d][p] = left
      /\ \A s2 \in Products, d2 \in Sides, p2 \in Ticks :
           <<s2, d2, p2>> # <<s, d, p>> => queue'[s2][d2][p2] = queue[s2][d2][p2]
  <2>1. queue \in [Products -> [Sides -> [Ticks -> Seq(Order)]]]
    BY DEF BookInv
  <2> QED
    BY <1>3, <2>1, LevelChange
<1>5. /\ registry' \in [Ids -> Location \cup {Nowhere}] /\ registry'[o.id] = loc
      /\ \A id \in Ids \ {o.id} : registry'[id] = registry[id]
  BY <1>1 DEF BookInv, Location
\* Each order of the new book is o, at the end of its queue, or was there before.
<1>6. ASSUME NEW s2 \in Products, NEW d2 \in Sides, NEW p2 \in Ticks,
             NEW i \in DOMAIN queue'[s2][d2][p2]
      PROVE  \/ /\ <<s2, d2, p2>> = <<s, d, p>> /\ i = Len(queue[s2][d2][p2]) + 1
                /\ queue'[s2][d2][p2][i] = o
             \/ /\ i \in DOMAIN queue[s2][d2][p2]
                /\ i # Len(queue[s2][d2][p2]) + 1
                /\ queue'[s2][d2][p2][i] = queue[s2][d2][p2][i]
  <2>1. CASE <<s2, d2, p2>> = <<s, d, p>>
    <3>1. i \in 1 .. Len(q) + 1 /\ left[i] = IF i = Len(q) + 1 THEN o ELSE q[i]
      BY <2>1, <1>3, <1>4
    <3>2. queue'[s2][d2][p2] = left /\ queue[s2][d2][p2] = q
      BY <2>1, <1>4
    <3> HIDE DEF q
    <3> QED
      BY <2>1, <1>2, <3>1, <3>2
  <2>2. CASE <<s2, d2, p2>> # <<s, d, p>>
    <3>1. queue'[s2][d2][p2] = queue[s2][d2][p2]
      BY <2>2, <1>4
    <3>2. queue[s2][d2][p2] \in Seq(Order)
      BY LevelFacts
    <3>3. i # Len(queue[s2][d2][p2]) + 1
      BY <3>1, <3>2
    <3> QED
      BY <3>1, <3>3
  <2> QED
    BY <2>1, <2>2
\* No queued order has the id of o.
<1>7. ASSUME NEW s2 \in Products, NEW d2 \in Sides, NEW p2 \in Ticks,
             NEW i \in DOMAIN queue[s2][d2][p2]
      PROVE  /\ queue[s2][d2][p2][i].id \in Ids \ {o.id}
             /\ registry[queue[s2][d2][p2][i].id] = [sym |-> s2, side |-> d2, px |-> p2]
  <2>1. /\ queue[s2][d2][p2][i].id \in Ids
        /\ registry[queue[s2][d2][p2][i].id] = [sym |-> s2, side |-> d2, px |-> p2]
    BY LevelFacts
  <2>2. [sym |-> s2, side |-> d2, px |-> p2] # Nowhere
    BY DEF Nowhere
  <2> QED
    BY <2>1, <2>2
<1>8. QueuedOrdersAreLive'
  <2> SUFFICES ASSUME NEW s2 \in Products, NEW d2 \in Sides, NEW p2 \in Ticks,
                      NEW i \in DOMAIN queue'[s2][d2][p2]
               PROVE  LET n == queue'[s2][d2][p2][i]
                      IN /\ n.sym = s2 /\ n.side = d2 /\ n.px = p2
                         /\ n.rem > 0 /\ n.rem <= n.orig
                         /\ n.type = "limit" /\ n.tif # "ioc"
    BY DEF QueuedOrdersAreLive
  <2>1. CASE queue'[s2][d2][p2][i] = o /\ <<s2, d2, p2>> = <<s, d, p>>
    BY <2>1, <1>1 DEF Rests
  <2>2. CASE i \in DOMAIN queue[s2][d2][p2]
             /\ queue'[s2][d2][p2][i] = queue[s2][d2][p2][i]
    BY <2>2 DEF BookInv, QueuedOrdersAreLive
  <2> QED
    BY <1>6, <2>1, <2>2
<1>9. FifoBySequence'
  <2>1. sequence \in Nat /\ FifoBySequence
    BY DEF BookInv
  <2>2. ASSUME NEW s2 \in Products, NEW d2 \in Sides, NEW p2 \in Ticks,
               NEW i \in DOMAIN queue'[s2][d2][p2],
               NEW j \in DOMAIN queue'[s2][d2][p2]
        PROVE  /\ queue'[s2][d2][p2][i].seq <= sequence'
               /\ i < j => queue'[s2][d2][p2][i].seq < queue'[s2][d2][p2][j].seq
    <3> DEFINE old == queue[s2][d2][p2]
               new == queue'[s2][d2][p2]
    <3>1. \A h \in DOMAIN old : old[h].seq \in Nat /\ old[h].seq <= sequence
      <4>1. \A h \in DOMAIN old : old[h] \in Order
        BY LevelFacts
      <4> QED
        BY <4>1, <2>1 DEF FifoBySequence, Order
    <3>2. \A h \in DOMAIN old : old[h].seq < o.seq
      BY DEF SeqBelow
    <3>3. \A h, g \in DOMAIN old : h < g => old[h].seq < old[g].seq
      BY <2>1 DEF FifoBySequence
    <3>4. DOMAIN old = 1 .. Len(old) /\ Len(old) \in Nat
      <4>1. old \in Seq(Order)
        BY LevelFacts
      <4> QED
        BY <4>1
    <3>5. /\ (i = Len(old) + 1 /\ new[i] = o) \/ (i \in DOMAIN old /\ new[i] = old[i])
          /\ (j = Len(old) + 1 /\ new[j] = o) \/ (j \in DOMAIN old /\ new[j] = old[j])
      BY <1>6
    <3> HIDE DEF old, new
    <3>6. new[i].seq <= sequence'
      BY <1>1, <2>1, <3>1, <3>5
    <3>7. ASSUME i < j
          PROVE  new[i].seq < new[j].seq
      <4>1. i \in DOMAIN old
        BY <3>4, <3>5, <3>7
      <4>2. new[i] = old[i]
        BY <3>4, <3>5, <4>1
      <4> QED
        BY <3>2, <3>3, <3>5, <3>7, <4>1, <4>2
    <3> QED
      BY <3>6, <3>7 DEF new
  <2> QED
    BY <2>2 DEF FifoBySequence
<1>10. BookUncrossed'
  <2> SUFFICES ASSUME NEW s2 \in Products, NEW b \in Ticks, NEW a \in Ticks,
                      queue'[s2]["buy"][b] # <<>>, queue'[s2]["sell"][a] # <<>>
               PROVE  b < a
    BY DEF BookUncrossed
  <2> HIDE DEF q
  <2>1. \A d2 \in Sides, p2 \in Ticks :
          queue'[s2][d2][p2] # <<>> =>
            queue[s2][d2][p2] # <<>> \/ <<s2, d2, p2>> = <<s, d, p>>
    BY <1>4
  <2>2. "buy" \in Sides /\ "sell" \in Sides
    BY DEF Sides
  <2>3. a \in Int /\ b \in Int /\ p \in Int
    BY <1>1, ConstantsAssumption DEF Ticks
  <2>4. CASE <<s2, "buy", b>> = <<s, d, p>>
    <3>1. queue[s]["sell"][a] # <<>>
      BY <2>1, <2>2, <2>4
    <3>2. ~Crosses("buy", p, a)
      BY <2>4, <3>1 DEF CrossesNothing, Opposite
    <3> QED
      BY <2>3, <2>4, <3>2 DEF Crosses
  <2>5. CASE <<s2, "sell", a>> = <<s, d, p>>
    <3>1. queue[s]["buy"][b] # <<>>
      BY <2>1, <2>2, <2>5
    <3>2. ~Crosses("sell", p, b)
      BY <2>5, <3>1 DEF CrossesNothing, Opposite
    <3> QED
      BY <2>3, <2>5, <3>2 DEF Crosses
  <2>6. CASE queue[s2]["buy"][b] # <<>> /\ queue[s2]["sell"][a] # <<>>
    BY <2>6 DEF BookInv, BookUncrossed
  <2> QED
    BY <2>1, <2>2, <2>4, <2>5, <2>6
<1>11. RegistryMatchesBook'
  <2>1. ASSUME NEW other \in Ids, registry'[other] # Nowhere
        PROVE  \E i \in DOMAIN queue'[registry'[other].sym][registry'[other].side]
                                      [registry'[other].px] :
                 queue'[registry'[other].sym][registry'[other].side]
                       [registry'[other].px][i].id = other
    <3>1. CASE other = o.id
      <4>1. registry'[other].sym = s /\ registry'[other].side = d /\ registry'[other].px = p
        BY <3>1, <1>5
      <4>2. Len(q) + 1 \in DOMAIN left /\ left[Len(q) + 1].id = other
        BY <3>1, <1>2, <1>3
      <4>3. queue'[s][d][p] = left
        BY <1>4
      <4>4. \E i \in DOMAIN left : left[i].id = other
        BY <4>2
      <4> QED
        BY <4>1, <4>3, <4>4
    <3>2. CASE other # o.id
      <4>1. registry'[other] = registry[other]
        BY <3>2, <1>5
      <4>2. PICK s2 \in Products, d2 \in Sides, p2 \in Ticks :
                   /\ registry[other] = [sym |-> s2, side |-> d2, px |-> p2]
                   /\ \E i \in DOMAIN queue[s2][d2][p2] : queue[s2][d2][p2][i].id = other
        BY <2>1, <4>1, LocationFacts
      <4>3. PICK i \in DOMAIN queue[s2][d2][p2] : queue[s2][d2][p2][i].id = other
        BY <4>2
      <4>4. i \in DOMAIN queue'[s2][d2][p2] /\ queue'[s2][d2][p2][i] = queue[s2][d2][p2][i]
        <5>1. CASE <<s2, d2, p2>> = <<s, d, p>>
          <6>1. i \in DOMAIN q /\ queue[s2][d2][p2] = q /\ queue'[s2][d2][p2] = left
            BY <5>1, <1>4
          <6> HIDE DEF q
          <6>2. i \in DOMAIN left /\ left[i] = q[i]
            BY <6>1, <1>2, <1>3
          <6> QED
            BY <6>1, <6>2
        <5>2. CASE <<s2, d2, p2>> # <<s, d, p>>
          BY <5>2, <1>4
        <5> QED
          BY <5>1, <5>2
      <4>5. registry'[other].sym = s2 /\ registry'[other].side = d2 /\ registry'[other].px = p2
        BY <4>1, <4>2
      <4> QED
        BY <4>3, <4>4, <4>5
    <3> QED
      BY <3>1, <3>2
  <2>2. ASSUME NEW s2 \in Products, NEW d2 \in Sides, NEW p2 \in Ticks,
               NEW i \in DOMAIN queue'[s2][d2][p2]
        PROVE  registry'[queue'[s2][d2][p2][i].id] = [sym |-> s2, side |-> d2, px |-> p2]
    <3>1. CASE queue'[s2][d2][p2][i] = o /\ <<s2, d2, p2>> = <<s, d, p>>
      BY <3>1, <1>5
    <3>2. CASE i \in DOMAIN queue[s2][d2][p2]
               /\ queue'[s2][d2][p2][i] = queue[s2][d2][p2][i]
      BY <3>2, <1>5, <1>7
    <3> QED
      BY <1>6, <3>1, <3>2
  <2>3. ASSUME NEW s2 \in Products, NEW d2 \in Sides, NEW p2 \in Ticks,
               NEW i \in DOMAIN queue'[s2][d2][p2], NEW j \in DOMAIN queue'[s2][d2][p2],
               queue'[s2][d2][p2][i].id = queue'[s2][d2][p2][j].id
        PROVE  i = j
    <3> DEFINE old == queue[s2][d2][p2]
               new == queue'[s2][d2][p2]
    <3>1. /\ (i = Len(old) + 1 /\ new[i] = o) \/ (i \in DOMAIN old /\ new[i] = old[i])
          /\ (j = Len(old) + 1 /\ new[j] = o) \/ (j \in DOMAIN old /\ new[j] = old[j])
      BY <1>6
    <3>2. \A h \in DOMAIN old : old[h].id # o.id
      <4>1. \A h \in DOMAIN old : old[h].id \in Ids \ {o.id}
        BY <1>7
      <4> QED
        BY <4>1
    <3>3. \A h, g \in DOMAIN old : old[h].id = old[g].id => h = g
      BY LevelFacts, Zenon
    <3>4. new[i].id = new[j].id
      BY <2>3
    <3> HIDE DEF old, new
    <3> QED
      BY <3>1, <3>2, <3>3, <3>4
  <2>4. ASSUME NEW s2 \in Products, NEW d2 \in Sides, NEW p2 \in Ticks,
               NEW i \in DOMAIN queue'[s2][d2][p2]
        PROVE  /\ registry'[queue'[s2][d2][p2][i].id] = [sym |-> s2, side |-> d2, px |-> p2]
               /\ \A j \in DOMAIN queue'[s2][d2][p2] :
                    queue'[s2][d2][p2][i].id = queue'[s2][d2][p2][j].id => i = j
    <3>1. \A j \in DOMAIN queue'[s2][d2][p2] :
            queue'[s2][d2][p2][i].id = queue'[s2][d2][p2][j].id => i = j
      BY <2>3
    <3> QED
      BY <2>2, <3>1
  <2> QED
    BY <2>1, <2>4 DEF RegistryMatchesBook
<1> QED
  BY <1>4, <1>5, <1>8, <1>9, <1>10, <1>11 DEF BookInv

\* The state after a reset, after a restart and at the start.
NothingRests ==
  queue = EmptyBook /\ registry = [id \in Ids |-> Nowhere] /\ sequence \in Nat

\* An empty book is a sound one.
LEMMA EmptyBookIsGood == NothingRests => BookInv
<1> SUFFICES ASSUME NothingRests PROVE BookInv
  OBVIOUS
<1> USE DEF NothingRests
<1>1. queue \in [Products -> [Sides -> [Ticks -> Seq(Order)]]]
  BY DEF EmptyBook
<1>2. \A s \in Products, d \in Sides, p \in Ticks :
        queue[s][d][p] = <<>> /\ DOMAIN queue[s][d][p] = {}
  BY DEF EmptyBook
<1>3. "buy" \in Sides
  BY DEF Sides
<1>4. \A id \in Ids : registry[id] = Nowhere
  OBVIOUS
<1>5. RegistryMatchesBook
  BY <1>2, <1>4 DEF RegistryMatchesBook
<1>6. QueuedOrdersAreLive /\ FifoBySequence /\ BookUncrossed
  BY <1>2, <1>3 DEF QueuedOrdersAreLive, FifoBySequence, BookUncrossed
<1> QED
  BY <1>1, <1>5, <1>6 DEF BookInv
-----------------------------------------------------------------------------
(***************************************************************************)
(* Induction, and the sums of SumFunctionOnSet.                            *)
(***************************************************************************)
\* Induction over the natural numbers, for a set of them.
LEMMA Climbs ==
  ASSUME NEW T, 0 \in T, \A n \in Nat : n \in T => n + 1 \in T
  PROVE  Nat \subseteq T
<1> DEFINE U == Nat \ T
<1> SUFFICES ASSUME U # {} PROVE FALSE
  OBVIOUS
<1>1. PICK x \in U : \A y \in U : x <= y
  BY LeastNatural
<1>2. x \in Nat /\ x # 0 /\ x - 1 \in Nat /\ x - 1 \notin U
  BY <1>1
<1> QED
  BY <1>2

\* Induction over the subsets of a finite set.
LEMMA SubsetInduction ==
  ASSUME NEW S, IsFiniteSet(S), NEW Good,
         \A s \in SUBSET S : (\A x \in s : s \ {x} \in Good) => s \in Good
  PROVE  SUBSET S \subseteq Good
<1> DEFINE T == {n \in Nat : \A s \in SUBSET S : Cardinality(s) = n => s \in Good}
<1>1. \A s \in SUBSET S : IsFiniteSet(s) /\ Cardinality(s) \in Nat
  BY FS_Subset, FS_CardinalityType
<1>2. 0 \in T
  BY <1>1, FS_EmptySet
<1>3. ASSUME NEW n \in Nat, n \in T
      PROVE  n + 1 \in T
  <2> SUFFICES ASSUME NEW s \in SUBSET S, Cardinality(s) = n + 1
               PROVE  s \in Good
    OBVIOUS
  <2>1. ASSUME NEW x \in s PROVE s \ {x} \in Good
    <3>1. IsFiniteSet(s) /\ s \ {x} \in SUBSET S
      BY <1>1
    <3>2. Cardinality(s \ {x}) = Cardinality(s) - 1
      BY <3>1, FS_RemoveElement
    <3> QED
      BY <1>3, <3>1, <3>2
  <2> QED
    BY <2>1
<1>4. Nat \subseteq T
  <2> HIDE DEF T
  <2> QED
    BY <1>2, <1>3, Climbs
<1> QED
  BY <1>1, <1>4

\* How SumFunctionOnSet adds up f over s, an element at a time, with g the sums of
\* the smaller sets.
AddUp(f, s, g) ==
  IF s = {} THEN 0 ELSE f[CHOOSE x \in s : TRUE] + g[s \ {CHOOSE x \in s : TRUE}]

Sums(f, S, g) == \A s \in SUBSET S : g[s] = AddUp(f, s, g)

\* Two ways of adding up agree on the sets they have in common.
LEMMA SumsAgree ==
  ASSUME NEW f, NEW S, IsFiniteSet(S), NEW g, Sums(f, S, g),
         NEW e, NEW R, NEW h, R \subseteq S, Sums(e, R, h), \A x \in R : e[x] = f[x]
  PROVE  \A s \in SUBSET R : g[s] = h[s]
<1> DEFINE Good == {s \in SUBSET R : g[s] = h[s]}
<1>1. IsFiniteSet(R)
  BY FS_Subset
<1>2. ASSUME NEW s \in SUBSET R, \A x \in s : s \ {x} \in Good
      PROVE  s \in Good
  <2>1. g[s] = AddUp(f, s, g) /\ h[s] = AddUp(e, s, h)
    BY DEF Sums
  <2>2. CASE s = {}
    BY <2>1, <2>2 DEF AddUp
  <2>3. CASE s # {}
    <3> DEFINE x == CHOOSE x \in s : TRUE
    <3>1. x \in s
      BY <2>3
    <3>2. g[s] = f[x] + g[s \ {x}] /\ h[s] = e[x] + h[s \ {x}]
      BY <2>1, <2>3 DEF AddUp
    <3> HIDE DEF x
    <3>3. e[x] = f[x] /\ g[s \ {x}] = h[s \ {x}]
      BY <1>2, <3>1
    <3>4. g[s] = h[s]
      BY <3>2, <3>3
    <3> QED
      BY <3>4
  <2> QED
    BY <2>2, <2>3
<1>3. SUBSET R \subseteq Good
  <2> HIDE DEF Good
  <2> QED
    BY <1>1, <1>2, SubsetInduction
<1> QED
  BY <1>3

\* There is a way of adding up: that of the sets of n elements gives that of n + 1.
LEMMA SumsExist ==
  ASSUME NEW f, NEW S, IsFiniteSet(S)
  PROVE  \E g : Sums(f, S, g)
<1> DEFINE Upto(n) == {s \in SUBSET S : Cardinality(s) <= n}
           T == {n \in Nat : \E g : \A s \in Upto(n) : g[s] = AddUp(f, s, g)}
<1>1. \A s \in SUBSET S : IsFiniteSet(s) /\ Cardinality(s) \in Nat
  BY FS_Subset, FS_CardinalityType
<1>2. 0 \in T
  <2> DEFINE g == [s \in SUBSET S |-> 0]
  <2>1. \A s \in Upto(0) : s = {}
    BY <1>1, FS_EmptySet
  <2>2. \A s \in Upto(0) : g[s] = AddUp(f, s, g)
    BY <2>1 DEF AddUp
  <2> QED
    BY <2>2
<1>3. ASSUME NEW n \in Nat, n \in T
      PROVE  n + 1 \in T
  <2>1. PICK g : \A s \in Upto(n) : g[s] = AddUp(f, s, g)
    BY <1>3
  <2> DEFINE h == [s \in SUBSET S |-> IF s \in Upto(n) THEN g[s] ELSE AddUp(f, s, g)]
  <2>2. ASSUME NEW s \in Upto(n + 1)
        PROVE  h[s] = AddUp(f, s, h)
    <3>1. h[s] = AddUp(f, s, g)
      BY <2>1
    <3>2. CASE s = {}
      BY <3>1, <3>2 DEF AddUp
    <3>3. CASE s # {}
      <4> DEFINE x == CHOOSE x \in s : TRUE
      <4>1. x \in s
        BY <3>3
      <4> HIDE DEF x
      <4>2. s \ {x} \in Upto(n)
        BY <1>1, <4>1, FS_RemoveElement
      <4>3. h[s \ {x}] = g[s \ {x}]
        BY <4>2
      <4> HIDE DEF h
      <4> USE DEF x
      <4> QED
        BY <3>1, <3>3, <4>3 DEF AddUp
    <3> QED
      BY <3>2, <3>3
  <2>3. \A s \in Upto(n + 1) : h[s] = AddUp(f, s, h)
    BY <2>2
  <2> HIDE DEF h, Upto
  <2> QED
    BY <2>3
<1>4. Cardinality(S) \in T
  <2>1. Nat \subseteq T
    <3> HIDE DEF T
    <3> QED
      BY <1>2, <1>3, Climbs
  <2> QED
    BY <2>1, FS_CardinalityType
<1>5. PICK g : \A s \in Upto(Cardinality(S)) : g[s] = AddUp(f, s, g)
  BY <1>4
<1>6. SUBSET S \subseteq Upto(Cardinality(S))
  BY FS_Subset
<1> QED
  BY <1>5, <1>6 DEF Sums

\* SumFunctionOnSet is a way of adding up.
LEMMA SumIsFold ==
  ASSUME NEW f, NEW S, IsFiniteSet(S)
  PROVE  \E h : Sums(f, S, h) /\ SumFunctionOnSet(f, S) = h[S]
<1> DEFINE AddAll(h) == [s \in SUBSET S |-> IF s = {} THEN 0
                         ELSE f[CHOOSE x \in s : TRUE] + h[s \ {CHOOSE x \in s : TRUE}]]
           h == CHOOSE h : h = AddAll(h)
<1> PICK g : Sums(f, S, g)
  BY SumsExist
<1>1. [s \in SUBSET S |-> g[s]] = AddAll([s \in SUBSET S |-> g[s]])
  BY DEF Sums, AddUp
<1>2. h = AddAll(h)
  BY <1>1
<1>3. SumFunctionOnSet(f, S) = h[S]
  BY DEF SumFunctionOnSet, FoldFunctionOnSet, MapThenFoldSet
<1>4. Sums(f, S, h)
  <2> SUFFICES ASSUME NEW s \in SUBSET S PROVE h[s] = AddUp(f, s, h)
    BY DEF Sums
  <2>1. h[s] = AddAll(h)[s]
    BY <1>2
  <2> HIDE DEF h
  <2> QED
    BY <2>1 DEF AddUp
<1> HIDE DEF h
<1> QED
  BY <1>3, <1>4

\* The sum over a set, by any of its elements.
LEMMA SumOfNothing ==
  ASSUME NEW f
  PROVE  SumFunctionOnSet(f, {}) = 0
<1>1. PICK h : Sums(f, {}, h) /\ SumFunctionOnSet(f, {}) = h[{}]
  BY SumIsFold, FS_EmptySet
<1> QED
  BY <1>1 DEF Sums, AddUp

\* The sum over a part of a finite set is what the running sums give for that part.
LEMMA SumOverSubset ==
  ASSUME NEW f, NEW S, IsFiniteSet(S), NEW h, Sums(f, S, h), NEW s \in SUBSET S
  PROVE  SumFunctionOnSet(f, s) = h[s]
<1>1. IsFiniteSet(s)
  BY FS_Subset
<1>2. PICK g : Sums(f, s, g) /\ SumFunctionOnSet(f, s) = g[s]
  BY <1>1, SumIsFold
<1>3. \A t \in SUBSET s : h[t] = g[t]
  BY <1>2, SumsAgree
<1> QED
  BY <1>2, <1>3

\* A sum of naturals is one.
LEMMA SumType ==
  ASSUME NEW S, IsFiniteSet(S), NEW f, \A x \in S : f[x] \in Nat
  PROVE  SumFunctionOnSet(f, S) \in Nat
<1>1. PICK h : Sums(f, S, h) /\ SumFunctionOnSet(f, S) = h[S]
  BY SumIsFold
<1> DEFINE Good == {s \in SUBSET S : h[s] \in Nat}
<1>2. ASSUME NEW s \in SUBSET S, \A x \in s : s \ {x} \in Good
      PROVE  s \in Good
  <2>1. h[s] = AddUp(f, s, h)
    BY <1>1 DEF Sums
  <2>2. CASE s = {}
    BY <2>1, <2>2 DEF AddUp
  <2>3. CASE s # {}
    <3> DEFINE x == CHOOSE x \in s : TRUE
    <3>1. x \in s
      BY <2>3
    <3>2. h[s] = f[x] + h[s \ {x}]
      BY <2>1, <2>3 DEF AddUp
    <3> HIDE DEF x
    <3>3. f[x] \in Nat /\ h[s \ {x}] \in Nat
      BY <1>2, <3>1
    <3> QED
      BY <3>2, <3>3
  <2> QED
    BY <2>2, <2>3
<1>3. SUBSET S \subseteq Good
  <2> HIDE DEF Good
  <2> QED
    BY <1>2, SubsetInduction
<1> QED
  BY <1>1, <1>3

\* The sum does not depend on which element is added first.
LEMMA SumByElement ==
  ASSUME NEW S, IsFiniteSet(S), NEW f, \A x \in S : f[x] \in Nat, NEW y \in S
  PROVE  SumFunctionOnSet(f, S) = f[y] + SumFunctionOnSet(f, S \ {y})
<1>1. PICK h : Sums(f, S, h) /\ SumFunctionOnSet(f, S) = h[S]
  BY SumIsFold
<1>2. \A s \in SUBSET S : h[s] = SumFunctionOnSet(f, s) /\ h[s] \in Nat
  BY <1>1, SumOverSubset, SumType, FS_Subset
<1> DEFINE Good == {s \in SUBSET S : \A z \in s : h[s] = f[z] + h[s \ {z}]}
<1>3. ASSUME NEW s \in SUBSET S, \A x \in s : s \ {x} \in Good
      PROVE  s \in Good
  <2> SUFFICES ASSUME NEW z \in s PROVE h[s] = f[z] + h[s \ {z}]
    OBVIOUS
  <2> DEFINE x == CHOOSE x \in s : TRUE
  <2>1. x \in s
    OBVIOUS
  <2>2. h[s] = f[x] + h[s \ {x}]
    BY <1>1 DEF Sums, AddUp
  <2> HIDE DEF x
  <2>3. CASE z = x
    BY <2>2, <2>3
  <2>4. CASE z # x
    <3>1. h[s \ {x}] = f[z] + h[(s \ {x}) \ {z}]
      BY <1>3, <2>1, <2>4
    <3>2. h[s \ {z}] = f[x] + h[(s \ {z}) \ {x}]
      BY <1>3, <2>1, <2>4
    <3>3. (s \ {x}) \ {z} = (s \ {z}) \ {x}
      OBVIOUS
    <3>4. f[x] \in Nat /\ f[z] \in Nat /\ h[(s \ {x}) \ {z}] \in Nat
      BY <1>2, <2>1
    <3>5. h[(s \ {z}) \ {x}] = h[(s \ {x}) \ {z}]
      BY <3>3
    <3> DEFINE v == h[(s \ {x}) \ {z}]
    <3>6. h[s] = f[x] + (f[z] + v) /\ h[s \ {z}] = f[x] + v
      BY <2>2, <3>1, <3>2, <3>5
    <3>7. v \in Nat
      BY <3>4
    <3> HIDE DEF Good, v
    <3> QED
      BY <3>4, <3>6, <3>7
  <2> QED
    BY <2>3, <2>4
<1>4. SUBSET S \subseteq Good
  <2> HIDE DEF Good
  <2> QED
    BY <1>3, SubsetInduction
<1>5. h[S] = f[y] + h[S \ {y}]
  BY <1>4
<1> QED
  BY <1>1, <1>2, <1>5

\* Only the values over the set matter.
LEMMA SumsOfSameValues ==
  ASSUME NEW S, IsFiniteSet(S), NEW f, NEW g, \A x \in S : f[x] = g[x]
  PROVE  SumFunctionOnSet(f, S) = SumFunctionOnSet(g, S)
<1>1. PICK h : Sums(f, S, h) /\ SumFunctionOnSet(f, S) = h[S]
  BY SumIsFold
<1>2. PICK e : Sums(g, S, e) /\ SumFunctionOnSet(g, S) = e[S]
  BY SumIsFold
<1> QED
  BY <1>1, <1>2, SumsAgree

\* Nothing added up is nothing.
LEMMA SumOfZeros ==
  ASSUME NEW S, IsFiniteSet(S), NEW f, \A x \in S : f[x] = 0
  PROVE  SumFunctionOnSet(f, S) = 0
<1> DEFINE Good == {s \in SUBSET S : SumFunctionOnSet(f, s) = 0}
<1>1. ASSUME NEW s \in SUBSET S, \A x \in s : s \ {x} \in Good
      PROVE  s \in Good
  <2>1. CASE s = {}
    BY <2>1, SumOfNothing
  <2>2. CASE s # {}
    <3>1. PICK x \in s : TRUE
      BY <2>2
    <3>2. IsFiniteSet(s) /\ \A y \in s : f[y] \in Nat
      BY FS_Subset
    <3>3. SumFunctionOnSet(f, s) = f[x] + SumFunctionOnSet(f, s \ {x})
      BY <3>2, SumByElement
    <3>4. f[x] = 0 /\ SumFunctionOnSet(f, s \ {x}) = 0
      BY <1>1
    <3> QED
      BY <3>3, <3>4
  <2> QED
    BY <2>1, <2>2
<1>2. SUBSET S \subseteq Good
  <2> HIDE DEF Good
  <2> QED
    BY <1>1, SubsetInduction
<1> QED
  BY <1>2
-----------------------------------------------------------------------------
(***************************************************************************)
(* Folds over lists.  FoldLeft is defined by a recursion over the sets of   *)
(* positions of a list; what it makes of a list is determined, and one     *)
(* element more is one step more.                                          *)
(***************************************************************************)
\* The greatest of a set of positions is one of them.
LEMMA GreatestPosition ==
  ASSUME NEW n \in Nat, NEW s \in SUBSET (1 .. n), s # {}
  PROVE  Max(s) \in s /\ \A y \in s : y <= Max(s)
<1> DEFINE T == {n - x : x \in s}
<1>0. \A x \in s : x \in Nat /\ n - x \in Nat
  OBVIOUS
<1>1. T \subseteq Nat /\ T # {}
  BY <1>0
<1>2. PICK t \in T : \A u \in T : t <= u
  <2> HIDE DEF T
  <2> QED BY <1>1, LeastNatural
<1>3. PICK x \in s : t = n - x
  BY <1>2
<1>4. \A y \in s : x >= y
  <2> TAKE y \in s
  <2>1. n - x <= n - y
    BY <1>2, <1>3
  <2> QED BY <2>1, <1>0
<1>5. Max(s) \in s /\ \A y \in s : Max(s) >= y
  BY <1>4 DEF Max
<1> QED BY <1>0, <1>5

\* The positions of a list are finitely many, and so are those of each part of it.
LEMMA PartsOfPositions ==
  ASSUME NEW n \in Nat
  PROVE  /\ IsFiniteSet(1 .. n)
         /\ \A s \in SUBSET (1 .. n) : IsFiniteSet(s) /\ Cardinality(s) \in Nat /\ Cardinality(s) <= Cardinality(1 .. n)
<1>1. IsFiniteSet(1 .. n)
  BY FS_Interval
<1>2. ASSUME NEW R, R = 1 .. n, NEW s \in SUBSET R
      PROVE  IsFiniteSet(s) /\ Cardinality(s) \in Nat /\ Cardinality(s) <= Cardinality(R)
  <2>1. IsFiniteSet(R)
    BY <1>1, <1>2
  <2> QED BY <2>1, FS_Subset, FS_CardinalityType
<1> QED BY <1>1, <1>2

\* F is the step of a fold of values of V over a list of elements of E.
IsStep(V, E, F) == F \in [V \X E -> V]

\* A fold, with the step as a function: what it makes of every set of positions.
FoldsTo(F, base, list, h) ==
  \A s \in SUBSET DOMAIN list :
    h[s] = IF s = {} THEN base ELSE F[h[s \ {Max(s)}], list[Max(s)]]

\* v is what F makes of the list.
IsFold(V, F, base, list, v) ==
  \E h \in [SUBSET DOMAIN list -> V] : FoldsTo(F, base, list, h) /\ v = h[DOMAIN list]

\* There is such a fold: that of the sets of k positions gives that of k + 1.
LEMMA FoldsExist ==
  ASSUME NEW V, NEW E, NEW F, IsStep(V, E, F), NEW base \in V, NEW list \in Seq(E)
  PROVE  \E h \in [SUBSET DOMAIN list -> V] : FoldsTo(F, base, list, h)
<1> DEFINE S == DOMAIN list
           Upto(k) == {s \in SUBSET S : Cardinality(s) <= k}
           Next1(s, g) == IF s = {} THEN base ELSE F[g[s \ {Max(s)}], list[Max(s)]]
           T == {k \in Nat : \E g \in [SUBSET S -> V] : \A s \in Upto(k) : g[s] = Next1(s, g)}
<1>0. Len(list) \in Nat /\ S = 1 .. Len(list) /\ \A i \in S : list[i] \in E
  OBVIOUS
<1> HIDE DEF S
<1>1. PICK n \in Nat : S = 1 .. n
  BY <1>0
<1>2. \A s \in SUBSET S : IsFiniteSet(s) /\ Cardinality(s) \in Nat /\ Cardinality(s) <= Cardinality(S)
  BY <1>1, PartsOfPositions
<1>3. \A s \in SUBSET S : s # {} => Max(s) \in s /\ list[Max(s)] \in E
  <2> TAKE s \in SUBSET S
  <2>1. s # {} => Max(s) \in s
    BY <1>1, GreatestPosition
  <2> QED BY <2>1, <1>0
<1>4. 0 \in T
  <2> DEFINE g == [s \in SUBSET S |-> base]
  <2>1. g \in [SUBSET S -> V]
    OBVIOUS
  <2>2. \A s \in Upto(0) : s = {} /\ g[s] = base
    <3> TAKE s \in Upto(0)
    <3>1. s \in SUBSET S /\ Cardinality(s) = 0 /\ IsFiniteSet(s)
      BY <1>2
    <3> QED BY <3>1, FS_EmptySet
  <2> HIDE DEF g
  <2> QED BY <2>1, <2>2
<1>5. ASSUME NEW k \in Nat, k \in T PROVE k + 1 \in T
  <2>1. PICK g \in [SUBSET S -> V] : \A s \in Upto(k) : g[s] = Next1(s, g)
    BY <1>5
  <2> DEFINE h == [s \in SUBSET S |-> Next1(s, g)]
  <2>2. ASSUME NEW s \in SUBSET S PROVE Next1(s, g) \in V
    <3>1. CASE s = {}
      BY <3>1
    <3>2. CASE s # {}
      <4>1. Max(s) \in s /\ list[Max(s)] \in E
        BY <1>3, <3>2
      <4>2. <<g[s \ {Max(s)}], list[Max(s)]>> \in V \X E
        BY <4>1
      <4> QED BY <3>2, <4>2 DEF IsStep
    <3> QED BY <3>1, <3>2
  <2>3. h \in [SUBSET S -> V]
    BY <2>2
  <2>4. ASSUME NEW s \in Upto(k + 1) PROVE h[s] = Next1(s, h)
    <3>1. CASE s = {}
      BY <3>1
    <3>2. CASE s # {}
      <4>1. PICK x \in s : x = Max(s)
        BY <1>3, <3>2
      <4>2. s \ {x} \in Upto(k)
        <5>1. IsFiniteSet(s) /\ Cardinality(s) \in Nat /\ Cardinality(s) <= k + 1
          BY <1>2
        <5>2. Cardinality(s \ {x}) = Cardinality(s) - 1
          BY <5>1, FS_RemoveElement
        <5> QED BY <5>1, <5>2
      <4>3. h[s \ {x}] = g[s \ {x}]
        BY <2>1, <4>2
      <4>4. h[s] = F[g[s \ {x}], list[x]]
        BY <3>2, <4>1
      <4> HIDE DEF h
      <4> QED BY <3>2, <4>1, <4>3, <4>4
    <3> QED BY <3>1, <3>2
  <2> HIDE DEF h, Upto, Next1
  <2> QED BY <2>3, <2>4
<1>6. Nat \subseteq T
  <2> HIDE DEF T
  <2> QED BY <1>4, <1>5, Climbs
<1>7. PICK g \in [SUBSET S -> V] : \A s \in Upto(Cardinality(S)) : g[s] = Next1(s, g)
  BY <1>2, <1>6
<1>8. \A s \in SUBSET S : s \in Upto(Cardinality(S))
  BY <1>2
<1> QED BY <1>7, <1>8 DEF FoldsTo, S

\* R is the first n positions, and the lists are alike there.
Alike(n, R, list, long) ==
  /\ n \in Nat /\ R = 1 .. n
  /\ R \subseteq DOMAIN list /\ R \subseteq DOMAIN long /\ \A i \in R : long[i] = list[i]

\* Two folds of lists that begin alike go the same way on the positions they share.
LEMMA FoldsAgree ==
  ASSUME NEW F, NEW base, NEW n, NEW R, NEW list, NEW long, Alike(n, R, list, long),
         NEW h, NEW g, FoldsTo(F, base, list, h), FoldsTo(F, base, long, g)
  PROVE  \A s \in SUBSET R : h[s] = g[s]
<1> DEFINE Good == {s \in SUBSET R : h[s] = g[s]}
<1>1. ASSUME NEW s \in SUBSET R, \A x \in s : s \ {x} \in Good
      PROVE  s \in Good
  <2>1. s \in SUBSET DOMAIN list /\ s \in SUBSET DOMAIN long
    BY DEF Alike
  <2>2. CASE s = {}
    BY <2>1, <2>2 DEF FoldsTo
  <2>3. CASE s # {}
    <3>1. PICK x \in s : x = Max(s)
      BY <2>3, GreatestPosition DEF Alike
    <3>2. h[s \ {x}] = g[s \ {x}] /\ long[x] = list[x]
      BY <1>1, <3>1 DEF Alike
    <3>3. h[s] = F[h[s \ {x}], list[x]] /\ g[s] = F[g[s \ {x}], long[x]]
      BY <2>1, <2>3, <3>1 DEF FoldsTo
    <3> QED BY <3>2, <3>3
  <2> QED BY <2>2, <2>3
<1>2. IsFiniteSet(R)
  BY PartsOfPositions DEF Alike
<1>3. \A s \in SUBSET R : (\A x \in s : s \ {x} \in Good) => s \in Good
  BY <1>1
<1>4. SUBSET R \subseteq Good
  <2> HIDE DEF Good
  <2> QED BY ONLY <1>2, <1>3, SubsetInduction
<1> QED BY <1>4

\* What is folded has the type of the step, and is determined.
LEMMA FoldIsUnique ==
  ASSUME NEW V, NEW F, NEW base, NEW E, NEW list \in Seq(E), NEW v, NEW w,
         IsFold(V, F, base, list, v), IsFold(V, F, base, list, w)
  PROVE  v = w /\ v \in V
<1>1. PICK h \in [SUBSET DOMAIN list -> V] : FoldsTo(F, base, list, h) /\ v = h[DOMAIN list]
  BY DEF IsFold
<1>2. PICK g \in [SUBSET DOMAIN list -> V] : FoldsTo(F, base, list, g) /\ w = g[DOMAIN list]
  BY DEF IsFold
<1>3. Len(list) \in Nat /\ DOMAIN list = 1 .. Len(list)
  OBVIOUS
<1>4. \A s \in SUBSET DOMAIN list : h[s] = g[s]
  <2>1. Alike(Len(list), DOMAIN list, list, list)
    BY <1>3 DEF Alike
  <2> QED BY <1>1, <1>2, <2>1, FoldsAgree
<1> QED BY <1>1, <1>2, <1>4

\* How a fold begins and how it goes on.
LEMMA FoldOfNothing ==
  ASSUME NEW V, NEW F, NEW base, NEW v, IsFold(V, F, base, <<>>, v)
  PROVE  v = base
<1>1. DOMAIN <<>> = {}
  OBVIOUS
<1>2. PICK h : FoldsTo(F, base, <<>>, h) /\ v = h[DOMAIN <<>>]
  BY DEF IsFold
<1> QED BY <1>1, <1>2 DEF FoldsTo

\* long is the list and e after it, and w is what one step makes of v with e.
LongerBy(E, long, list, e) == list \in Seq(E) /\ e \in E /\ long = Append(list, e)

GoesTo(F, v, e, w) == w = F[v, e]

\* A fold of a longer list is one step more.
LEMMA FoldGoesOn ==
  ASSUME NEW V, NEW E, NEW F, NEW base, NEW list, NEW e,
         NEW v, IsFold(V, F, base, list, v),
         NEW long, LongerBy(E, long, list, e), NEW w, IsFold(V, F, base, long, w)
  PROVE  v \in V /\ GoesTo(F, v, e, w)
<1>0. PICK n : n = Len(list)
  OBVIOUS
<1>1. /\ long \in Seq(E) /\ n \in Nat /\ DOMAIN list = 1 .. n /\ DOMAIN long = 1 .. n + 1
      /\ long[n + 1] = e /\ \A i \in 1 .. n : long[i] = list[i]
  BY <1>0 DEF LongerBy
<1>2. IsFold(V, F, base, long, w)
  OBVIOUS
<1>3. PICK h : FoldsTo(F, base, list, h) /\ v = h[DOMAIN list]
  BY DEF IsFold
<1>4. PICK g : FoldsTo(F, base, long, g) /\ w = g[DOMAIN long]
  BY <1>2 DEF IsFold
<1>5. PICK R : R = 1 .. n
  OBVIOUS
<1>6. \A s \in SUBSET R : h[s] = g[s]
  <2>1. Alike(n, R, list, long)
    BY <1>1, <1>5 DEF Alike
  <2>2. FoldsTo(F, base, list, h) /\ FoldsTo(F, base, long, g)
    BY <1>3, <1>4
  <2> QED BY ONLY <2>1, <2>2, FoldsAgree
<1>7. Max(1 .. n + 1) = n + 1
  <2>1. PICK m \in Nat : m = n + 1
    BY <1>1
  <2>2. Max(1 .. m) \in 1 .. m /\ \A y \in 1 .. m : y <= Max(1 .. m)
    <3>1. PICK s : s = 1 .. m
      OBVIOUS
    <3>2. 1 \in s
      BY <1>1, <2>1, <3>1
    <3>3. s \in SUBSET (1 .. m) /\ s # {}
      BY <3>1, <3>2
    <3>4. Max(s) \in s /\ \A y \in s : y <= Max(s)
      BY ONLY <2>1, <3>3, GreatestPosition
    <3> QED BY <3>1, <3>4
  <2>3. PICK x \in 1 .. m : x = Max(1 .. m)
    BY <2>2
  <2>4. m <= x
    BY <1>1, <2>1, <2>2, <2>3
  <2> QED BY <2>1, <2>3, <2>4
<1>8. (1 .. n + 1) \ {n + 1} = 1 .. n /\ 1 .. n + 1 # {}
  <2>1. n \in Nat /\ 1 \in 1 .. n + 1
    BY <1>1
  <2>2. (1 .. n + 1) \ {n + 1} = 1 .. n
    BY ONLY <2>1
  <2> QED BY <2>1, <2>2
<1>9. g[1 .. n + 1] = F[g[1 .. n], long[n + 1]]
  <2>1. 1 .. n + 1 \in SUBSET DOMAIN long
    BY <1>1
  <2> QED BY <2>1, <1>4, <1>7, <1>8 DEF FoldsTo
<1>10. h[1 .. n] = g[1 .. n]
  BY <1>5, <1>6
<1>11. v \in V
  BY DEF IsFold
<1>12. v = h[1 .. n] /\ w = g[1 .. n + 1] /\ long[n + 1] = e
  BY <1>1, <1>3, <1>4
<1> QED BY <1>9, <1>10, <1>11, <1>12 DEF GoesTo

\* h goes as the fold does, as long as what it has so far is of the type.
FoldsWhileTyped(V, F, base, list, h) ==
  \A s \in SUBSET DOMAIN list :
    /\ s = {} => h[s] = base
    /\ s # {} /\ h[s \ {Max(s)}] \in V => h[s] = F[h[s \ {Max(s)}], list[Max(s)]]

\* Then it is the fold.
LEMMA TypedFold ==
  ASSUME NEW V, NEW E, NEW F, IsStep(V, E, F), NEW base \in V, NEW list \in Seq(E),
         NEW h, FoldsWhileTyped(V, F, base, list, h)
  PROVE  IsFold(V, F, base, list, h[DOMAIN list])
<1>1. PICK g \in [SUBSET DOMAIN list -> V] : FoldsTo(F, base, list, g)
  BY FoldsExist
<1>2. PICK R : R = DOMAIN list
  OBVIOUS
<1>3. Len(list) \in Nat /\ R = 1 .. Len(list)
  BY <1>2
<1> DEFINE Good == {s \in SUBSET R : h[s] = g[s]}
<1>4. ASSUME NEW s \in SUBSET R, \A x \in s : s \ {x} \in Good
      PROVE  s \in Good
  <2>1. CASE s = {}
    BY <1>1, <1>2, <2>1 DEF FoldsTo, FoldsWhileTyped
  <2>2. CASE s # {}
    <3>1. PICK x \in s : x = Max(s)
      BY <1>3, <2>2, GreatestPosition
    <3>2. h[s \ {x}] = g[s \ {x}] /\ g[s \ {x}] \in V
      BY <1>2, <1>4, <3>1
    <3>3. h[s] = F[h[s \ {x}], list[x]]
      BY <1>2, <2>2, <3>1, <3>2 DEF FoldsWhileTyped
    <3>4. g[s] = F[g[s \ {x}], list[x]]
      BY <1>1, <1>2, <2>2, <3>1 DEF FoldsTo
    <3> QED BY <3>2, <3>3, <3>4
  <2> QED BY <2>1, <2>2
<1>5. IsFiniteSet(R)
  BY <1>3, PartsOfPositions
<1>6. \A s \in SUBSET R : (\A x \in s : s \ {x} \in Good) => s \in Good
  BY <1>4
<1>7. SUBSET R \subseteq Good
  <2> HIDE DEF Good
  <2> QED BY ONLY <1>5, <1>6, SubsetInduction
<1>8. h[DOMAIN list] = g[DOMAIN list]
  BY <1>2, <1>7
<1> QED BY <1>1, <1>8 DEF IsFold

\* The quantity of a level.
AddRem == [x \in Nat \X Order |-> x[1] + x[2].rem]

\* It adds what is left of an order.
LEMMA AddRemIs ==
  IsStep(Nat, Order, AddRem) /\ \A v \in Nat, o \in Order : AddRem[v, o] = v + o.rem
<1>1. \A o \in Order : o.rem \in Nat
  BY DEF Order
<1>2. \A x \in Nat \X Order : x[1] \in Nat /\ x[2].rem \in Nat /\ x[1] + x[2].rem \in Nat
  BY <1>1
<1>3. IsStep(Nat, Order, AddRem)
  BY <1>2 DEF AddRem, IsStep
<1>4. ASSUME NEW v \in Nat, NEW o \in Order PROVE AddRem[v, o] = v + o.rem
  <2>1. <<v, o>> \in Nat \X Order
    OBVIOUS
  <2> QED BY <2>1, Zenon DEF AddRem
<1> QED BY <1>3, <1>4

\* aggregate_quantity is a fold.
LEMMA AggregateFolds ==
  ASSUME NEW q \in Seq(Order)
  PROVE  IsFold(Nat, AddRem, 0, q, AggregateQuantity(q))
<1> DEFINE S == DOMAIN q
           All(h) == [s \in SUBSET S |-> IF s = {} THEN 0 ELSE h[s \ {Max(s)}] + q[Max(s)].rem]
           h == CHOOSE h : h = All(h)
<1>0. Len(q) \in Nat /\ S = 1 .. Len(q) /\ \A i \in S : q[i] \in Order
  OBVIOUS
<1>1. IsStep(Nat, Order, AddRem) /\ \A v \in Nat, o \in Order : AddRem[v, o] = v + o.rem
  BY AddRemIs
<1>2. PICK g \in [SUBSET S -> Nat] : FoldsTo(AddRem, 0, q, g)
  BY <1>1, FoldsExist
<1>3. ASSUME NEW s \in SUBSET S, s # {} PROVE Max(s) \in s /\ q[Max(s)] \in Order
  <2>1. Max(s) \in s
    BY <1>0, <1>3, GreatestPosition
  <2> QED BY <1>0, <2>1
<1>4. g = All(g)
  <2>1. ASSUME NEW s \in SUBSET S
        PROVE  g[s] = IF s = {} THEN 0 ELSE g[s \ {Max(s)}] + q[Max(s)].rem
    <3>1. CASE s = {}
      BY <1>2, <3>1 DEF FoldsTo
    <3>2. CASE s # {}
      <4>1. Max(s) \in s /\ q[Max(s)] \in Order /\ s \ {Max(s)} \in SUBSET S
        BY <1>3, <3>2
      <4>2. g[s \ {Max(s)}] \in Nat
        BY <4>1
      <4>3. g[s] = AddRem[g[s \ {Max(s)}], q[Max(s)]]
        BY <1>2, <3>2 DEF FoldsTo
      <4> QED BY <1>1, <3>2, <4>1, <4>2, <4>3
    <3> QED BY <3>1, <3>2
  <2> QED BY <2>1
<1>5. h = All(h)
  BY <1>4
<1>6. AggregateQuantity(q) = h[S]
  BY DEF AggregateQuantity, FoldLeft, MapThenFoldSet
<1>7. FoldsWhileTyped(Nat, AddRem, 0, q, h)
  <2> SUFFICES ASSUME NEW s \in SUBSET S
               PROVE  /\ s = {} => h[s] = 0
                      /\ s # {} /\ h[s \ {Max(s)}] \in Nat => h[s] = AddRem[h[s \ {Max(s)}], q[Max(s)]]
    BY DEF FoldsWhileTyped
  <2>1. h[s] = All(h)[s]
    BY <1>5
  <2> HIDE DEF h
  <2>2. h[s] = IF s = {} THEN 0 ELSE h[s \ {Max(s)}] + q[Max(s)].rem
    BY <2>1
  <2> QED BY <1>1, <1>3, <2>2
<1> HIDE DEF h
<1>8. IsFold(Nat, AddRem, 0, q, h[S])
  <2>1. IsStep(Nat, Order, AddRem) /\ 0 \in Nat
    BY <1>1
  <2> HIDE DEF S
  <2> QED BY ONLY <1>7, <2>1, TypedFold DEF S
<1> QED BY <1>6, <1>8

\* A queue of live orders is an empty level, or one with a quantity.
LEMMA AggregateOfLive ==
  ASSUME NEW q \in Seq(Order)
  PROVE  /\ AggregateQuantity(q) \in Nat
         /\ AggregateQuantity(<<>>) = 0
         /\ q # <<>> /\ q[Len(q)].rem > 0 => AggregateQuantity(q) > 0
<1>1. IsStep(Nat, Order, AddRem) /\ \A v \in Nat, o \in Order : AddRem[v, o] = v + o.rem
  BY AddRemIs
<1>2. AggregateQuantity(q) \in Nat
  <2>1. IsFold(Nat, AddRem, 0, q, AggregateQuantity(q))
    BY AggregateFolds
  <2> QED BY <2>1 DEF IsFold
<1>3. AggregateQuantity(<<>>) = 0
  <2>1. <<>> \in Seq(Order)
    OBVIOUS
  <2>2. IsFold(Nat, AddRem, 0, <<>>, AggregateQuantity(<<>>))
    BY <2>1, AggregateFolds
  <2> QED BY <2>2, FoldOfNothing
<1>4. ASSUME q # <<>>, q[Len(q)].rem > 0 PROVE AggregateQuantity(q) > 0
  <2>1. PICK r, o : r = SubSeq(q, 1, Len(q) - 1) /\ o = q[Len(q)]
    OBVIOUS
  <2>2. r \in Seq(Order) /\ o \in Order
    BY <1>4, <2>1
  <2>3. q = Append(r, o)
    BY <1>4, <2>1
  <2>4. IsFold(Nat, AddRem, 0, r, AggregateQuantity(r))
    BY <2>2, AggregateFolds
  <2>5. IsFold(Nat, AddRem, 0, q, AggregateQuantity(q)) /\ LongerBy(Order, q, r, o)
    BY <2>2, <2>3, AggregateFolds DEF LongerBy
  <2>6. AggregateQuantity(r) \in Nat /\ AggregateQuantity(q) = AddRem[AggregateQuantity(r), o]
    <3>1. AggregateQuantity(r) \in Nat /\ GoesTo(AddRem, AggregateQuantity(r), o, AggregateQuantity(q))
      BY ONLY <2>4, <2>5, FoldGoesOn
    <3> QED BY <3>1 DEF GoesTo
  <2>7. o.rem \in Nat /\ o.rem > 0
    <3>1. o.rem \in Nat
      BY <2>2 DEF Order
    <3> QED BY <1>4, <2>1, <3>1
  <2>8. AggregateQuantity(q) = AggregateQuantity(r) + o.rem
    BY <1>1, <2>2, <2>6, Zenon
  <2> QED BY <2>6, <2>7, <2>8
<1> QED BY <1>2, <1>3, <1>4
=============================================================================
