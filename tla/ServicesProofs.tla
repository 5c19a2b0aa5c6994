---------------------------- MODULE ServicesProofs ----------------------------
(***************************************************************************)
(* Proofs about the services around the engine.                            *)
(*                                                                         *)
(* The book a terminal rebuilds from the deltas of the exchange: a packet  *)
(* replaces the levels it names and keeps the others (DeltasReplace),      *)
(* cutting a view loses levels and changes none (CutOrUncut), and every    *)
(* step of the engine tells of the one level it has changed or is still    *)
(* working on it (Tells), so that Follows is kept by every step.           *)
(*                                                                         *)
(* The ledger that books the batches of the engine: fractions in lowest    *)
(* terms are numbers (OneOfAValue), update_position keeps a position worth *)
(* what was paid for it (MovingKeeps, ProfitIs), booking is a fold that    *)
(* goes on report by report (BookingGoesOn), and every step of the engine  *)
(* reports what it fills (MatchTakes, SweepTakes) or fills nothing         *)
(* (Quiet), so that LedgerInv is kept by every step.                       *)
(*                                                                         *)
(* The wait of the price feed: the equation of Expected has a solution     *)
(* (WaitsAre), so Expected is one (ExpectedIs), and the delay moves along  *)
(* it (NextWait).                                                          *)
(***************************************************************************)
EXTENDS MCServices, ExchangeProofs

(***************************************************************************)
(* Deltas and packets.                                                     *)
(***************************************************************************)
\* Views, and deltas of the levels of a view.
LevelMaps == [Sides -> [Ticks -> Level]]
LevelDeltas ==
  [sym : Products, side : Sides, px : {FromTicks(p) : p \in Ticks}, act : {"add", "modify", "delete"},
   qty : Nat, orders : Nat, seq : Nat]

\* What a delta tells of its level.
Told(e) == IF Removed(e) THEN NoLevel ELSE [qty |-> e.qty, orders |-> e.orders]

\* A delta names a level of the view and tells what a level can hold.
LEMMA DeltaIs ==
  ASSUME NEW e \in LevelDeltas
  PROVE  e.side \in Sides /\ ToTicks(e.px) \in Ticks /\ Told(e) \in Level
<1>1. e.side \in Sides /\ e.qty \in Nat /\ e.orders \in Nat
  BY DEF LevelDeltas
<1>2. PICK p \in Ticks : e.px = FromTicks(p)
  BY DEF LevelDeltas
<1>3. p \in Int
  BY ConstantsAssumption DEF Ticks
<1>4. ToTicks(e.px) = p
  BY <1>2, <1>3, RoundTrip
<1> QED BY <1>1, <1>2, <1>4 DEF Told, NoLevel, Level

\* A delta replaces one level.
LEMMA DeltaApplied ==
  ASSUME NEW b \in LevelMaps, NEW e \in LevelDeltas
  PROVE  /\ ApplyDelta(b, e) \in LevelMaps
         /\ \A d \in Sides, p \in Ticks :
              ApplyDelta(b, e)[d][p] = IF d = e.side /\ p = ToTicks(e.px) THEN Told(e) ELSE b[d][p]
<1>1. PICK d0 \in Sides, p0 \in Ticks, v \in Level : d0 = e.side /\ p0 = ToTicks(e.px) /\ v = Told(e)
  BY DeltaIs
<1>2. ApplyDelta(b, e) = [b EXCEPT ![d0][p0] = v]
  BY <1>1 DEF ApplyDelta, Told
<1> QED BY <1>1, <1>2 DEF LevelMaps

\* Folding steps as functions: a delta,
DeltaStep == [x \in LevelMaps \X LevelDeltas |-> ApplyDelta(x[1], x[2])]

\* The step, as a function, is ApplyDelta.
LEMMA DeltaStepIs ==
  /\ IsStep(LevelMaps, LevelDeltas, DeltaStep)
  /\ \A b \in LevelMaps, e \in LevelDeltas : DeltaStep[b, e] = ApplyDelta(b, e)
<1>1. \A x \in LevelMaps \X LevelDeltas : ApplyDelta(x[1], x[2]) \in LevelMaps
  <2> TAKE x \in LevelMaps \X LevelDeltas
  <2>1. x[1] \in LevelMaps /\ x[2] \in LevelDeltas
    OBVIOUS
  <2> QED BY <2>1, DeltaApplied
<1>2. IsStep(LevelMaps, LevelDeltas, DeltaStep)
  BY <1>1, Zenon DEF DeltaStep, IsStep
<1>3. ASSUME NEW b \in LevelMaps, NEW e \in LevelDeltas PROVE DeltaStep[b, e] = ApplyDelta(b, e)
  <2>1. <<b, e>> \in LevelMaps \X LevelDeltas
    OBVIOUS
  <2> QED BY <2>1, Zenon DEF DeltaStep
<1> QED BY <1>2, <1>3

\* The deltas of a packet are folded one after the other.
LEMMA DeltasFold ==
  ASSUME NEW b \in LevelMaps, NEW D \in Seq(LevelDeltas)
  PROVE  IsFold(LevelMaps, DeltaStep, b, D, FoldLeft(ApplyDelta, b, D))
<1> DEFINE S == DOMAIN D
           All(h) == [s \in SUBSET S |-> IF s = {} THEN b ELSE ApplyDelta(h[s \ {Max(s)}], D[Max(s)])]
           h == CHOOSE h : h = All(h)
<1>0. Len(D) \in Nat /\ S = 1 .. Len(D) /\ \A i \in S : D[i] \in LevelDeltas
  OBVIOUS
<1>1. /\ IsStep(LevelMaps, LevelDeltas, DeltaStep)
      /\ \A c \in LevelMaps, e \in LevelDeltas : DeltaStep[c, e] = ApplyDelta(c, e)
  BY DeltaStepIs
<1>2. PICK g \in [SUBSET S -> LevelMaps] : FoldsTo(DeltaStep, b, D, g)
  BY <1>1, FoldsExist
<1>3. ASSUME NEW s \in SUBSET S, s # {} PROVE Max(s) \in s /\ D[Max(s)] \in LevelDeltas
  <2>1. Max(s) \in s
    BY <1>0, <1>3, GreatestPosition
  <2> QED BY <1>0, <2>1
<1>4. g = All(g)
  <2>1. ASSUME NEW s \in SUBSET S
        PROVE  g[s] = IF s = {} THEN b ELSE ApplyDelta(g[s \ {Max(s)}], D[Max(s)])
    <3>1. CASE s = {}
      BY <1>2, <3>1 DEF FoldsTo
    <3>2. CASE s # {}
      <4>1. Max(s) \in s /\ D[Max(s)] \in LevelDeltas /\ s \ {Max(s)} \in SUBSET S
        BY <1>3, <3>2
      <4>2. g[s \ {Max(s)}] \in LevelMaps
        BY <4>1
      <4>3. g[s] = DeltaStep[g[s \ {Max(s)}], D[Max(s)]]
        BY <1>2, <3>2 DEF FoldsTo
      <4> QED BY <1>1, <3>2, <4>1, <4>2, <4>3
    <3> QED BY <3>1, <3>2
  <2> QED BY <2>1
<1>5. h = All(h)
  BY <1>4
<1>6. FoldLeft(ApplyDelta, b, D) = h[S]
  BY DEF FoldLeft, MapThenFoldSet
<1>7. FoldsWhileTyped(LevelMaps, DeltaStep, b, D, h)
  <2> SUFFICES ASSUME NEW s \in SUBSET S
               PROVE  /\ s = {} => h[s] = b
                      /\ s # {} /\ h[s \ {Max(s)}] \in LevelMaps
                           => h[s] = DeltaStep[h[s \ {Max(s)}], D[Max(s)]]
    BY DEF FoldsWhileTyped
  <2>1. h[s] = All(h)[s]
    BY <1>5
  <2> HIDE DEF h
  <2>2. h[s] = IF s = {} THEN b ELSE ApplyDelta(h[s \ {Max(s)}], D[Max(s)])
    BY <2>1
  <2> QED BY <1>1, <1>3, <2>2
<1> HIDE DEF h
<1>8. IsFold(LevelMaps, DeltaStep, b, D, h[S])
  <2> HIDE DEF S
  <2> QED BY ONLY <1>7, <1>1, TypedFold DEF S
<1> QED BY <1>6, <1>8

\* Without deltas nothing changes.
LEMMA NoDeltas ==
  ASSUME NEW b \in LevelMaps
  PROVE  FoldLeft(ApplyDelta, b, <<>>) = b
<1>1. <<>> \in Seq(LevelDeltas)
  OBVIOUS
<1>2. IsFold(LevelMaps, DeltaStep, b, <<>>, FoldLeft(ApplyDelta, b, <<>>))
  BY <1>1, DeltasFold
<1> QED BY <1>2, FoldOfNothing

\* One delta more is applied to what the deltas before it made.
LEMMA DeltasGoOn ==
  ASSUME NEW b \in LevelMaps, NEW D \in Seq(LevelDeltas), NEW e \in LevelDeltas
  PROVE  /\ FoldLeft(ApplyDelta, b, D) \in LevelMaps
         /\ FoldLeft(ApplyDelta, b, <<>>) = b
         /\ FoldLeft(ApplyDelta, b, Append(D, e)) = ApplyDelta(FoldLeft(ApplyDelta, b, D), e)
<1>1. PICK v, w, long : /\ v = FoldLeft(ApplyDelta, b, D) /\ w = FoldLeft(ApplyDelta, b, long)
                        /\ long = Append(D, e)
  OBVIOUS
<1>2. LongerBy(LevelDeltas, long, D, e) /\ long \in Seq(LevelDeltas) /\ <<>> \in Seq(LevelDeltas)
  BY <1>1 DEF LongerBy
<1>3. IsFold(LevelMaps, DeltaStep, b, D, v) /\ IsFold(LevelMaps, DeltaStep, b, long, w)
  BY <1>1, <1>2, DeltasFold
<1>4. v \in LevelMaps /\ GoesTo(DeltaStep, v, e, w)
  BY ONLY <1>2, <1>3, FoldGoesOn
<1>5. w = ApplyDelta(v, e)
  BY <1>4, DeltaStepIs DEF GoesTo
<1>6. FoldLeft(ApplyDelta, b, <<>>) = b
  <2>1. IsFold(LevelMaps, DeltaStep, b, <<>>, FoldLeft(ApplyDelta, b, <<>>))
    BY <1>2, DeltasFold
  <2> QED BY <2>1, FoldOfNothing
<1> QED BY <1>1, <1>4, <1>5, <1>6

\* Deltas replace what they name and leave the rest.
LEMMA DeltasReplace ==
  ASSUME NEW b \in LevelMaps, NEW c \in LevelMaps, NEW D \in Seq(LevelDeltas),
         NEW d \in Sides, NEW p \in Ticks
  PROVE  /\ <<d, p>> \in Named(D) => FoldLeft(ApplyDelta, b, D)[d][p] = FoldLeft(ApplyDelta, c, D)[d][p]
         /\ <<d, p>> \notin Named(D) => FoldLeft(ApplyDelta, b, D)[d][p] = b[d][p]
<1> DEFINE Good(L) ==
             /\ <<d, p>> \in Named(L) => FoldLeft(ApplyDelta, b, L)[d][p] = FoldLeft(ApplyDelta, c, L)[d][p]
             /\ <<d, p>> \notin Named(L) => FoldLeft(ApplyDelta, b, L)[d][p] = b[d][p]
           T == {n \in Nat : \A L \in Seq(LevelDeltas) : Len(L) = n => Good(L)}
<1>1. 0 \in T
  <2> SUFFICES ASSUME NEW L \in Seq(LevelDeltas), Len(L) = 0 PROVE Good(L)
    OBVIOUS
  <2>1. L = <<>> /\ DOMAIN L = {}
    OBVIOUS
  <2>2. Named(L) = {}
    BY <2>1 DEF Named
  <2>3. FoldLeft(ApplyDelta, b, L) = b
    BY <2>1, NoDeltas
  <2> QED BY <2>2, <2>3
<1>2. ASSUME NEW n \in Nat, n \in T PROVE n + 1 \in T
  <2> SUFFICES ASSUME NEW L \in Seq(LevelDeltas), Len(L) = n + 1 PROVE Good(L)
    OBVIOUS
  <2>1. PICK front, e : front = SubSeq(L, 1, n) /\ e = L[n + 1]
    OBVIOUS
  <2>2. front \in Seq(LevelDeltas) /\ Len(front) = n /\ e \in LevelDeltas /\ L = Append(front, e)
    BY <2>1
  <2>3. Good(front)
    BY <1>2, <2>2
  <2>4. \A i \in DOMAIN L : (i \in DOMAIN front /\ L[i] = front[i]) \/ L[i] = e
    BY <2>2
  <2>5. (n + 1) \in DOMAIN L /\ L[n + 1] = e /\ \A i \in DOMAIN front : i \in DOMAIN L /\ L[i] = front[i]
    BY <2>1, <2>2
  <2>6. Named(L) = Named(front) \cup {<<e.side, ToTicks(e.px)>>}
    BY <2>4, <2>5, Zenon DEF Named
  <2>7. /\ FoldLeft(ApplyDelta, b, L) = ApplyDelta(FoldLeft(ApplyDelta, b, front), e)
        /\ FoldLeft(ApplyDelta, c, L) = ApplyDelta(FoldLeft(ApplyDelta, c, front), e)
        /\ FoldLeft(ApplyDelta, b, front) \in LevelMaps /\ FoldLeft(ApplyDelta, c, front) \in LevelMaps
    BY <2>2, DeltasGoOn
  <2>8. PICK v \in LevelMaps, w \in LevelMaps :
          v = FoldLeft(ApplyDelta, b, front) /\ w = FoldLeft(ApplyDelta, c, front)
    BY <2>7
  <2>9. /\ FoldLeft(ApplyDelta, b, L)[d][p] = IF d = e.side /\ p = ToTicks(e.px) THEN Told(e) ELSE v[d][p]
        /\ FoldLeft(ApplyDelta, c, L)[d][p] = IF d = e.side /\ p = ToTicks(e.px) THEN Told(e) ELSE w[d][p]
    <3>1. PICK g, k : g = ApplyDelta(v, e) /\ k = ApplyDelta(w, e)
      OBVIOUS
    <3>2. /\ \A x \in Sides, r \in Ticks : g[x][r] = IF x = e.side /\ r = ToTicks(e.px) THEN Told(e) ELSE v[x][r]
          /\ \A x \in Sides, r \in Ticks : k[x][r] = IF x = e.side /\ r = ToTicks(e.px) THEN Told(e) ELSE w[x][r]
      BY <2>2, <3>1, DeltaApplied
    <3>3. FoldLeft(ApplyDelta, b, L) = g /\ FoldLeft(ApplyDelta, c, L) = k
      BY <2>7, <2>8, <3>1
    <3>4. /\ g[d][p] = IF d = e.side /\ p = ToTicks(e.px) THEN Told(e) ELSE v[d][p]
          /\ k[d][p] = IF d = e.side /\ p = ToTicks(e.px) THEN Told(e) ELSE w[d][p]
      BY <3>2
    <3> QED BY <3>3, <3>4
  <2>10. <<d, p>> \in Named(L) <=> <<d, p>> \in Named(front) \/ (d = e.side /\ p = ToTicks(e.px))
    <3>1. PICK m : m = ToTicks(e.px)
      OBVIOUS
    <3>2. Named(L) = Named(front) \cup {<<e.side, m>>}
      BY <2>6, <3>1
    <3> QED BY <3>1, <3>2, Zenon
  <2> QED BY <2>3, <2>8, <2>9, <2>10
<1>3. Nat \subseteq T
  <2> HIDE DEF T
  <2> QED BY <1>1, <1>2, Climbs
<1>4. Len(D) \in Nat
  OBVIOUS
<1>5. \A L \in Seq(LevelDeltas) : Len(L) = Len(D) => Good(L)
  BY <1>3, <1>4
<1> QED BY <1>5

\* What the packets say of a view of which nothing is cut.
Uncut(b, packets) == FoldLeft(LAMBDA v, deltas : FoldLeft(ApplyDelta, v, deltas), b, packets)
\* The packets of the feed.
Packets == Seq(LevelDeltas)

\* A packet applied to a view makes a view.
LEMMA PacketFolded ==
  ASSUME NEW b \in LevelMaps, NEW D \in Packets
  PROVE  FoldLeft(ApplyDelta, b, D) \in LevelMaps
<1>1. IsFold(LevelMaps, DeltaStep, b, D, FoldLeft(ApplyDelta, b, D))
  BY DeltasFold DEF Packets
<1> QED BY <1>1 DEF IsFold

\* a packet of which nothing is cut,
PacketStep == [x \in LevelMaps \X Packets |-> FoldLeft(ApplyDelta, x[1], x[2])]

\* The step, as a function, applies a packet and cuts nothing.
LEMMA PacketStepIs ==
  /\ IsStep(LevelMaps, Packets, PacketStep)
  /\ \A v \in LevelMaps, D \in Packets : PacketStep[v, D] = FoldLeft(ApplyDelta, v, D)
<1>1. \A x \in LevelMaps \X Packets : FoldLeft(ApplyDelta, x[1], x[2]) \in LevelMaps
  <2> TAKE x \in LevelMaps \X Packets
  <2>1. x[1] \in LevelMaps /\ x[2] \in Packets
    OBVIOUS
  <2> QED BY <2>1, PacketFolded
<1>2. IsStep(LevelMaps, Packets, PacketStep)
  BY <1>1, Zenon DEF PacketStep, IsStep
<1>3. ASSUME NEW v \in LevelMaps, NEW D \in Packets PROVE PacketStep[v, D] = FoldLeft(ApplyDelta, v, D)
  <2>1. <<v, D>> \in LevelMaps \X Packets
    OBVIOUS
  <2> QED BY <2>1, Zenon DEF PacketStep
<1> QED BY <1>2, <1>3

\* Packets applied without cutting are folded one after the other.
LEMMA UncutFolds ==
  ASSUME NEW b \in LevelMaps, NEW P \in Seq(Packets)
  PROVE  IsFold(LevelMaps, PacketStep, b, P, Uncut(b, P))
<1> DEFINE S == DOMAIN P
           All(h) == [s \in SUBSET S |-> IF s = {} THEN b ELSE FoldLeft(ApplyDelta, h[s \ {Max(s)}], P[Max(s)])]
           h == CHOOSE h : h = All(h)
<1>0. Len(P) \in Nat /\ S = 1 .. Len(P) /\ \A i \in S : P[i] \in Packets
  OBVIOUS
<1>1. /\ IsStep(LevelMaps, Packets, PacketStep)
      /\ \A v \in LevelMaps, D \in Packets : PacketStep[v, D] = FoldLeft(ApplyDelta, v, D)
  BY PacketStepIs
<1>2. PICK g \in [SUBSET S -> LevelMaps] : FoldsTo(PacketStep, b, P, g)
  BY <1>1, FoldsExist
<1>3. ASSUME NEW s \in SUBSET S, s # {} PROVE Max(s) \in s /\ P[Max(s)] \in Packets
  <2>1. Max(s) \in s
    BY <1>0, <1>3, GreatestPosition
  <2> QED BY <1>0, <2>1
<1>4. g = All(g)
  <2>1. ASSUME NEW s \in SUBSET S
        PROVE  g[s] = IF s = {} THEN b ELSE FoldLeft(ApplyDelta, g[s \ {Max(s)}], P[Max(s)])
    <3>1. CASE s = {}
      BY <1>2, <3>1 DEF FoldsTo
    <3>2. CASE s # {}
      <4>1. Max(s) \in s /\ P[Max(s)] \in Packets /\ s \ {Max(s)} \in SUBSET S
        BY <1>3, <3>2
      <4>2. g[s \ {Max(s)}] \in LevelMaps
        BY <4>1
      <4>3. g[s] = PacketStep[g[s \ {Max(s)}], P[Max(s)]]
        BY <1>2, <3>2 DEF FoldsTo
      <4> QED BY <1>1, <3>2, <4>1, <4>2, <4>3
    <3> QED BY <3>1, <3>2
  <2> QED BY <2>1
<1>5. h = All(h)
  BY <1>4
<1>6. Uncut(b, P) = h[S]
  BY DEF Uncut, FoldLeft, MapThenFoldSet
<1>7. FoldsWhileTyped(LevelMaps, PacketStep, b, P, h)
  <2> SUFFICES ASSUME NEW s \in SUBSET S
               PROVE  /\ s = {} => h[s] = b
                      /\ s # {} /\ h[s \ {Max(s)}] \in LevelMaps
                           => h[s] = PacketStep[h[s \ {Max(s)}], P[Max(s)]]
    BY DEF FoldsWhileTyped
  <2>1. h[s] = All(h)[s]
    BY <1>5
  <2> HIDE DEF h
  <2>2. h[s] = IF s = {} THEN b ELSE FoldLeft(ApplyDelta, h[s \ {Max(s)}], P[Max(s)])
    BY <2>1
  <2> QED BY <1>1, <1>3, <2>2
<1> HIDE DEF h
<1>8. IsFold(LevelMaps, PacketStep, b, P, h[S])
  <2> HIDE DEF S
  <2> QED BY ONLY <1>7, <1>1, TypedFold DEF S
<1> QED BY <1>6, <1>8

\* One packet more is applied to what the packets before it made.
LEMMA UncutGoesOn ==
  ASSUME NEW b \in LevelMaps, NEW P \in Seq(Packets), NEW D \in Packets
  PROVE  /\ Uncut(b, P) \in LevelMaps
         /\ Uncut(b, <<>>) = b
         /\ Uncut(b, Append(P, D)) = FoldLeft(ApplyDelta, Uncut(b, P), D)
<1>1. PICK v, w, long : v = Uncut(b, P) /\ w = Uncut(b, long) /\ long = Append(P, D)
  OBVIOUS
<1>2. LongerBy(Packets, long, P, D) /\ long \in Seq(Packets) /\ <<>> \in Seq(Packets)
  BY <1>1 DEF LongerBy
<1>3. IsFold(LevelMaps, PacketStep, b, P, v) /\ IsFold(LevelMaps, PacketStep, b, long, w)
  BY <1>1, <1>2, UncutFolds
<1>4. v \in LevelMaps /\ GoesTo(PacketStep, v, D, w)
  BY ONLY <1>2, <1>3, FoldGoesOn
<1>5. w = FoldLeft(ApplyDelta, v, D)
  BY <1>4, PacketStepIs DEF GoesTo
<1>6. Uncut(b, <<>>) = b
  <2>1. IsFold(LevelMaps, PacketStep, b, <<>>, Uncut(b, <<>>))
    BY <1>2, UncutFolds
  <2> QED BY <2>1, FoldOfNothing
<1> QED BY <1>1, <1>4, <1>5, <1>6

\* The view keeps the best levels of each side.
Narrow(b) == \A d \in Sides : Cardinality({p \in Ticks : b[d][p] # NoLevel}) <= MaxLevels

\* There are finitely many prices.
LEMMA TicksAreFinite == IsFiniteSet(Ticks)
BY ConstantsAssumption, FS_Interval DEF Ticks

\* boundBook keeps a level or empties it, and a level it keeps has few ahead of it.
LEMMA BoundIs ==
  ASSUME NEW b \in LevelMaps
  PROVE  /\ BoundBook(b) \in LevelMaps
         /\ \A d \in Sides, p \in Ticks : BoundBook(b)[d][p] \in {b[d][p], NoLevel}
         /\ \A d \in Sides, p \in Ticks :
              BoundBook(b)[d][p] # NoLevel => b[d][p] # NoLevel /\ Cardinality(AheadOf(b, d, p)) < MaxLevels
<1>1. \A d \in Sides, p \in Ticks : b[d][p] \in Level /\ NoLevel \in Level
  BY DEF LevelMaps, NoLevel, Level
<1>2. \A d \in Sides, p \in Ticks :
        BoundBook(b)[d][p] = IF Cardinality(AheadOf(b, d, p)) < MaxLevels THEN b[d][p] ELSE NoLevel
  BY DEF BoundBook
<1>3. BoundBook(b) \in LevelMaps
  BY <1>1 DEF BoundBook, LevelMaps
<1> QED BY <1>2, <1>3

\* Of a set of prices one is the worst.
LEMMA WorstExists ==
  ASSUME NEW d \in Sides, NEW K \in SUBSET Ticks, K # {}
  PROVE  \E w \in K : \A p \in K : p # w => Better(d, p, w)
<1> DEFINE rank(p) == IF d = "buy" THEN p - MinTick ELSE MaxTick - p
           T == {rank(p) : p \in K}
<1>1. \A p \in K : p \in Int /\ rank(p) \in Nat
  BY ConstantsAssumption DEF Ticks
<1>2. T \subseteq Nat /\ T # {}
  BY <1>1
<1>3. PICK t \in T : \A u \in T : t <= u
  <2> HIDE DEF T
  <2> QED BY <1>2, LeastNatural
<1>4. PICK w \in K : t = rank(w)
  BY <1>3
<1>5. \A p \in K : rank(w) <= rank(p)
  BY <1>3, <1>4
<1>6. MinTick \in Int /\ MaxTick \in Int
  BY ConstantsAssumption
<1>7. ASSUME NEW p \in K, p # w PROVE Better(d, p, w)
  BY <1>1, <1>5, <1>6, <1>7 DEF Better
<1> QED BY <1>7

\* What boundBook leaves is no deeper than MaxLevels on either side.
LEMMA BoundIsNarrow ==
  ASSUME NEW b \in LevelMaps
  PROVE  Narrow(BoundBook(b))
<1> SUFFICES ASSUME NEW d \in Sides
             PROVE  Cardinality({p \in Ticks : BoundBook(b)[d][p] # NoLevel}) <= MaxLevels
  BY DEF Narrow
<1>1. PICK K : K = {p \in Ticks : BoundBook(b)[d][p] # NoLevel}
  OBVIOUS
<1>2. IsFiniteSet(K) /\ Cardinality(K) \in Nat /\ K \subseteq Ticks
  BY <1>1, TicksAreFinite, FS_Subset, FS_CardinalityType
<1>3. MaxLevels \in Nat /\ MaxLevels > 0
  BY EventBookAssumption
<1>4. CASE K = {}
  <2>1. Cardinality(K) = 0
    BY <1>4, FS_EmptySet
  <2> QED BY <1>1, <1>3, <2>1
<1>5. CASE K # {}
  <2>1. PICK w \in K : \A p \in K : p # w => Better(d, p, w)
    BY <1>2, <1>5, WorstExists
  <2>2. \A p \in K : b[d][p] # NoLevel
    BY <1>1, BoundIs
  <2>3. Cardinality(AheadOf(b, d, w)) < MaxLevels
    BY <1>1, <2>1, BoundIs
  <2>4. K \ {w} \subseteq AheadOf(b, d, w)
    BY <1>2, <2>1, <2>2 DEF AheadOf
  <2>5. IsFiniteSet(AheadOf(b, d, w))
    <3>1. AheadOf(b, d, w) \subseteq Ticks
      BY DEF AheadOf
    <3> QED BY <3>1, TicksAreFinite, FS_Subset
  <2>6. Cardinality(K \ {w}) <= Cardinality(AheadOf(b, d, w)) /\ Cardinality(AheadOf(b, d, w)) \in Nat
    BY <2>4, <2>5, FS_Subset, FS_CardinalityType
  <2>7. Cardinality(K \ {w}) = Cardinality(K) - 1
    BY <1>2, <2>1, FS_RemoveElement
  <2>8. Cardinality(K) <= MaxLevels
    BY <1>2, <1>3, <2>3, <2>6, <2>7
  <2> QED BY <1>1, <2>8
<1> QED BY <1>4, <1>5

\* applyGatewayEventPacket makes a view of a view.
LEMMA PacketApplied ==
  ASSUME NEW b \in LevelMaps, NEW D \in Packets
  PROVE  ApplyPacket(b, D) \in LevelMaps
BY PacketFolded, BoundIs DEF ApplyPacket

\* and a packet as the view applies it.
CutStep == [x \in LevelMaps \X Packets |-> ApplyPacket(x[1], x[2])]

\* The step, as a function, is applyGatewayEventPacket.
LEMMA CutStepIs ==
  /\ IsStep(LevelMaps, Packets, CutStep)
  /\ \A v \in LevelMaps, D \in Packets : CutStep[v, D] = ApplyPacket(v, D)
<1>1. \A x \in LevelMaps \X Packets : ApplyPacket(x[1], x[2]) \in LevelMaps
  <2> TAKE x \in LevelMaps \X Packets
  <2>1. x[1] \in LevelMaps /\ x[2] \in Packets
    OBVIOUS
  <2> QED BY <2>1, PacketApplied
<1>2. IsStep(LevelMaps, Packets, CutStep)
  BY <1>1, Zenon DEF CutStep, IsStep
<1>3. ASSUME NEW v \in LevelMaps, NEW D \in Packets PROVE CutStep[v, D] = ApplyPacket(v, D)
  <2>1. <<v, D>> \in LevelMaps \X Packets
    OBVIOUS
  <2> QED BY <2>1, Zenon DEF CutStep
<1> QED BY <1>2, <1>3

\* The packets of one render are folded one after the other.
LEMMA CutFolds ==
  ASSUME NEW b \in LevelMaps, NEW P \in Seq(Packets)
  PROVE  IsFold(LevelMaps, CutStep, b, P, FoldLeft(ApplyPacket, b, P))
<1> DEFINE S == DOMAIN P
           All(h) == [s \in SUBSET S |-> IF s = {} THEN b ELSE ApplyPacket(h[s \ {Max(s)}], P[Max(s)])]
           h == CHOOSE h : h = All(h)
<1>0. Len(P) \in Nat /\ S = 1 .. Len(P) /\ \A i \in S : P[i] \in Packets
  OBVIOUS
<1>1. /\ IsStep(LevelMaps, Packets, CutStep)
      /\ \A v \in LevelMaps, D \in Packets : CutStep[v, D] = ApplyPacket(v, D)
  BY CutStepIs
<1>2. PICK g \in [SUBSET S -> LevelMaps] : FoldsTo(CutStep, b, P, g)
  BY <1>1, FoldsExist
<1>3. ASSUME NEW s \in SUBSET S, s # {} PROVE Max(s) \in s /\ P[Max(s)] \in Packets
  <2>1. Max(s) \in s
    BY <1>0, <1>3, GreatestPosition
  <2> QED BY <1>0, <2>1
<1>4. g = All(g)
  <2>1. ASSUME NEW s \in SUBSET S
        PROVE  g[s] = IF s = {} THEN b ELSE ApplyPacket(g[s \ {Max(s)}], P[Max(s)])
    <3>1. CASE s = {}
      BY <1>2, <3>1 DEF FoldsTo
    <3>2. CASE s # {}
      <4>1. Max(s) \in s /\ P[Max(s)] \in Packets /\ s \ {Max(s)} \in SUBSET S
        BY <1>3, <3>2
      <4>2. g[s \ {Max(s)}] \in LevelMaps
        BY <4>1
      <4>3. g[s] = CutStep[g[s \ {Max(s)}], P[Max(s)]]
        BY <1>2, <3>2 DEF FoldsTo
      <4> QED BY <1>1, <3>2, <4>1, <4>2, <4>3
    <3> QED BY <3>1, <3>2
  <2> QED BY <2>1
<1>5. h = All(h)
  BY <1>4
<1>6. FoldLeft(ApplyPacket, b, P) = h[S]
  BY DEF FoldLeft, MapThenFoldSet
<1>7. FoldsWhileTyped(LevelMaps, CutStep, b, P, h)
  <2> SUFFICES ASSUME NEW s \in SUBSET S
               PROVE  /\ s = {} => h[s] = b
                      /\ s # {} /\ h[s \ {Max(s)}] \in LevelMaps
                           => h[s] = CutStep[h[s \ {Max(s)}], P[Max(s)]]
    BY DEF FoldsWhileTyped
  <2>1. h[s] = All(h)[s]
    BY <1>5
  <2> HIDE DEF h
  <2>2. h[s] = IF s = {} THEN b ELSE ApplyPacket(h[s \ {Max(s)}], P[Max(s)])
    BY <2>1
  <2> QED BY <1>1, <1>3, <2>2
<1> HIDE DEF h
<1>8. IsFold(LevelMaps, CutStep, b, P, h[S])
  <2> HIDE DEF S
  <2> QED BY ONLY <1>7, <1>1, TypedFold DEF S
<1> QED BY <1>6, <1>8

\* One packet more is applied to what the packets before it made.
LEMMA CutGoesOn ==
  ASSUME NEW b \in LevelMaps, NEW P \in Seq(Packets), NEW D \in Packets
  PROVE  /\ FoldLeft(ApplyPacket, b, P) \in LevelMaps
         /\ FoldLeft(ApplyPacket, b, <<>>) = b
         /\ FoldLeft(ApplyPacket, b, Append(P, D)) = ApplyPacket(FoldLeft(ApplyPacket, b, P), D)
<1>1. PICK v, w, long : v = FoldLeft(ApplyPacket, b, P) /\ w = FoldLeft(ApplyPacket, b, long) /\ long = Append(P, D)
  OBVIOUS
<1>2. LongerBy(Packets, long, P, D) /\ long \in Seq(Packets) /\ <<>> \in Seq(Packets)
  BY <1>1 DEF LongerBy
<1>3. IsFold(LevelMaps, CutStep, b, P, v) /\ IsFold(LevelMaps, CutStep, b, long, w)
  BY <1>1, <1>2, CutFolds
<1>4. v \in LevelMaps /\ GoesTo(CutStep, v, D, w)
  BY ONLY <1>2, <1>3, FoldGoesOn
<1>5. w = ApplyPacket(v, D)
  BY <1>4, CutStepIs DEF GoesTo
<1>6. FoldLeft(ApplyPacket, b, <<>>) = b
  <2>1. IsFold(LevelMaps, CutStep, b, <<>>, FoldLeft(ApplyPacket, b, <<>>))
    BY <1>2, CutFolds
  <2> QED BY <2>1, FoldOfNothing
<1> QED BY <1>1, <1>4, <1>5, <1>6

-----------------------------------------------------------------------------
(***************************************************************************)
(* What is cut and what is not.                                            *)
(***************************************************************************)
\* Cutting after each packet loses levels and changes none.
CutBy(w, v) == \A d \in Sides, p \in Ticks : w[d][p] \in {v[d][p], NoLevel}

\* One packet on both: what is cut stays a cut of what is not.
LEMMA PacketKeepsCut ==
  ASSUME NEW v \in LevelMaps, NEW w \in LevelMaps, CutBy(w, v), NEW D \in Packets
  PROVE  /\ CutBy(ApplyPacket(w, D), FoldLeft(ApplyDelta, v, D))
         /\ Narrow(ApplyPacket(w, D))
<1>1. PICK f, g : f = FoldLeft(ApplyDelta, w, D) /\ g = FoldLeft(ApplyDelta, v, D)
  OBVIOUS
<1>2. f \in LevelMaps /\ g \in LevelMaps
  BY <1>1, PacketFolded
<1>3. ApplyPacket(w, D) = BoundBook(f)
  BY <1>1 DEF ApplyPacket
<1>4. ASSUME NEW d \in Sides, NEW p \in Ticks
      PROVE  BoundBook(f)[d][p] \in {g[d][p], NoLevel}
  <2>1. BoundBook(f)[d][p] \in {f[d][p], NoLevel}
    BY <1>2, BoundIs
  <2>2. f[d][p] \in {g[d][p], NoLevel}
    <3>1. D \in Seq(LevelDeltas)
      BY DEF Packets
    <3>2. CASE <<d, p>> \in Named(D)
      <4>1. f[d][p] = g[d][p]
        BY <1>1, <3>1, <3>2, DeltasReplace
      <4> QED BY <4>1
    <3>3. CASE <<d, p>> \notin Named(D)
      <4>1. f[d][p] = w[d][p] /\ g[d][p] = v[d][p]
        BY <1>1, <3>1, <3>3, DeltasReplace
      <4> QED BY <4>1 DEF CutBy
    <3> QED BY <3>2, <3>3
  <2> QED BY <2>1, <2>2
<1>5. CutBy(BoundBook(f), g)
  BY <1>4 DEF CutBy
<1>6. Narrow(BoundBook(f))
  BY <1>2, BoundIsNarrow
<1> QED BY <1>1, <1>3, <1>5, <1>6

\* A render cuts levels and changes none of those it keeps.
LEMMA CutOrUncut ==
  ASSUME NEW b \in LevelMaps, Narrow(b), NEW packets \in Seq(Packets)
  PROVE  /\ FoldLeft(ApplyPacket, b, packets) \in LevelMaps
         /\ CutBy(FoldLeft(ApplyPacket, b, packets), Uncut(b, packets))
         /\ Narrow(FoldLeft(ApplyPacket, b, packets))
<1> DEFINE Good(L) == CutBy(FoldLeft(ApplyPacket, b, L), Uncut(b, L)) /\ Narrow(FoldLeft(ApplyPacket, b, L))
           T == {n \in Nat : \A L \in Seq(Packets) : Len(L) = n => Good(L)}
<1>0. <<>> \in Seq(LevelDeltas) /\ <<>> \in Packets /\ <<>> \in Seq(Packets)
  BY DEF Packets
<1>1. 0 \in T
  <2> SUFFICES ASSUME NEW L \in Seq(Packets), Len(L) = 0 PROVE Good(L)
    OBVIOUS
  <2>1. L = <<>>
    OBVIOUS
  <2>2. FoldLeft(ApplyPacket, b, L) = b /\ Uncut(b, L) = b
    BY <1>0, <2>1, CutGoesOn, UncutGoesOn
  <2>3. CutBy(b, b)
    BY DEF CutBy
  <2> QED BY <2>2, <2>3
<1>2. ASSUME NEW n \in Nat, n \in T PROVE n + 1 \in T
  <2> SUFFICES ASSUME NEW L \in Seq(Packets), Len(L) = n + 1 PROVE Good(L)
    OBVIOUS
  <2>1. PICK front, D : front = SubSeq(L, 1, n) /\ D = L[n + 1]
    OBVIOUS
  <2>2. front \in Seq(Packets) /\ Len(front) = n /\ D \in Packets /\ L = Append(front, D)
    BY <2>1
  <2>3. Good(front)
    BY <1>2, <2>2
  <2>4. PICK v, w : v = Uncut(b, front) /\ w = FoldLeft(ApplyPacket, b, front)
    OBVIOUS
  <2>5. v \in LevelMaps /\ w \in LevelMaps
    BY <2>2, <2>4, CutGoesOn, UncutGoesOn
  <2>6. Uncut(b, L) = FoldLeft(ApplyDelta, v, D)
    BY <2>2, <2>4, UncutGoesOn
  <2>7. FoldLeft(ApplyPacket, b, L) = ApplyPacket(w, D)
    BY <2>2, <2>4, CutGoesOn
  <2>8. CutBy(w, v)
    BY <2>3, <2>4
  <2> HIDE DEF Good
  <2>9. CutBy(ApplyPacket(w, D), FoldLeft(ApplyDelta, v, D)) /\ Narrow(ApplyPacket(w, D))
    BY ONLY <2>2, <2>5, <2>8, PacketKeepsCut
  <2> QED BY <2>6, <2>7, <2>9 DEF Good
<1>3. Nat \subseteq T
  <2> HIDE DEF T
  <2> QED BY <1>1, <1>2, Climbs
<1>4. Len(packets) \in Nat
  OBVIOUS
<1>5. \A L \in Seq(Packets) : Len(L) = Len(packets) => Good(L)
  BY <1>3, <1>4
<1>6. FoldLeft(ApplyPacket, b, packets) \in LevelMaps
  BY <1>0, CutGoesOn
<1> QED BY <1>5, <1>6

-----------------------------------------------------------------------------
(***************************************************************************)
(* What the engine tells.                                                  *)
(***************************************************************************)
\* The deltas of the operation that has not returned yet.
InProgress == IF ctl = "idle" THEN <<>> ELSE batch.deltas

\* A level that the running operation has touched or is about to touch.
Pending(d, p) ==
  \/ ctl = "match" /\ d = Opposite(incoming.side) /\ CanMatch(p)
  \/ ctl = "sweep" /\ CanSweep(d, p)

\* A step that tells nothing leaves every level that is not pending as it was.
Kept(d, p) == Pending(d, p)' \/ (LevelOf(d, p)' = LevelOf(d, p) /\ ~Pending(d, p))

TellsNothing ==
  batch'.deltas = InProgress /\ \A d \in Sides, p \in Ticks : Kept(d, p)

TellsOne(e) ==
  /\ batch'.deltas = Append(InProgress, e)
  /\ e \in LevelDeltas
  /\ Told(e) = LevelOf(e.side, ToTicks(e.px))'
  /\ \A d \in Sides, p \in Ticks : <<d, p>> # <<e.side, ToTicks(e.px)>> => Kept(d, p)

Tells == TellsNothing \/ \E e : TellsOne(e)

\* What a delta says of a queue of live orders is what it holds.
LEMMA ToldIsLevel ==
  ASSUME NEW d \in Sides, NEW p \in Ticks, NEW n \in Nat,
         NEW q \in Seq(Order), \A i \in DOMAIN q : q[i].rem > 0
  PROVE  /\ LevelDelta(Quoted, d, p, q, n) \in LevelDeltas
         /\ Told(LevelDelta(Quoted, d, p, q, n)) = [qty |-> AggregateQuantity(q), orders |-> Len(q)]
         /\ LevelDelta(Quoted, d, p, q, n).side = d /\ LevelDelta(Quoted, d, p, q, n).px = FromTicks(p)
         /\ \A act \in {"add", "modify"} : q # <<>> =>
              /\ BookDelta(Quoted, d, p, act, q, n) \in LevelDeltas
              /\ Told(BookDelta(Quoted, d, p, act, q, n)) = [qty |-> AggregateQuantity(q), orders |-> Len(q)]
              /\ BookDelta(Quoted, d, p, act, q, n).side = d /\ BookDelta(Quoted, d, p, act, q, n).px = FromTicks(p)
<1>1. PICK a, k : a = AggregateQuantity(q) /\ k = Len(q)
  OBVIOUS
<1>2. a \in Nat /\ k \in Nat /\ AggregateQuantity(<<>>) = 0
  BY <1>1, AggregateOfLive
<1>3. q # <<>> => a > 0 /\ k > 0
  <2> SUFFICES ASSUME q # <<>> PROVE a > 0 /\ k > 0
    OBVIOUS
  <2>1. k \in DOMAIN q /\ k > 0
    BY <1>1
  <2>2. q[Len(q)].rem > 0
    BY <1>1, <2>1
  <2> QED BY <1>1, <2>1, <2>2, AggregateOfLive
<1>4. q = <<>> => a = 0 /\ k = 0
  BY <1>1, <1>2
<1>5. Quoted \in Products
  BY EventBookAssumption
<1>6. PICK h : h = FromTicks(p) /\ h \in {FromTicks(r) : r \in Ticks}
  OBVIOUS
<1>7. ASSUME NEW act \in {"add", "modify", "delete"}, (act = "delete") <=> (q = <<>>)
      PROVE  /\ BookDelta(Quoted, d, p, act, q, n) \in LevelDeltas
             /\ Told(BookDelta(Quoted, d, p, act, q, n)) = [qty |-> a, orders |-> k]
             /\ BookDelta(Quoted, d, p, act, q, n).side = d /\ BookDelta(Quoted, d, p, act, q, n).px = h
  <2>1. PICK e : e = BookDelta(Quoted, d, p, act, q, n)
    OBVIOUS
  <2>2. e = [sym |-> Quoted, side |-> d, px |-> h, act |-> act, qty |-> a, orders |-> k, seq |-> n]
    BY <1>1, <1>6, <2>1 DEF BookDelta
  <2>3. e \in LevelDeltas
    BY <1>2, <1>5, <1>6, <2>2 DEF LevelDeltas
  <2>4. Told(e) = [qty |-> a, orders |-> k]
    <3>1. e.act = act /\ e.qty = a /\ e.orders = k
      BY <2>2
    <3>2. CASE q = <<>>
      BY <1>4, <1>7, <3>1, <3>2 DEF Told, Removed, NoLevel
    <3>3. CASE q # <<>>
      <4>1. ~(e.act = "delete" \/ e.qty <= 0 \/ e.orders <= 0)
        BY <1>2, <1>3, <1>7, <3>1, <3>3
      <4> QED BY <3>1, <4>1 DEF Told, Removed
    <3> QED BY <3>2, <3>3
  <2> QED BY <2>1, <2>2, <2>3, <2>4
<1>8. PICK act \in {"add", "modify", "delete"} : act = IF q = <<>> THEN "delete" ELSE "modify"
  OBVIOUS
<1>9. LevelDelta(Quoted, d, p, q, n) = BookDelta(Quoted, d, p, act, q, n) /\ ((act = "delete") <=> (q = <<>>))
  BY <1>8 DEF LevelDelta
<1>10. \A act2 \in {"add", "modify"} : q # <<>> =>
          act2 \in {"add", "modify", "delete"} /\ ((act2 = "delete") <=> (q = <<>>))
  OBVIOUS
<1> QED BY <1>1, <1>6, <1>7, <1>8, <1>9, <1>10

\* A side has one best level.
LEMMA BestIsOne ==
  ASSUME NEW s \in Products, NEW d \in Sides, NEW p \in Ticks, NEW r \in Ticks,
         IsBest(s, d, p), IsBest(s, d, r)
  PROVE  p = r
<1>1. p \in Int /\ r \in Int
  BY ConstantsAssumption DEF Ticks
<1> QED BY <1>1 DEF IsBest, Better

\* The delta of a level is what the level has become.
LEMMA NewLevelIsTold ==
  ASSUME BookInv', NEW d \in Sides, NEW p \in Ticks, NEW n \in Nat, NEW e,
         NEW act \in {"add", "modify"},
         \/ e = LevelDelta(Quoted, d, p, queue'[Quoted][d][p], n)
         \/ queue'[Quoted][d][p] # <<>> /\ e = BookDelta(Quoted, d, p, act, queue'[Quoted][d][p], n)
  PROVE  e \in LevelDeltas /\ Told(e) = LevelOf(d, p)' /\ e.side = d /\ ToTicks(e.px) = p
<1>1. PICK q : q = queue'[Quoted][d][p]
  OBVIOUS
<1>2. Quoted \in Products
  BY EventBookAssumption
<1>3. q \in Seq(Order) /\ \A i \in DOMAIN q : q[i].rem > 0
  BY <1>1, <1>2 DEF BookInv, QueuedOrdersAreLive
<1>4. LevelOf(d, p)' = [qty |-> AggregateQuantity(q), orders |-> Len(q)]
  BY <1>1 DEF LevelOf
<1>5. ToTicks(FromTicks(p)) = p
  <2>1. p \in Int
    BY ConstantsAssumption DEF Ticks
  <2> QED BY <2>1, RoundTrip
<1>6. CASE e = LevelDelta(Quoted, d, p, q, n)
  <2>1. e \in LevelDeltas /\ Told(e) = [qty |-> AggregateQuantity(q), orders |-> Len(q)] /\ e.side = d /\ e.px = FromTicks(p)
    BY <1>3, <1>6, ToldIsLevel
  <2> QED BY <1>4, <1>5, <2>1
<1>7. CASE q # <<>> /\ e = BookDelta(Quoted, d, p, act, q, n)
  <2>1. e \in LevelDeltas /\ Told(e) = [qty |-> AggregateQuantity(q), orders |-> Len(q)] /\ e.side = d /\ e.px = FromTicks(p)
    BY <1>3, <1>7, ToldIsLevel
  <2> QED BY <1>4, <1>5, <2>1
<1> QED BY <1>1, <1>6, <1>7

\* One product is quoted.
LEMMA OneProduct ==
  /\ Quoted \in Products /\ \A s \in Products : s = Quoted
  BY EventBookAssumption

\* A step from the free engine that leaves the book alone tells nothing.
LEMMA SameBookIsKept ==
  ASSUME ctl = "idle", queue' = queue
  PROVE  \A d \in Sides, p \in Ticks : Kept(d, p)
<1> TAKE d \in Sides, p \in Ticks
<1>1. LevelOf(d, p)' = LevelOf(d, p)
  BY DEF LevelOf
<1>2. ~Pending(d, p)
  BY DEF Pending
<1> QED BY <1>1, <1>2 DEF Kept

\* An order that is taken or refused has not touched the book yet.
LEMMA SubmitTells ==
  ASSUME NEW c \in Command, SubmitOrder(c)
  PROVE  Tells
<1>1. ctl = "idle" /\ queue' = queue
  BY DEF SubmitOrder, Ready
<1>2. batch'.deltas = <<>>
  BY DEF SubmitOrder, Bounce, Enter, EmptyBatch
<1> QED BY <1>1, <1>2, SameBookIsKept DEF Tells, TellsNothing, InProgress

\* Nor has a tick.
LEMMA ApplyTells ==
  ASSUME NEW t \in Tick, ApplyMarketData(t)
  PROVE  Tells
<1>1. ctl = "idle" /\ queue' = queue
  BY DEF ApplyMarketData, Ready
<1>2. batch'.deltas = <<>>
  BY DEF ApplyMarketData, EmptyBatch
<1> QED BY <1>1, <1>2, SameBookIsKept DEF Tells, TellsNothing, InProgress

\* A removal tells what is left of its level.
LEMMA RemovalTells ==
  ASSUME IInv, BookInv', ctl = "idle", NEW id \in Ids, id \in Registered, RemoveRegistered(id),
         batch'.deltas = <<RemovalDelta(id)>>
  PROVE  Tells
<1>1. PICK d \in Sides, p \in Ticks : registry[id] = [sym |-> Quoted, side |-> d, px |-> p]
  <2>1. PICK s \in Products, d \in Sides, p \in Ticks : registry[id] = [sym |-> s, side |-> d, px |-> p]
    BY LocationFacts DEF IInv, Registered
  <2> QED BY <2>1, OneProduct
<1>2. registry[id].sym = Quoted /\ registry[id].side = d /\ registry[id].px = p
  BY <1>1
<1>3. PICK left : left = LevelWithout(id)
  OBVIOUS
<1>4. queue' = [queue EXCEPT ![Quoted][d][p] = left]
  BY <1>2, <1>3 DEF RemoveRegistered, SetLevel
<1>5. queue \in [Products -> [Sides -> [Ticks -> Seq(Order)]]] /\ sequence \in Nat
  BY DEF IInv, TypeOK
<1>6. /\ queue'[Quoted][d][p] = left
      /\ \A d2 \in Sides, p2 \in Ticks : <<d2, p2>> # <<d, p>> => queue'[Quoted][d2][p2] = queue[Quoted][d2][p2]
  BY <1>4, <1>5, OneProduct
<1>7. PICK e : e = RemovalDelta(id)
  OBVIOUS
<1>8. e = LevelDelta(Quoted, d, p, queue'[Quoted][d][p], sequence)
  BY <1>2, <1>3, <1>6, <1>7 DEF RemovalDelta
<1>9. e \in LevelDeltas /\ Told(e) = LevelOf(d, p)' /\ e.side = d /\ ToTicks(e.px) = p
  BY <1>5, <1>8, NewLevelIsTold
<1>10. ASSUME NEW d2 \in Sides, NEW p2 \in Ticks, <<d2, p2>> # <<d, p>>
       PROVE  Kept(d2, p2)
  <2>1. LevelOf(d2, p2)' = LevelOf(d2, p2)
    BY <1>6, <1>10 DEF LevelOf
  <2>2. ~Pending(d2, p2)
    BY DEF Pending
  <2> QED BY <2>1, <2>2 DEF Kept
<1>11. batch'.deltas = Append(InProgress, e)
  BY <1>7 DEF InProgress
<1>12. TellsOne(e)
  BY <1>9, <1>10, <1>11 DEF TellsOne
<1> QED BY <1>12 DEF Tells

\* A cancel tells what is left of the level, or that it knows no such order.
LEMMA CancelTells ==
  ASSUME IInv, BookInv', NEW id \in Ids, CancelOrder(id)
  PROVE  Tells
<1>1. ctl = "idle"
  BY DEF CancelOrder, Ready
<1>2. CASE UnknownOrder(id)
  <2>1. queue' = queue /\ batch'.deltas = <<>>
    BY <1>2 DEF UnknownOrder, EmptyBatch
  <2> QED BY <1>1, <2>1, SameBookIsKept DEF Tells, TellsNothing, InProgress
<1>3. CASE ~UnknownOrder(id)
  <2>1. id \in Registered /\ RemoveRegistered(id) /\ batch'.deltas = <<RemovalDelta(id)>>
    BY <1>3 DEF CancelOrder
  <2> QED BY <1>1, <2>1, RemovalTells
<1> QED BY <1>2, <1>3

\* A replace tells of the level the order leaves before it matches anew.
LEMMA ReplaceTells ==
  ASSUME IInv, BookInv', NEW id \in Ids, NEW px, NEW qty, ReplaceOrder(id, px, qty)
  PROVE  Tells
<1>1. ctl = "idle"
  BY DEF ReplaceOrder, Ready
<1>2. CASE UnknownOrder(id)
  <2>1. queue' = queue /\ batch'.deltas = <<>>
    BY <1>2 DEF UnknownOrder, EmptyBatch
  <2> QED BY <1>1, <2>1, SameBookIsKept DEF Tells, TellsNothing, InProgress
<1>3. CASE ~UnknownOrder(id)
  <2>1. id \in Registered /\ RemoveRegistered(id)
    BY <1>3 DEF ReplaceOrder
  <2>2. batch'.deltas = <<RemovalDelta(id)>>
    BY <1>3 DEF ReplaceOrder, Bounce, Enter
  <2> QED BY <1>1, <2>1, <2>2, RemovalTells
<1> QED BY <1>2, <1>3

\* The end of a sweep finds nothing pending.
LEMMA FinishSweepTells ==
  ASSUME IInv, FinishSweep
  PROVE  Tells
<1>1. ctl = "sweep" /\ ctl' = "idle" /\ queue' = queue /\ batch' = batch
  BY DEF FinishSweep
<1>2. ASSUME NEW d \in Sides, NEW p \in Ticks PROVE Kept(d, p)
  <2>1. LevelOf(d, p)' = LevelOf(d, p)
    BY <1>1 DEF LevelOf
  <2>2. ~Pending(d, p)
    BY <1>1 DEF Pending, FinishSweep
  <2> QED BY <2>1, <2>2 DEF Kept
<1> QED BY <1>1, <1>2 DEF Tells, TellsNothing, InProgress

\* A trade: its level is told once the loop leaves it, and is pending till then.
LEMMA MatchTells ==
  ASSUME IInv, SoundInv, BookInv', sequence' \in Nat, NEW p \in Ticks, MatchIncoming(p)
  PROVE  Tells
<1> DEFINE q == queue[Quoted][Opposite(incoming.side)][p]
           qty == TradeQuantity(incoming, Head(q))
           maker0 == [Head(q) EXCEPT !.rem = @ - qty]
           left0 == IF maker0.rem = 0 THEN Tail(q) ELSE [q EXCEPT ![1] = maker0]
<1>1. /\ ctl = "match" /\ ctl' = "match" /\ incoming \in Order /\ CanMatch(p)
      /\ queue \in [Products -> [Sides -> [Ticks -> Seq(Order)]]] /\ incoming.sym = Quoted
  <2>1. incoming \in Order /\ ctl = "match" /\ ctl' = "match" /\ CanMatch(p)
    BY DEF IInv, TypeOK, MatchIncoming
  <2>2. incoming.sym \in Products
    BY <2>1 DEF Order
  <2> QED BY <2>1, <2>2, OneProduct DEF IInv, TypeOK
<1>2. PICK d \in Sides : d = Opposite(incoming.side)
  BY DEF Opposite, Sides
<1>3. PICK left, taker : left = left0 /\ taker = [incoming EXCEPT !.rem = @ - qty]
  OBVIOUS
<1>4. /\ incoming' = taker
      /\ queue' = [queue EXCEPT ![Quoted][d][p] = left]
      /\ sequence' = sequence + 2
      /\ batch'.deltas = IF left = <<>> \/ taker.rem = 0
                         THEN Append(batch.deltas, LevelDelta(Quoted, d, p, left, sequence + 2))
                         ELSE batch.deltas
  <2> HIDE DEF left0
  <2>1. incoming' = taker /\ queue' = SetLevel(Quoted, d, p, left) /\ sequence' = sequence + 2
    BY <1>1, <1>2, <1>3 DEF MatchIncoming, left0
  <2>2. batch'.deltas = IF left = <<>> \/ taker.rem = 0
                        THEN Append(batch.deltas, LevelDelta(Quoted, d, p, left, sequence + 2))
                        ELSE batch.deltas
    BY <1>1, <1>2, <1>3 DEF MatchIncoming, left0
  <2> QED BY <2>1, <2>2 DEF SetLevel
<1>5. /\ queue'[Quoted][d][p] = left
      /\ \A d2 \in Sides, p2 \in Ticks : <<d2, p2>> # <<d, p>> => queue'[Quoted][d2][p2] = queue[Quoted][d2][p2]
  BY <1>1, <1>4, OneProduct
<1>6. ASSUME NEW d2 \in Sides, NEW p2 \in Ticks, <<d2, p2>> # <<d, p>>
      PROVE  Kept(d2, p2)
  <2>1. LevelOf(d2, p2)' = LevelOf(d2, p2)
    BY <1>5, <1>6 DEF LevelOf
  <2>2. ASSUME Pending(d2, p2) PROVE FALSE
    <3>1. d2 = d /\ CanMatch(p2)
      BY <1>1, <1>2, <2>2 DEF Pending
    <3>2. IsBest(Quoted, d, p) /\ IsBest(Quoted, d, p2)
      BY <1>1, <1>2, <3>1 DEF CanMatch
    <3>3. p = p2
      BY <3>2, OneProduct, BestIsOne
    <3> QED BY <1>6, <3>1, <3>3
  <2> QED BY <2>1, <2>2 DEF Kept
<1>7. CASE left = <<>> \/ taker.rem = 0
  <2>1. PICK e : e = LevelDelta(Quoted, d, p, queue'[Quoted][d][p], sequence')
    OBVIOUS
  <2>2. e \in LevelDeltas /\ Told(e) = LevelOf(d, p)' /\ e.side = d /\ ToTicks(e.px) = p
    BY <2>1, NewLevelIsTold
  <2>3. batch'.deltas = Append(InProgress, e)
    BY <1>1, <1>4, <1>5, <1>7, <2>1 DEF InProgress
  <2>4. TellsOne(e)
    BY <1>6, <2>2, <2>3 DEF TellsOne
  <2> QED BY <2>4 DEF Tells
<1>8. CASE ~(left = <<>> \/ taker.rem = 0)
  <2>1. batch'.deltas = InProgress
    BY <1>1, <1>4, <1>8 DEF InProgress
  <2>2. Kept(d, p)
    <3>1. taker.side = incoming.side /\ taker.px = incoming.px /\ taker.sym = Quoted /\ taker.rem \in Int
      <4>1. incoming.rem \in Nat /\ "rem" \in DOMAIN incoming
        BY <1>1 DEF Order
      <4>2. Head(q).rem \in Nat
        <5>1. q \in Seq(Order) /\ q # <<>>
          BY <1>1, <1>2, OneProduct DEF CanMatch, IsBest
        <5>2. Head(q) \in Order
          BY <5>1, TailOfQueue
        <5> QED BY <5>2 DEF Order
      <4>3. qty \in Nat
        BY <4>1, <4>2 DEF TradeQuantity
      <4> HIDE DEF qty
      <4> QED BY <1>1, <1>3, <4>1, <4>3 DEF Order
    <3>2. taker.rem > 0
      <4>1. taker \in Order
        <5>1. incoming' \in Order
          BY <1>1, MatchStep DEF IInv, TypeOK
        <5> QED BY <5>1, <1>4
      <4>2. taker.rem \in Nat
        BY <4>1 DEF Order
      <4> QED BY <1>8, <4>2
    <3>3. \A r \in Ticks : queue'[Quoted][d][r] # <<>> => r = p \/ Better(d, p, r)
      <4> TAKE r \in Ticks
      <4>1. r # p => queue'[Quoted][d][r] = queue[Quoted][d][r]
        BY <1>5
      <4>2. \A r2 \in Ticks : queue[Quoted][d][r2] # <<>> => r2 = p \/ Better(d, p, r2)
        BY <1>1, <1>2 DEF CanMatch, IsBest
      <4> QED BY <4>1, <4>2
    <3>4. IsBest(Quoted, d, p)'
      BY <1>5, <1>8, <3>3 DEF IsBest
    <3>5. Crosses(taker.side, taker.px, p)
      BY <1>1, <3>1 DEF CanMatch
    <3>6. CanMatch(p)'
      BY <1>2, <1>4, <3>1, <3>2, <3>4, <3>5 DEF CanMatch
    <3>7. Pending(d, p)'
      BY <1>1, <1>2, <1>4, <3>1, <3>6 DEF Pending
    <3> QED BY <3>7 DEF Kept
  <2>3. \A d2 \in Sides, p2 \in Ticks : Kept(d2, p2)
    <3> TAKE d2 \in Sides, p2 \in Ticks
    <3>1. CASE <<d2, p2>> = <<d, p>>
      <4>1. d2 = d /\ p2 = p
        BY <3>1
      <4> QED BY <4>1, <2>2
    <3> QED BY <3>1, <1>6
  <2> QED BY <2>1, <2>3 DEF Tells, TellsNothing
<1> QED BY <1>7, <1>8

\* The end of a match finds nothing pending, and tells of the level it rests at.
LEMMA FinishTells ==
  ASSUME IInv, SoundInv, BookInv', FinishIncoming
  PROVE  Tells
<1>1. /\ ctl = "match" /\ incoming \in Order /\ sequence \in Nat
      /\ queue \in [Products -> [Sides -> [Ticks -> Seq(Order)]]] /\ incoming.sym = Quoted
      /\ incoming.side \in Sides /\ incoming.px \in Ticks
  <2>1. incoming \in Order /\ ctl = "match"
    BY DEF IInv, TypeOK, FinishIncoming
  <2>2. incoming.sym \in Products /\ incoming.side \in Sides /\ incoming.px \in Ticks
    BY <2>1 DEF Order
  <2> QED BY <2>1, <2>2, OneProduct DEF IInv, TypeOK
<1>2. \A d \in Sides, p \in Ticks : ~Pending(d, p)
  BY <1>1 DEF FinishIncoming, Pending
<1>3. CASE queue' = queue /\ batch'.deltas = batch.deltas
  <2>1. ASSUME NEW d \in Sides, NEW p \in Ticks PROVE Kept(d, p)
    <3>1. LevelOf(d, p)' = LevelOf(d, p)
      BY <1>3 DEF LevelOf
    <3> QED BY <1>2, <3>1 DEF Kept
  <2> QED BY <1>1, <1>3, <2>1 DEF Tells, TellsNothing, InProgress
<1>4. CASE RestOrder
  <2>1. PICK d \in Sides, p \in Ticks : d = incoming.side /\ p = incoming.px
    BY <1>1
  <2>2. PICK q : q = queue[Quoted][d][p]
    OBVIOUS
  <2>3. PICK act \in {"add", "modify"} : act = IF q = <<>> THEN "add" ELSE "modify"
    OBVIOUS
  <2>4. /\ queue' = [queue EXCEPT ![Quoted][d][p] = Append(q, incoming)]
        /\ batch'.deltas = Append(batch.deltas, BookDelta(Quoted, d, p, act, Append(q, incoming), sequence))
    BY <1>1, <1>4, <2>1, <2>2, <2>3 DEF RestOrder, SetLevel, Enqueue
  <2>5. /\ queue'[Quoted][d][p] = Append(q, incoming)
        /\ \A d2 \in Sides, p2 \in Ticks : <<d2, p2>> # <<d, p>> => queue'[Quoted][d2][p2] = queue[Quoted][d2][p2]
    BY <1>1, <2>4, OneProduct
  <2>6. q \in Seq(Order)
    BY <1>1, <2>2, OneProduct
  <2>7. queue'[Quoted][d][p] # <<>>
    <3>1. Append(q, incoming) # <<>>
      BY <1>1, <2>6
    <3> QED BY <3>1, <2>5
  <2>8. PICK e : e = BookDelta(Quoted, d, p, act, queue'[Quoted][d][p], sequence)
    OBVIOUS
  <2>9. e \in LevelDeltas /\ Told(e) = LevelOf(d, p)' /\ e.side = d /\ ToTicks(e.px) = p
    BY <1>1, <2>7, <2>8, NewLevelIsTold
  <2>10. batch'.deltas = Append(InProgress, e)
    BY <1>1, <2>4, <2>5, <2>8 DEF InProgress
  <2>11. ASSUME NEW d2 \in Sides, NEW p2 \in Ticks, <<d2, p2>> # <<d, p>>
         PROVE  Kept(d2, p2)
    <3>1. LevelOf(d2, p2)' = LevelOf(d2, p2)
      BY <2>5, <2>11 DEF LevelOf
    <3> QED BY <1>2, <3>1 DEF Kept
  <2>12. TellsOne(e)
    BY <2>9, <2>10, <2>11 DEF TellsOne
  <2> QED BY <2>12 DEF Tells
<1>5. (queue' = queue /\ batch'.deltas = batch.deltas) \/ RestOrder
  <2>1. batch \in [reports : Seq(Report), deltas : Seq(Delta)]
    BY DEF SoundInv, Sound
  <2>2. ASSUME NEW R, batch' = [batch EXCEPT !.reports = R] PROVE batch'.deltas = batch.deltas
    BY <2>1, <2>2
  <2> QED BY <2>2 DEF FinishIncoming
<1> QED BY <1>3, <1>4, <1>5

\* A fill of the sweep, likewise; the bids wait for the asks.
LEMMA SweepTells ==
  ASSUME IInv, SoundInv, BookInv', NEW d \in Sides, NEW p \in Ticks, SweepOrder(d, p)
  PROVE  Tells
<1>1. /\ ctl = "sweep" /\ ctl' = "sweep" /\ tick' = tick /\ CanSweep(d, p) /\ tick.sym = Quoted
      /\ queue \in [Products -> [Sides -> [Ticks -> Seq(Order)]]] /\ sequence \in Nat
      /\ incoming' = incoming
  <2>1. ctl = "sweep" /\ ctl' = "sweep" /\ tick' = tick /\ CanSweep(d, p) /\ incoming' = incoming
    BY DEF SweepOrder
  <2>2. tick.sym \in Products
    BY <2>1 DEF IInv, TypeOK
  <2> QED BY <2>1, <2>2, OneProduct DEF IInv, TypeOK
<1>2. PICK q, left : q = queue[Quoted][d][p] /\ left = Tail(q)
  OBVIOUS
<1>3. /\ queue' = [queue EXCEPT ![Quoted][d][p] = left]
      /\ sequence' = sequence + 1
      /\ batch'.deltas = IF left = <<>> THEN Append(batch.deltas, LevelDelta(Quoted, d, p, <<>>, sequence + 1))
                         ELSE batch.deltas
  BY <1>1, <1>2 DEF SweepOrder, SetLevel
<1>4. /\ queue'[Quoted][d][p] = left
      /\ \A d2 \in Sides, p2 \in Ticks : <<d2, p2>> # <<d, p>> => queue'[Quoted][d2][p2] = queue[Quoted][d2][p2]
  BY <1>1, <1>3, OneProduct
<1>5. ASSUME NEW d2 \in Sides, NEW p2 \in Ticks, <<d2, p2>> # <<d, p>>
      PROVE  Kept(d2, p2)
  <2>1. LevelOf(d2, p2)' = LevelOf(d2, p2)
    BY <1>4, <1>5 DEF LevelOf
  <2>2. CASE d2 = d
    <3>1. ASSUME Pending(d2, p2) PROVE FALSE
      <4>1. IsBest(Quoted, d, p) /\ IsBest(Quoted, d, p2)
        BY <1>1, <2>2, <3>1 DEF Pending, CanSweep
      <4>2. p = p2
        BY <4>1, OneProduct, BestIsOne
      <4> QED BY <1>5, <2>2, <4>2
    <3> QED BY <2>1, <3>1 DEF Kept
  <2>3. CASE d2 # d /\ d = "buy"
    <3>1. d2 = "sell"
      BY <2>3 DEF Sides
    <3>2. ~CanSweep("sell", p2)
      BY <2>3 DEF SweepOrder
    <3>3. ~Pending(d2, p2)
      BY <1>1, <3>1, <3>2 DEF Pending
    <3> QED BY <2>1, <3>3 DEF Kept
  <2>4. CASE d2 # d
    <3>1. \A r \in Ticks : queue'[Quoted][d2][r] = queue[Quoted][d2][r]
      BY <1>4, <2>4
    <3>2. IsBest(Quoted, d2, p2)' <=> IsBest(Quoted, d2, p2)
      BY <3>1 DEF IsBest
    <3>3. CanSweep(d2, p2)' <=> CanSweep(d2, p2)
      BY <1>1, <3>2 DEF CanSweep
    <3>4. Pending(d2, p2)' <=> Pending(d2, p2)
      BY <1>1, <3>3 DEF Pending
    <3> QED BY <2>1, <3>4 DEF Kept
  <2> QED BY <2>2, <2>4
<1>6. CASE left = <<>>
  <2>1. PICK e : e = LevelDelta(Quoted, d, p, queue'[Quoted][d][p], sequence + 1)
    OBVIOUS
  <2>2. e \in LevelDeltas /\ Told(e) = LevelOf(d, p)' /\ e.side = d /\ ToTicks(e.px) = p
    <3>1. sequence + 1 \in Nat
      BY <1>1
    <3> QED BY <2>1, <3>1, NewLevelIsTold
  <2>3. batch'.deltas = Append(InProgress, e)
    BY <1>1, <1>3, <1>4, <1>6, <2>1 DEF InProgress
  <2>4. TellsOne(e)
    BY <1>5, <2>2, <2>3 DEF TellsOne
  <2> QED BY <2>4 DEF Tells
<1>7. CASE left # <<>>
  <2>1. batch'.deltas = InProgress
    BY <1>1, <1>3, <1>7 DEF InProgress
  <2>2. Kept(d, p)
    <3>1. \A r \in Ticks : queue'[Quoted][d][r] # <<>> => r = p \/ Better(d, p, r)
      <4> TAKE r \in Ticks
      <4>1. r # p => queue'[Quoted][d][r] = queue[Quoted][d][r]
        BY <1>4
      <4>2. \A r2 \in Ticks : queue[Quoted][d][r2] # <<>> => r2 = p \/ Better(d, p, r2)
        BY <1>1 DEF CanSweep, IsBest
      <4> QED BY <4>1, <4>2
    <3>2. IsBest(Quoted, d, p)'
      BY <1>4, <1>7, <3>1 DEF IsBest
    <3>3. CanSweep(d, p)'
      BY <1>1, <3>2 DEF CanSweep
    <3> QED BY <1>1, <3>3 DEF Pending, Kept
  <2>3. \A d2 \in Sides, p2 \in Ticks : Kept(d2, p2)
    <3> TAKE d2 \in Sides, p2 \in Ticks
    <3>1. CASE <<d2, p2>> = <<d, p>>
      <4>1. d2 = d /\ p2 = p
        BY <3>1
      <4> QED BY <4>1, <2>2
    <3> QED BY <3>1, <1>5
  <2> QED BY <2>1, <2>3 DEF Tells, TellsNothing
<1> QED BY <1>6, <1>7

-----------------------------------------------------------------------------
(***************************************************************************)
(* The view.                                                               *)
(***************************************************************************)
\* The view with everything applied that waits and nothing cut, and then with the
\* deltas of the running operation too.
Unbounded == Uncut(view, buffer)
Current == FoldLeft(ApplyDelta, Unbounded, InProgress)

\* A level nobody lost is what the book holds there, or the engine is working on it.
Follows ==
  \A d \in Sides, p \in Ticks :
    <<d, p>> \in stale \ Named(InProgress) \/ Current[d][p] = LevelOf(d, p) \/ Pending(d, p)

FeedTypes ==
  /\ buffer \in Seq(Packets) /\ view \in LevelMaps /\ Narrow(view)
  /\ stale \subseteq Sides \X Ticks
  /\ InProgress \in Packets

\* The inductive invariant.
FeedInv == IInv /\ SoundInv /\ FeedTypes /\ Follows

\* What waits and what is running can be applied to the view.
LEMMA TypesOfFeed ==
  ASSUME FeedTypes
  PROVE  Unbounded \in LevelMaps /\ Current \in LevelMaps /\ InProgress \in Seq(LevelDeltas)
<1>1. Unbounded \in LevelMaps
  <2>1. <<>> \in Packets
    BY DEF Packets
  <2> QED BY <2>1, UncutGoesOn DEF FeedTypes, Unbounded
<1> QED BY <1>1, PacketFolded DEF FeedTypes, Current, Packets

\* Nothing is named by no delta, and one delta more names one level more.
LEMMA NamedByOneMore ==
  ASSUME NEW D \in Seq(LevelDeltas), NEW e \in LevelDeltas
  PROVE  Named(<<>>) = {} /\ Named(Append(D, e)) = Named(D) \cup {<<e.side, ToTicks(e.px)>>}
<1>1. Named(<<>>) = {}
  <2>1. DOMAIN <<>> = {}
    OBVIOUS
  <2> QED BY <2>1 DEF Named
<1>2. PICK L, n : L = Append(D, e) /\ n = Len(D)
  OBVIOUS
<1>3. \A i \in DOMAIN L : (i \in DOMAIN D /\ L[i] = D[i]) \/ L[i] = e
  BY <1>2
<1>4. (n + 1) \in DOMAIN L /\ L[n + 1] = e /\ \A i \in DOMAIN D : i \in DOMAIN L /\ L[i] = D[i]
  BY <1>2
<1>5. Named(L) = Named(D) \cup {<<e.side, ToTicks(e.px)>>}
  BY <1>3, <1>4, Zenon DEF Named
<1> QED BY <1>1, <1>2, <1>5

\* The deltas of the running operation, once the step is taken.
ToldSoFar == batch'.deltas

\* An operation that returns hands its packet over whole.
LEMMA HandsOver ==
  ASSUME FeedTypes, Operate, ToldSoFar \in Packets
  PROVE  /\ buffer' \in Seq(Packets) /\ view' = view
         /\ Current' = FoldLeft(ApplyDelta, Unbounded, ToldSoFar)
         /\ stale' \ Named(InProgress)' = stale \ Named(ToldSoFar)
<1>1. buffer \in Seq(Packets) /\ view \in LevelMaps
  BY DEF FeedTypes
<1>2. /\ buffer' = IF ctl' = "idle" /\ ToldSoFar # <<>> THEN Append(buffer, ToldSoFar) ELSE buffer
      /\ stale' = IF ctl' = "idle" THEN stale \ Named(ToldSoFar) ELSE stale
      /\ view' = view
  BY DEF Operate, ToldSoFar
<1>3. buffer' \in Seq(Packets)
  BY <1>1, <1>2
<1>4. Unbounded \in LevelMaps
  BY TypesOfFeed
<1>5. Unbounded' = Uncut(view, buffer')
  BY <1>2 DEF Unbounded
<1>6. FoldLeft(ApplyDelta, Unbounded, <<>>) = Unbounded
  BY <1>4, NoDeltas
<1>7. CASE ctl' = "idle"
  <2>1. InProgress' = <<>>
    BY <1>7 DEF InProgress
  <2>2. Named(InProgress)' = {}
    <3>1. DOMAIN <<>> = {}
      OBVIOUS
    <3> QED BY <2>1, <3>1 DEF Named
  <2>3. Current' = FoldLeft(ApplyDelta, Unbounded', <<>>)
    BY <2>1 DEF Current
  <2>4. Unbounded' = FoldLeft(ApplyDelta, Unbounded, ToldSoFar)
    <3>1. CASE ToldSoFar = <<>>
      <4>1. Unbounded' = Unbounded
        BY <1>2, <1>5, <3>1 DEF Unbounded
      <4> QED BY <1>6, <3>1, <4>1
    <3>2. CASE ToldSoFar # <<>>
      <4>1. buffer' = Append(buffer, ToldSoFar)
        BY <1>2, <1>7, <3>2
      <4>2. Uncut(view, Append(buffer, ToldSoFar)) = FoldLeft(ApplyDelta, Uncut(view, buffer), ToldSoFar)
        BY <1>1, UncutGoesOn
      <4> QED BY <1>5, <4>1, <4>2 DEF Unbounded
    <3> QED BY <3>1, <3>2
  <2>5. FoldLeft(ApplyDelta, Unbounded', <<>>) = Unbounded'
    <3>1. PICK u : u = Unbounded'
      OBVIOUS
    <3>2. u \in LevelMaps
      BY <1>4, <2>4, <3>1, PacketFolded
    <3>3. FoldLeft(ApplyDelta, u, <<>>) = u
      BY <3>2, NoDeltas
    <3> QED BY <3>1, <3>3
  <2> QED BY <1>2, <1>3, <1>7, <2>2, <2>3, <2>4, <2>5
<1>8. CASE ctl' # "idle"
  <2>1. InProgress' = ToldSoFar
    BY <1>8 DEF InProgress, ToldSoFar
  <2>2. Unbounded' = Unbounded
    BY <1>2, <1>5, <1>8 DEF Unbounded
  <2>3. Current' = FoldLeft(ApplyDelta, Unbounded, ToldSoFar)
    BY <2>1, <2>2 DEF Current
  <2>4. Named(InProgress)' = Named(ToldSoFar)
    BY <2>1 DEF Named
  <2> QED BY <1>2, <1>3, <1>8, <2>3, <2>4
<1> QED BY <1>7, <1>8

\* A step that tells nothing.
LEMMA SilentStepFollows ==
  ASSUME FeedTypes, Follows, Operate, TellsNothing
  PROVE  FeedTypes' /\ Follows'
<1>1. ToldSoFar = InProgress /\ ToldSoFar \in Packets
  BY DEF ToldSoFar, TellsNothing, FeedTypes
<1>2. /\ buffer' \in Seq(Packets) /\ view' = view /\ Current' = Current
      /\ stale' \ Named(InProgress)' = stale \ Named(InProgress)
  BY <1>1, HandsOver DEF Current
<1>3. FeedTypes'
  <2>1. stale' \subseteq Sides \X Ticks
    BY DEF FeedTypes, Operate
  <2>2. InProgress' \in Packets
    <3>1. <<>> \in Packets
      BY DEF Packets
    <3> QED BY <1>1, <3>1 DEF InProgress, ToldSoFar
  <2>3. Narrow(view)' /\ view' \in LevelMaps
    BY <1>2 DEF FeedTypes, Narrow
  <2> QED BY <1>2, <2>1, <2>2, <2>3 DEF FeedTypes
<1>4. ASSUME NEW d \in Sides, NEW p \in Ticks
      PROVE  \/ <<d, p>> \in stale' \ Named(InProgress)'
             \/ Current'[d][p] = LevelOf(d, p)'
             \/ Pending(d, p)'
  <2>1. Kept(d, p)
    BY DEF TellsNothing
  <2>2. \/ <<d, p>> \in stale \ Named(InProgress)
        \/ Current[d][p] = LevelOf(d, p)
        \/ Pending(d, p)
    BY DEF Follows
  <2> QED BY <1>2, <2>1, <2>2 DEF Kept
<1> QED BY <1>3, <1>4 DEF Follows

\* A step that tells of one level.
LEMMA TellingStepFollows ==
  ASSUME FeedTypes, Follows, Operate, NEW e, TellsOne(e)
  PROVE  FeedTypes' /\ Follows'
<1>1. /\ ToldSoFar = Append(InProgress, e) /\ e \in LevelDeltas
      /\ InProgress \in Seq(LevelDeltas) /\ Unbounded \in LevelMaps
  BY TypesOfFeed DEF ToldSoFar, TellsOne
<1>2. ToldSoFar \in Packets
  BY <1>1 DEF Packets
<1>3. /\ buffer' \in Seq(Packets) /\ view' = view
      /\ Current' = FoldLeft(ApplyDelta, Unbounded, ToldSoFar)
      /\ stale' \ Named(InProgress)' = stale \ Named(ToldSoFar)
  BY <1>2, HandsOver
<1>4. Current' = ApplyDelta(Current, e) /\ Current \in LevelMaps
  <2>1. FoldLeft(ApplyDelta, Unbounded, Append(InProgress, e))
          = ApplyDelta(FoldLeft(ApplyDelta, Unbounded, InProgress), e)
    BY <1>1, DeltasGoOn
  <2> QED BY <1>1, <1>3, <2>1, TypesOfFeed DEF Current
<1>5. Named(ToldSoFar) = Named(InProgress) \cup {<<e.side, ToTicks(e.px)>>}
  BY <1>1, NamedByOneMore
<1>6. FeedTypes'
  <2>1. stale' \subseteq Sides \X Ticks
    BY DEF FeedTypes, Operate
  <2>2. InProgress' \in Packets
    <3>1. <<>> \in Packets
      BY DEF Packets
    <3> QED BY <1>2, <3>1 DEF InProgress, ToldSoFar
  <2>3. Narrow(view)' /\ view' \in LevelMaps
    BY <1>3 DEF FeedTypes, Narrow
  <2> QED BY <1>3, <2>1, <2>2, <2>3 DEF FeedTypes
<1>7. ASSUME NEW d \in Sides, NEW p \in Ticks
      PROVE  \/ <<d, p>> \in stale' \ Named(InProgress)'
             \/ Current'[d][p] = LevelOf(d, p)'
             \/ Pending(d, p)'
  <2>1. PICK c, m : c = Current' /\ m = ToTicks(e.px)
    OBVIOUS
  <2>2. c[d][p] = IF d = e.side /\ p = m THEN Told(e) ELSE Current[d][p]
    BY <1>1, <1>4, <2>1, DeltaApplied
  <2>3. CASE d = e.side /\ p = m
    <3>1. Told(e) = LevelOf(d, p)'
      BY <2>1, <2>3 DEF TellsOne
    <3> QED BY <2>1, <2>2, <2>3, <3>1
  <2>4. CASE ~(d = e.side /\ p = m)
    <3>1. Kept(d, p)
      BY <2>1, <2>4 DEF TellsOne
    <3>2. \/ <<d, p>> \in stale \ Named(InProgress)
          \/ Current[d][p] = LevelOf(d, p)
          \/ Pending(d, p)
      BY DEF Follows
    <3>3. <<d, p>> \in stale \ Named(InProgress) => <<d, p>> \in stale \ Named(ToldSoFar)
      BY <1>5, <2>1, <2>4
    <3> QED BY <1>3, <2>1, <2>2, <2>4, <3>1, <3>2, <3>3 DEF Kept
  <2> QED BY <2>3, <2>4
<1> QED BY <1>6, <1>7 DEF Follows

\* The steps of the engine tell what the view needs.
LEMMA OperateFollows ==
  ASSUME FeedInv, IInv', Operate
  PROVE  FeedTypes' /\ Follows'
<1>1. IInv /\ SoundInv /\ BookInv' /\ sequence' \in Nat
  BY DEF FeedInv, IInv, TypeOK
<1>2. Tells
  <2>1. ASSUME NEW c \in Command, SubmitOrder(c) PROVE Tells
    BY <2>1, SubmitTells
  <2>2. ASSUME NEW id \in Ids, CancelOrder(id) PROVE Tells
    BY <1>1, <2>2, CancelTells
  <2>3. ASSUME NEW id \in Ids, NEW px \in RawPrices \cup {None, NaN},
               NEW qty \in Quantities \cup {None}, ReplaceOrder(id, px, qty)
        PROVE  Tells
    BY <1>1, <2>3, ReplaceTells
  <2>4. ASSUME NEW t \in Tick, ApplyMarketData(t) PROVE Tells
    BY <2>4, ApplyTells
  <2>5. ASSUME NEW p \in Ticks, MatchIncoming(p) PROVE Tells
    BY <1>1, <2>5, MatchTells
  <2>6. CASE FinishIncoming
    BY <1>1, <2>6, FinishTells
  <2>7. ASSUME NEW d \in Sides, NEW p \in Ticks, SweepOrder(d, p) PROVE Tells
    BY <1>1, <2>7, SweepTells
  <2>8. CASE FinishSweep
    BY <1>1, <2>8, FinishSweepTells
  <2> QED BY <2>1, <2>2, <2>3, <2>4, <2>5, <2>6, <2>7, <2>8 DEF Operate, Step
<1> QED BY <1>2, SilentStepFollows, TellingStepFollows DEF Tells, FeedInv

\* The timer: what is cut is known to be stale, and the rest is as it was told.
LEMMA RenderFollows ==
  ASSUME FeedTypes, Follows, Render
  PROVE  FeedTypes' /\ Follows'
<1>1. /\ buffer \in Seq(Packets) /\ view \in LevelMaps /\ Narrow(view) /\ InProgress \in Packets
      /\ InProgress \in Seq(LevelDeltas) /\ Unbounded \in LevelMaps /\ Current \in LevelMaps
  BY TypesOfFeed DEF FeedTypes
<1>2. PICK w : w = FoldLeft(ApplyPacket, view, buffer)
  OBVIOUS
<1>3. w \in LevelMaps /\ CutBy(w, Unbounded) /\ Narrow(w)
  BY <1>1, <1>2, CutOrUncut DEF Unbounded
<1>4. /\ view' = w /\ buffer' = <<>> /\ UNCHANGED vars
      /\ stale' = stale \cup {l \in Sides \X Ticks : Unbounded[l[1]][l[2]] # NoLevel /\ w[l[1]][l[2]] = NoLevel}
  BY <1>2 DEF Render, ViewAfter, Unbounded, Uncut
<1>5. InProgress' = InProgress /\ \A d \in Sides, p \in Ticks : LevelOf(d, p)' = LevelOf(d, p) /\ (Pending(d, p)' <=> Pending(d, p))
  BY <1>4 DEF InProgress, LevelOf, Pending, CanMatch, CanSweep, IsBest, vars
<1>6. Unbounded' = w
  <2>1. <<>> \in Packets
    BY DEF Packets
  <2>2. Uncut(w, <<>>) = w
    BY <1>1, <1>3, <2>1, UncutGoesOn
  <2> QED BY <1>4, <2>2 DEF Unbounded
<1>7. Current' = FoldLeft(ApplyDelta, w, InProgress)
  BY <1>5, <1>6 DEF Current
<1>8. FeedTypes'
  <2>1. stale' \subseteq Sides \X Ticks
    BY <1>4 DEF FeedTypes
  <2>2. Narrow(view)' /\ view' \in LevelMaps
    BY <1>3, <1>4 DEF Narrow
  <2>3. buffer' \in Seq(Packets)
    BY <1>4
  <2> QED BY <1>1, <1>5, <2>1, <2>2, <2>3 DEF FeedTypes
<1>9. ASSUME NEW d \in Sides, NEW p \in Ticks
      PROVE  \/ <<d, p>> \in stale' \ Named(InProgress)'
             \/ Current'[d][p] = LevelOf(d, p)'
             \/ Pending(d, p)'
  <2>1. Named(InProgress)' = Named(InProgress)
    BY <1>5 DEF Named
  <2>2. \/ <<d, p>> \in stale \ Named(InProgress)
        \/ Current[d][p] = LevelOf(d, p)
        \/ Pending(d, p)
    BY DEF Follows
  <2>3. CASE <<d, p>> \in Named(InProgress)
    <3>1. FoldLeft(ApplyDelta, Unbounded, InProgress)[d][p] = FoldLeft(ApplyDelta, w, InProgress)[d][p]
      BY <1>1, <1>3, <2>3, DeltasReplace
    <3> QED BY <1>5, <1>7, <2>2, <2>3, <3>1 DEF Current
  <2>4. CASE <<d, p>> \notin Named(InProgress)
    <3>1. /\ FoldLeft(ApplyDelta, Unbounded, InProgress)[d][p] = Unbounded[d][p]
          /\ FoldLeft(ApplyDelta, w, InProgress)[d][p] = w[d][p]
      BY <1>1, <1>3, <2>4, DeltasReplace
    <3>2. w[d][p] \in {Unbounded[d][p], NoLevel}
      BY <1>3 DEF CutBy
    <3>3. <<d, p>> \notin stale' => <<d, p>> \notin stale /\ w[d][p] = Unbounded[d][p]
      <4>1. <<d, p>> \in Sides \X Ticks /\ <<d, p>>[1] = d /\ <<d, p>>[2] = p
        OBVIOUS
      <4> QED BY <1>4, <3>2, <4>1
    <3> QED BY <1>5, <1>7, <2>1, <2>2, <2>4, <3>1, <3>3 DEF Current
  <2> QED BY <2>3, <2>4
<1> QED BY <1>8, <1>9 DEF Follows

\* A reset: the levels it empties are known to be stale.
LEMMA ResetFollows ==
  ASSUME IInv, FeedTypes, Follows, ResetBook
  PROVE  FeedTypes' /\ Follows'
<1>1. /\ ctl = "idle" /\ ctl' = "idle" /\ queue' = EmptyBook /\ view' = view /\ buffer' = buffer
      /\ stale' = stale \cup Queued
  BY DEF ResetBook, Reset, Ready
<1>2. InProgress = <<>> /\ InProgress' = <<>>
  BY <1>1 DEF InProgress
<1>3. Named(InProgress) = {} /\ Named(InProgress)' = {}
  <2>1. DOMAIN <<>> = {}
    OBVIOUS
  <2> QED BY <1>2, <2>1 DEF Named
<1>4. Current' = Current
  BY <1>1, <1>2 DEF Current, Unbounded
<1>5. FeedTypes'
  <2>1. stale' \subseteq Sides \X Ticks
    BY <1>1 DEF FeedTypes, Queued
  <2>2. Narrow(view)' /\ view' \in LevelMaps /\ buffer' \in Seq(Packets)
    BY <1>1 DEF FeedTypes, Narrow
  <2>3. InProgress' \in Packets
    BY <1>2 DEF FeedTypes
  <2> QED BY <2>1, <2>2, <2>3 DEF FeedTypes
<1>6. ASSUME NEW d \in Sides, NEW p \in Ticks, <<d, p>> \notin stale'
      PROVE  Current'[d][p] = LevelOf(d, p)'
  <2>1. <<d, p>> \notin stale /\ queue[Quoted][d][p] = <<>>
    <3>1. <<d, p>> \in Sides \X Ticks /\ <<d, p>>[1] = d /\ <<d, p>>[2] = p
      OBVIOUS
    <3> QED BY <1>1, <1>6, <3>1 DEF Queued
  <2>2. queue'[Quoted][d][p] = <<>>
    BY <1>1, OneProduct DEF EmptyBook
  <2>3. LevelOf(d, p)' = LevelOf(d, p)
    BY <2>1, <2>2 DEF LevelOf
  <2>4. ~Pending(d, p)
    BY <1>1 DEF Pending
  <2>5. Current[d][p] = LevelOf(d, p)
    BY <2>1, <2>4 DEF Follows
  <2> QED BY <1>4, <2>3, <2>5
<1>7. ASSUME NEW d \in Sides, NEW p \in Ticks
      PROVE  \/ <<d, p>> \in stale' \ Named(InProgress)'
             \/ Current'[d][p] = LevelOf(d, p)'
             \/ Pending(d, p)'
  BY <1>3, <1>6
<1> QED BY <1>5, <1>7 DEF Follows

\* Nothing happens.
LEMMA StutterFollows ==
  ASSUME FeedTypes, Follows, UNCHANGED eventBookVars
  PROVE  FeedTypes' /\ Follows'
<1>1. UNCHANGED <<vars, buffer, view, stale>>
  BY DEF eventBookVars
<1>2. /\ InProgress' = InProgress /\ Named(InProgress)' = Named(InProgress) /\ Current' = Current
      /\ view' = view /\ buffer' = buffer /\ stale' = stale
      /\ \A d \in Sides, p \in Ticks : LevelOf(d, p)' = LevelOf(d, p) /\ (Pending(d, p)' <=> Pending(d, p))
  BY <1>1 DEF InProgress, Named, Current, Unbounded, LevelOf, Pending, CanMatch, CanSweep, IsBest, vars
<1>3. FeedTypes'
  BY <1>2 DEF FeedTypes, Narrow
<1>4. ASSUME NEW d \in Sides, NEW p \in Ticks
      PROVE  \/ <<d, p>> \in stale' \ Named(InProgress)'
             \/ Current'[d][p] = LevelOf(d, p)'
             \/ Pending(d, p)'
  BY <1>2 DEF Follows
<1> QED BY <1>3, <1>4 DEF Follows

\* Every step of the feed is one of the engine or leaves the engine alone.
LEMMA FeedStep ==
  ASSUME FeedInv, [EventBookNext]_eventBookVars
  PROVE  FeedInv'
<1>1. [Next]_vars
  BY DEF EventBookNext, Operate, Render, ResetBook, eventBookVars, Next
<1>2. IInv'
  BY <1>1, NextKeepsIInv DEF FeedInv
<1>3. SoundInv'
  BY <1>1, <1>2, NextKeepsSoundInv DEF FeedInv
<1>4. FeedTypes' /\ Follows'
  BY <1>2, OperateFollows, RenderFollows, ResetFollows, StutterFollows DEF FeedInv, EventBookNext
<1> QED BY <1>2, <1>3, <1>4 DEF FeedInv

\* An empty view of an empty book.
LEMMA FeedBegins ==
  ASSUME EventBookInit
  PROVE  FeedInv
<1>1. IInv /\ SoundInv
  BY InitEstablishesIInv, EmptyIsSound DEF EventBookInit, Init, SoundInv
<1>2. ctl = "idle" /\ queue = EmptyBook /\ buffer = <<>> /\ view = EmptyView /\ stale = {}
  BY DEF EventBookInit, Init
<1>3. view \in LevelMaps /\ <<>> \in Packets
  BY <1>2 DEF LevelMaps, EmptyView, NoLevel, Level, Packets
<1>4. \A d \in Sides, p \in Ticks : view[d][p] = NoLevel
  BY <1>2 DEF EmptyView
<1>5. Narrow(view)
  <2>1. ASSUME NEW d \in Sides
        PROVE  Cardinality({p \in Ticks : view[d][p] # NoLevel}) <= MaxLevels
    <3>1. {p \in Ticks : view[d][p] # NoLevel} = {}
      BY <1>4
    <3>2. Cardinality({}) = 0
      BY FS_EmptySet
    <3> QED BY <3>1, <3>2, EventBookAssumption
  <2> QED BY <2>1 DEF Narrow
<1>6. FeedTypes
  BY <1>2, <1>3, <1>5 DEF FeedTypes, InProgress
<1>7. Current = view
  <2>1. InProgress = <<>> /\ Unbounded = Uncut(view, <<>>)
    BY <1>2 DEF InProgress, Unbounded
  <2>2. Uncut(view, <<>>) = view
    BY <1>2, <1>3, <1>6, UncutGoesOn DEF FeedTypes
  <2>3. FoldLeft(ApplyDelta, view, <<>>) = view
    BY <1>3, NoDeltas
  <2> QED BY <2>1, <2>2, <2>3 DEF Current
<1>8. \A d \in Sides, p \in Ticks : LevelOf(d, p) = NoLevel
  <2> TAKE d \in Sides, p \in Ticks
  <2>1. queue[Quoted][d][p] = <<>>
    BY <1>2, OneProduct DEF EmptyBook
  <2>2. AggregateQuantity(<<>>) = 0
    <3>1. <<>> \in Seq(Order)
      OBVIOUS
    <3> QED BY <3>1, AggregateOfLive
  <2> QED BY <2>1, <2>2 DEF LevelOf, NoLevel
<1>9. Follows
  BY <1>4, <1>7, <1>8 DEF Follows
<1> QED BY <1>1, <1>6, <1>9 DEF FeedInv

\* The invariant says what is to be shown.
LEMMA FeedInvSuffices ==
  ASSUME FeedInv
  PROVE  EventBookTypeOK /\ ViewMatchesBook
<1>1. EventBookTypeOK
  <2>1. \A d \in Sides, p \in Ticks : view[d][p] \in [qty : Int, orders : Nat]
    BY DEF FeedInv, FeedTypes, LevelMaps, Level
  <2> QED BY DEF FeedInv, FeedTypes, LevelMaps, Narrow, EventBookTypeOK
<1>2. ASSUME CaughtUp, NEW d \in Sides, NEW p \in Ticks, <<d, p>> \notin stale
      PROVE  view[d][p] = LevelOf(d, p)
  <2>1. ctl = "idle" /\ buffer = <<>> /\ view \in LevelMaps /\ <<>> \in Packets
    BY <1>2 DEF CaughtUp, FeedInv, FeedTypes, Packets
  <2>2. Current = view
    <3>1. InProgress = <<>> /\ Unbounded = Uncut(view, <<>>)
      BY <2>1 DEF InProgress, Unbounded
    <3>2. Uncut(view, <<>>) = view
      BY <2>1, UncutGoesOn DEF FeedInv, FeedTypes
    <3>3. FoldLeft(ApplyDelta, view, <<>>) = view
      BY <2>1, NoDeltas
    <3> QED BY <3>1, <3>2, <3>3 DEF Current
  <2>3. ~Pending(d, p)
    BY <2>1 DEF Pending
  <2> QED BY <1>2, <2>2, <2>3 DEF FeedInv, Follows
<1> QED BY <1>1, <1>2 DEF ViewMatchesBook

\* useGatewayEventBook: whatever an operation was made of, however many packets waited
\* for the timer and wherever it cut them, a level the view was told of last shows what
\* the book of the exchange holds there, and neither side is deeper than maxLevels.
THEOREM ViewFollows == EventBookSpec => [](EventBookTypeOK /\ ViewMatchesBook)
<1>1. EventBookInit => FeedInv
  BY FeedBegins
<1>2. FeedInv /\ [EventBookNext]_eventBookVars => FeedInv'
  BY FeedStep
<1>3. FeedInv => EventBookTypeOK /\ ViewMatchesBook
  BY FeedInvSuffices
<1> QED BY <1>1, <1>2, <1>3, PTL DEF EventBookSpec

\* The same, of the part of a behaviour of the services that is the feed.
Fed == focus = "feed" => FeedInv

\* The view of a fed terminal is the book of the exchange but for the levels it has cut,
\* and never more of them than it keeps.
THEOREM FedViewHolds == ServicesSpec => []FedViewMatchesBook
<1>1. ServicesInit => Fed
  <2>1. ServicesInit => EventBookInit
    BY DEF ServicesInit, LedgerInit, EventBookInit
  <2> QED BY <2>1, FeedBegins DEF Fed
<1>2. Fed /\ [ServicesNext]_serviceVars => Fed'
  <2> SUFFICES ASSUME Fed, [ServicesNext]_serviceVars, focus' = "feed" PROVE FeedInv'
    BY DEF Fed
  <2>1. focus = "feed" /\ FeedInv
    BY DEF Fed, ServicesNext, serviceVars
  <2>2. [EventBookNext]_eventBookVars
    BY <2>1 DEF ServicesNext, serviceVars, eventBookVars, feedBooks
  <2> QED BY <2>1, <2>2, FeedStep
<1>3. Fed => FedViewMatchesBook
  BY FeedInvSuffices DEF Fed, FedViewMatchesBook
<1> QED BY <1>1, <1>2, <1>3, PTL DEF ServicesSpec

-----------------------------------------------------------------------------
(***************************************************************************)
(* Fractions. Fraction(n, d) is n over d in lowest terms: of all fractions *)
(* of that value it has the least denominator, and the others are its      *)
(* multiples, so that equal values have equal fractions.                   *)
(***************************************************************************)
Positive == Nat \ {0}

\* Division of an integer.
LEMMA Divides ==
  ASSUME NEW n \in Int, NEW k \in Positive
  PROVE  \E q \in Int, r \in Nat : q = n \div k /\ r = n % k /\ r < k /\ n = k * q + r
<1>1. k \in Nat /\ k > 0
  BY DEF Positive
<1>2. n \div k \in Int /\ n % k \in Int /\ n % k >= 0 /\ n % k < k
  BY <1>1
<1>3. n % k = n - k * (n \div k)
  BY <1>1
<1>4. PICK q \in Int, r \in Int : q = n \div k /\ r = n % k
  BY <1>2
<1>5. n = k * q + r
  <2>1. PICK m \in Int : m = k * q
    BY <1>1
  <2>2. r = n - m
    BY <1>3, <1>4, <2>1
  <2> QED BY <2>1, <2>2
<1> QED BY <1>2, <1>4, <1>5

\* A common factor is cancelled.
LEMMA Cancels ==
  ASSUME NEW x \in Int, NEW y \in Int, NEW k \in Positive, x * k = y * k
  PROVE  x = y
<1>1. (x - y) * k = 0
  BY DEF Positive
<1> QED BY <1>1 DEF Positive

\* k times q has the remainder 0 and the quotient q.
LEMMA Multiple ==
  ASSUME NEW q \in Int, NEW k \in Positive
  PROVE  (q * k) % k = 0 /\ (q * k) \div k = q
<1>1. PICK u \in Int : u = q * k
  BY DEF Positive
<1>2. PICK a \in Int, r \in Nat : a = u \div k /\ r = u % k /\ r < k /\ u = k * a + r
  BY Divides
<1>3. (q - a) * k = r
  BY <1>1, <1>2 DEF Positive
<1>4. k \in Int /\ k > 0 /\ q - a \in Int
  BY DEF Positive
<1>5. ASSUME q - a > 0 PROVE FALSE
  <2>1. (q - a) * k >= k
    BY <1>4, <1>5
  <2> QED BY <1>2, <1>3, <1>4, <2>1
<1>6. ASSUME q - a < 0 PROVE FALSE
  <2>1. (q - a) * k <= -k
    BY <1>4, <1>6
  <2> QED BY <1>2, <1>3, <1>4, <2>1
<1>7. q = a
  BY <1>4, <1>5, <1>6
<1>8. r = 0
  BY <1>3, <1>4, <1>7
<1> QED BY <1>1, <1>2, <1>7, <1>8

\* x over y is of the value of n over d.
Equals(x, y, n, d) == x * d = n * y

\* The least denominator of a value divides the others.
LEMMA LeastDenominator ==
  ASSUME NEW n \in Int, NEW d \in Positive
  PROVE  \E x \in Int, y \in Positive :
           /\ Equals(x, y, n, d)
           /\ \A u \in Int, v \in Positive : Equals(u, v, n, d) => \E c \in Positive : u = c * x /\ v = c * y
<1> DEFINE S == {v \in Positive : \E u \in Int : Equals(u, v, n, d)}
<1>1. d \in S /\ S \subseteq Nat
  <2>1. n * d = n * d /\ d \in Positive
    OBVIOUS
  <2> QED BY <2>1 DEF Equals, Positive
<1>2. PICK y \in S : \A v \in S : y <= v
  <2> HIDE DEF S
  <2> QED BY <1>1, LeastNatural
<1>3. PICK x \in Int : Equals(x, y, n, d)
  OBVIOUS
<1>4. y \in Positive /\ y \in Int /\ y > 0 /\ d \in Int /\ d > 0
  BY DEF Positive
<1>5. ASSUME NEW u \in Int, NEW v \in Positive, Equals(u, v, n, d)
      PROVE  \E c \in Positive : u = c * x /\ v = c * y
  <2>1. PICK c \in Int, r \in Nat : r < y /\ v = y * c + r
    <3>1. v \in Int
      BY DEF Positive
    <3>2. PICK c \in Int, r \in Nat : c = v \div y /\ r = v % y /\ r < y /\ v = y * c + r
      BY <1>4, <3>1, Divides
    <3> QED BY <3>2
  <2>2. Equals(u - c * x, r, n, d)
    <3>1. (u - c * x) * d = u * d - c * (x * d)
      BY <1>4
    <3>2. u * d - c * (x * d) = n * v - c * (n * y)
      BY <1>3, <1>5 DEF Equals
    <3>3. n * v - c * (n * y) = n * r
      BY <1>4, <2>1
    <3> QED BY <3>1, <3>2, <3>3 DEF Equals
  <2>3. r = 0
    <3>1. ASSUME r # 0 PROVE FALSE
      <4>1. r \in Positive /\ u - c * x \in Int
        BY <3>1, <1>4 DEF Positive
      <4>2. r \in S
        BY <2>2, <4>1
      <4> QED BY <1>2, <1>4, <2>1, <4>2
    <3> QED BY <3>1
  <2>4. u = c * x
    <3>1. (u - c * x) * d = 0 * d
      BY <1>4, <2>2, <2>3 DEF Equals
    <3>2. PICK z \in Int : z = u - c * x
      BY <1>4
    <3>3. z = 0
      BY <3>1, <3>2, Cancels
    <3> QED BY <3>2, <3>3, <1>4
  <2>5. v = c * y
    BY <1>4, <2>1, <2>3
  <2>6. c > 0
    BY <1>4, <2>5 DEF Positive
  <2> QED BY <2>4, <2>5, <2>6 DEF Positive
<1> HIDE DEF S
<1> QED BY <1>3, <1>4, <1>5

\* g is what Fraction divides by.
Divisor(n, d, g) ==
  /\ d % g = 0 /\ n % g = 0
  /\ \A j \in (g + 1) .. d : d % j = 0 => n % j # 0

\* Fraction has the least denominator.
LEMMA LowestTerms ==
  ASSUME NEW n \in Int, NEW d \in Positive
  PROVE  \E x \in Int, y \in Positive :
           /\ Fraction(n, d) = <<x, y>> /\ Equals(x, y, n, d)
           /\ \A u \in Int, v \in Positive : Equals(u, v, n, d) => \E c \in Positive : u = c * x /\ v = c * y
<1>1. PICK x \in Int, y \in Positive :
             /\ Equals(x, y, n, d)
             /\ \A u \in Int, v \in Positive : Equals(u, v, n, d) => \E c \in Positive : u = c * x /\ v = c * y
  BY LeastDenominator
<1>2. PICK g \in Positive : n = g * x /\ d = g * y
  <2>1. Equals(n, d, n, d)
    BY DEF Equals
  <2> QED BY <1>1, <2>1
<1>3. x \in Int /\ y \in Int /\ y > 0 /\ g \in Int /\ g > 0 /\ d \in Int /\ d > 0
  BY DEF Positive
<1>4. n % g = 0 /\ n \div g = x /\ d % g = 0 /\ d \div g = y
  <2>1. n = x * g /\ d = y * g
    BY <1>2, <1>3
  <2>2. (x * g) % g = 0 /\ (x * g) \div g = x /\ (y * g) % g = 0 /\ (y * g) \div g = y
    BY <1>3, Multiple
  <2> QED BY <2>1, <2>2
<1>5. g \in 1 .. d
  <2>1. g * y >= g
    BY <1>3
  <2> QED BY <1>2, <1>3, <2>1
<1>6. ASSUME NEW j \in 1 .. d, d % j = 0, n % j = 0
      PROVE  j <= g
  <2>1. j \in Int /\ j > 0 /\ j \in Positive
    BY <1>3 DEF Positive
  <2>2. PICK a \in Int, b \in Int : n = j * a /\ d = j * b
    <3>1. PICK a \in Int, r \in Nat : r = n % j /\ n = j * a + r
      BY <2>1, Divides
    <3>2. PICK b \in Int, t \in Nat : t = d % j /\ d = j * b + t
      <4>1. d \in Int /\ j \in Positive
        BY <1>3, <2>1
      <4> QED BY ONLY <4>1, Divides
    <3>3. r = 0 /\ t = 0
      BY <1>6, <3>1, <3>2
    <3>4. PICK x1 \in Int, x2 \in Int : x1 = j * a /\ x2 = j * b
      BY <2>1
    <3>5. n = x1 + r /\ d = x2 + t
      BY <3>1, <3>2, <3>4
    <3>6. n = x1 /\ d = x2
      BY <3>3, <3>5
    <3> QED BY ONLY <3>4, <3>6
  <2>3. b \in Positive
    <3>1. b > 0
      BY <1>3, <2>1, <2>2
    <3> QED BY <3>1 DEF Positive
  <2>4. Equals(a, b, n, d)
    <3>1. a * (j * b) = (j * a) * b
      BY <2>1, <2>2
    <3> QED BY <2>2, <3>1 DEF Equals
  <2>5. PICK c \in Positive : b = c * y
    BY <1>1, <2>3, <2>4
  <2>6. c \in Int /\ c > 0
    BY DEF Positive
  <2>7. (j * c) * y = g * y
    <3>1. j * (c * y) = (j * c) * y
      BY <1>3, <2>1, <2>6
    <3> QED BY <1>2, <2>2, <2>5, <3>1
  <2>8. j * c = g
    <3>1. PICK z \in Int : z = j * c
      BY <2>1, <2>6
    <3> QED BY <1>3, <2>7, <3>1, Cancels
  <2>9. j * c >= j
    BY <2>1, <2>6
  <2> QED BY <2>1, <2>8, <2>9
<1>7. \A k \in 1 .. d : Divisor(n, d, k) <=> k = g
  <2> SUFFICES ASSUME NEW k \in 1 .. d PROVE Divisor(n, d, k) <=> k = g
    OBVIOUS
  <2>0. k \in Int /\ k >= 1 /\ k <= d
    BY <1>3
  <2>1. CASE k = g
    <3>1. ASSUME NEW j \in (g + 1) .. d, d % j = 0, n % j = 0 PROVE FALSE
      <4>1. j \in 1 .. d /\ j > g
        BY <1>3
      <4>2. j <= g
        BY <3>1, <4>1, <1>6
      <4> QED BY <1>3, <4>1, <4>2
    <3> QED BY <1>4, <2>1, <3>1 DEF Divisor
  <2>2. ASSUME Divisor(n, d, k), k # g PROVE FALSE
    <3>1. k <= g
      BY <2>2, <1>6 DEF Divisor
    <3>2. g \in (k + 1) .. d
      BY <1>3, <1>5, <2>0, <2>2, <3>1
    <3> QED BY <1>4, <2>2, <3>2 DEF Divisor
  <2> QED BY <2>1, <2>2
<1>8. (CHOOSE k \in 1 .. d : Divisor(n, d, k)) = g
  BY <1>5, <1>7
<1>9. Fraction(n, d) = <<x, y>>
  BY <1>4, <1>8 DEF Fraction, Divisor
<1> QED BY <1>1, <1>9

Fractions == {Fraction(x[1], x[2]) : x \in Int \X Positive}

\* A fraction is a numerator over a positive denominator.
LEMMA FractionParts ==
  ASSUME NEW f \in Fractions
  PROVE  f[1] \in Int /\ f[2] \in Positive /\ f[2] \in Int /\ f[2] > 0 /\ IsFraction(f)
<1>1. PICK x \in Int \X Positive : f = Fraction(x[1], x[2])
  BY DEF Fractions
<1>2. x[1] \in Int /\ x[2] \in Positive
  OBVIOUS
<1>3. PICK a \in Int, b \in Positive : f = <<a, b>>
  BY <1>1, <1>2, LowestTerms
<1> QED BY <1>3 DEF Positive, IsFraction

\* Fractions of one value are one fraction.
LEMMA OneOfAValue ==
  ASSUME NEW n \in Int, NEW d \in Positive, NEW m \in Int, NEW e \in Positive, n * e = m * d
  PROVE  Fraction(n, d) = Fraction(m, e)
<1>1. PICK x \in Int, y \in Positive :
           /\ Fraction(n, d) = <<x, y>> /\ Equals(x, y, n, d)
           /\ \A u \in Int, v \in Positive : Equals(u, v, n, d) => \E c \in Positive : u = c * x /\ v = c * y
  BY LowestTerms
<1>2. PICK z \in Int, w \in Positive :
           /\ Fraction(m, e) = <<z, w>> /\ Equals(z, w, m, e)
           /\ \A u \in Int, v \in Positive : Equals(u, v, m, e) => \E c \in Positive : u = c * z /\ v = c * w
  BY LowestTerms
<1>3. d \in Int /\ e \in Int /\ y \in Int /\ y > 0 /\ w \in Int /\ w > 0
  BY DEF Positive
<1>4. Equals(z, w, n, d)
  <2>1. (z * d) * e = (n * w) * e
    <3>1. (z * d) * e = (z * e) * d /\ (m * w) * d = (m * d) * w /\ (n * e) * w = (n * w) * e
      BY <1>3
    <3>2. (z * e) * d = (m * w) * d
      BY <1>2 DEF Equals
    <3> QED BY <3>1, <3>2
  <2>2. PICK a \in Int, b \in Int : a = z * d /\ b = n * w
    BY <1>3
  <2>3. a = b
    BY <2>1, <2>2, Cancels
  <2> QED BY <2>2, <2>3 DEF Equals
<1>5. Equals(x, y, m, e)
  <2>1. (x * e) * d = (m * y) * d
    <3>1. (x * e) * d = (x * d) * e /\ (n * y) * e = (n * e) * y /\ (m * d) * y = (m * y) * d
      BY <1>3
    <3>2. (x * d) * e = (n * y) * e
      BY <1>1 DEF Equals
    <3> QED BY <3>1, <3>2
  <2>2. PICK a \in Int, b \in Int : a = x * e /\ b = m * y
    BY <1>3
  <2>3. a = b
    BY <2>1, <2>2, Cancels
  <2> QED BY <2>2, <2>3 DEF Equals
<1>6. PICK b \in Positive : z = b * x /\ w = b * y
  BY <1>1, <1>4
<1>7. PICK c \in Positive : x = c * z /\ y = c * w
  BY <1>2, <1>5
<1>8. b \in Int /\ b > 0 /\ c \in Int /\ c > 0
  BY DEF Positive
<1>9. b = 1
  <2>1. w >= y * b /\ y >= w * c
    BY <1>3, <1>6, <1>7, <1>8
  <2>2. w * c >= w
    BY <1>3, <1>8
  <2>3. y >= w
    BY <1>3, <1>8, <2>1, <2>2
  <2>4. b > 1 => b * y > y
    BY <1>3, <1>8
  <2> QED BY <1>3, <1>6, <1>8, <2>3, <2>4
<1>10. z = x /\ w = y
  BY <1>3, <1>6, <1>9
<1> QED BY <1>1, <1>2, <1>10

\* A whole number, with any denominator.
LEMMA WholeIs ==
  ASSUME NEW n \in Int, NEW d \in Positive
  PROVE  Whole(n) = Fraction(n * d, d) /\ Whole(n) \in Fractions
<1>1. Fraction(n, 1) = <<n, 1>>
  <2>0. 1 \in Positive
    BY DEF Positive
  <2>1. PICK x \in Int, y \in Positive :
               /\ Fraction(n, 1) = <<x, y>> /\ Equals(x, y, n, 1)
               /\ \A u \in Int, v \in Positive : Equals(u, v, n, 1) => \E c \in Positive : u = c * x /\ v = c * y
    BY <2>0, LowestTerms
  <2>2. PICK c \in Positive : n = c * x /\ 1 = c * y
    <3>1. Equals(n, 1, n, 1)
      BY DEF Equals
    <3> QED BY <2>0, <2>1, <3>1
  <2>3. c \in Int /\ c > 0 /\ y \in Int /\ y > 0
    BY DEF Positive
  <2>4. y = 1
    <3>1. y > 1 => c * y >= y
      BY <2>3
    <3> QED BY <2>2, <2>3, <3>1
  <2>5. x = n
    BY <2>1, <2>4 DEF Equals
  <2> QED BY <2>1, <2>4, <2>5
<1>2. Fraction(n, 1) = Fraction(n * d, d)
  <2>1. 1 \in Positive /\ d \in Int /\ n * d \in Int
    BY DEF Positive
  <2>2. PICK m \in Int : m = n * d
    BY <2>1
  <2>3. n * d = m * 1
    BY <2>2
  <2> QED BY <2>1, <2>2, <2>3, OneOfAValue
<1>3. Fraction(n, 1) \in Fractions
  <2>1. <<n, 1>> \in Int \X Positive
    BY DEF Positive
  <2> QED BY <2>1 DEF Fractions
<1> QED BY <1>1, <1>2, <1>3 DEF Whole

\* A fraction of the set, and what it is worth.
LEMMA FractionIs ==
  ASSUME NEW n \in Int, NEW d \in Positive
  PROVE  /\ Fraction(n, d) \in Fractions
         /\ Fraction(n, d)[1] \in Int /\ Fraction(n, d)[2] \in Positive
         /\ Fraction(n, d)[1] * d = n * Fraction(n, d)[2]
<1>1. Fraction(n, d) \in Fractions
  <2>1. <<n, d>> \in Int \X Positive
    OBVIOUS
  <2> QED BY <2>1 DEF Fractions
<1>2. PICK x \in Int, y \in Positive : Fraction(n, d) = <<x, y>> /\ Equals(x, y, n, d)
  BY LowestTerms
<1> QED BY <1>1, <1>2 DEF Equals

\* A denominator is made larger.
LEMMA Expanded ==
  ASSUME NEW n \in Int, NEW d \in Positive, NEW k \in Positive
  PROVE  Fraction(n * k, d * k) = Fraction(n, d) /\ d * k \in Positive /\ n * k \in Int
<1>1. d \in Int /\ d > 0 /\ k \in Int /\ k > 0
  BY DEF Positive
<1>2. d * k > 0 /\ d * k \in Int /\ n * k \in Int
  BY <1>1
<1>3. PICK m \in Int, e \in Int : m = n * k /\ e = d * k
  BY <1>2
<1>4. e \in Positive
  BY <1>2, <1>3 DEF Positive
<1>5. n * e = m * d
  BY <1>1, <1>3
<1>6. Fraction(n, d) = Fraction(m, e)
  BY <1>4, <1>5, OneOfAValue
<1> QED BY <1>3, <1>4, <1>6

\* The sum of fractions of one denominator,
LEMMA PlusIs ==
  ASSUME NEW n \in Int, NEW m \in Int, NEW d \in Positive
  PROVE  Plus(Fraction(n, d), Fraction(m, d)) = Fraction(n + m, d)
<1>1. PICK x, y : x = Fraction(n, d) /\ y = Fraction(m, d)
  OBVIOUS
<1>2. PICK a \in Int, b \in Positive : a = x[1] /\ b = x[2] /\ a * d = n * b
  BY <1>1, FractionIs
<1>3. PICK u \in Int, v \in Positive : u = y[1] /\ v = y[2] /\ u * d = m * v
  BY <1>1, FractionIs
<1>4. Plus(x, y) = Fraction(a * v + u * b, b * v)
  BY <1>2, <1>3 DEF Plus
<1>5. b \in Int /\ b > 0 /\ v \in Int /\ v > 0 /\ d \in Int
  BY DEF Positive
<1>6. (a * v + u * b) * d = (n + m) * (b * v)
  <2>1. (a * v + u * b) * d = (a * d) * v + (u * d) * b
    BY <1>5
  <2>2. (a * d) * v + (u * d) * b = (n * b) * v + (m * v) * b
    BY <1>2, <1>3
  <2>3. (n * b) * v + (m * v) * b = (n + m) * (b * v)
    BY <1>5
  <2> QED BY <2>1, <2>2, <2>3
<1>7. PICK p \in Int, e \in Int : p = a * v + u * b /\ e = b * v /\ e > 0
  BY <1>5
<1>8. p * d = (n + m) * e /\ n + m \in Int /\ e \in Positive
  BY <1>6, <1>7 DEF Positive
<1>9. Fraction(p, e) = Fraction(n + m, d)
  BY <1>8, OneOfAValue
<1> QED BY <1>1, <1>4, <1>7, <1>9

\* a multiple,
LEMMA ScaledIs ==
  ASSUME NEW n \in Int, NEW d \in Positive, NEW k \in Int
  PROVE  Scaled(Fraction(n, d), k) = Fraction(n * k, d)
<1>1. PICK x : x = Fraction(n, d)
  OBVIOUS
<1>2. PICK a \in Int, b \in Positive : a = x[1] /\ b = x[2] /\ a * d = n * b
  BY <1>1, FractionIs
<1>3. Scaled(x, k) = Fraction(a * k, b)
  BY <1>2 DEF Scaled
<1>4. b \in Int /\ d \in Int
  BY DEF Positive
<1>5. (a * k) * d = (n * k) * b
  <2>1. (a * k) * d = (a * d) * k /\ (n * b) * k = (n * k) * b
    BY <1>4
  <2> QED BY <1>2, <2>1
<1>6. PICK p \in Int, m \in Int : p = a * k /\ m = n * k
  BY <1>4
<1>7. p * d = m * b
  BY <1>5, <1>6
<1>8. Fraction(p, b) = Fraction(m, d)
  BY <1>7, OneOfAValue
<1> QED BY <1>1, <1>3, <1>6, <1>8

\* a difference,
LEMMA MinusIs ==
  ASSUME NEW n \in Int, NEW m \in Int, NEW d \in Positive
  PROVE  Minus(Fraction(n, d), Fraction(m, d)) = Fraction(n - m, d)
<1>1. Scaled(Fraction(m, d), -1) = Fraction(m * (-1), d)
  BY ScaledIs
<1>2. m * (-1) = -m /\ -m \in Int /\ n + (-m) = n - m
  OBVIOUS
<1>3. Plus(Fraction(n, d), Fraction(-m, d)) = Fraction(n + (-m), d)
  BY <1>2, PlusIs
<1> QED BY <1>1, <1>2, <1>3 DEF Minus

\* and a part.
LEMMA OverIs ==
  ASSUME NEW n \in Int, NEW d \in Positive, NEW k \in Positive
  PROVE  Over(Fraction(n, d), k) = Fraction(n, d * k) /\ d * k \in Positive
<1>1. PICK x : x = Fraction(n, d)
  OBVIOUS
<1>2. PICK a \in Int, b \in Positive : a = x[1] /\ b = x[2] /\ a * d = n * b
  BY <1>1, FractionIs
<1>3. Over(x, k) = Fraction(a, b * k)
  BY <1>2 DEF Over
<1>4. b \in Int /\ b > 0 /\ d \in Int /\ d > 0 /\ k \in Int /\ k > 0
  BY DEF Positive
<1>5. a * (d * k) = n * (b * k)
  <2>1. a * (d * k) = (a * d) * k /\ (n * b) * k = n * (b * k)
    BY <1>4
  <2> QED BY <1>2, <2>1
<1>6. PICK p \in Int, e \in Int : p = b * k /\ e = d * k /\ p > 0 /\ e > 0
  BY <1>4
<1>7. p \in Positive /\ e \in Positive /\ a * e = n * p
  BY <1>5, <1>6 DEF Positive
<1>8. Fraction(a, p) = Fraction(n, e)
  BY <1>7, OneOfAValue
<1> QED BY <1>1, <1>3, <1>6, <1>7, <1>8

-----------------------------------------------------------------------------
(***************************************************************************)
(* Positions: what is realized is the value of the position at its average *)
(* less what was paid for it.                                              *)
(***************************************************************************)
\* Of q at the average avg, bought for c net, r is realized; mult is the multiplier.
Paid(avg, q, r, c, mult) ==
  \E a \in Int, b \in Positive : avg = Fraction(a, b) /\ r = Fraction((a * q - c * b) * mult, b)

\* Fractions are closed under what positions do with them.
LEMMA FractionsClosed ==
  ASSUME NEW x \in Fractions, NEW y \in Fractions, NEW k \in Int
  PROVE  /\ Plus(x, y) \in Fractions /\ Scaled(x, k) \in Fractions /\ Minus(x, y) \in Fractions
         /\ k \in Positive => Over(x, k) \in Fractions
<1>1. PICK a \in Int, b \in Positive : x = Fraction(a, b)
  BY DEF Fractions
<1>2. PICK c \in Int, d \in Positive : y = Fraction(c, d)
  BY DEF Fractions
<1>3. /\ x = Fraction(a * d, b * d) /\ y = Fraction(c * b, d * b)
      /\ b * d \in Positive /\ a * d \in Int /\ c * b \in Int /\ d * b = b * d
  <2>1. b \in Int /\ d \in Int
    BY DEF Positive
  <2>2. d * b = b * d
    BY <2>1
  <2>3. x = Fraction(a * d, b * d) /\ b * d \in Positive /\ a * d \in Int
    BY <1>1, Expanded
  <2>4. y = Fraction(c * b, d * b) /\ c * b \in Int
    BY <1>2, Expanded
  <2> QED BY <2>2, <2>3, <2>4
<1>4. PICK n \in Int, m \in Int, e \in Positive : x = Fraction(n, e) /\ y = Fraction(m, e)
  BY <1>3
<1>5. Plus(x, y) \in Fractions
  <2>1. Plus(x, y) = Fraction(n + m, e) /\ n + m \in Int
    BY <1>4, PlusIs
  <2> QED BY <2>1, FractionIs
<1>6. Minus(x, y) \in Fractions
  <2>1. Minus(x, y) = Fraction(n - m, e) /\ n - m \in Int
    BY <1>4, MinusIs
  <2> QED BY <2>1, FractionIs
<1>7. Scaled(x, k) \in Fractions
  <2>1. Scaled(x, k) = Fraction(n * k, e) /\ n * k \in Int
    BY <1>4, ScaledIs
  <2> QED BY <2>1, FractionIs
<1>8. k \in Positive => Over(x, k) \in Fractions
  <2>1. k \in Positive => Over(x, k) = Fraction(n, e * k) /\ e * k \in Positive
    BY <1>4, OverIs
  <2> QED BY <2>1, FractionIs
<1> QED BY <1>5, <1>6, <1>7, <1>8

\* Profit is the value less the cash.
LEMMA ProfitIs ==
  ASSUME NEW avg \in Fractions, NEW mark \in Fractions, NEW q \in Int, NEW r, NEW c \in Int,
         NEW mult \in Int, Paid(avg, q, r, c, mult)
  PROVE  Plus(r, Scaled(Minus(mark, avg), q * mult)) =
           Scaled(Minus(Scaled(mark, q), Whole(c)), mult)
<1>1. PICK a \in Int, b \in Positive : avg = Fraction(a, b) /\ r = Fraction((a * q - c * b) * mult, b)
  BY DEF Paid
<1>2. PICK k \in Int, e \in Positive : mark = Fraction(k, e)
  BY DEF Fractions
<1>3. b \in Int /\ e \in Int
  BY DEF Positive
<1>4. PICK d \in Positive : d = b * e /\ d = e * b
  BY <1>3, Expanded
<1>5. PICK ae \in Int, kb \in Int : ae = a * e /\ kb = k * b
  BY <1>3
<1>6. avg = Fraction(ae, d) /\ mark = Fraction(kb, d)
  BY <1>1, <1>2, <1>4, <1>5, Expanded
<1>7. PICK w \in Int, u \in Int, qm \in Int : w = (a * q - c * b) * mult /\ u = w * e /\ qm = q * mult
  BY <1>3
<1>8. r = Fraction(u, d)
  BY <1>1, <1>4, <1>7, Expanded
<1>9. Scaled(Minus(mark, avg), qm) = Fraction((kb - ae) * qm, d)
  <2>1. Minus(mark, avg) = Fraction(kb - ae, d) /\ kb - ae \in Int
    BY <1>6, MinusIs
  <2> QED BY <2>1, ScaledIs
<1>10. PICK v \in Int : v = (kb - ae) * qm
  OBVIOUS
<1>11. Plus(r, Scaled(Minus(mark, avg), qm)) = Fraction(u + v, d)
  BY <1>8, <1>9, <1>10, PlusIs
<1>12. PICK kq \in Int, ce \in Int, z \in Int : kq = k * q /\ ce = c * e /\ z = (kq - ce) * mult
  BY <1>3
<1>13. Scaled(Minus(Scaled(mark, q), Whole(c)), mult) = Fraction(z, e)
  <2>1. Scaled(mark, q) = Fraction(kq, e)
    BY <1>2, <1>12, ScaledIs
  <2>2. Whole(c) = Fraction(ce, e)
    BY <1>12, WholeIs
  <2>3. Minus(Scaled(mark, q), Whole(c)) = Fraction(kq - ce, e) /\ kq - ce \in Int
    BY <2>1, <2>2, MinusIs
  <2> QED BY <1>12, <2>3, ScaledIs
<1>14. Fraction(z, e) = Fraction(z * b, d)
  BY <1>4, Expanded
<1>15. u + v = z * b
  <2>1. u = ((a * q - c * b) * mult) * e
    BY <1>7
  <2>2. v = (k * b - a * e) * (q * mult)
    BY <1>5, <1>7, <1>10
  <2>3. z * b = ((k * q - c * e) * mult) * b
    BY <1>12
  <2>4. ((a * q - c * b) * mult) * e + (k * b - a * e) * (q * mult) = ((k * q - c * e) * mult) * b
    BY <1>3
  <2> QED BY <2>1, <2>2, <2>3, <2>4
<1> QED BY <1>7, <1>11, <1>13, <1>14, <1>15

\* A fill that opens a position or adds to it realizes nothing.
LEMMA ExtendingPays ==
  ASSUME NEW avg \in Fractions, NEW q \in Int, NEW r, NEW c \in Int, NEW mult \in Int,
         Paid(avg, q, r, c, mult), NEW s \in Int, s # 0, q = 0 \/ (q > 0 <=> s > 0), NEW px \in Int
  PROVE  LET next == Over(Plus(Scaled(avg, Magnitude(q)), Whole(px * Magnitude(s))), Magnitude(q + s))
         IN next \in Fractions /\ Paid(next, q + s, r, c + s * px, mult)
<1>1. PICK a \in Int, b \in Positive : avg = Fraction(a, b) /\ r = Fraction((a * q - c * b) * mult, b)
  BY DEF Paid
<1>2. b \in Int /\ b > 0
  BY DEF Positive
<1>3. PICK sg \in {1, -1} : Magnitude(q) = sg * q /\ Magnitude(q + s) = sg * (q + s) /\ Magnitude(s) = sg * s
                          /\ sg * (q + s) > 0
  <2>1. CASE s > 0
    <3>1. Magnitude(q) = 1 * q /\ Magnitude(q + s) = 1 * (q + s) /\ Magnitude(s) = 1 * s /\ 1 * (q + s) > 0
      BY <2>1 DEF Magnitude
    <3> QED BY <3>1
  <2>2. CASE s < 0
    <3>1. Magnitude(q) = (-1) * q /\ Magnitude(q + s) = (-1) * (q + s) /\ Magnitude(s) = (-1) * s /\ (-1) * (q + s) > 0
      BY <2>2 DEF Magnitude
    <3> QED BY <3>1
  <2> QED BY <2>1, <2>2
<1>4. PICK q1 \in Int, q2 \in Positive, n \in Int : q1 = Magnitude(q) /\ q2 = Magnitude(q + s) /\ n = px * Magnitude(s)
  BY <1>3 DEF Positive
<1>5. PICK m \in Int, nb \in Int : m = a * q1 + nb /\ nb = n * b
  BY <1>2
<1>6. Plus(Scaled(avg, q1), Whole(n)) = Fraction(m, b)
  <2>1. Scaled(avg, q1) = Fraction(a * q1, b) /\ a * q1 \in Int
    BY <1>1, ScaledIs
  <2>2. Whole(n) = Fraction(nb, b)
    BY <1>5, WholeIs
  <2>3. Plus(Fraction(a * q1, b), Fraction(nb, b)) = Fraction(a * q1 + nb, b)
    BY <2>1, PlusIs
  <2> QED BY <1>5, <2>1, <2>2, <2>3
<1>7. PICK d \in Positive : d = b * q2 /\ Over(Fraction(m, b), q2) = Fraction(m, d)
  BY OverIs
<1>8. PICK next : next = Over(Plus(Scaled(avg, q1), Whole(n)), q2) /\ next = Fraction(m, d) /\ next \in Fractions
  BY <1>6, <1>7, FractionIs
<1>9. PICK w \in Int : w = (a * q - c * b) * mult
  BY <1>2
<1>10. r = Fraction(w * q2, d)
  BY <1>1, <1>7, <1>9, Expanded
<1>11. w * q2 = (m * (q + s) - (c + s * px) * d) * mult
  <2>1. q1 = sg * q /\ q2 = sg * (q + s) /\ n = px * (sg * s)
    BY <1>3, <1>4
  <2>2. CASE sg = 1
    <3>1. m = a * q + (px * s) * b /\ d = b * (q + s) /\ q2 = q + s
      BY <2>1, <2>2, <1>2, <1>5, <1>7
    <3>2. ((a * q - c * b) * mult) * (q + s) = ((a * q + (px * s) * b) * (q + s) - (c + s * px) * (b * (q + s))) * mult
      BY <1>2
    <3> QED BY <3>1, <3>2, <1>9
  <2>3. CASE sg = -1
    <3>1. m = -(a * q + (px * s) * b) /\ d = -(b * (q + s)) /\ q2 = -(q + s)
      BY <2>1, <2>3, <1>2, <1>5, <1>7
    <3>2. ((a * q - c * b) * mult) * (-(q + s)) = ((-(a * q + (px * s) * b)) * (q + s) - (c + s * px) * (-(b * (q + s)))) * mult
      BY <1>2
    <3> QED BY <3>1, <3>2, <1>9
  <2> QED BY <2>2, <2>3
<1>12. Paid(next, q + s, r, c + s * px, mult)
  BY <1>8, <1>10, <1>11 DEF Paid
<1> QED BY <1>4, <1>8, <1>12

\* One that closes part of it, all of it, or turns it over, realizes what was closed.
LEMMA ReducingPays ==
  ASSUME NEW avg \in Fractions, NEW q \in Int, NEW r, NEW c \in Int, NEW mult \in Int,
         Paid(avg, q, r, c, mult), NEW s \in Int, NEW px \in Int, NEW k \in Int, NEW next,
         \/ k = q /\ next = Whole(px)
         \/ k = q /\ next = Whole(0) /\ q + s = 0
         \/ k = -s /\ next = avg
  PROVE  /\ next \in Fractions
         /\ Paid(next, q + s, Plus(r, Scaled(Minus(Whole(px), avg), k * mult)), c + s * px, mult)
<1>1. PICK a \in Int, b \in Positive : avg = Fraction(a, b) /\ r = Fraction((a * q - c * b) * mult, b)
  BY DEF Paid
<1>2. b \in Int /\ b > 0
  BY DEF Positive
<1>5. PICK km \in Int, w \in Int, pb \in Int : km = k * mult
                                           /\ w = (a * q - c * b) * mult /\ pb = px * b
  BY <1>2
<1>6. Scaled(Minus(Whole(px), avg), km) = Fraction((pb - a) * km, b)
  <2>1. Whole(px) = Fraction(pb, b)
    BY <1>5, WholeIs
  <2>2. Minus(Whole(px), avg) = Fraction(pb - a, b) /\ pb - a \in Int
    BY <1>1, <2>1, MinusIs
  <2> QED BY <2>2, ScaledIs
<1>7. PICK v \in Int : v = (pb - a) * km
  OBVIOUS
<1>8. Plus(r, Scaled(Minus(Whole(px), avg), km)) = Fraction(w + v, b)
  <2>1. r = Fraction(w, b)
    BY <1>1, <1>5
  <2>2. Scaled(Minus(Whole(px), avg), km) = Fraction(v, b)
    BY <1>6, <1>7
  <2> QED BY <2>1, <2>2, PlusIs
<1>9. w + v = (a * q - c * b) * mult + (px * b - a) * (k * mult)
  BY <1>5, <1>7
<1>10. CASE k = q /\ next = Whole(0) /\ q + s = 0
  <2>1. next = Fraction(0, b) /\ next \in Fractions
    <3>1. 0 * b = 0
      BY <1>2
    <3>2. Whole(0) = Fraction(0 * b, b) /\ Whole(0) \in Fractions
      BY WholeIs
    <3> QED BY <1>10, <3>1, <3>2
  <2>2. w + v = (0 * (q + s) - (c + s * px) * b) * mult
    <3>1. s = -q
      BY <1>10
    <3>2. (a * q - c * b) * mult + (px * b - a) * (q * mult) = (0 - (c + (-q) * px) * b) * mult
      BY <1>2
    <3>3. 0 * (q + s) = 0
      OBVIOUS
    <3> QED BY <1>9, <1>10, <3>1, <3>2, <3>3
  <2>3. Paid(next, q + s, Fraction(w + v, b), c + s * px, mult)
    BY <2>1, <2>2 DEF Paid
  <2> QED BY <1>5, <1>8, <2>1, <2>3
<1>11. CASE k = q /\ next = Whole(px)
  <2>1. next = Fraction(pb, b) /\ next \in Fractions
    BY <1>5, <1>11, WholeIs
  <2>2. w + v = (pb * (q + s) - (c + s * px) * b) * mult
    <3>1. (a * q - c * b) * mult + (px * b - a) * (q * mult) = ((px * b) * (q + s) - (c + s * px) * b) * mult
      BY <1>2
    <3> QED BY <1>5, <1>9, <1>11, <3>1
  <2>3. Paid(next, q + s, Fraction(w + v, b), c + s * px, mult)
    BY <2>1, <2>2 DEF Paid
  <2> QED BY <1>5, <1>8, <2>1, <2>3
<1>12. CASE k = -s /\ next = avg
  <2>1. w + v = (a * (q + s) - (c + s * px) * b) * mult
    <3>1. (a * q - c * b) * mult + (px * b - a) * ((-s) * mult) = (a * (q + s) - (c + s * px) * b) * mult
      BY <1>2
    <3> QED BY <1>9, <1>12, <3>1
  <2>2. Paid(next, q + s, Fraction(w + v, b), c + s * px, mult)
    BY <1>1, <1>12, <2>1 DEF Paid
  <2> QED BY <1>5, <1>8, <1>12, <2>2
<1> QED BY <1>10, <1>11, <1>12

OpenPosition ==
  [qty : Int, buy : Nat, sell : Nat, avg : Fractions, mark : Fractions, open : Fractions,
   realized : Fractions]

FillRecord == [seq : Nat, id : Ids, sym : Products, side : Sides, qty : Positive, px : Int]

\* p is what was bought less what was sold, for c in all.
Bought(p, c, s) ==
  /\ p \in OpenPosition /\ p.qty = p.buy - p.sell
  /\ Paid(p.avg, p.qty, p.realized, c, Multiplier[s])

\* And its open profit is up to date.
Settled(p, c, s) ==
  Bought(p, c, s) /\ p.open = Scaled(Minus(p.mark, p.avg), p.qty * Multiplier[s])

KnownMarks == [Symbols -> Fractions \cup {None}]

\* The multiplier of a product.
LEMMA MultiplierIs ==
  ASSUME NEW s \in Products
  PROVE  Multiplier[s] \in Int
  BY LedgerAssumption

\* Nothing was bought yet.
LEMMA FlatIsSettled ==
  ASSUME NEW s \in Products
  PROVE  Settled(FlatPosition, 0, s) /\ FlatPosition.qty = 0
<1>1. 0 \in Int /\ 1 \in Positive /\ Whole(0) \in Fractions
  BY WholeIs DEF Positive
<1>2. Whole(0) = Fraction(0, 1)
  <2>1. Whole(0) = Fraction(0 * 1, 1)
    BY <1>1, WholeIs
  <2>2. 0 * 1 = 0
    OBVIOUS
  <2> QED BY <2>1, <2>2
<1>3. PICK m \in Int : m = Multiplier[s]
  BY MultiplierIs
<1>4. 0 * m = 0 /\ (0 * 0 - 0 * 1) * m = 0 /\ 0 - 0 = 0
  OBVIOUS
<1>5. Paid(Whole(0), 0, Whole(0), 0, m)
  BY <1>1, <1>2, <1>4 DEF Paid
<1>6. Scaled(Minus(Whole(0), Whole(0)), 0 * m) = Whole(0)
  <2>1. Minus(Fraction(0, 1), Fraction(0, 1)) = Fraction(0, 1)
    BY <1>1, <1>4, MinusIs
  <2>2. Scaled(Fraction(0, 1), 0) = Fraction(0 * 0, 1)
    BY <1>1, ScaledIs
  <2>3. 0 * 0 = 0
    OBVIOUS
  <2> QED BY <1>2, <1>4, <2>1, <2>2, <2>3
<1>7. FlatPosition \in OpenPosition
  BY <1>1 DEF FlatPosition, OpenPosition
<1>8. /\ FlatPosition.qty = 0 /\ FlatPosition.buy = 0 /\ FlatPosition.sell = 0
      /\ FlatPosition.avg = Whole(0) /\ FlatPosition.mark = Whole(0)
      /\ FlatPosition.open = Whole(0) /\ FlatPosition.realized = Whole(0)
  BY DEF FlatPosition
<1> QED BY <1>3, <1>4, <1>5, <1>6, <1>7, <1>8 DEF Settled, Bought

\* A mark settles a position.
LEMMA MarkingSettles ==
  ASSUME NEW s \in Products, NEW c, NEW p, Bought(p, c, s), NEW m \in Fractions
  PROVE  LET next == RecalcOpenPnl([p EXCEPT !.mark = m], s)
         IN Settled(next, c, s) /\ next.mark = m /\ next.qty = p.qty
<1> DEFINE marked == [p EXCEPT !.mark = m]
<1>1. /\ marked \in OpenPosition /\ marked.mark = m /\ marked.qty = p.qty /\ marked.avg = p.avg
      /\ marked.buy = p.buy /\ marked.sell = p.sell /\ marked.realized = p.realized
  BY DEF Bought, OpenPosition
<1>2. marked.avg \in Fractions /\ marked.mark \in Fractions /\ marked.qty \in Int
  BY <1>1 DEF OpenPosition
<1> HIDE DEF marked
<1>3. PICK v \in Fractions : v = Scaled(Minus(marked.mark, marked.avg), marked.qty * Multiplier[s])
  <2>1. marked.qty * Multiplier[s] \in Int
    BY <1>2, MultiplierIs
  <2>2. Minus(marked.mark, marked.avg) \in Fractions
    BY <1>2, FractionsClosed
  <2> QED BY <2>1, <2>2, FractionsClosed
<1>4. PICK next : next = [marked EXCEPT !.open = v]
  OBVIOUS
<1>5. next = RecalcOpenPnl(marked, s)
  BY <1>3, <1>4 DEF RecalcOpenPnl
<1>6. /\ next \in OpenPosition /\ next.open = v /\ next.mark = m /\ next.qty = p.qty /\ next.avg = p.avg
      /\ next.buy = p.buy /\ next.sell = p.sell /\ next.realized = p.realized
  BY <1>1, <1>4 DEF OpenPosition
<1>7. Settled(next, c, s)
  BY <1>1, <1>3, <1>6 DEF Settled, Bought
<1> QED BY <1>5, <1>6, <1>7 DEF marked

\* The quantity of a fill, with its sign.
LEMMA SignedIs ==
  ASSUME NEW f \in FillRecord
  PROVE  /\ Signed(f) \in Int /\ Signed(f) # 0 /\ Magnitude(Signed(f)) = f.qty
         /\ f.side = "buy" => Signed(f) = f.qty
         /\ f.side # "buy" => Signed(f) = -f.qty
<1>1. f.qty \in Nat /\ f.qty > 0
  BY DEF FillRecord, Positive
<1> QED BY <1>1 DEF Signed, Magnitude

\* update_position before the mark: what was bought, and for how much.
LEMMA MovingKeeps ==
  ASSUME NEW f \in FillRecord, NEW c \in Int, NEW p, Bought(p, c, f.sym)
  PROVE  LET counted == IF f.side = "buy" THEN [p EXCEPT !.buy = @ + f.qty] ELSE [p EXCEPT !.sell = @ + f.qty]
             next == IF SameDirection(p, f) THEN Extended(counted, f) ELSE Reduced(counted, f)
         IN Bought(next, c + Signed(f) * f.px, f.sym) /\ next.qty = p.qty + Signed(f)
<1> DEFINE counted0 == IF f.side = "buy" THEN [p EXCEPT !.buy = @ + f.qty] ELSE [p EXCEPT !.sell = @ + f.qty]
<1>1. /\ p \in OpenPosition /\ p.qty \in Int /\ p.avg \in Fractions /\ p.realized \in Fractions
      /\ p.buy \in Nat /\ p.sell \in Nat /\ p.qty = p.buy - p.sell
      /\ f.sym \in Products /\ f.px \in Int /\ f.qty \in Nat
  BY DEF Bought, OpenPosition, FillRecord, Positive
<1>2. PICK s \in Int : s = Signed(f) /\ s # 0 /\ Magnitude(s) = f.qty
  BY SignedIs
<1>3. PICK counted : counted = counted0
  OBVIOUS
<1>4. /\ counted \in OpenPosition /\ counted.qty = p.qty /\ counted.avg = p.avg
      /\ counted.realized = p.realized /\ counted.buy - counted.sell = p.qty + s
  <2>1. CASE f.side = "buy"
    <3>1. counted = [p EXCEPT !.buy = p.buy + f.qty] /\ s = f.qty
      BY <1>2, <1>3, <2>1, SignedIs
    <3>2. /\ counted \in OpenPosition /\ counted.qty = p.qty /\ counted.avg = p.avg
          /\ counted.realized = p.realized /\ counted.buy = p.buy + f.qty /\ counted.sell = p.sell
      BY <1>1, <3>1 DEF OpenPosition
    <3> QED BY <1>1, <3>1, <3>2
  <2>2. CASE f.side # "buy"
    <3>1. counted = [p EXCEPT !.sell = p.sell + f.qty] /\ s = -f.qty
      BY <1>2, <1>3, <2>2, SignedIs
    <3>2. /\ counted \in OpenPosition /\ counted.qty = p.qty /\ counted.avg = p.avg
          /\ counted.realized = p.realized /\ counted.buy = p.buy /\ counted.sell = p.sell + f.qty
      BY <1>1, <3>1 DEF OpenPosition
    <3> QED BY <1>1, <3>1, <3>2
  <2> QED BY <2>1, <2>2
<1>5. PICK m \in Int : m = Multiplier[f.sym]
  BY <1>1, MultiplierIs
<1>6. Paid(p.avg, p.qty, p.realized, c, m)
  BY <1>5 DEF Bought
<1>7. CASE SameDirection(p, f)
  <2>1. p.qty = 0 \/ (p.qty > 0 <=> s > 0)
    BY <1>2, <1>7 DEF SameDirection
  <2>2. PICK avg : /\ avg = Over(Plus(Scaled(p.avg, Magnitude(p.qty)), Whole(f.px * f.qty)), Magnitude(p.qty + s))
                   /\ avg \in Fractions /\ Paid(avg, p.qty + s, p.realized, c + s * f.px, m)
    <3>1. PICK avg : avg = Over(Plus(Scaled(p.avg, Magnitude(p.qty)), Whole(f.px * Magnitude(s))), Magnitude(p.qty + s))
      OBVIOUS
    <3>2. avg \in Fractions /\ Paid(avg, p.qty + s, p.realized, c + s * f.px, m)
      BY <1>1, <1>2, <1>6, <2>1, <3>1, ExtendingPays
    <3> QED BY <1>2, <3>1, <3>2
  <2>3. PICK next : next = [counted EXCEPT !.avg = avg, !.qty = p.qty + s]
    OBVIOUS
  <2>4. next = Extended(counted, f)
    BY <1>2, <1>4, <2>2, <2>3 DEF Extended
  <2>5. /\ next \in OpenPosition /\ next.qty = p.qty + s /\ next.avg = avg
        /\ next.realized = p.realized /\ next.buy = counted.buy /\ next.sell = counted.sell
    <3>1. p.qty + s \in Int
      BY <1>1
    <3> QED BY <1>4, <2>2, <2>3, <3>1 DEF OpenPosition
  <2>6. Bought(next, c + s * f.px, f.sym)
    BY <1>4, <1>5, <2>2, <2>5 DEF Bought
  <2> QED BY <1>2, <1>3, <1>7, <2>4, <2>5, <2>6
<1>8. CASE ~SameDirection(p, f)
  <2>1. p.qty # 0 /\ ~(p.qty > 0 <=> s > 0)
    BY <1>2, <1>8 DEF SameDirection
  <2> DEFINE closing == IF Magnitude(p.qty) <= Magnitude(s) THEN Magnitude(p.qty) ELSE Magnitude(s)
             direction == IF p.qty > 0 THEN 1 ELSE -1
  <2>2. PICK k \in Int : k = closing * direction
    BY <1>1 DEF Magnitude
  <2>3. PICK avg, r : /\ avg = IF p.qty + s = 0 THEN Whole(0)
                               ELSE IF (p.qty + s > 0) = (p.qty > 0) THEN p.avg ELSE Whole(f.px)
                      /\ r = Plus(p.realized, Scaled(Minus(Whole(f.px), p.avg), k * m))
    OBVIOUS
  <2>4. \/ k = p.qty /\ avg = Whole(f.px)
        \/ k = p.qty /\ avg = Whole(0) /\ p.qty + s = 0
        \/ k = -s /\ avg = p.avg
    <3>1. CASE p.qty > 0
      BY <1>1, <2>1, <2>2, <2>3, <3>1 DEF Magnitude
    <3>2. CASE p.qty < 0
      BY <1>1, <2>1, <2>2, <2>3, <3>2 DEF Magnitude
    <3> QED BY <1>1, <2>1, <3>1, <3>2
  <2> HIDE DEF closing, direction
  <2>5. avg \in Fractions /\ Paid(avg, p.qty + s, r, c + s * f.px, m)
    BY <1>1, <1>6, <2>3, <2>4, ReducingPays
  <2>6. r \in Fractions
    <3>1. 1 \in Positive /\ k * m \in Int
      BY DEF Positive
    <3>2. Whole(f.px) \in Fractions
      BY <1>1, <3>1, WholeIs
    <3>3. Minus(Whole(f.px), p.avg) \in Fractions
      BY <1>1, <3>2, FractionsClosed
    <3>4. Scaled(Minus(Whole(f.px), p.avg), k * m) \in Fractions
      BY <3>1, <3>3, FractionsClosed
    <3> QED BY <1>1, <2>3, <3>4, FractionsClosed
  <2>7. PICK next : next = [counted EXCEPT !.realized = r, !.avg = avg, !.qty = p.qty + s]
    OBVIOUS
  <2>8. next = Reduced(counted, f)
    <3>1. k * m = closing * direction * Multiplier[f.sym]
      BY <1>5, <2>2
    <3>2. /\ closing = IF Magnitude(counted.qty) <= f.qty THEN Magnitude(counted.qty) ELSE f.qty
          /\ direction = IF counted.qty > 0 THEN 1 ELSE -1
      BY <1>2, <1>4 DEF closing, direction
    <3> QED BY <1>2, <1>4, <2>3, <2>7, <3>1, <3>2 DEF Reduced
  <2>9. /\ next \in OpenPosition /\ next.qty = p.qty + s /\ next.avg = avg
        /\ next.realized = r /\ next.buy = counted.buy /\ next.sell = counted.sell
    <3>1. p.qty + s \in Int
      BY <1>1
    <3> QED BY <1>4, <2>5, <2>6, <2>7, <3>1 DEF OpenPosition
  <2>10. Bought(next, c + s * f.px, f.sym)
    BY <1>4, <1>5, <2>5, <2>9 DEF Bought
  <2> QED BY <1>2, <1>3, <1>8, <2>8, <2>9, <2>10
<1> QED BY <1>7, <1>8

-----------------------------------------------------------------------------
(***************************************************************************)
(* The books of the server.                                                *)
(***************************************************************************)
BookSet ==
  [fills : Seq(FillRecord), positions : [Products -> OpenPosition \cup {NoPosition}],
   cash : [Products -> Int], external : [Products -> Int], lost : BOOLEAN]

HeldOf(b, s) == IF b.positions[s] = NoPosition THEN FlatPosition ELSE b.positions[s]

\* Books whose positions are settled at the known marks.
SettledBooks(known) ==
  {b \in BookSet : \A s \in Products :
     /\ Settled(HeldOf(b, s), b.cash[s], s)
     /\ b.positions[s] # NoPosition /\ known[s] # None => b.positions[s].mark = known[s]}

\* A position is not the absence of one.
LEMMA OpenIsSome ==
  NoPosition \notin OpenPosition
<1>1. NoPosition.qty \notin Int
  BY ConstantsAssumption DEF NoPosition
<1> QED BY <1>1 DEF OpenPosition

\* update_position settles the position the fill is of, and leaves the others.
LEMMA UpdatingSettles ==
  ASSUME NEW known \in KnownMarks, NEW b \in SettledBooks(known), NEW f \in FillRecord,
         NEW held, held = UpdatePosition(b.positions, f, known)
  PROVE  /\ held \in [Products -> OpenPosition \cup {NoPosition}]
         /\ held[f.sym] \in OpenPosition
         /\ Settled(held[f.sym], b.cash[f.sym] + Signed(f) * f.px, f.sym)
         /\ held[f.sym].qty = HeldOf(b, f.sym).qty + Signed(f)
         /\ known[f.sym] # None => held[f.sym].mark = known[f.sym]
         /\ \A s \in Products \ {f.sym} : held[s] = b.positions[s]
<1>1. f.sym \in Products /\ f.px \in Int /\ f.sym \in Symbols
  BY ConstantsAssumption DEF FillRecord
<1>2. b.positions \in [Products -> OpenPosition \cup {NoPosition}] /\ b.cash[f.sym] \in Int
  BY <1>1 DEF SettledBooks, BookSet
<1>3. PICK old : old = HeldOf(b, f.sym)
  OBVIOUS
<1>4. Bought(old, b.cash[f.sym], f.sym)
  BY <1>1, <1>3 DEF SettledBooks, Settled
<1> DEFINE counted == IF f.side = "buy" THEN [old EXCEPT !.buy = @ + f.qty] ELSE [old EXCEPT !.sell = @ + f.qty]
<1>5. PICK moved : moved = IF SameDirection(old, f) THEN Extended(counted, f) ELSE Reduced(counted, f)
  OBVIOUS
<1>6. Bought(moved, b.cash[f.sym] + Signed(f) * f.px, f.sym) /\ moved.qty = old.qty + Signed(f)
  BY <1>2, <1>4, <1>5, MovingKeeps
<1>7. held = [b.positions EXCEPT ![f.sym] = Marked(moved, f, known)]
  BY <1>3, <1>5 DEF UpdatePosition, HeldOf
<1>8. PICK m \in Fractions : m = IF known[f.sym] = None THEN Whole(f.px) ELSE known[f.sym]
  <2>1. Whole(f.px) \in Fractions
    <3>1. 1 \in Positive
      BY DEF Positive
    <3> QED BY <1>1, <3>1, WholeIs
  <2>2. known[f.sym] \in Fractions \cup {None}
    BY <1>1 DEF KnownMarks
  <2> QED BY <2>1, <2>2
<1>9. PICK next : next = RecalcOpenPnl([moved EXCEPT !.mark = m], f.sym)
  OBVIOUS
<1>10. /\ Settled(next, b.cash[f.sym] + Signed(f) * f.px, f.sym)
       /\ next.mark = m /\ next.qty = moved.qty
  BY <1>1, <1>6, <1>8, <1>9, MarkingSettles
<1>11. next \in OpenPosition
  BY <1>10 DEF Settled, Bought
<1>12. next = Marked(moved, f, known)
  BY <1>8, <1>9 DEF Marked
<1>13. held[f.sym] = next /\ \A s \in Products \ {f.sym} : held[s] = b.positions[s]
  BY <1>1, <1>2, <1>7, <1>12
<1>14. held \in [Products -> OpenPosition \cup {NoPosition}]
  BY <1>1, <1>2, <1>7, <1>11, <1>12
<1> QED BY <1>3, <1>6, <1>8, <1>10, <1>11, <1>13, <1>14

\* A report that books can be made of: one of a fill names an order and a product.
Bookable ==
  {r \in Report : r.fill > 0 => r.id \in Ids /\ r.sym \in Products /\ r.side \in Sides}

\* The fill of a report.
LEMMA FillStateIs ==
  ASSUME NEW r \in Bookable, r.fill > 0
  PROVE  /\ FillState(r) \in FillRecord
         /\ FillState(r).seq = r.seq /\ FillState(r).id = r.id /\ FillState(r).sym = r.sym
         /\ FillState(r).qty = r.fill /\ FillState(r).side = r.side /\ FillState(r).px = r.px
<1>1. r.seq \in Nat /\ r.fill \in Positive /\ r.px \in Int /\ r.id \in Ids /\ r.sym \in Products /\ r.side \in Sides
  BY DEF Bookable, Report, Positive
<1> QED BY <1>1 DEF FillState, FillRecord

\* fills_ and the numbers in it: they climb, and none is above n.
Ordered(list, n) ==
  /\ Len(list) <= MaxFills
  /\ \A i \in DOMAIN list : list[i].seq <= n
  /\ \A i, j \in DOMAIN list : i < j => list[i].seq < list[j].seq

\* What is left of a list when its oldest fill goes.
LEMMA NewestIs ==
  ASSUME NEW list \in Seq(FillRecord), Len(list) <= MaxFills, NEW f \in FillRecord
  PROVE  /\ Newest(Append(list, f)) \in Seq(FillRecord)
         /\ Len(list) # MaxFills => Newest(Append(list, f)) = Append(list, f)
         /\ \A n \in Nat : Ordered(list, n) /\ f.seq > n => Ordered(Newest(Append(list, f)), f.seq)
<1>1. MaxFills \in Nat /\ MaxFills > 0 /\ Len(list) \in Nat
  BY LedgerAssumption
<1>2. PICK k \in Nat : k = Len(list)
  BY <1>1
<1>3. PICK long : long = Append(list, f)
  OBVIOUS
<1>4. /\ long \in Seq(FillRecord) /\ Len(long) = k + 1 /\ long[k + 1] = f
      /\ \A i \in 1 .. k : long[i] = list[i]
  BY <1>2, <1>3
<1>5. \A i \in 1 .. k : list[i].seq \in Nat
  <2>1. \A i \in 1 .. k : list[i] \in FillRecord
    BY <1>2
  <2> QED BY <2>1 DEF FillRecord
<1>6. f.seq \in Nat
  BY DEF FillRecord
<1>7. ASSUME NEW n \in Nat, Ordered(list, n), f.seq > n
      PROVE  /\ \A i \in 1 .. k + 1 : long[i].seq <= f.seq
             /\ \A i, j \in 1 .. k + 1 : i < j => long[i].seq < long[j].seq
  <2>1. \A i \in 1 .. k : list[i].seq <= n
    BY <1>2, <1>7 DEF Ordered
  <2>2. \A i, j \in 1 .. k : i < j => list[i].seq < list[j].seq
    BY <1>2, <1>7 DEF Ordered
  <2>3. \A i \in 1 .. k : long[i].seq < f.seq /\ long[i].seq \in Nat
    BY <1>4, <1>5, <1>6, <1>7, <2>1
  <2>4. \A i \in 1 .. k + 1 : i \in 1 .. k \/ i = k + 1
    OBVIOUS
  <2>5. \A i, j \in 1 .. k + 1 : i < j => i \in 1 .. k
    OBVIOUS
  <2>6. \A i, j \in 1 .. k + 1 : i < j => long[i].seq < long[j].seq
    <3> TAKE i, j \in 1 .. k + 1
    <3> HAVE i < j
    <3>1. i \in 1 .. k
      BY <2>5
    <3>2. CASE j \in 1 .. k
      BY <1>4, <2>2, <3>1, <3>2
    <3>3. CASE j = k + 1
      BY <1>4, <2>3, <3>1, <3>3
    <3> QED BY <2>4, <3>2, <3>3
  <2> QED BY <1>4, <1>6, <2>3, <2>4, <2>6
<1>8. CASE k # MaxFills
  <2>1. Newest(long) = long
    BY <1>1, <1>2, <1>4, <1>8 DEF Newest
  <2>2. DOMAIN long = 1 .. k + 1 /\ k + 1 <= MaxFills
    BY <1>1, <1>2, <1>4, <1>8
  <2> QED BY <1>2, <1>3, <1>4, <1>7, <2>1, <2>2 DEF Ordered
<1>9. CASE k = MaxFills
  <2>1. PICK short : short = Newest(long)
    OBVIOUS
  <2>2. short = SubSeq(long, 2, k + 1)
    <3>1. Len(long) > MaxFills /\ Len(long) - MaxFills + 1 = 2
      BY <1>1, <1>4, <1>9
    <3> QED BY <1>4, <2>1, <3>1 DEF Newest
  <2>3. /\ short \in Seq(FillRecord) /\ Len(short) = k /\ DOMAIN short = 1 .. k
        /\ \A i \in 1 .. k : short[i] = long[i + 1]
    BY <1>4, <2>2
  <2>4. \A i \in 1 .. k : i + 1 \in 1 .. k + 1
    OBVIOUS
  <2>5. \A i, j \in 1 .. k : i < j => i + 1 < j + 1
    OBVIOUS
  <2>6. ASSUME NEW n \in Nat, Ordered(list, n), f.seq > n
        PROVE  Ordered(short, f.seq)
    <3>1. \A i \in 1 .. k : short[i].seq <= f.seq
      BY <1>7, <2>3, <2>4, <2>6
    <3>2. \A i, j \in 1 .. k : i < j => short[i].seq < short[j].seq
      BY <1>7, <2>3, <2>4, <2>5, <2>6
    <3> QED BY <1>1, <1>9, <2>3, <3>1, <3>2 DEF Ordered
  <2> QED BY <1>2, <1>3, <1>9, <2>1, <2>3, <2>6
<1> QED BY <1>8, <1>9

\* It fits.
LEMMA NewestFits ==
  ASSUME NEW list \in Seq(FillRecord), Len(list) <= MaxFills, NEW f \in FillRecord
  PROVE  Len(Newest(Append(list, f))) <= MaxFills
<1>1. MaxFills \in Nat /\ MaxFills > 0 /\ Len(list) \in Nat
  BY LedgerAssumption
<1>2. Append(list, f) \in Seq(FillRecord) /\ Len(Append(list, f)) = Len(list) + 1
  OBVIOUS
<1>3. CASE Len(list) = MaxFills
  <2>1. Newest(Append(list, f)) = SubSeq(Append(list, f), 2, Len(list) + 1)
    BY <1>1, <1>2, <1>3 DEF Newest
  <2>2. Len(SubSeq(Append(list, f), 2, Len(list) + 1)) = Len(list)
    BY <1>1, <1>2
  <2> QED BY <1>1, <1>3, <2>1, <2>2
<1>4. CASE Len(list) # MaxFills
  BY <1>1, <1>2, <1>4 DEF Newest
<1> QED BY <1>3, <1>4

\* What record_fill does to settled books.
LEMMA RecordingIs ==
  ASSUME NEW known \in KnownMarks, NEW b \in SettledBooks(known), NEW r \in Bookable, r.fill > 0,
         Len(b.fills) <= MaxFills, NEW swept \in BOOLEAN,
         NEW c, c = RecordFill(b, r, known, swept), NEW f, f = FillState(r)
  PROVE  /\ c \in SettledBooks(known)
         /\ c.fills = Newest(Append(b.fills, f))
         /\ ~c.lost => ~b.lost /\ c.fills = Append(b.fills, f)
         /\ \A s \in Products :
              /\ HeldOf(c, s).qty = HeldOf(b, s).qty + (IF s = r.sym THEN Signed(f) ELSE 0)
              /\ c.external[s] = b.external[s] + (IF swept /\ s = r.sym THEN Signed(f) ELSE 0)
<1>1. f \in FillRecord /\ f.sym = r.sym /\ f.sym \in Products /\ f.px \in Int
  BY FillStateIs DEF FillRecord
<1>2. /\ b \in BookSet /\ b.fills \in Seq(FillRecord) /\ b.cash \in [Products -> Int]
      /\ b.external \in [Products -> Int] /\ b.lost \in BOOLEAN
      /\ b.positions \in [Products -> OpenPosition \cup {NoPosition}]
  BY DEF SettledBooks, BookSet
<1>3. PICK sg \in Int : sg = Signed(f)
  BY <1>1, SignedIs
<1>4. PICK paid \in Int : paid = sg * f.px
  BY <1>1
<1>5. PICK held : held = UpdatePosition(b.positions, f, known)
  OBVIOUS
<1>6. /\ held \in [Products -> OpenPosition \cup {NoPosition}] /\ held[f.sym] \in OpenPosition
      /\ Settled(held[f.sym], b.cash[f.sym] + paid, f.sym)
      /\ held[f.sym].qty = HeldOf(b, f.sym).qty + sg
      /\ known[f.sym] # None => held[f.sym].mark = known[f.sym]
      /\ \A s \in Products \ {f.sym} : held[s] = b.positions[s]
  BY <1>1, <1>3, <1>4, <1>5, UpdatingSettles
<1>7. PICK list : list = Newest(Append(b.fills, f))
  OBVIOUS
<1>8. list \in Seq(FillRecord) /\ (Len(b.fills) # MaxFills => list = Append(b.fills, f))
  BY <1>1, <1>2, <1>7, NewestIs
<1>9. c = [fills |-> list, positions |-> held,
           cash |-> [b.cash EXCEPT ![f.sym] = b.cash[f.sym] + paid],
           external |-> IF swept THEN [b.external EXCEPT ![f.sym] = b.external[f.sym] + sg] ELSE b.external,
           lost |-> b.lost \/ Len(b.fills) = MaxFills]
  BY <1>3, <1>4, <1>5, <1>7 DEF RecordFill
<1>10. /\ c.fills = list /\ c.positions = held
       /\ c.cash = [b.cash EXCEPT ![f.sym] = b.cash[f.sym] + paid]
       /\ c.external = IF swept THEN [b.external EXCEPT ![f.sym] = b.external[f.sym] + sg] ELSE b.external
       /\ c.lost = (b.lost \/ Len(b.fills) = MaxFills)
  BY <1>9
<1>11. c.cash \in [Products -> Int] /\ c.external \in [Products -> Int]
  BY <1>1, <1>2, <1>10
<1>12. c \in BookSet
  BY <1>2, <1>6, <1>8, <1>9, <1>10, <1>11 DEF BookSet
<1>13. ASSUME NEW s \in Products, s # f.sym
       PROVE  /\ c.positions[s] = b.positions[s] /\ HeldOf(c, s) = HeldOf(b, s)
              /\ c.cash[s] = b.cash[s] /\ c.external[s] = b.external[s]
  <2>1. c.positions[s] = b.positions[s]
    BY <1>6, <1>10, <1>13
  <2> QED BY <1>2, <1>10, <1>13, <2>1 DEF HeldOf
<1>14. /\ HeldOf(c, f.sym) = held[f.sym] /\ c.cash[f.sym] = b.cash[f.sym] + paid
       /\ c.external[f.sym] = b.external[f.sym] + (IF swept THEN sg ELSE 0)
  BY <1>1, <1>2, <1>6, <1>10, OpenIsSome DEF HeldOf
<1>15. ASSUME NEW s \in Products
       PROVE  /\ Settled(HeldOf(c, s), c.cash[s], s)
              /\ c.positions[s] # NoPosition /\ known[s] # None => c.positions[s].mark = known[s]
  <2>1. CASE s = f.sym
    BY <1>6, <1>10, <1>14, <2>1
  <2>2. CASE s # f.sym
    BY <1>13, <2>2 DEF SettledBooks
  <2> QED BY <2>1, <2>2
<1>16. c \in SettledBooks(known)
  BY <1>12, <1>15 DEF SettledBooks
<1>17. ASSUME NEW s \in Products
       PROVE  /\ HeldOf(c, s).qty = HeldOf(b, s).qty + (IF s = r.sym THEN sg ELSE 0)
              /\ c.external[s] = b.external[s] + (IF swept /\ s = r.sym THEN sg ELSE 0)
  <2>1. HeldOf(b, s).qty \in Int /\ b.external[s] \in Int
    BY <1>2 DEF SettledBooks, Settled, Bought, OpenPosition
  <2>2. CASE s = f.sym
    BY <1>1, <1>6, <1>14, <2>2
  <2>3. CASE s # f.sym
    BY <1>1, <1>13, <2>1, <2>3
  <2> QED BY <2>2, <2>3
<1>18. ~c.lost => ~b.lost /\ c.fills = Append(b.fills, f)
  BY <1>8, <1>10
<1> QED BY <1>3, <1>7, <1>10, <1>16, <1>17, <1>18

-----------------------------------------------------------------------------
(***************************************************************************)
(* Booking a batch, one report after the other.                            *)
(***************************************************************************)
\* Books that hold no more fills than they may.
FittingBooks(known) == {b \in SettledBooks(known) : Len(b.fills) <= MaxFills}

\* One report of the loop of apply_batch.
BookOne(known, swept) ==
  [x \in FittingBooks(known) \X Bookable |->
     IF x[2].fill <= 0 THEN x[1] ELSE RecordFill(x[1], x[2], known, swept)]

\* It keeps the books settled.
LEMMA BookOneIs ==
  ASSUME NEW known \in KnownMarks, NEW swept \in BOOLEAN
  PROVE  /\ IsStep(FittingBooks(known), Bookable, BookOne(known, swept))
         /\ \A b \in FittingBooks(known), r \in Bookable :
              BookOne(known, swept)[b, r] = IF r.fill <= 0 THEN b ELSE RecordFill(b, r, known, swept)
<1>1. ASSUME NEW x \in FittingBooks(known) \X Bookable
      PROVE  (IF x[2].fill <= 0 THEN x[1] ELSE RecordFill(x[1], x[2], known, swept)) \in FittingBooks(known)
  <2>1. PICK b, r : b = x[1] /\ r = x[2]
    OBVIOUS
  <2>2. b \in SettledBooks(known) /\ Len(b.fills) <= MaxFills /\ r \in Bookable /\ b \in FittingBooks(known)
    BY <2>1 DEF FittingBooks
  <2>3. r.fill \in Nat
    BY <2>2 DEF Bookable, Report
  <2>4. CASE r.fill > 0
    <3>1. PICK c, f : c = RecordFill(b, r, known, swept) /\ f = FillState(r)
      OBVIOUS
    <3>2. c \in SettledBooks(known) /\ c.fills = Newest(Append(b.fills, f))
      BY <2>2, <2>4, <3>1, RecordingIs
    <3>3. b.fills \in Seq(FillRecord) /\ f \in FillRecord
      BY <2>2, <2>4, <3>1, FillStateIs DEF SettledBooks, BookSet
    <3>4. Len(Newest(Append(b.fills, f))) <= MaxFills
      BY <2>2, <3>3, NewestFits
    <3> QED BY <2>1, <2>3, <2>4, <3>1, <3>2, <3>4 DEF FittingBooks
  <2> QED BY <2>1, <2>2, <2>3, <2>4
<1>2. IsStep(FittingBooks(known), Bookable, BookOne(known, swept))
  BY <1>1 DEF BookOne, IsStep
<1>3. ASSUME NEW b \in FittingBooks(known), NEW r \in Bookable
      PROVE  BookOne(known, swept)[b, r] = IF r.fill <= 0 THEN b ELSE RecordFill(b, r, known, swept)
  <2>1. <<b, r>> \in FittingBooks(known) \X Bookable
    OBVIOUS
  <2> QED BY <2>1, Zenon DEF BookOne
<1> QED BY <1>2, <1>3

\* The loop is a fold.
LEMMA BookingFolds ==
  ASSUME NEW known \in KnownMarks, NEW swept \in BOOLEAN, NEW b \in FittingBooks(known),
         NEW reports \in Seq(Bookable)
  PROVE  IsFold(FittingBooks(known), BookOne(known, swept), b, reports, Booked(b, reports, known, swept))
<1> DEFINE S == DOMAIN reports
           Sofar(sofar, r) == IF r.fill <= 0 THEN sofar ELSE RecordFill(sofar, r, known, swept)
           All(h) == [s \in SUBSET S |-> IF s = {} THEN b ELSE Sofar(h[s \ {Max(s)}], reports[Max(s)])]
           h == CHOOSE h : h = All(h)
<1>0. Len(reports) \in Nat /\ S = 1 .. Len(reports) /\ \A i \in S : reports[i] \in Bookable
  OBVIOUS
<1>1. /\ IsStep(FittingBooks(known), Bookable, BookOne(known, swept))
      /\ \A x \in FittingBooks(known), r \in Bookable : BookOne(known, swept)[x, r] = Sofar(x, r)
  BY BookOneIs
<1> HIDE DEF Sofar
<1>2. PICK g \in [SUBSET S -> FittingBooks(known)] : FoldsTo(BookOne(known, swept), b, reports, g)
  BY <1>1, FoldsExist
<1>3. ASSUME NEW s \in SUBSET S, s # {} PROVE Max(s) \in s /\ reports[Max(s)] \in Bookable
  <2>1. Max(s) \in s
    BY <1>0, <1>3, GreatestPosition
  <2> QED BY <1>0, <2>1
<1>4. g = All(g)
  <2>1. ASSUME NEW s \in SUBSET S
        PROVE  g[s] = IF s = {} THEN b ELSE Sofar(g[s \ {Max(s)}], reports[Max(s)])
    <3>1. CASE s = {}
      BY <1>2, <3>1 DEF FoldsTo
    <3>2. CASE s # {}
      <4>1. Max(s) \in s /\ reports[Max(s)] \in Bookable /\ s \ {Max(s)} \in SUBSET S
        BY <1>3, <3>2
      <4>2. g[s \ {Max(s)}] \in FittingBooks(known)
        BY <4>1
      <4>3. g[s] = BookOne(known, swept)[g[s \ {Max(s)}], reports[Max(s)]]
        BY <1>2, <3>2 DEF FoldsTo
      <4> QED BY <1>1, <3>2, <4>1, <4>2, <4>3
    <3> QED BY <3>1, <3>2
  <2> QED BY <2>1
<1>5. h = All(h)
  BY <1>4
<1>6. Booked(b, reports, known, swept) = h[S]
  BY DEF Booked, FoldLeft, MapThenFoldSet, Sofar
<1>7. FoldsWhileTyped(FittingBooks(known), BookOne(known, swept), b, reports, h)
  <2> SUFFICES ASSUME NEW s \in SUBSET S
               PROVE  /\ s = {} => h[s] = b
                      /\ s # {} /\ h[s \ {Max(s)}] \in FittingBooks(known) =>
                           h[s] = BookOne(known, swept)[h[s \ {Max(s)}], reports[Max(s)]]
    BY DEF FoldsWhileTyped
  <2>1. h[s] = All(h)[s]
    BY <1>5
  <2> HIDE DEF h
  <2>2. h[s] = IF s = {} THEN b ELSE Sofar(h[s \ {Max(s)}], reports[Max(s)])
    BY <2>1
  <2> QED BY <1>1, <1>3, <2>2
<1> HIDE DEF h
<1>8. IsFold(FittingBooks(known), BookOne(known, swept), b, reports, h[S])
  <2> HIDE DEF S
  <2> QED BY ONLY <1>1, <1>7, BookOneIs, TypedFold, b \in FittingBooks(known), reports \in Seq(Bookable) DEF S
<1> QED BY <1>6, <1>8

\* No report, and one more.
LEMMA BookingGoesOn ==
  ASSUME NEW known \in KnownMarks, NEW swept \in BOOLEAN, NEW b \in FittingBooks(known)
  PROVE  /\ Booked(b, <<>>, known, swept) = b
         /\ \A reports \in Seq(Bookable), r \in Bookable :
              LET x == Booked(b, reports, known, swept)
                  y == Booked(b, Append(reports, r), known, swept)
              IN /\ x \in FittingBooks(known) /\ y \in FittingBooks(known)
                 /\ y = IF r.fill <= 0 THEN x ELSE RecordFill(x, r, known, swept)
<1>1. Booked(b, <<>>, known, swept) = b
  <2>1. <<>> \in Seq(Bookable)
    OBVIOUS
  <2>2. PICK F, V, v : F = BookOne(known, swept) /\ V = FittingBooks(known) /\ v = Booked(b, <<>>, known, swept)
    OBVIOUS
  <2>3. IsFold(V, F, b, <<>>, v)
    BY <2>1, <2>2, BookingFolds
  <2>4. v = b
    BY ONLY <2>3, FoldOfNothing
  <2> QED BY <2>2, <2>4
<1>2. ASSUME NEW reports \in Seq(Bookable), NEW r \in Bookable
      PROVE  LET x == Booked(b, reports, known, swept)
                 y == Booked(b, Append(reports, r), known, swept)
             IN /\ x \in FittingBooks(known) /\ y \in FittingBooks(known)
                /\ y = IF r.fill <= 0 THEN x ELSE RecordFill(x, r, known, swept)
  <2>0. PICK long : long = Append(reports, r)
    OBVIOUS
  <2>1. long = Append(reports, r) /\ long \in Seq(Bookable) /\ LongerBy(Bookable, long, reports, r)
    <3>1. Append(reports, r) \in Seq(Bookable)
      OBVIOUS
    <3> QED BY <2>0, <3>1 DEF LongerBy
  <2>2. PICK x, y : x = Booked(b, reports, known, swept) /\ y = Booked(b, long, known, swept)
    OBVIOUS
  <2>3. PICK F, V : F = BookOne(known, swept) /\ V = FittingBooks(known)
    OBVIOUS
  <2>4. IsFold(V, F, b, reports, x) /\ IsFold(V, F, b, long, y)
    BY <2>1, <2>2, <2>3, BookingFolds
  <2>5. x \in V /\ GoesTo(F, x, r, y)
    BY <2>1, <2>4, FoldGoesOn
  <2>6. y \in V
    BY <2>1, <2>4, FoldIsUnique
  <2> QED BY <2>1, <2>2, <2>3, <2>5, <2>6, BookOneIs DEF GoesTo
<1> QED BY <1>1, <1>2

-----------------------------------------------------------------------------
(***************************************************************************)
(* What the fills kept say was filled of an order.                         *)
(***************************************************************************)
\* The fill f is of the order entered under id with the number n.
IsOf(f, id, n) == f.id = id /\ f.seq > n

\* It adds its quantity.
AddFilled(id, n) ==
  [x \in Nat \X FillRecord |-> IF IsOf(x[2], id, n) THEN x[1] + x[2].qty ELSE x[1]]

\* A step of the sum.
LEMMA AddFilledIs ==
  ASSUME NEW id, NEW n, NEW F, F = AddFilled(id, n)
  PROVE  /\ IsStep(Nat, FillRecord, F)
         /\ \A v \in Nat, f \in FillRecord :
              GoesTo(F, v, f, IF IsOf(f, id, n) THEN v + f.qty ELSE v)
<1>1. \A f \in FillRecord : f.qty \in Nat
  BY DEF FillRecord, Positive
<1>2. \A x \in Nat \X FillRecord : (IF IsOf(x[2], id, n) THEN x[1] + x[2].qty ELSE x[1]) \in Nat
  <2> TAKE x \in Nat \X FillRecord
  <2>1. x[1] \in Nat /\ x[2] \in FillRecord
    OBVIOUS
  <2>2. x[2].qty \in Nat
    BY <1>1, <2>1
  <2> QED BY <2>1, <2>2
<1>3. IsStep(Nat, FillRecord, F)
  BY <1>2 DEF AddFilled, IsStep
<1>4. ASSUME NEW v \in Nat, NEW f \in FillRecord
      PROVE  GoesTo(F, v, f, IF IsOf(f, id, n) THEN v + f.qty ELSE v)
  <2>1. <<v, f>> \in Nat \X FillRecord
    OBVIOUS
  <2> QED BY <2>1, Zenon DEF AddFilled, GoesTo
<1> QED BY <1>3, <1>4

\* The sum is a fold.
LEMMA FilledFolds ==
  ASSUME NEW o, NEW list \in Seq(FillRecord)
  PROVE  IsFold(Nat, AddFilled(o.id, o.seq), 0, list, FilledOf(list, o))
<1> DEFINE S == DOMAIN list
           Sofar(sum, f) == IF f.id = o.id /\ f.seq > o.seq THEN sum + f.qty ELSE sum
           All(h) == [s \in SUBSET S |-> IF s = {} THEN 0 ELSE Sofar(h[s \ {Max(s)}], list[Max(s)])]
           h == CHOOSE h : h = All(h)
<1>0. Len(list) \in Nat /\ S = 1 .. Len(list) /\ \A i \in S : list[i] \in FillRecord
  OBVIOUS
<1>1. PICK F, id, n : F = AddFilled(id, n) /\ id = o.id /\ n = o.seq
  OBVIOUS
<1>2. IsStep(Nat, FillRecord, F) /\ \A v \in Nat, f \in FillRecord : F[v, f] = Sofar(v, f)
  <2>1. IsStep(Nat, FillRecord, F)
    BY <1>1, AddFilledIs
  <2>2. ASSUME NEW v \in Nat, NEW f \in FillRecord PROVE F[v, f] = Sofar(v, f)
    <3>1. GoesTo(F, v, f, IF IsOf(f, id, n) THEN v + f.qty ELSE v)
      BY <1>1, AddFilledIs
    <3> QED BY <1>1, <3>1 DEF IsOf, GoesTo
  <2> QED BY <2>1, <2>2
<1> HIDE DEF Sofar
<1>3. PICK g \in [SUBSET S -> Nat] : FoldsTo(F, 0, list, g)
  BY <1>2, FoldsExist
<1>4. ASSUME NEW s \in SUBSET S, s # {} PROVE Max(s) \in s /\ list[Max(s)] \in FillRecord
  <2>1. Max(s) \in s
    BY <1>0, <1>4, GreatestPosition
  <2> QED BY <1>0, <2>1
<1>5. g = All(g)
  <2>1. ASSUME NEW s \in SUBSET S
        PROVE  g[s] = IF s = {} THEN 0 ELSE Sofar(g[s \ {Max(s)}], list[Max(s)])
    <3>1. CASE s = {}
      BY <1>3, <3>1 DEF FoldsTo
    <3>2. CASE s # {}
      <4>1. Max(s) \in s /\ list[Max(s)] \in FillRecord /\ s \ {Max(s)} \in SUBSET S
        BY <1>4, <3>2
      <4>2. g[s \ {Max(s)}] \in Nat
        BY <4>1
      <4>3. g[s] = F[g[s \ {Max(s)}], list[Max(s)]]
        BY <1>3, <3>2 DEF FoldsTo
      <4> QED BY <1>2, <3>2, <4>1, <4>2, <4>3
    <3> QED BY <3>1, <3>2
  <2> QED BY <2>1
<1>6. h = All(h)
  BY <1>5
<1>7. FilledOf(list, o) = h[S]
  BY DEF FilledOf, FoldLeft, MapThenFoldSet, Sofar
<1>8. FoldsWhileTyped(Nat, F, 0, list, h)
  <2> SUFFICES ASSUME NEW s \in SUBSET S
               PROVE  /\ s = {} => h[s] = 0
                      /\ s # {} /\ h[s \ {Max(s)}] \in Nat => h[s] = F[h[s \ {Max(s)}], list[Max(s)]]
    BY DEF FoldsWhileTyped
  <2>1. h[s] = All(h)[s]
    BY <1>6
  <2> HIDE DEF h
  <2>2. h[s] = IF s = {} THEN 0 ELSE Sofar(h[s \ {Max(s)}], list[Max(s)])
    BY <2>1
  <2> QED BY <1>2, <1>4, <2>2
<1> HIDE DEF h
<1>9. IsFold(Nat, F, 0, list, h[S])
  <2>1. 0 \in Nat /\ list \in Seq(FillRecord)
    OBVIOUS
  <2> HIDE DEF S
  <2> QED BY ONLY <1>2, <1>8, <2>1, TypedFold DEF S
<1> QED BY <1>1, <1>7, <1>9

\* One fill more.
LEMMA FilledGoesOn ==
  ASSUME NEW o
  PROVE  /\ FilledOf(<<>>, o) = 0
         /\ \A list \in Seq(FillRecord) : FilledOf(list, o) \in Nat
         /\ \A list \in Seq(FillRecord), f \in FillRecord :
              FilledOf(Append(list, f), o) =
                FilledOf(list, o) + (IF IsOf(f, o.id, o.seq) THEN f.qty ELSE 0)
<1>1. PICK F, id, n : F = AddFilled(id, n) /\ id = o.id /\ n = o.seq
  OBVIOUS
<1>2. \A list \in Seq(FillRecord) : IsFold(Nat, F, 0, list, FilledOf(list, o))
  BY <1>1, FilledFolds
<1>3. FilledOf(<<>>, o) = 0
  <2>1. PICK v : v = FilledOf(<<>>, o)
    OBVIOUS
  <2>2. IsFold(Nat, F, 0, <<>>, v)
    <3>1. <<>> \in Seq(FillRecord)
      OBVIOUS
    <3> QED BY <1>2, <2>1, <3>1
  <2>3. v = 0
    BY ONLY <2>2, FoldOfNothing
  <2> QED BY <2>1, <2>3
<1>4. ASSUME NEW list \in Seq(FillRecord) PROVE FilledOf(list, o) \in Nat
  BY <1>2, FoldIsUnique
<1>5. ASSUME NEW list \in Seq(FillRecord), NEW f \in FillRecord
      PROVE  FilledOf(Append(list, f), o) = FilledOf(list, o) + (IF IsOf(f, o.id, o.seq) THEN f.qty ELSE 0)
  <2>0. PICK long : long = Append(list, f)
    OBVIOUS
  <2>1. long \in Seq(FillRecord) /\ LongerBy(FillRecord, long, list, f)
    <3>1. Append(list, f) \in Seq(FillRecord)
      OBVIOUS
    <3> QED BY <2>0, <3>1 DEF LongerBy
  <2>2. PICK v, w : v = FilledOf(list, o) /\ w = FilledOf(long, o)
    OBVIOUS
  <2>3. IsFold(Nat, F, 0, list, v) /\ IsFold(Nat, F, 0, long, w)
    BY <1>2, <2>1, <2>2
  <2>4. v \in Nat /\ w = F[v, f]
    <3>1. v \in Nat /\ GoesTo(F, v, f, w)
      BY ONLY <2>1, <2>3, FoldGoesOn
    <3> QED BY <3>1 DEF GoesTo
  <2>5. w = IF IsOf(f, id, n) THEN v + f.qty ELSE v
    <3>1. GoesTo(F, v, f, IF IsOf(f, id, n) THEN v + f.qty ELSE v)
      BY <1>1, <2>4, AddFilledIs
    <3> QED BY <2>4, <3>1 DEF GoesTo
  <2>6. f.qty \in Nat
    BY DEF FillRecord, Positive
  <2>7. w = v + (IF IsOf(f, id, n) THEN f.qty ELSE 0)
    BY <2>4, <2>5, <2>6
  <2> QED BY <1>1, <2>0, <2>2, <2>7, Zenon
<1> QED BY <1>3, <1>4, <1>5

\* It depends on the id and the number of the order alone.
LEMMA FilledOfSameEntry ==
  ASSUME NEW o, NEW p, o.id = p.id, o.seq = p.seq, NEW list \in Seq(FillRecord)
  PROVE  FilledOf(list, o) = FilledOf(list, p)
<1>1. PICK F : F = AddFilled(o.id, o.seq) /\ F = AddFilled(p.id, p.seq)
  OBVIOUS
<1>2. PICK v, w : v = FilledOf(list, o) /\ w = FilledOf(list, p)
  OBVIOUS
<1>3. IsFold(Nat, F, 0, list, v) /\ IsFold(Nat, F, 0, list, w)
  BY <1>1, <1>2, FilledFolds
<1>4. v = w
  BY ONLY <1>3, list \in Seq(FillRecord), FoldIsUnique
<1> QED BY <1>2, <1>4

\* Of an order younger than all of them they say nothing.
LEMMA NothingFilledYet ==
  ASSUME NEW o, NEW list \in Seq(FillRecord), \A i \in DOMAIN list : ~IsOf(list[i], o.id, o.seq)
  PROVE  FilledOf(list, o) = 0
<1> DEFINE None1(l) == \A i \in DOMAIN l : ~IsOf(l[i], o.id, o.seq)
           T == {n \in Nat : \A l \in Seq(FillRecord) : Len(l) = n /\ None1(l) => FilledOf(l, o) = 0}
<1>1. 0 \in T
  <2> SUFFICES ASSUME NEW l \in Seq(FillRecord), Len(l) = 0 PROVE FilledOf(l, o) = 0
    OBVIOUS
  <2>1. l = <<>>
    OBVIOUS
  <2> QED BY <2>1, FilledGoesOn
<1>2. ASSUME NEW n \in Nat, n \in T PROVE n + 1 \in T
  <2> SUFFICES ASSUME NEW l \in Seq(FillRecord), Len(l) = n + 1, None1(l) PROVE FilledOf(l, o) = 0
    OBVIOUS
  <2>1. PICK k : k = SubSeq(l, 1, n)
    OBVIOUS
  <2>2. /\ k \in Seq(FillRecord) /\ Len(k) = n /\ DOMAIN k = 1 .. n /\ DOMAIN l = 1 .. n + 1
        /\ l[n + 1] \in FillRecord /\ \A i \in 1 .. n : k[i] = l[i]
    BY <2>1
  <2>3. PICK f \in FillRecord : l = Append(k, f) /\ f = l[n + 1]
    BY <2>2
  <2>4. None1(k) /\ ~IsOf(l[n + 1], o.id, o.seq)
    <3>1. \A i \in 1 .. n : i \in 1 .. n + 1
      OBVIOUS
    <3> HIDE DEF None1
    <3>2. \A i \in 1 .. n + 1 : ~IsOf(l[i], o.id, o.seq)
      BY <2>2 DEF None1
    <3>3. n + 1 \in 1 .. n + 1
      OBVIOUS
    <3> QED BY <2>2, <3>1, <3>2, <3>3 DEF None1
  <2>5. FilledOf(k, o) = 0
    BY <1>2, <2>2, <2>4
  <2>6. FilledOf(l, o) = FilledOf(k, o) + 0
    BY <2>2, <2>3, <2>4, FilledGoesOn
  <2> QED BY <2>5, <2>6
<1>3. Nat \subseteq T
  <2> HIDE DEF T
  <2> QED BY <1>1, <1>2, Climbs
<1>4. Len(list) \in T
  BY <1>3
<1> QED BY <1>4

-----------------------------------------------------------------------------
(***************************************************************************)
(* The ledger and the engine.                                              *)
(***************************************************************************)
\* What the books are to be once the running operation is booked.
WouldBe == IF ctl = "idle" THEN Held ELSE Booked(Held, batch.reports, marks, ctl = "sweep")

\* Positions are what ticks have filled.
Balanced(b) == \A s \in Products : HeldOf(b, s).qty = b.external[s]

\* The size filled of an order is that of its fills.
SizeIs(list, o) == o.orig - o.rem = FilledOf(list, o)

SizesMatch(list) ==
  /\ \A s \in Products, d \in Sides, p \in Ticks : \A i \in DOMAIN queue[s][d][p] :
       SizeIs(list, queue[s][d][p][i])
  /\ ctl = "match" => SizeIs(list, incoming)

\* The same, after a step.
SizesAfter(list) ==
  /\ \A s \in Products, d \in Sides, p \in Ticks : \A i \in DOMAIN queue'[s][d][p] :
       SizeIs(list, queue'[s][d][p][i])
  /\ ctl' = "match" => SizeIs(list, incoming')

\* The inductive invariant.
LedgerInv ==
  /\ IInv /\ SoundInv
  /\ marks \in KnownMarks /\ batch.reports \in Seq(Bookable)
  /\ Held \in FittingBooks(marks) /\ WouldBe \in FittingBooks(marks)
  /\ Ordered(Held.fills, sequence) /\ Ordered(WouldBe.fills, sequence)
  /\ Balanced(Held) /\ Balanced(WouldBe)
  /\ ~WouldBe.lost => SizesMatch(WouldBe.fills)

\* The books after the reports of a step.
BookedNext == Booked(Held, batch'.reports, marks, ctl = "sweep")

\* Numbers drawn later leave the order of the fills.
LEMMA OrderedLater ==
  ASSUME NEW list \in Seq(FillRecord), NEW n \in Nat, NEW k \in Nat, k >= n, Ordered(list, n)
  PROVE  Ordered(list, k)
<1>1. \A i \in DOMAIN list : list[i] \in FillRecord
  OBVIOUS
<1>2. \A i \in DOMAIN list : list[i].seq \in Nat /\ list[i].seq <= n
  BY <1>1 DEF FillRecord, Ordered
<1>3. \A i \in DOMAIN list : list[i].seq <= k
  BY <1>2
<1> QED BY <1>3 DEF Ordered

\* Books have their five parts.
LEMMA PartsOfBooks ==
  ASSUME NEW b \in BookSet
  PROVE  /\ b = [fills |-> b.fills, positions |-> b.positions, cash |-> b.cash,
                 external |-> b.external, lost |-> b.lost]
         /\ b.fills \in Seq(FillRecord)
  BY DEF BookSet

\* What is to be shown of a step of the engine: the books that come of it.
LEMMA BookStep ==
  ASSUME LedgerInv, IInv', SoundInv', Book, batch'.reports \in Seq(Bookable), sequence' >= sequence,
         ctl' # "idle" => (ctl' = "sweep" <=> ctl = "sweep"),
         BookedNext \in FittingBooks(marks), Ordered(BookedNext.fills, sequence'), Balanced(BookedNext),
         ~BookedNext.lost => SizesAfter(BookedNext.fills)
  PROVE  LedgerInv'
<1>1. PICK b : b = BookedNext
  OBVIOUS
<1>2. /\ b \in FittingBooks(marks) /\ b \in BookSet /\ Ordered(b.fills, sequence') /\ Balanced(b)
      /\ (~b.lost => SizesAfter(b.fills))
  BY <1>1 DEF FittingBooks, SettledBooks
<1>3. sequence \in Nat /\ sequence' \in Nat
  BY DEF LedgerInv, IInv, TypeOK
<1>4. CASE ctl' = "idle"
  <2>1. /\ fills' = b.fills /\ positions' = b.positions /\ cash' = b.cash
        /\ external' = b.external /\ lost' = b.lost /\ marks' = marks
    BY <1>1, <1>4 DEF Book, ApplyBatch, BookedNext
  <2>2. Held' = b
    BY <1>2, <2>1, PartsOfBooks DEF Held
  <2>3. WouldBe' = b
    BY <1>4, <2>2 DEF WouldBe
  <2>4. (~WouldBe.lost => SizesMatch(WouldBe.fills))'
    BY <1>2, <2>3 DEF SizesAfter, SizesMatch
  <2>5. Balanced(Held)' /\ Balanced(WouldBe)'
    BY <1>2, <2>2, <2>3 DEF Balanced
  <2>6. Held' \in FittingBooks(marks') /\ WouldBe' \in FittingBooks(marks') /\ marks' \in KnownMarks
    BY <1>2, <2>1, <2>2, <2>3 DEF LedgerInv
  <2>7. Ordered(Held.fills, sequence)' /\ Ordered(WouldBe.fills, sequence)'
    BY <1>2, <2>2, <2>3 DEF Ordered
  <2> QED BY <2>4, <2>5, <2>6, <2>7 DEF LedgerInv
<1>5. CASE ctl' # "idle"
  <2>1. /\ fills' = fills /\ positions' = positions /\ cash' = cash
        /\ external' = external /\ lost' = lost /\ marks' = marks
    BY <1>5 DEF Book, books
  <2>2. Held' = Held
    BY <2>1 DEF Held
  <2>3. WouldBe' = b
    <3>1. (ctl' = "sweep") = (ctl = "sweep")
      BY <1>5
    <3>2. WouldBe' = Booked(Held', batch'.reports, marks', ctl' = "sweep")
      BY <1>5 DEF WouldBe
    <3> QED BY <1>1, <2>1, <2>2, <3>1, <3>2 DEF BookedNext
  <2>4. (~WouldBe.lost => SizesMatch(WouldBe.fills))'
    BY <1>2, <2>3 DEF SizesAfter, SizesMatch
  <2>5. Balanced(Held)' /\ Balanced(WouldBe)'
    BY <1>2, <2>2, <2>3 DEF Balanced, LedgerInv
  <2>6. Held' \in FittingBooks(marks') /\ WouldBe' \in FittingBooks(marks') /\ marks' \in KnownMarks
    BY <1>2, <2>1, <2>2, <2>3 DEF LedgerInv
  <2>7. Ordered(Held.fills, sequence)' /\ Ordered(WouldBe.fills, sequence)'
    <3>1. Held.fills \in Seq(FillRecord) /\ Ordered(Held.fills, sequence)
      BY PartsOfBooks DEF LedgerInv, FittingBooks, SettledBooks
    <3>2. Ordered(Held.fills, sequence')
      BY <1>3, <3>1, OrderedLater
    <3> QED BY <1>2, <2>2, <2>3, <3>2
  <2> QED BY <2>4, <2>5, <2>6, <2>7 DEF LedgerInv
<1> QED BY <1>4, <1>5

\* A report that carries no fill is booked as nothing.
LEMMA QuietReport ==
  ASSUME LedgerInv, NEW reports \in Seq(Bookable), NEW r \in Report, r.fill = 0, NEW swept \in BOOLEAN
  PROVE  /\ r \in Bookable /\ Append(reports, r) \in Seq(Bookable)
         /\ Booked(Held, Append(reports, r), marks, swept) = Booked(Held, reports, marks, swept)
         /\ Booked(Held, <<>>, marks, swept) = Held
<1>1. r \in Bookable
  BY DEF Bookable
<1>2. marks \in KnownMarks /\ Held \in FittingBooks(marks)
  BY DEF LedgerInv
<1> QED BY <1>1, <1>2, BookingGoesOn

\* The order o was in the book, or was being matched.
IsTracked(o) ==
  \/ \E s \in Products, d \in Sides, p \in Ticks : \E i \in DOMAIN queue[s][d][p] :
       o = queue[s][d][p][i]
  \/ ctl = "match" /\ o = incoming

\* A step that fills nothing.
Quiet ==
  /\ batch'.reports \in Seq(Bookable) /\ BookedNext = WouldBe /\ sequence' >= sequence
  /\ \A s \in Products, d \in Sides, p \in Ticks : \A i \in DOMAIN queue'[s][d][p] :
       IsTracked(queue'[s][d][p][i])
  /\ ctl' = "match" => incoming'.seq > sequence /\ incoming'.orig = incoming'.rem
  /\ ctl' = "sweep" => ctl = "sweep"
  /\ ctl = "sweep" => ctl' \in {"sweep", "idle"}

\* It leaves the books as they were to be.
LEMMA QuietStep ==
  ASSUME LedgerInv, IInv', SoundInv', Book, Quiet
  PROVE  LedgerInv'
<1>1. PICK b : b = WouldBe /\ BookedNext = b
  BY DEF Quiet
<1>2. sequence \in Nat /\ sequence' \in Nat /\ sequence' >= sequence
  BY DEF LedgerInv, IInv, TypeOK, Quiet
<1>3. /\ b \in FittingBooks(marks) /\ Ordered(b.fills, sequence) /\ Balanced(b)
      /\ (~b.lost => SizesMatch(b.fills))
  BY <1>1 DEF LedgerInv
<1>4. b.fills \in Seq(FillRecord)
  BY <1>3, PartsOfBooks DEF FittingBooks, SettledBooks
<1>5. Ordered(b.fills, sequence')
  BY <1>2, <1>3, <1>4, OrderedLater
<1>6. ASSUME ~b.lost PROVE SizesAfter(b.fills)
  <2>1. \A o : IsTracked(o) => SizeIs(b.fills, o)
    BY <1>3, <1>6 DEF IsTracked, SizesMatch
  <2>2. ASSUME ctl' = "match" PROVE SizeIs(b.fills, incoming')
    <3>1. PICK o : o = incoming'
      OBVIOUS
    <3>2. o.seq > sequence /\ o.orig = o.rem /\ o.seq \in Nat /\ o.rem \in Nat
      <4>1. o \in Order
        BY <2>2, <3>1 DEF IInv, TypeOK
      <4> QED BY <2>2, <3>1, <4>1 DEF Quiet, Order
    <3>3. \A i \in DOMAIN b.fills : ~IsOf(b.fills[i], o.id, o.seq)
      <4>1. \A i \in DOMAIN b.fills : b.fills[i] \in FillRecord
        BY <1>4
      <4>2. \A i \in DOMAIN b.fills : b.fills[i].seq \in Nat /\ b.fills[i].seq <= sequence
        BY <1>3, <4>1 DEF Ordered, FillRecord
      <4>3. \A i \in DOMAIN b.fills : ~(b.fills[i].seq > o.seq)
        BY <1>2, <3>2, <4>2
      <4> QED BY <4>3 DEF IsOf
    <3>4. FilledOf(b.fills, o) = 0
      BY <1>4, <3>3, NothingFilledYet
    <3>5. o.orig - o.rem = 0
      BY <3>2
    <3> QED BY <3>1, <3>4, <3>5 DEF SizeIs
  <2>3. \A s \in Products, d \in Sides, p \in Ticks : \A i \in DOMAIN queue'[s][d][p] :
          SizeIs(b.fills, queue'[s][d][p][i])
    BY <2>1 DEF Quiet
  <2> QED BY <2>2, <2>3 DEF SizesAfter
<1>7. ctl' # "idle" => (ctl' = "sweep" <=> ctl = "sweep")
  BY DEF Quiet
<1> QED BY <1>1, <1>2, <1>3, <1>5, <1>6, <1>7, BookStep DEF Quiet

\* Two in a row.
LEMMA PairOf ==
  ASSUME NEW S, NEW r \in S, NEW e \in S
  PROVE  Append(<<r>>, e) = <<r, e>>
<1>1. /\ Append(<<r>>, e) \in Seq(S) /\ Len(Append(<<r>>, e)) = 2
      /\ Append(<<r>>, e)[1] = r /\ Append(<<r>>, e)[2] = e
  OBVIOUS
<1>2. PICK two : two = Append(<<r>>, e)
  OBVIOUS
<1>3. two \in Seq(S) /\ Len(two) = 2 /\ two[1] = r /\ two[2] = e
  BY <1>1, <1>2
<1>4. two = <<r, e>>
  BY <1>3
<1> QED BY <1>2, <1>4

\* An operation that begins with reports of no fill.
LEMMA BeginsQuietly ==
  ASSUME LedgerInv, ctl = "idle", NEW r \in Report, r.fill = 0, NEW e \in Report, e.fill = 0,
         batch'.reports = <<r>> \/ batch'.reports = <<r, e>>
  PROVE  batch'.reports \in Seq(Bookable) /\ BookedNext = WouldBe
<1>1. PICK swept \in BOOLEAN : swept = (ctl = "sweep")
  OBVIOUS
<1>2. <<>> \in Seq(Bookable) /\ <<r>> = Append(<<>>, r) /\ <<r, e>> = Append(<<r>>, e)
  OBVIOUS
<1>3. <<r>> \in Seq(Bookable) /\ Booked(Held, <<r>>, marks, swept) = Held
  BY <1>2, QuietReport
<1>4. <<r, e>> \in Seq(Bookable) /\ Booked(Held, <<r, e>>, marks, swept) = Held
  <2>1. PICK one \in Seq(Bookable) : one = <<r>>
    BY <1>3
  <2>2. Append(one, e) \in Seq(Bookable) /\ Booked(Held, Append(one, e), marks, swept) = Booked(Held, one, marks, swept)
    BY QuietReport
  <2> QED BY <1>2, <1>3, <2>1, <2>2
<1>5. WouldBe = Held
  BY DEF WouldBe
<1>6. CASE batch'.reports = <<r>>
  BY <1>1, <1>3, <1>5, <1>6 DEF BookedNext
<1>7. CASE batch'.reports = <<r, e>>
  BY <1>1, <1>4, <1>5, <1>7 DEF BookedNext
<1> QED BY <1>6, <1>7

\* An order that is taken or refused fills nothing yet.
LEMMA SubmitIsQuiet ==
  ASSUME LedgerInv, IInv', NEW c \in Command, SubmitOrder(c)
  PROVE  Quiet
<1>1. ctl = "idle" /\ queue' = queue /\ sequence \in Nat
  BY DEF SubmitOrder, Ready, LedgerInv, IInv, TypeOK
<1>2. \A s \in Products, d \in Sides, p \in Ticks : \A i \in DOMAIN queue'[s][d][p] : IsTracked(queue'[s][d][p][i])
  BY <1>1 DEF IsTracked
<1>3. CASE Bounce(c, sequence, EmptyBatch)
  <2>1. PICK r : r = Reject(c.id, sequence + 1)
    OBVIOUS
  <2>2. r \in Report /\ r.fill = 0
    <3>1. c.id \in Ids \cup {NoId} /\ sequence + 1 \in Nat
      BY <1>1 DEF Command
    <3> QED BY <2>1, <3>1, ReportTypes DEF Reject
  <2>3. batch'.reports = <<r>> /\ sequence' = sequence + 1 /\ ctl' = "idle"
    BY <1>1, <1>3, <2>1 DEF Bounce, EmptyBatch
  <2> QED BY <1>1, <1>2, <2>2, <2>3, BeginsQuietly DEF Quiet
<1>4. CASE Enter(c, sequence, EmptyBatch)
  <2>1. incoming' = OrderOf(c, sequence + 1) /\ ctl' = "match" /\ sequence' = sequence + 2
    BY <1>4 DEF Enter
  <2>2. incoming' \in Order
    BY <2>1 DEF IInv, TypeOK
  <2>3. PICK r : r = ReportFor(incoming', "accepted", sequence + 2)
    OBVIOUS
  <2>4. r \in Report /\ r.fill = 0
    <3>1. sequence + 2 \in Nat
      BY <1>1
    <3> QED BY <2>2, <2>3, <3>1, ReportTypes DEF ReportFor
  <2>5. batch'.reports = <<r>>
    BY <1>4, <2>1, <2>3 DEF Enter, EmptyBatch
  <2>6. incoming'.seq > sequence /\ incoming'.orig = incoming'.rem
    BY <1>1, <2>1 DEF OrderOf
  <2> QED BY <1>1, <1>2, <2>1, <2>4, <2>5, <2>6, BeginsQuietly DEF Quiet
<1> QED BY <1>3, <1>4 DEF SubmitOrder

\* What a removal leaves was there.
LEMMA RemovalLeavesTracked ==
  ASSUME IInv, NEW id \in Ids, id \in Registered, RemoveRegistered(id)
  PROVE  \A s \in Products, d \in Sides, p \in Ticks : \A i \in DOMAIN queue'[s][d][p] :
           IsTracked(queue'[s][d][p][i])
<1>1. BookInv
  BY DEF IInv
<1>2. PICK s \in Products, d \in Sides, p \in Ticks :
             /\ registry[id] = [sym |-> s, side |-> d, px |-> p]
             /\ \E i \in DOMAIN queue[s][d][p] : queue[s][d][p][i].id = id
  BY <1>1, LocationFacts DEF Registered
<1>3. registry[id].sym = s /\ registry[id].side = d /\ registry[id].px = p
  BY <1>2
<1>4. PICK q : q = queue[s][d][p]
  OBVIOUS
<1>5. PICK k \in DOMAIN q : k = PositionOf(id, q)
  BY <1>2, <1>4 DEF PositionOf
<1>6. q \in Seq(Order) /\ queue \in [Products -> [Sides -> [Ticks -> Seq(Order)]]]
  BY <1>4 DEF IInv, TypeOK
<1>7. queue' = SetLevel(s, d, p, RemoveAt(q, k))
  BY <1>3, <1>4, <1>5 DEF RemoveRegistered, LevelWithout
<1>8. /\ RemoveAt(q, k) \in Seq(Order) /\ DOMAIN RemoveAt(q, k) = 1 .. Len(q) - 1
      /\ \A j \in DOMAIN RemoveAt(q, k) : RemoveAt(q, k)[j] = q[IF j < k THEN j ELSE j + 1]
  BY <1>6, RemoveAtQueue
<1>9. \A j \in DOMAIN RemoveAt(q, k) : \E i \in DOMAIN q : RemoveAt(q, k)[j] = q[i]
  <2> TAKE j \in DOMAIN RemoveAt(q, k)
  <2>1. Len(q) \in Nat /\ DOMAIN q = 1 .. Len(q) /\ j \in 1 .. Len(q) - 1
    BY <1>6, <1>8
  <2>2. (IF j < k THEN j ELSE j + 1) \in DOMAIN q
    BY <2>1
  <2> QED BY <1>8, <2>2
<1>10. /\ queue'[s][d][p] = RemoveAt(q, k)
       /\ \A s2 \in Products, d2 \in Sides, p2 \in Ticks :
            <<s2, d2, p2>> # <<s, d, p>> => queue'[s2][d2][p2] = queue[s2][d2][p2]
  BY <1>6, <1>7, <1>8, SetLevelLookup
<1>11. ASSUME NEW s2 \in Products, NEW d2 \in Sides, NEW p2 \in Ticks, NEW i \in DOMAIN queue'[s2][d2][p2]
       PROVE  IsTracked(queue'[s2][d2][p2][i])
  <2>1. CASE <<s2, d2, p2>> = <<s, d, p>>
    <3>1. s2 = s /\ d2 = d /\ p2 = p
      BY <2>1
    <3>2. PICK j \in DOMAIN queue[s][d][p] : queue'[s][d][p][i] = queue[s][d][p][j]
      BY <1>4, <1>9, <1>10, <1>11, <3>1
    <3> QED BY <3>1, <3>2 DEF IsTracked
  <2>2. CASE <<s2, d2, p2>> # <<s, d, p>>
    BY <1>10, <1>11, <2>2 DEF IsTracked
  <2> QED BY <2>1, <2>2
<1> QED BY <1>11

\* A cancel fills nothing.
LEMMA CancelIsQuiet ==
  ASSUME LedgerInv, IInv', NEW id \in Ids, CancelOrder(id)
  PROVE  Quiet
<1>1. ctl = "idle" /\ ctl' = "idle" /\ sequence \in Nat /\ IInv /\ BookInv /\ sequence' = sequence + 1
  BY DEF CancelOrder, Ready, UnknownOrder, LedgerInv, IInv, TypeOK
<1>2. sequence + 1 \in Nat /\ sequence + 1 >= sequence
  BY <1>1
<1>3. CASE UnknownOrder(id)
  <2>1. PICK r : r = Reject(id, sequence + 1)
    OBVIOUS
  <2>2. r \in Report /\ r.fill = 0
    BY <1>2, <2>1, ReportTypes DEF Reject
  <2>3. batch'.reports = <<r>> /\ queue' = queue
    BY <1>3, <2>1 DEF UnknownOrder, EmptyBatch
  <2>4. \A s \in Products, d \in Sides, p \in Ticks : \A i \in DOMAIN queue'[s][d][p] : IsTracked(queue'[s][d][p][i])
    BY <2>3 DEF IsTracked
  <2> QED BY <1>1, <1>2, <2>2, <2>3, <2>4, BeginsQuietly DEF Quiet
<1>4. CASE ~UnknownOrder(id)
  <2>1. /\ id \in Registered /\ RemoveRegistered(id)
        /\ batch'.reports = <<ReportFor(RegisteredOrder(id), "cancelled", sequence + 1)>>
    BY <1>4 DEF CancelOrder
  <2>2. RegisteredOrder(id) \in Order
    BY <1>1, <1>2, <2>1, RemovalStep
  <2>3. PICK r : r = ReportFor(RegisteredOrder(id), "cancelled", sequence + 1)
    OBVIOUS
  <2>4. r \in Report /\ r.fill = 0
    BY <1>2, <2>2, <2>3, ReportTypes DEF ReportFor
  <2> QED BY <1>1, <1>2, <2>1, <2>3, <2>4, BeginsQuietly, RemovalLeavesTracked DEF Quiet
<1> QED BY <1>3, <1>4

\* Nor does a replace, up to the match of the new order.
LEMMA ReplaceIsQuiet ==
  ASSUME LedgerInv, IInv', NEW id \in Ids, NEW px \in RawPrices \cup {None, NaN},
         NEW qty \in Quantities \cup {None}, ReplaceOrder(id, px, qty)
  PROVE  Quiet
<1>1. ctl = "idle" /\ sequence \in Nat /\ IInv /\ BookInv
  BY DEF ReplaceOrder, Ready, LedgerInv, IInv, TypeOK
<1>2. sequence + 1 \in Nat /\ sequence + 1 >= sequence /\ sequence + 3 \in Nat /\ sequence + 3 >= sequence
      /\ sequence + 2 \in Nat /\ sequence + 2 >= sequence
  BY <1>1
<1>3. CASE UnknownOrder(id)
  <2>1. PICK r : r = Reject(id, sequence + 1)
    OBVIOUS
  <2>2. r \in Report /\ r.fill = 0
    BY <1>2, <2>1, ReportTypes DEF Reject
  <2>3. batch'.reports = <<r>> /\ queue' = queue /\ ctl' = "idle" /\ sequence' = sequence + 1
    BY <1>1, <1>3, <2>1 DEF UnknownOrder, EmptyBatch
  <2>4. \A s \in Products, d \in Sides, p \in Ticks : \A i \in DOMAIN queue'[s][d][p] : IsTracked(queue'[s][d][p][i])
    BY <2>3 DEF IsTracked
  <2> QED BY <1>1, <1>2, <2>2, <2>3, <2>4, BeginsQuietly DEF Quiet
<1>4. CASE ~UnknownOrder(id)
  <2> DEFINE old == RegisteredOrder(id)
             c == Amended(old, px, qty)
             n == sequence + 1
             before == [reports |-> <<ReportFor(old, "replaced", n)>>,
                        deltas |-> <<RemovalDelta(id)>>]
  <2>1. /\ id \in Registered /\ RemoveRegistered(id)
        /\ \/ Bounce(c, n, before)
           \/ ~Refused(c, Registered \ {id}) /\ Enter(c, n, before)
    BY <1>4 DEF ReplaceOrder
  <2>2. sequence' \in Nat /\ sequence' >= sequence
    BY <1>1, <1>2, <2>1 DEF Bounce, Enter
  <2>3. old \in Order /\ old.id = id
    BY <1>1, <2>1, <2>2, RemovalStep
  <2>4. PICK r : r = ReportFor(old, "replaced", n)
    OBVIOUS
  <2>5. r \in Report /\ r.fill = 0
    BY <1>2, <2>3, <2>4, ReportTypes DEF ReportFor
  <2>6. before.reports = <<r>> /\ c.id = id
    BY <2>3, <2>4 DEF Amended
  <2>0. \A R : [before EXCEPT !.reports = R].reports = R
    OBVIOUS
  <2>7. CASE Bounce(c, n, before)
    <3>1. PICK e : e = Reject(id, sequence + 2)
      OBVIOUS
    <3>2. e \in Report /\ e.fill = 0
      BY <1>2, <3>1, ReportTypes DEF Reject
    <3>3. n + 1 = sequence + 2
      BY <1>1
    <3>4. batch'.reports = <<r, e>> /\ ctl' = "idle"
      <4> HIDE DEF before, c
      <4>1. batch' = [before EXCEPT !.reports = Append(before.reports, Reject(c.id, n + 1))] /\ ctl' = ctl
        BY <2>7 DEF Bounce
      <4>2. batch'.reports = Append(before.reports, Reject(c.id, n + 1))
        BY <2>0, <4>1
      <4>3. Append(<<r>>, e) = <<r, e>>
        BY <2>5, <3>2, PairOf
      <4> QED BY <1>1, <2>6, <3>1, <3>3, <4>1, <4>2, <4>3
    <3> QED BY <1>1, <2>1, <2>2, <2>5, <3>2, <3>4, BeginsQuietly, RemovalLeavesTracked DEF Quiet
  <2>8. CASE Enter(c, n, before)
    <3>1. ctl' = "match" /\ incoming' = OrderOf(c, sequence + 2)
      <4>1. n + 1 = sequence + 2
        BY <1>1
      <4> QED BY <2>8, <4>1 DEF Enter
    <3>2. incoming' \in Order
      BY <3>1 DEF IInv, TypeOK
    <3>3. PICK e : e = ReportFor(incoming', "accepted", sequence + 3)
      OBVIOUS
    <3>4. e \in Report /\ e.fill = 0
      BY <1>2, <3>2, <3>3, ReportTypes DEF ReportFor
    <3>5. n + 1 = sequence + 2 /\ n + 2 = sequence + 3
      BY <1>1
    <3>6. batch'.reports = <<r, e>>
      <4> HIDE DEF before, c
      <4>1. batch' = [before EXCEPT !.reports = Append(before.reports, ReportFor(OrderOf(c, n + 1), "accepted", n + 2))]
            /\ incoming' = OrderOf(c, n + 1)
        BY <2>8 DEF Enter
      <4>2. batch'.reports = Append(before.reports, ReportFor(OrderOf(c, n + 1), "accepted", n + 2))
        BY <2>0, <4>1
      <4>3. Append(<<r>>, e) = <<r, e>>
        BY <2>5, <3>4, PairOf
      <4> QED BY <2>6, <3>3, <3>5, <4>1, <4>2, <4>3
    <3>7. incoming'.seq > sequence /\ incoming'.orig = incoming'.rem
      BY <1>1, <3>1 DEF OrderOf
    <3> QED BY <1>1, <2>1, <2>2, <2>5, <3>1, <3>4, <3>6, <3>7, BeginsQuietly, RemovalLeavesTracked DEF Quiet
  <2> QED BY <2>1, <2>7, <2>8
<1> QED BY <1>3, <1>4

\* The end of a sweep fills nothing more.
LEMMA FinishSweepIsQuiet ==
  ASSUME LedgerInv, FinishSweep
  PROVE  Quiet
<1>1. ctl = "sweep" /\ ctl' = "idle" /\ queue' = queue /\ batch' = batch /\ sequence' = sequence /\ sequence \in Nat
  BY DEF FinishSweep, LedgerInv, IInv, TypeOK
<1>2. BookedNext = WouldBe /\ batch'.reports \in Seq(Bookable)
  BY <1>1 DEF BookedNext, WouldBe, LedgerInv
<1> QED BY <1>1, <1>2 DEF Quiet, IsTracked

\* Nor does the end of a match, which may rest the order.
LEMMA FinishIsQuiet ==
  ASSUME LedgerInv, FinishIncoming
  PROVE  Quiet
<1>1. /\ ctl = "match" /\ ctl' = "idle" /\ incoming \in Order /\ sequence \in Nat
      /\ queue \in [Products -> [Sides -> [Ticks -> Seq(Order)]]]
  BY DEF FinishIncoming, LedgerInv, IInv, TypeOK
<1>2. PICK swept \in BOOLEAN : swept = (ctl = "sweep")
  OBVIOUS
<1>3. /\ batch.reports \in Seq(Bookable) /\ WouldBe = Booked(Held, batch.reports, marks, swept)
      /\ batch \in [reports : Seq(Report), deltas : Seq(Delta)]
  BY <1>1, <1>2 DEF LedgerInv, WouldBe, SoundInv, Sound
<1>4. ASSUME NEW r \in Report, r.fill = 0, batch'.reports = Append(batch.reports, r)
      PROVE  batch'.reports \in Seq(Bookable) /\ BookedNext = WouldBe
  BY <1>2, <1>3, <1>4, QuietReport DEF BookedNext
<1>5. \A status \in {"accepted", "working", "cancelled", "replaced"} :
        ReportFor(incoming, status, sequence + 1) \in Report /\ ReportFor(incoming, status, sequence + 1).fill = 0
  <2>1. sequence + 1 \in Nat
    BY <1>1
  <2> QED BY <1>1, <2>1, ReportTypes DEF ReportFor
<1>6. CASE RestOrder
  <2>1. PICK q : q = queue[incoming.sym][incoming.side][incoming.px]
    OBVIOUS
  <2>2. incoming.sym \in Products /\ incoming.side \in Sides /\ incoming.px \in Ticks
    BY <1>1 DEF Order
  <2>3. q \in Seq(Order)
    BY <1>1, <2>1, <2>2
  <2>4. queue' = SetLevel(incoming.sym, incoming.side, incoming.px, Append(q, incoming))
    BY <1>6, <2>1 DEF RestOrder, Enqueue
  <2>5. PICK s \in Products, d \in Sides, p \in Ticks : s = incoming.sym /\ d = incoming.side /\ p = incoming.px
    BY <2>2
  <2>6. Append(q, incoming) \in Seq(Order)
    BY <1>1, <2>3
  <2>7. /\ queue'[s][d][p] = Append(q, incoming)
        /\ \A s2 \in Products, d2 \in Sides, p2 \in Ticks :
             <<s2, d2, p2>> # <<s, d, p>> => queue'[s2][d2][p2] = queue[s2][d2][p2]
    <3>1. queue' = SetLevel(s, d, p, Append(q, incoming))
      BY <2>4, <2>5
    <3>2. PICK long \in Seq(Order) : long = Append(q, incoming)
      BY <2>6
    <3>3. queue' = SetLevel(s, d, p, long)
      BY <3>1, <3>2
    <3>4. /\ queue'[s][d][p] = long
          /\ \A s2 \in Products, d2 \in Sides, p2 \in Ticks :
               <<s2, d2, p2>> # <<s, d, p>> => queue'[s2][d2][p2] = queue[s2][d2][p2]
      BY <1>1, <3>3, LevelChange
    <3> QED BY <3>2, <3>4
  <2>8. ASSUME NEW s2 \in Products, NEW d2 \in Sides, NEW p2 \in Ticks, NEW i \in DOMAIN queue'[s2][d2][p2]
        PROVE  IsTracked(queue'[s2][d2][p2][i])
    <3>1. CASE <<s2, d2, p2>> = <<s, d, p>>
      <4>1. s2 = s /\ d2 = d /\ p2 = p
        BY <3>1
      <4>2. i \in 1 .. Len(q) + 1 /\ Len(q) \in Nat
        BY <1>1, <2>3, <2>7, <2>8, <4>1
      <4>3. CASE i \in 1 .. Len(q)
        <5>1. queue'[s][d][p][i] = q[i] /\ i \in DOMAIN q
          BY <1>1, <2>3, <2>7, <4>3
        <5> QED BY <2>1, <2>5, <4>1, <5>1 DEF IsTracked
      <4>4. CASE i = Len(q) + 1
        <5>1. queue'[s][d][p][i] = incoming
          BY <1>1, <2>3, <2>7, <4>4
        <5> QED BY <1>1, <4>1, <5>1 DEF IsTracked
      <4> QED BY <4>2, <4>3, <4>4
    <3>2. CASE <<s2, d2, p2>> # <<s, d, p>>
      BY <2>7, <2>8, <3>2 DEF IsTracked
    <3> QED BY <3>1, <3>2
  <2>9. batch'.reports = Append(batch.reports, ReportFor(incoming, "working", sequence + 1)) /\ sequence' = sequence + 1
    BY <1>6 DEF RestOrder
  <2>10. batch'.reports \in Seq(Bookable) /\ BookedNext = WouldBe
    BY <1>4, <1>5, <2>9
  <2> QED BY <1>1, <2>8, <2>9, <2>10 DEF Quiet
<1>7. CASE ~RestOrder
  <2>1. queue' = queue /\ sequence' \in {sequence, sequence + 1}
    BY <1>7 DEF FinishIncoming
  <2>2. batch'.reports \in Seq(Bookable) /\ BookedNext = WouldBe
    <3>1. CASE batch' = batch
      BY <1>2, <1>3, <3>1 DEF BookedNext
    <3>2. CASE batch' = [batch EXCEPT !.reports = Append(@, ReportFor(incoming, "cancelled", sequence + 1))]
      <4>1. PICK r : r = ReportFor(incoming, "cancelled", sequence + 1)
        OBVIOUS
      <4>2. batch'.reports = Append(batch.reports, r)
        BY <1>3, <3>2, <4>1
      <4> QED BY <1>4, <1>5, <4>1, <4>2
    <3> QED BY <1>7, <3>1, <3>2 DEF FinishIncoming
  <2>3. sequence' >= sequence
    BY <1>1, <2>1
  <2> QED BY <1>1, <2>1, <2>2, <2>3 DEF Quiet, IsTracked
<1> QED BY <1>6, <1>7

\* What the report r of a fill adds to the size filled of the order o.
FilledBy(r, o) == IF r.id = o.id /\ r.seq > o.seq THEN r.fill ELSE 0

\* A fill with a new number, booked.
LEMMA RecordedFill ==
  ASSUME NEW known \in KnownMarks, NEW b \in FittingBooks(known), NEW n \in Nat, Ordered(b.fills, n),
         NEW r \in Bookable, r.fill > 0, r.seq > n, NEW swept \in BOOLEAN,
         NEW c, c = RecordFill(b, r, known, swept)
  PROVE  /\ Ordered(c.fills, r.seq)
         /\ ~c.lost => ~b.lost /\ \A o : FilledOf(c.fills, o) = FilledOf(b.fills, o) + FilledBy(r, o)
<1>1. b \in SettledBooks(known) /\ Len(b.fills) <= MaxFills /\ b.fills \in Seq(FillRecord)
  BY DEF FittingBooks, SettledBooks, BookSet
<1>2. PICK f : f = FillState(r)
  OBVIOUS
<1>3. f \in FillRecord /\ f.seq = r.seq /\ f.id = r.id /\ f.qty = r.fill
  BY <1>2, FillStateIs
<1>4. /\ c.fills = Newest(Append(b.fills, f))
      /\ ~c.lost => ~b.lost /\ c.fills = Append(b.fills, f)
  BY <1>1, <1>2, RecordingIs
<1>5. Ordered(c.fills, r.seq)
  BY <1>1, <1>3, <1>4, NewestIs
<1>6. ASSUME ~c.lost, NEW o PROVE FilledOf(c.fills, o) = FilledOf(b.fills, o) + FilledBy(r, o)
  <2>1. FilledOf(c.fills, o) = FilledOf(b.fills, o) + (IF IsOf(f, o.id, o.seq) THEN f.qty ELSE 0)
    BY <1>1, <1>3, <1>4, <1>6, FilledGoesOn
  <2>2. (IF IsOf(f, o.id, o.seq) THEN f.qty ELSE 0) = FilledBy(r, o)
    BY <1>3 DEF IsOf, FilledBy
  <2> QED BY <2>1, <2>2
<1> QED BY <1>4, <1>5, <1>6

\* The books before a fill of the running operation.
LEMMA BooksBefore ==
  ASSUME LedgerInv, ctl # "idle", NEW swept \in BOOLEAN, swept = (ctl = "sweep")
  PROVE  /\ marks \in KnownMarks /\ Held \in FittingBooks(marks) /\ batch.reports \in Seq(Bookable)
         /\ WouldBe = Booked(Held, batch.reports, marks, swept)
         /\ WouldBe \in FittingBooks(marks) /\ Ordered(WouldBe.fills, sequence) /\ Balanced(WouldBe)
         /\ sequence \in Nat
  BY DEF LedgerInv, WouldBe, IInv, TypeOK

\* One more fill.
LEMMA OneFillBooked ==
  ASSUME LedgerInv, ctl = "sweep", NEW r \in Bookable, r.fill > 0, r.seq = sequence + 1,
         batch'.reports = Append(batch.reports, r)
  PROVE  /\ batch'.reports \in Seq(Bookable) /\ BookedNext \in FittingBooks(marks)
         /\ Ordered(BookedNext.fills, sequence + 1) /\ Balanced(BookedNext)
         /\ ~BookedNext.lost =>
              /\ ~WouldBe.lost
              /\ \A o : FilledOf(BookedNext.fills, o) = FilledOf(WouldBe.fills, o) + FilledBy(r, o)
<1>1. PICK swept \in BOOLEAN : swept = (ctl = "sweep") /\ swept
  OBVIOUS
<1>2. PICK b : b = WouldBe
  OBVIOUS
<1>3. /\ marks \in KnownMarks /\ Held \in FittingBooks(marks) /\ batch.reports \in Seq(Bookable)
      /\ b = Booked(Held, batch.reports, marks, swept)
      /\ b \in FittingBooks(marks) /\ Ordered(b.fills, sequence) /\ Balanced(b)
      /\ sequence \in Nat
  BY <1>1, <1>2, BooksBefore
<1>4. Append(batch.reports, r) \in Seq(Bookable)
  BY <1>3
<1>5. PICK c : c = BookedNext
  OBVIOUS
<1>6. c = Booked(Held, Append(batch.reports, r), marks, swept)
  BY <1>1, <1>5 DEF BookedNext
<1>7. c \in FittingBooks(marks) /\ c = RecordFill(b, r, marks, swept)
  <2>1. ~(r.fill <= 0)
    BY DEF Bookable, Report
  <2> QED BY <1>3, <1>6, <2>1, BookingGoesOn
<1>8. r.seq > sequence
  BY <1>3
<1>9. /\ Ordered(c.fills, r.seq)
      /\ ~c.lost => ~b.lost /\ \A o : FilledOf(c.fills, o) = FilledOf(b.fills, o) + FilledBy(r, o)
  BY <1>3, <1>7, <1>8, RecordedFill
<1>10. Balanced(c)
  <2>1. PICK f : f = FillState(r)
    OBVIOUS
  <2>2. b \in SettledBooks(marks) /\ Len(b.fills) <= MaxFills
    BY <1>3 DEF FittingBooks
  <2>3. \A s \in Products :
          /\ HeldOf(c, s).qty = HeldOf(b, s).qty + (IF s = r.sym THEN Signed(f) ELSE 0)
          /\ c.external[s] = b.external[s] + (IF swept /\ s = r.sym THEN Signed(f) ELSE 0)
    BY <1>3, <1>7, <2>1, <2>2, RecordingIs
  <2> QED BY <1>1, <1>3, <2>3 DEF Balanced
<1> QED BY <1>2, <1>4, <1>5, <1>7, <1>9, <1>10

\* Two more, of a trade.
LEMMA TradeBooked ==
  ASSUME LedgerInv, ctl = "match", NEW e \in Bookable, NEW r \in Bookable, e.fill > 0, r.fill = e.fill,
         e.seq = sequence + 1, r.seq = sequence + 2, e.sym = r.sym, (e.side = "buy") # (r.side = "buy"),
         batch'.reports = Append(Append(batch.reports, e), r)
  PROVE  /\ batch'.reports \in Seq(Bookable) /\ BookedNext \in FittingBooks(marks)
         /\ Ordered(BookedNext.fills, sequence + 2) /\ Balanced(BookedNext)
         /\ ~BookedNext.lost =>
              /\ ~WouldBe.lost
              /\ \A o : FilledOf(BookedNext.fills, o) =
                          FilledOf(WouldBe.fills, o) + FilledBy(e, o) + FilledBy(r, o)
<1>1. PICK swept \in BOOLEAN : swept = (ctl = "sweep") /\ ~swept
  OBVIOUS
<1>2. PICK b : b = WouldBe
  OBVIOUS
<1>3. /\ marks \in KnownMarks /\ Held \in FittingBooks(marks) /\ batch.reports \in Seq(Bookable)
      /\ b = Booked(Held, batch.reports, marks, swept)
      /\ b \in FittingBooks(marks) /\ Ordered(b.fills, sequence) /\ Balanced(b)
      /\ sequence \in Nat
  BY <1>1, <1>2, BooksBefore
<1>4. PICK one \in Seq(Bookable) : one = Append(batch.reports, e)
  <2>1. Append(batch.reports, e) \in Seq(Bookable)
    BY <1>3
  <2> QED BY <2>1
<1>5. Append(one, r) \in Seq(Bookable)
  BY <1>4
<1>6. PICK m, c : m = Booked(Held, one, marks, swept) /\ c = BookedNext
  OBVIOUS
<1>7. c = Booked(Held, Append(one, r), marks, swept)
  BY <1>1, <1>4, <1>6 DEF BookedNext
<1>8. /\ e.fill \in Nat /\ r.fill \in Nat
      /\ ~(e.fill <= 0) /\ ~(r.fill <= 0)
  BY DEF Bookable, Report
<1>9. m \in FittingBooks(marks) /\ m = RecordFill(b, e, marks, swept)
  BY <1>3, <1>4, <1>6, <1>8, BookingGoesOn
<1>10. c \in FittingBooks(marks) /\ c = RecordFill(m, r, marks, swept)
  BY <1>3, <1>6, <1>7, <1>8, BookingGoesOn
<1>11. e.seq > sequence /\ sequence + 1 \in Nat /\ r.seq > sequence + 1
  BY <1>3
<1>12. /\ Ordered(m.fills, sequence + 1)
       /\ ~m.lost => ~b.lost /\ \A o : FilledOf(m.fills, o) = FilledOf(b.fills, o) + FilledBy(e, o)
  <2>1. /\ Ordered(m.fills, e.seq)
        /\ ~m.lost => ~b.lost /\ \A o : FilledOf(m.fills, o) = FilledOf(b.fills, o) + FilledBy(e, o)
    <3>1. e \in Bookable /\ e.fill > 0 /\ swept \in BOOLEAN
      OBVIOUS
    <3> QED BY ONLY <1>3, <1>9, <1>11, <3>1, RecordedFill
  <2> QED BY <2>1
<1>13. /\ Ordered(c.fills, sequence + 2)
       /\ ~c.lost => ~m.lost /\ \A o : FilledOf(c.fills, o) = FilledOf(m.fills, o) + FilledBy(r, o)
  <2>1. /\ Ordered(c.fills, r.seq)
        /\ ~c.lost => ~m.lost /\ \A o : FilledOf(c.fills, o) = FilledOf(m.fills, o) + FilledBy(r, o)
    <3>1. \A n \in Nat : n = sequence + 1 => Ordered(m.fills, n) /\ r.seq > n
      BY <1>11, <1>12
    <3>2. r.fill > 0
      BY <1>8
    <3> QED BY <1>3, <1>9, <1>10, <1>11, <3>1, <3>2, RecordedFill
  <2> QED BY <2>1
<1>14. Balanced(c)
  <2>1. PICK f, g : f = FillState(e) /\ g = FillState(r)
    OBVIOUS
  <2>2. /\ b \in SettledBooks(marks) /\ Len(b.fills) <= MaxFills
        /\ m \in SettledBooks(marks) /\ Len(m.fills) <= MaxFills
    BY <1>3, <1>9 DEF FittingBooks
  <2>3. f \in FillRecord /\ g \in FillRecord /\ f.qty = e.fill /\ g.qty = r.fill /\ f.side = e.side /\ g.side = r.side
    BY <1>8, <2>1, FillStateIs
  <2>4. PICK x \in Int, y \in Int : x = Signed(f) /\ y = Signed(g)
    BY <2>3, SignedIs
  <2>5. x + y = 0
    BY <1>8, <2>3, <2>4, SignedIs
  <2>6. \A s \in Products :
          /\ HeldOf(m, s).qty = HeldOf(b, s).qty + (IF s = e.sym THEN x ELSE 0)
          /\ m.external[s] = b.external[s]
    <3>1. \A s \in Products :
            /\ HeldOf(m, s).qty = HeldOf(b, s).qty + (IF s = e.sym THEN Signed(f) ELSE 0)
            /\ m.external[s] = b.external[s] + (IF swept /\ s = e.sym THEN Signed(f) ELSE 0)
      BY <1>3, <1>9, <2>1, <2>2, RecordingIs
    <3>2. \A s \in Products : b.external[s] \in Int
      BY <2>2 DEF SettledBooks, BookSet
    <3> QED BY <1>1, <2>4, <3>1, <3>2
  <2>7. \A s \in Products :
          /\ HeldOf(c, s).qty = HeldOf(m, s).qty + (IF s = e.sym THEN y ELSE 0)
          /\ c.external[s] = m.external[s]
    <3>1. \A s \in Products :
            /\ HeldOf(c, s).qty = HeldOf(m, s).qty + (IF s = r.sym THEN Signed(g) ELSE 0)
            /\ c.external[s] = m.external[s] + (IF swept /\ s = r.sym THEN Signed(g) ELSE 0)
      BY <1>3, <1>8, <1>10, <2>1, <2>2, RecordingIs
    <3>2. \A s \in Products : m.external[s] \in Int
      BY <2>2 DEF SettledBooks, BookSet
    <3> QED BY <1>1, <2>4, <3>1, <3>2
  <2>8. \A s \in Products : HeldOf(b, s).qty \in Int
    BY <2>2 DEF SettledBooks, Settled, Bought, OpenPosition
  <2> QED BY <1>3, <2>5, <2>6, <2>7, <2>8 DEF Balanced
<1>15. ASSUME ~c.lost, NEW o
       PROVE  FilledOf(c.fills, o) = FilledOf(b.fills, o) + FilledBy(e, o) + FilledBy(r, o)
  BY <1>12, <1>13, <1>15
<1>16. batch'.reports \in Seq(Bookable)
  BY <1>4, <1>5
<1> QED BY <1>2, <1>6, <1>10, <1>12, <1>13, <1>14, <1>15, <1>16

\* The report r is of a fill of o, and can be booked.
IsFillOf(r, o, qty, n) ==
  /\ r \in Bookable
  /\ r.id = o.id /\ r.sym = o.sym /\ r.side = o.side /\ r.fill = qty /\ r.seq = n

\* So is the report of a fill.
LEMMA FillIsBookable ==
  ASSUME NEW o \in Order, NEW contra \in Ids \cup {MarketData}, NEW qty \in Nat, NEW p \in Ticks,
         NEW n \in Nat, o.side = "buy" => p <= o.px, o.side # "buy" => p >= o.px
  PROVE  IsFillOf(FillReport(o, contra, qty, p, n), o, qty, n)
<1>0. PICK r : r = FillReport(o, contra, qty, p, n)
  OBVIOUS
<1>1. r \in Report
  BY <1>0, FillTypes
<1>2. r.id = o.id /\ r.sym = o.sym /\ r.side = o.side /\ r.fill = qty /\ r.seq = n
  BY <1>0 DEF FillReport, ReportFor
<1>3. o.id \in Ids /\ o.sym \in Products /\ o.side \in Sides
  BY DEF Order
<1> QED BY <1>0, <1>1, <1>2, <1>3 DEF Bookable, IsFillOf

\* The order o rests in the book.
IsQueued(o) ==
  \E s \in Products, d \in Sides, p \in Ticks : \E i \in DOMAIN queue[s][d][p] : o = queue[s][d][p][i]

\* Two places of the book hold orders of two ids.
LEMMA PlacesDiffer ==
  ASSUME BookInv, NEW s \in Products, NEW d \in Sides, NEW p \in Ticks, NEW i \in DOMAIN queue[s][d][p],
         NEW s2 \in Products, NEW d2 \in Sides, NEW p2 \in Ticks, NEW j \in DOMAIN queue[s2][d2][p2],
         queue[s][d][p][i].id = queue[s2][d2][p2][j].id
  PROVE  s = s2 /\ d = d2 /\ p = p2 /\ i = j
<1>1. PICK id : id = queue[s][d][p][i].id
  OBVIOUS
<1>2. registry[id] = [sym |-> s, side |-> d, px |-> p]
  BY <1>1, LevelFacts
<1>3. registry[id] = [sym |-> s2, side |-> d2, px |-> p2]
  BY <1>1, LevelFacts
<1>4. registry[id].sym = s /\ registry[id].side = d /\ registry[id].px = p
  BY <1>2
<1>5. registry[id].sym = s2 /\ registry[id].side = d2 /\ registry[id].px = p2
  BY <1>3
<1>6. s = s2 /\ d = d2 /\ p = p2
  BY <1>4, <1>5
<1>7. i = j
  BY <1>6, LevelFacts
<1> QED BY <1>6, <1>7

\* The size filled of o is that of the order it was, and n more.
Took(o, n, was) ==
  /\ o.id = was.id /\ o.seq = was.seq
  /\ o.orig - o.rem = (was.orig - was.rem) + n

\* A trade: what it reports, and what it does to the size filled of every order.
LEMMA MatchTakes ==
  ASSUME IInv, Sound(batch, sequence), NEW p \in Ticks, MatchIncoming(p)
  PROVE  \E n \in Nat, e \in Bookable, r \in Bookable, was \in Order :
           /\ n > 0 /\ e.fill = n /\ r.fill = n /\ e.seq = sequence + 1 /\ r.seq = sequence + 2
           /\ e.sym = r.sym /\ (e.side = "buy") # (r.side = "buy")
           /\ e.id = incoming.id /\ r.id = was.id
           /\ batch'.reports = Append(Append(batch.reports, e), r)
           /\ ctl' = "match" /\ sequence' = sequence + 2
           /\ IsQueued(was) /\ Took(incoming', n, incoming)
           /\ \A s2 \in Products, d2 \in Sides, p2 \in Ticks : \A i \in DOMAIN queue'[s2][d2][p2] :
                \/ Took(queue'[s2][d2][p2][i], n, was)
                \/ IsQueued(queue'[s2][d2][p2][i]) /\ queue'[s2][d2][p2][i].id # was.id
<1> DEFINE s0 == incoming.sym
           d0 == Opposite(incoming.side)
           q0 == queue[s0][d0][p]
           n0 == TradeQuantity(incoming, Head(q0))
           taker0 == [incoming EXCEPT !.rem = @ - n0]
           maker0 == [Head(q0) EXCEPT !.rem = @ - n0]
           left0 == IF maker0.rem = 0 THEN Tail(q0) ELSE [q0 EXCEPT ![1] = maker0]
           e0 == FillReport(taker0, maker0.id, n0, p, sequence + 1)
           r0 == FillReport(maker0, taker0.id, n0, p, sequence + 2)
<1>1. /\ ctl = "match" /\ incoming \in Order /\ BookInv /\ sequence \in Nat /\ ctl' = ctl
      /\ IsBest(s0, d0, p) /\ Crosses(incoming.side, incoming.px, p) /\ incoming.rem > 0
      /\ queue \in [Products -> [Sides -> [Ticks -> Seq(Order)]]]
  BY DEF IInv, TypeOK, MatchIncoming, CanMatch
<1>2. /\ sequence' = sequence + 2 /\ incoming' = taker0 /\ queue' = SetLevel(s0, d0, p, left0)
      /\ batch'.reports = batch.reports \o <<e0, r0>>
  BY <1>1 DEF MatchIncoming
<1>3. /\ s0 \in Products /\ d0 \in Sides /\ incoming.side \in Sides /\ incoming.px \in Int
      /\ incoming.id \in Ids /\ p \in Int /\ (incoming.side = "buy") # (d0 = "buy")
  BY <1>1, ConstantsAssumption DEF Order, Opposite, Sides, Ticks
<1>4. PICK s \in Products, d \in Sides : s = s0 /\ d = d0
  BY <1>3
<1>5. PICK q \in Seq(Order) : q = q0 /\ q = queue[s][d][p]
  BY <1>1, <1>3, <1>4
<1>6. q # <<>>
  BY <1>1, <1>5 DEF IsBest
<1>7. PICK was \in Order : was = Head(q) /\ was = q[1]
  BY <1>6, TailOfQueue
<1>8. 1 \in DOMAIN q /\ Tail(q) \in Seq(Order) /\ \A j \in DOMAIN Tail(q) : j + 1 \in DOMAIN q /\ Tail(q)[j] = q[j + 1] /\ j + 1 # 1
  <2>1. 1 \in DOMAIN q /\ Tail(q) \in Seq(Order) /\ \A j \in DOMAIN Tail(q) : j + 1 \in DOMAIN q /\ Tail(q)[j] = q[j + 1]
    BY <1>6, TailOfQueue
  <2>2. \A j \in DOMAIN Tail(q) : j + 1 # 1
    BY <1>6, TailOfQueue
  <2> QED BY <2>1, <2>2
<1>9. IsQueued(was)
  BY <1>5, <1>7, <1>8 DEF IsQueued
<1>10. was.rem \in Nat /\ was.rem > 0 /\ was.orig \in Nat /\ was.side = d /\ was.px = p /\ was.sym = s /\ was.id \in Ids
  <2>1. was.rem > 0 /\ was.side = d /\ was.px = p /\ was.sym = s
    BY <1>1, <1>5, <1>7, <1>8 DEF BookInv, QueuedOrdersAreLive
  <2> QED BY <2>1 DEF Order
<1>11. incoming.rem \in Nat /\ incoming.orig \in Nat
  BY <1>1 DEF Order
<1>12. PICK n \in Nat : n = n0 /\ n > 0 /\ n <= incoming.rem /\ n <= was.rem
  <2>1. n0 = IF incoming.rem <= was.rem THEN incoming.rem ELSE was.rem
    BY <1>5, <1>7 DEF TradeQuantity
  <2> HIDE DEF n0
  <2>2. n0 \in Nat /\ n0 > 0 /\ n0 <= incoming.rem /\ n0 <= was.rem
    BY <1>1, <1>10, <1>11, <2>1
  <2> QED BY <2>2
<1>13. PICK taker : taker = [incoming EXCEPT !.rem = incoming.rem - n]
  OBVIOUS
<1>14. taker = incoming' /\ taker = taker0
  BY <1>2, <1>12, <1>13
<1>15. /\ taker \in Order /\ taker.id = incoming.id /\ taker.side = incoming.side /\ taker.px = incoming.px
       /\ taker.sym = s /\ Took(taker, n, incoming)
  <2>1. incoming.rem - n \in Nat
    BY <1>11, <1>12
  <2>2. taker.rem = incoming.rem - n /\ taker.orig = incoming.orig /\ taker.id = incoming.id /\ taker.seq = incoming.seq
        /\ taker.side = incoming.side /\ taker.px = incoming.px /\ taker.sym = incoming.sym
    BY <1>1, <1>13 DEF Order
  <2>3. taker \in Order
    BY <1>1, <1>13, <2>1 DEF Order
  <2> QED BY <1>4, <1>11, <2>2, <2>3 DEF Took
<1>16. PICK maker : maker = [was EXCEPT !.rem = was.rem - n]
  OBVIOUS
<1>17. maker = maker0
  BY <1>5, <1>7, <1>12, <1>16
<1>18. maker \in Order /\ maker.id = was.id /\ maker.side = d /\ maker.px = p /\ maker.sym = s /\ Took(maker, n, was)
  <2>1. was.rem - n \in Nat
    BY <1>10, <1>12
  <2>2. maker.rem = was.rem - n /\ maker.orig = was.orig /\ maker.id = was.id /\ maker.seq = was.seq
        /\ maker.side = was.side /\ maker.px = was.px /\ maker.sym = was.sym
    BY <1>16 DEF Order
  <2>3. maker \in Order
    BY <1>16, <2>1 DEF Order
  <2> QED BY <1>10, <2>2, <2>3 DEF Took
<1>19. PICK left \in Seq(Order) : left = left0 /\ left = IF maker.rem = 0 THEN Tail(q) ELSE [q EXCEPT ![1] = maker]
  <2>1. [q EXCEPT ![1] = maker] \in Seq(Order)
    BY <1>8, <1>18
  <2> HIDE DEF q0, maker0
  <2> QED BY <1>5, <1>8, <1>17, <2>1
<1>20. PICK e, r : e = FillReport(taker, maker.id, n, p, sequence + 1) /\ r = FillReport(maker, taker.id, n, p, sequence + 2)
  OBVIOUS
<1>21. e = e0 /\ r = r0
  <2> HIDE DEF taker0, maker0, n0
  <2> QED BY <1>12, <1>14, <1>17, <1>20
<1> HIDE DEF s0, d0, q0, n0, taker0, maker0, left0, e0, r0
<1>22. /\ e \in Bookable /\ e.id = incoming.id /\ e.sym = s /\ e.side = incoming.side /\ e.fill = n /\ e.seq = sequence + 1
  <2>1. IF incoming.side = "buy" THEN incoming.px >= p ELSE incoming.px <= p
    BY <1>1 DEF Crosses
  <2>2. sequence + 1 \in Nat /\ maker.id \in Ids \cup {MarketData} /\ (taker.side = "buy" => p <= taker.px) /\ (taker.side # "buy" => p >= taker.px)
    BY <1>1, <1>3, <1>10, <1>15, <1>18, <2>1
  <2>3. e \in Bookable /\ e.id = taker.id /\ e.sym = taker.sym /\ e.side = taker.side /\ e.fill = n /\ e.seq = sequence + 1
    <3>1. PICK k \in Nat, contra \in Ids \cup {MarketData} : k = sequence + 1 /\ contra = maker.id
      BY <2>2
    <3>2. e = FillReport(taker, contra, n, p, k)
      BY <1>20, <3>1
    <3>3. IsFillOf(e, taker, n, k)
      <4>1. taker \in Order /\ n \in Nat /\ k \in Nat /\ contra \in Ids \cup {MarketData} /\ p \in Ticks
            /\ (taker.side = "buy" => p <= taker.px) /\ (taker.side # "buy" => p >= taker.px)
        BY <1>15, <2>2
      <4> QED BY <3>2, <4>1, FillIsBookable
    <3> QED BY <3>1, <3>3 DEF IsFillOf
  <2> QED BY <1>15, <2>3
<1>23. /\ r \in Bookable /\ r.id = was.id /\ r.sym = s /\ r.side = d /\ r.fill = n /\ r.seq = sequence + 2
  <2>1. sequence + 2 \in Nat /\ taker.id \in Ids \cup {MarketData} /\ (maker.side = "buy" => p <= maker.px) /\ (maker.side # "buy" => p >= maker.px)
    BY <1>1, <1>3, <1>15, <1>18
  <2>2. r \in Bookable /\ r.id = maker.id /\ r.sym = maker.sym /\ r.side = maker.side /\ r.fill = n /\ r.seq = sequence + 2
    <3>1. PICK k \in Nat, contra \in Ids \cup {MarketData} : k = sequence + 2 /\ contra = taker.id
      BY <2>1
    <3>2. r = FillReport(maker, contra, n, p, k)
      BY <1>20, <3>1
    <3>3. IsFillOf(r, maker, n, k)
      <4>1. maker \in Order /\ n \in Nat /\ k \in Nat /\ contra \in Ids \cup {MarketData} /\ p \in Ticks
            /\ (maker.side = "buy" => p <= maker.px) /\ (maker.side # "buy" => p >= maker.px)
        BY <1>18, <2>1
      <4> QED BY <3>2, <4>1, FillIsBookable
    <3> QED BY <3>1, <3>3 DEF IsFillOf
  <2> QED BY <1>18, <2>2
<1>24. batch'.reports = Append(Append(batch.reports, e), r)
  <2>1. batch.reports \in Seq(Report) /\ e \in Report /\ r \in Report
    BY <1>22, <1>23, BatchNumbers DEF Sound, Bookable
  <2>2. batch.reports \o <<e, r>> = Append(Append(batch.reports, e), r)
    BY <2>1
  <2> QED BY <1>2, <1>21, <2>2
<1>25. /\ queue'[s][d][p] = left
       /\ \A s2 \in Products, d2 \in Sides, p2 \in Ticks :
            <<s2, d2, p2>> # <<s, d, p>> => queue'[s2][d2][p2] = queue[s2][d2][p2]
  <2>1. queue' = SetLevel(s, d, p, left)
    BY <1>2, <1>4, <1>19
  <2> QED BY <1>1, <2>1, LevelChange
<1>26. ASSUME NEW s2 \in Products, NEW d2 \in Sides, NEW p2 \in Ticks, NEW i \in DOMAIN queue'[s2][d2][p2]
       PROVE  \/ Took(queue'[s2][d2][p2][i], n, was)
              \/ IsQueued(queue'[s2][d2][p2][i]) /\ queue'[s2][d2][p2][i].id # was.id
  <2>1. ASSUME NEW j \in DOMAIN queue[s2][d2][p2], <<s2, d2, p2>> # <<s, d, p>> \/ j # 1
        PROVE  IsQueued(queue[s2][d2][p2][j]) /\ queue[s2][d2][p2][j].id # was.id
    <3>1. IsQueued(queue[s2][d2][p2][j])
      BY DEF IsQueued
    <3>2. 1 \in DOMAIN queue[s][d][p] /\ queue[s][d][p][1] = was
      BY <1>5, <1>7, <1>8
    <3>3. queue[s2][d2][p2][j].id # was.id
      BY <1>1, <2>1, <3>2, PlacesDiffer
    <3> QED BY <3>1, <3>3
  <2>2. CASE <<s2, d2, p2>> # <<s, d, p>>
    BY <1>25, <1>26, <2>1, <2>2
  <2>3. CASE <<s2, d2, p2>> = <<s, d, p>>
    <3>1. s2 = s /\ d2 = d /\ p2 = p
      BY <2>3
    <3>2. queue'[s2][d2][p2] = left /\ i \in DOMAIN left /\ queue[s2][d2][p2] = q
      BY <1>5, <1>25, <1>26, <3>1
    <3>3. CASE maker.rem = 0
      <4>1. left = Tail(q)
        BY <1>19, <3>3
      <4>2. i + 1 \in DOMAIN q /\ left[i] = q[i + 1] /\ i + 1 # 1
        BY <1>8, <3>2, <4>1
      <4> QED BY <2>1, <3>2, <4>2
    <3>4. CASE maker.rem # 0
      <4>1. left = [q EXCEPT ![1] = maker]
        BY <1>19, <3>4
      <4>2. i \in DOMAIN q /\ (i = 1 => left[i] = maker) /\ (i # 1 => left[i] = q[i])
        BY <1>8, <3>2, <4>1
      <4>3. CASE i = 1
        BY <1>18, <3>2, <4>2, <4>3
      <4>4. CASE i # 1
        BY <2>1, <3>2, <4>2, <4>4
      <4> QED BY <4>3, <4>4
    <3> QED BY <3>3, <3>4
  <2> QED BY <2>2, <2>3
<1>27. (e.side = "buy") # (r.side = "buy")
  BY <1>3, <1>4, <1>22, <1>23
<1>28. Took(incoming', n, incoming) /\ ctl' = "match"
  BY <1>1, <1>14, <1>15
<1> QED
  <2>1. e \in Bookable /\ r \in Bookable
    BY <1>22, <1>23
  <2> USE <2>1
  <2> WITNESS n \in Nat, e \in Bookable, r \in Bookable, was \in Order
  <2> QED BY <1>2, <1>9, <1>12, <1>22, <1>23, <1>24, <1>26, <1>27, <1>28

\* The fill of a sweep.
LEMMA SweepTakes ==
  ASSUME IInv, NEW d \in Sides, NEW p \in Ticks, SweepOrder(d, p)
  PROVE  \E was \in Order, r \in Bookable :
           /\ r.fill > 0 /\ r.seq = sequence + 1 /\ r.id = was.id
           /\ batch'.reports = Append(batch.reports, r)
           /\ ctl = "sweep" /\ ctl' = "sweep" /\ sequence' = sequence + 1
           /\ \A s2 \in Products, d2 \in Sides, p2 \in Ticks : \A i \in DOMAIN queue'[s2][d2][p2] :
                IsQueued(queue'[s2][d2][p2][i]) /\ queue'[s2][d2][p2][i].id # was.id
<1> DEFINE o0 == [Head(queue[tick.sym][d][p]) EXCEPT !.rem = 0]
           r0 == FillReport(o0, MarketData, Head(queue[tick.sym][d][p]).rem, p, sequence + 1)
<1>1. /\ ctl = "sweep" /\ ctl' = ctl /\ tick.sym \in Products /\ BookInv /\ sequence \in Nat
      /\ IsBest(tick.sym, d, p) /\ queue \in [Products -> [Sides -> [Ticks -> Seq(Order)]]]
  BY DEF IInv, TypeOK, SweepOrder, CanSweep
<1>2. /\ sequence' = sequence + 1
      /\ queue' = SetLevel(tick.sym, d, p, Tail(queue[tick.sym][d][p]))
      /\ batch'.reports = Append(batch.reports, r0)
  BY DEF SweepOrder
<1>3. PICK s \in Products : s = tick.sym
  BY <1>1
<1>4. PICK q \in Seq(Order) : q = queue[s][d][p]
  BY <1>1
<1>5. q # <<>>
  BY <1>1, <1>3, <1>4 DEF IsBest
<1>6. /\ 1 \in DOMAIN q /\ Tail(q) \in Seq(Order) /\ Head(q) = q[1] /\ q[1] \in Order
      /\ \A j \in DOMAIN Tail(q) : j + 1 \in DOMAIN q /\ Tail(q)[j] = q[j + 1]
      /\ \A j \in DOMAIN Tail(q) : j \in Nat /\ j > 0
  BY <1>5, TailOfQueue
<1>7. PICK was \in Order : was = q[1]
  BY <1>6
<1>8. was.rem \in Nat /\ was.rem > 0 /\ was.side = d /\ was.px = p
  <2>1. was.rem > 0 /\ was.side = d /\ was.px = p
    BY <1>1, <1>4, <1>6, <1>7 DEF BookInv, QueuedOrdersAreLive
  <2> QED BY <2>1 DEF Order
<1>9. PICK o : o = [was EXCEPT !.rem = 0]
  OBVIOUS
<1>10. o \in Order /\ o.id = was.id /\ o.side = d /\ o.px = p
  BY <1>8, <1>9 DEF Order
<1>11. PICK n \in Nat : n = was.rem /\ n > 0
  BY <1>8
<1>12. PICK r : r = FillReport(o, MarketData, n, p, sequence + 1)
  OBVIOUS
<1>13. r = r0
  BY <1>3, <1>4, <1>6, <1>7, <1>9, <1>11, <1>12
<1> HIDE DEF o0, r0
<1>14. IsFillOf(r, o, n, sequence + 1)
  <2>1. PICK k \in Nat, contra \in Ids \cup {MarketData} : k = sequence + 1 /\ contra = MarketData
    <3>1. sequence + 1 \in Nat /\ MarketData \in Ids \cup {MarketData}
      BY <1>1
    <3> QED BY <3>1
  <2>2. p \in Int
    BY ConstantsAssumption DEF Ticks
  <2>3. (o.side = "buy" => p <= o.px) /\ (o.side # "buy" => p >= o.px)
    BY <1>10, <2>2
  <2>4. r = FillReport(o, contra, n, p, k)
    BY <1>12, <2>1
  <2>5. IsFillOf(r, o, n, k)
    BY <1>10, <2>3, <2>4, FillIsBookable
  <2> QED BY <2>1, <2>5
<1>15. r \in Bookable /\ r.fill > 0 /\ r.seq = sequence + 1 /\ r.id = was.id
  BY <1>10, <1>11, <1>14 DEF IsFillOf
<1>16. /\ queue'[s][d][p] = Tail(q)
       /\ \A s2 \in Products, d2 \in Sides, p2 \in Ticks :
            <<s2, d2, p2>> # <<s, d, p>> => queue'[s2][d2][p2] = queue[s2][d2][p2]
  <2>1. PICK left \in Seq(Order) : left = Tail(q)
    BY <1>6
  <2>2. queue' = SetLevel(s, d, p, left)
    BY <1>2, <1>3, <1>4, <2>1
  <2>3. /\ queue'[s][d][p] = left
        /\ \A s2 \in Products, d2 \in Sides, p2 \in Ticks :
             <<s2, d2, p2>> # <<s, d, p>> => queue'[s2][d2][p2] = queue[s2][d2][p2]
    BY <1>1, <2>2, LevelChange
  <2> QED BY <2>1, <2>3
<1>17. ASSUME NEW s2 \in Products, NEW d2 \in Sides, NEW p2 \in Ticks, NEW i \in DOMAIN queue'[s2][d2][p2]
       PROVE  IsQueued(queue'[s2][d2][p2][i]) /\ queue'[s2][d2][p2][i].id # was.id
  <2>1. ASSUME NEW j \in DOMAIN queue[s2][d2][p2], <<s2, d2, p2>> # <<s, d, p>> \/ j # 1
        PROVE  IsQueued(queue[s2][d2][p2][j]) /\ queue[s2][d2][p2][j].id # was.id
    <3>1. IsQueued(queue[s2][d2][p2][j])
      BY DEF IsQueued
    <3>2. 1 \in DOMAIN queue[s][d][p] /\ queue[s][d][p][1] = was
      BY <1>4, <1>6, <1>7
    <3>3. queue[s2][d2][p2][j].id # was.id
      BY <1>1, <2>1, <3>2, PlacesDiffer
    <3> QED BY <3>1, <3>3
  <2>2. CASE <<s2, d2, p2>> # <<s, d, p>>
    BY <1>16, <1>17, <2>1, <2>2
  <2>3. CASE <<s2, d2, p2>> = <<s, d, p>>
    <3>1. s2 = s /\ d2 = d /\ p2 = p
      BY <2>3
    <3>2. queue'[s2][d2][p2] = Tail(q) /\ i \in DOMAIN Tail(q) /\ queue[s2][d2][p2] = q
      BY <1>4, <1>16, <1>17, <3>1
    <3>3. i + 1 \in DOMAIN q /\ Tail(q)[i] = q[i + 1] /\ i + 1 # 1
      BY <1>6, <3>2
    <3> QED BY <2>1, <3>2, <3>3
  <2> QED BY <2>2, <2>3
<1> QED
  <2> USE <1>15
  <2> WITNESS was \in Order, r \in Bookable
  <2> QED BY <1>1, <1>2, <1>13, <1>17

\* The orders of the book have numbers that were drawn, and what the fills say.
LEMMA QueuedIs ==
  ASSUME LedgerInv, NEW o, IsQueued(o)
  PROVE  /\ o \in Order /\ o.seq \in Nat /\ o.seq <= sequence /\ o.orig \in Nat /\ o.rem \in Nat
         /\ ctl = "match" => o.id # incoming.id
         /\ ~WouldBe.lost => SizeIs(WouldBe.fills, o)
<1>1. PICK s \in Products, d \in Sides, p \in Ticks : \E i \in DOMAIN queue[s][d][p] : o = queue[s][d][p][i]
  BY DEF IsQueued
<1>2. PICK i \in DOMAIN queue[s][d][p] : o = queue[s][d][p][i]
  BY <1>1
<1>3. BookInv /\ IncomingIsNew
  BY DEF LedgerInv, IInv
<1>4. o \in Order /\ o.id \in Ids /\ registry[o.id] = [sym |-> s, side |-> d, px |-> p]
  BY <1>2, <1>3, LevelFacts
<1>5. o.seq \in Nat /\ o.orig \in Nat /\ o.rem \in Nat
  BY <1>4 DEF Order
<1>6. o.seq <= sequence
  BY <1>2, <1>3 DEF BookInv, FifoBySequence
<1>7. ctl = "match" => o.id # incoming.id
  <2>1. registry[o.id] # Nowhere
    <3>1. [sym |-> s, side |-> d, px |-> p] # Nowhere
      BY DEF Nowhere
    <3> QED BY <1>4, <3>1
  <2> QED BY <1>3, <2>1 DEF IncomingIsNew
<1>8. ~WouldBe.lost => SizeIs(WouldBe.fills, o)
  BY <1>2 DEF LedgerInv, SizesMatch
<1> QED BY <1>4, <1>5, <1>6, <1>7, <1>8

\* A trade moves the size filled of its two orders, and the fills say so.
LEMMA MatchBooks ==
  ASSUME LedgerInv, IInv', SoundInv', Book, NEW p \in Ticks, MatchIncoming(p)
  PROVE  LedgerInv'
<1>1. IInv /\ Sound(batch, sequence) /\ sequence \in Nat /\ ctl = "match" /\ IncomingIsNew /\ incoming \in Order
  BY DEF LedgerInv, SoundInv, IInv, TypeOK, MatchIncoming
<1>2. PICK n \in Nat, e \in Bookable, r \in Bookable, was \in Order :
           /\ n > 0 /\ e.fill = n /\ r.fill = n /\ e.seq = sequence + 1 /\ r.seq = sequence + 2
           /\ e.sym = r.sym /\ (e.side = "buy") # (r.side = "buy")
           /\ e.id = incoming.id /\ r.id = was.id
           /\ batch'.reports = Append(Append(batch.reports, e), r)
           /\ ctl' = "match" /\ sequence' = sequence + 2
           /\ IsQueued(was) /\ Took(incoming', n, incoming)
           /\ \A s2 \in Products, d2 \in Sides, p2 \in Ticks : \A i \in DOMAIN queue'[s2][d2][p2] :
                \/ Took(queue'[s2][d2][p2][i], n, was)
                \/ IsQueued(queue'[s2][d2][p2][i]) /\ queue'[s2][d2][p2][i].id # was.id
  BY <1>1, MatchTakes
<1>3. PICK b, c : b = WouldBe /\ c = BookedNext
  OBVIOUS
<1>4. /\ batch'.reports \in Seq(Bookable) /\ c \in FittingBooks(marks)
      /\ Ordered(c.fills, sequence + 2) /\ Balanced(c)
      /\ ~c.lost =>
           /\ ~b.lost
           /\ \A o : FilledOf(c.fills, o) = FilledOf(b.fills, o) + FilledBy(e, o) + FilledBy(r, o)
  <2>1. e.fill > 0 /\ r.fill = e.fill
    BY <1>2
  <2> QED BY <1>1, <1>2, <1>3, <2>1, TradeBooked
<1>5. b.fills \in Seq(FillRecord)
  BY <1>3 DEF LedgerInv, FittingBooks, SettledBooks, BookSet
<1>6. was.id # incoming.id /\ was.seq \in Nat /\ was.seq <= sequence /\ was.orig \in Nat /\ was.rem \in Nat
  BY <1>1, <1>2, QueuedIs
<1>7. /\ incoming.seq \in Nat /\ incoming.seq <= sequence /\ incoming.orig \in Nat /\ incoming.rem \in Nat
  BY <1>1 DEF IncomingIsNew, Order
<1>8. ASSUME ~c.lost PROVE SizesAfter(c.fills)
  <2>1. ~b.lost /\ \A o : FilledOf(c.fills, o) = FilledOf(b.fills, o) + FilledBy(e, o) + FilledBy(r, o)
    BY <1>4, <1>8
  <2>2. SizeIs(b.fills, incoming) /\ SizeIs(b.fills, was)
    BY <1>1, <1>2, <1>3, <2>1, QueuedIs DEF LedgerInv, SizesMatch
  <2>3. ASSUME NEW o, Took(o, n, incoming) PROVE SizeIs(c.fills, o)
    <3>1. FilledOf(b.fills, o) = incoming.orig - incoming.rem
      BY <1>5, <2>2, <2>3, FilledOfSameEntry DEF Took, SizeIs
    <3>2. FilledBy(e, o) = n /\ FilledBy(r, o) = 0
      BY <1>1, <1>2, <1>6, <1>7, <2>3 DEF FilledBy, Took
    <3> QED BY <1>7, <2>1, <2>3, <3>1, <3>2 DEF SizeIs, Took
  <2>4. ASSUME NEW o, Took(o, n, was) PROVE SizeIs(c.fills, o)
    <3>1. FilledOf(b.fills, o) = was.orig - was.rem
      BY <1>5, <2>2, <2>4, FilledOfSameEntry DEF Took, SizeIs
    <3>2. FilledBy(e, o) = 0 /\ FilledBy(r, o) = n
      BY <1>1, <1>2, <1>6, <1>7, <2>4 DEF FilledBy, Took
    <3> QED BY <1>6, <2>1, <2>4, <3>1, <3>2 DEF SizeIs, Took
  <2>5. ASSUME NEW o, IsQueued(o), o.id # was.id PROVE SizeIs(c.fills, o)
    <3>1. o.id # incoming.id /\ SizeIs(b.fills, o)
      BY <1>1, <1>3, <2>1, <2>5, QueuedIs
    <3>2. FilledBy(e, o) = 0 /\ FilledBy(r, o) = 0
      BY <1>2, <2>5, <3>1 DEF FilledBy
    <3>3. FilledOf(b.fills, o) \in Nat
      BY <1>5, FilledGoesOn
    <3> QED BY <2>1, <3>1, <3>2, <3>3 DEF SizeIs
  <2>6. ASSUME NEW s2 \in Products, NEW d2 \in Sides, NEW p2 \in Ticks, NEW i \in DOMAIN queue'[s2][d2][p2]
        PROVE  SizeIs(c.fills, queue'[s2][d2][p2][i])
    BY <1>2, <2>4, <2>5
  <2> QED BY <1>2, <2>3, <2>6 DEF SizesAfter
<1>9. sequence' >= sequence /\ (ctl' = "sweep" <=> ctl = "sweep")
  BY <1>1, <1>2
<1> QED BY <1>2, <1>3, <1>4, <1>8, <1>9, BookStep

\* The order a sweep fills has left the book; the fills say nothing new of the others.
LEMMA SweepBooks ==
  ASSUME LedgerInv, IInv', SoundInv', Book, NEW d \in Sides, NEW p \in Ticks, SweepOrder(d, p)
  PROVE  LedgerInv'
<1>1. IInv /\ sequence \in Nat
  BY DEF LedgerInv, IInv, TypeOK
<1>2. PICK was \in Order, r \in Bookable :
           /\ r.fill > 0 /\ r.seq = sequence + 1 /\ r.id = was.id
           /\ batch'.reports = Append(batch.reports, r)
           /\ ctl = "sweep" /\ ctl' = "sweep" /\ sequence' = sequence + 1
           /\ \A s2 \in Products, d2 \in Sides, p2 \in Ticks : \A i \in DOMAIN queue'[s2][d2][p2] :
                IsQueued(queue'[s2][d2][p2][i]) /\ queue'[s2][d2][p2][i].id # was.id
  BY <1>1, SweepTakes
<1>3. PICK b, c : b = WouldBe /\ c = BookedNext
  OBVIOUS
<1>4. /\ batch'.reports \in Seq(Bookable) /\ c \in FittingBooks(marks)
      /\ Ordered(c.fills, sequence + 1) /\ Balanced(c)
      /\ ~c.lost => ~b.lost /\ \A o : FilledOf(c.fills, o) = FilledOf(b.fills, o) + FilledBy(r, o)
  BY <1>2, <1>3, OneFillBooked
<1>5. b.fills \in Seq(FillRecord)
  BY <1>3 DEF LedgerInv, FittingBooks, SettledBooks, BookSet
<1>6. ASSUME ~c.lost PROVE SizesAfter(c.fills)
  <2>1. ~b.lost /\ \A o : FilledOf(c.fills, o) = FilledOf(b.fills, o) + FilledBy(r, o)
    BY <1>4, <1>6
  <2>2. ASSUME NEW o, IsQueued(o), o.id # was.id PROVE SizeIs(c.fills, o)
    <3>1. SizeIs(b.fills, o)
      BY <1>3, <2>1, <2>2, QueuedIs
    <3>2. FilledBy(r, o) = 0
      BY <1>2, <2>2 DEF FilledBy
    <3>3. FilledOf(b.fills, o) \in Nat
      BY <1>5, FilledGoesOn
    <3> QED BY <2>1, <3>1, <3>2, <3>3 DEF SizeIs
  <2>3. ASSUME NEW s2 \in Products, NEW d2 \in Sides, NEW p2 \in Ticks, NEW i \in DOMAIN queue'[s2][d2][p2]
        PROVE  SizeIs(c.fills, queue'[s2][d2][p2][i])
    BY <1>2, <2>2
  <2> QED BY <1>2, <2>3 DEF SizesAfter
<1>7. sequence' >= sequence /\ (ctl' = "sweep" <=> ctl = "sweep")
  BY <1>1, <1>2
<1> QED BY <1>2, <1>3, <1>4, <1>6, <1>7, BookStep

\* Books at the beginning of an operation, or between two.
LEMMA BooksAtRest ==
  ASSUME IInv', SoundInv', batch' = EmptyBatch, marks' \in KnownMarks, NEW b, Held' = b,
         b \in FittingBooks(marks'), Ordered(b.fills, sequence'), Balanced(b), SizesAfter(b.fills) \/ b.lost
  PROVE  LedgerInv'
<1>1. batch'.reports = <<>> /\ batch'.reports \in Seq(Bookable)
  BY DEF EmptyBatch
<1>2. WouldBe' = b
  <2>1. PICK swept \in BOOLEAN : swept = (ctl' = "sweep")
    OBVIOUS
  <2>2. Booked(b, <<>>, marks', swept) = b
    BY BookingGoesOn
  <2> QED BY <1>1, <2>1, <2>2 DEF WouldBe
<1>3. (~WouldBe.lost => SizesMatch(WouldBe.fills))'
  BY <1>2 DEF SizesAfter, SizesMatch
<1>4. Balanced(Held)' /\ Balanced(WouldBe)'
  BY <1>2 DEF Balanced
<1>5. Ordered(Held.fills, sequence)' /\ Ordered(WouldBe.fills, sequence)'
  BY <1>2 DEF Ordered
<1>6. Held' \in FittingBooks(marks') /\ WouldBe' \in FittingBooks(marks')
  BY <1>2
<1> QED BY <1>1, <1>3, <1>4, <1>5, <1>6 DEF LedgerInv

\* Books with nothing in them.
NoBooks == [fills |-> <<>>, positions |-> NoPositions, cash |-> NoTotals, external |-> NoTotals, lost |-> FALSE]

\* They fit whatever is known.
LEMMA NothingFits ==
  ASSUME NEW known, NEW n \in Nat
  PROVE  NoBooks \in FittingBooks(known) /\ Ordered(NoBooks.fills, n) /\ Balanced(NoBooks)
<1>1. PICK b : b = NoBooks
  OBVIOUS
<1>2. b.fills = <<>> /\ b.positions = NoPositions /\ b.cash = NoTotals /\ b.external = NoTotals
  BY <1>1 DEF NoBooks
<1>3. \A s \in Products : HeldOf(b, s) = FlatPosition /\ b.positions[s] = NoPosition /\ b.cash[s] = 0 /\ b.external[s] = 0
  BY <1>2 DEF HeldOf, NoPositions, NoTotals
<1>4. b \in BookSet
  <2>1. NoPositions \in [Products -> OpenPosition \cup {NoPosition}] /\ NoTotals \in [Products -> Int] /\ <<>> \in Seq(FillRecord)
    BY DEF NoPositions, NoTotals
  <2> QED BY <1>1, <2>1 DEF NoBooks, BookSet
<1>5. b \in FittingBooks(known)
  <2>1. Len(b.fills) <= MaxFills
    BY <1>2, LedgerAssumption
  <2>2. b \in SettledBooks(known)
    BY <1>3, <1>4, FlatIsSettled DEF SettledBooks
  <2> QED BY <2>1, <2>2 DEF FittingBooks
<1>6. Ordered(b.fills, n)
  BY <1>2, LedgerAssumption DEF Ordered
<1>7. Balanced(b)
  BY <1>3, FlatIsSettled DEF Balanced
<1> QED BY <1>1, <1>5, <1>6, <1>7

\* The same, of the state a behaviour begins in.
LEMMA LedgerBegins == LedgerInit => LedgerInv
<1> SUFFICES ASSUME LedgerInit PROVE LedgerInv
  OBVIOUS
<1>1. /\ IInv /\ SoundInv
  BY InitEstablishesIInv, EmptyIsSound DEF LedgerInit, Init, SoundInv
<1>2. ctl = "idle" /\ sequence = 0 /\ queue = EmptyBook /\ batch = EmptyBatch
  BY DEF LedgerInit, Init
<1>3. batch.reports \in Seq(Bookable)
  BY <1>2 DEF EmptyBatch
<1>4. marks \in KnownMarks
  BY DEF LedgerInit, KnownMarks
<1>5. Held = NoBooks
  BY DEF LedgerInit, Held, NoBooks
<1>6. WouldBe = NoBooks
  BY <1>2, <1>5 DEF WouldBe
<1>7. NoBooks \in FittingBooks(marks) /\ Ordered(NoBooks.fills, sequence) /\ Balanced(NoBooks)
  <2>1. 0 \in Nat
    OBVIOUS
  <2> QED BY <1>2, <2>1, NothingFits
<1>8. SizesMatch(WouldBe.fills)
  BY <1>2 DEF SizesMatch, EmptyBook
<1> QED BY <1>1, <1>3, <1>4, <1>5, <1>6, <1>7, <1>8 DEF LedgerInv

\* The books of an idle ledger.
LEMMA IdleBooks ==
  ASSUME LedgerInv
  PROVE  /\ Held \in FittingBooks(marks) /\ Held \in BookSet /\ marks \in KnownMarks
         /\ Ordered(Held.fills, sequence) /\ Balanced(Held) /\ sequence \in Nat
         /\ ctl = "idle" /\ ~Held.lost => SizesMatch(Held.fills)
         /\ Held.fills = fills /\ Held.positions = positions /\ Held.cash = cash
         /\ Held.external = external /\ Held.lost = lost
<1>1. ctl = "idle" /\ ~Held.lost => SizesMatch(Held.fills)
  BY DEF LedgerInv, WouldBe
<1>2. Held.fills = fills /\ Held.positions = positions /\ Held.cash = cash /\ Held.external = external /\ Held.lost = lost
  BY DEF Held
<1> QED BY <1>1, <1>2 DEF LedgerInv, FittingBooks, SettledBooks, IInv, TypeOK

\* reset, of the orders alone or of everything.
LEMMA ResetKeepsBooks ==
  ASSUME LedgerInv, IInv', SoundInv', NEW clearFills \in BOOLEAN, ResetLedger(clearFills)
  PROVE  LedgerInv'
<1>1. batch' = EmptyBatch /\ marks' = marks /\ queue' = EmptyBook /\ ctl' = "idle" /\ sequence' = sequence + 1
  BY DEF ResetLedger, Reset, Ready
<1>2. \A list : SizesAfter(list)
  BY <1>1 DEF SizesAfter, EmptyBook
<1>3. CASE UNCHANGED <<fills, positions, cash, external, lost>>
  <2>1. PICK b : b = Held
    OBVIOUS
  <2>2. Held' = b
    BY <1>3, <2>1 DEF Held
  <2>3. /\ b \in FittingBooks(marks) /\ marks \in KnownMarks /\ Balanced(b) /\ sequence \in Nat
        /\ b.fills \in Seq(FillRecord) /\ Ordered(b.fills, sequence)
    BY <2>1, IdleBooks, PartsOfBooks
  <2>4. sequence + 1 \in Nat /\ sequence + 1 >= sequence
    BY <2>3
  <2>5. Ordered(b.fills, sequence')
    BY <1>1, <2>3, <2>4, OrderedLater
  <2> QED BY <1>1, <1>2, <2>2, <2>3, <2>5, BooksAtRest
<1>4. CASE fills' = <<>> /\ positions' = NoPositions /\ cash' = NoTotals /\ external' = NoTotals /\ lost' = FALSE
  <2>1. Held' = NoBooks
    BY <1>4 DEF Held, NoBooks
  <2>2. sequence' \in Nat /\ marks' \in KnownMarks
    BY <1>1, IdleBooks
  <2>3. NoBooks \in FittingBooks(marks') /\ Ordered(NoBooks.fills, sequence') /\ Balanced(NoBooks)
    BY <2>2, NothingFits
  <2> QED BY <1>1, <1>2, <2>1, <2>2, <2>3, BooksAtRest
<1> QED BY <1>3, <1>4 DEF ResetLedger

\* A restart.
LEMMA RestartEmptiesBooks ==
  ASSUME IInv', SoundInv', RestartLedger
  PROVE  LedgerInv'
<1>1. batch' = EmptyBatch /\ queue' = EmptyBook /\ ctl' = "idle" /\ sequence' = 0 /\ Held' = NoBooks
  BY DEF RestartLedger, Restart, Held, NoBooks
<1>2. \A list : SizesAfter(list)
  BY <1>1 DEF SizesAfter, EmptyBook
<1>3. marks' \in KnownMarks /\ sequence' \in Nat
  BY <1>1 DEF RestartLedger, KnownMarks
<1>4. NoBooks \in FittingBooks(marks') /\ Ordered(NoBooks.fills, sequence') /\ Balanced(NoBooks)
  BY <1>3, NothingFits
<1> QED BY <1>1, <1>2, <1>3, <1>4, BooksAtRest

\* The price a tick sets a mark to.
LEMMA MarkIs ==
  ASSUME NEW t \in Tick
  PROVE  MarkOf(t) \in Fractions \cup {None}
<1>1. /\ t.last \in RawPrices \cup {None} /\ t.bid \in RawPrices \cup {None} /\ t.ask \in RawPrices \cup {None}
      /\ RawPrices \subseteq Int
  BY ConstantsAssumption DEF Tick
<1>2. 1 \in Positive /\ 2 \in Positive
  BY DEF Positive
<1>3. \A n \in Int : Whole(n) \in Fractions /\ Fraction(n, 2) \in Fractions
  BY <1>2, WholeIs, FractionIs
<1>4. PICK last, bid, ask : last = t.last /\ bid = t.bid /\ ask = t.ask
  OBVIOUS
<1>5. /\ last # None => last \in Int
      /\ bid # None => bid \in Int
      /\ ask # None => ask \in Int
      /\ bid # None /\ ask # None => bid + ask \in Int
  <2>1. last # None => last \in Int
    BY <1>1, <1>4
  <2>2. bid # None => bid \in Int
    BY <1>1, <1>4
  <2>3. ask # None => ask \in Int
    BY <1>1, <1>4
  <2> QED BY <2>1, <2>2, <2>3
<1>6. PICK m : m = MarkOf(t)
  OBVIOUS
<1>7. \/ last # None /\ m = Whole(last)
      \/ bid # None /\ ask # None /\ m = Fraction(bid + ask, 2)
      \/ bid # None /\ m = Whole(bid)
      \/ ask # None /\ m = Whole(ask)
      \/ m = None
  BY <1>4, <1>6 DEF MarkOf
<1> QED BY <1>3, <1>5, <1>6, <1>7

\* update_mark.
LEMMA MarkKeepsBooks ==
  ASSUME LedgerInv, IInv', SoundInv', NEW t \in Tick, ApplyMarketData(t), UpdateMark(t),
         UNCHANGED <<fills, cash, external, lost>>
  PROVE  LedgerInv'
<1>1. /\ batch' = EmptyBatch /\ queue' = queue /\ ctl = "idle" /\ ctl' # "match" /\ sequence' = sequence
      /\ t.sym \in Symbols
  BY DEF ApplyMarketData, Ready, Tick
<1>2. PICK b, c : b = Held /\ c = Held'
  OBVIOUS
<1>3. /\ b \in FittingBooks(marks) /\ b \in BookSet /\ marks \in KnownMarks /\ Balanced(b) /\ sequence \in Nat
      /\ Ordered(b.fills, sequence) /\ (~b.lost => SizesMatch(b.fills)) /\ b \in SettledBooks(marks)
      /\ positions = b.positions
  BY <1>1, <1>2, IdleBooks DEF FittingBooks
<1>4. /\ c.fills = b.fills /\ c.cash = b.cash /\ c.external = b.external /\ c.lost = b.lost
      /\ c.positions = positions' /\ c = [b EXCEPT !.positions = positions']
  BY <1>2 DEF Held
<1>5. SizesAfter(c.fills) \/ c.lost
  BY <1>1, <1>3, <1>4 DEF SizesMatch, SizesAfter
<1>6. Ordered(c.fills, sequence')
  BY <1>1, <1>3, <1>4
<1>7. CASE MarkOf(t) = None
  <2>1. marks' = marks /\ c = b
    BY <1>2, <1>7 DEF UpdateMark, Held
  <2> QED BY <1>1, <1>2, <1>3, <1>5, <1>6, <2>1, BooksAtRest
<1>8. CASE MarkOf(t) # None
  <2>1. PICK m \in Fractions : m = MarkOf(t)
    BY <1>8, MarkIs
  <2>2. marks' = [marks EXCEPT ![t.sym] = m]
    BY <1>8, <2>1 DEF UpdateMark
  <2>3. marks' \in KnownMarks /\ marks'[t.sym] = m /\ \A s \in Symbols : s # t.sym => marks'[s] = marks[s]
    BY <1>1, <1>3, <2>2 DEF KnownMarks
  <2>4. b.positions \in [Products -> OpenPosition \cup {NoPosition}] /\ Products \subseteq Symbols
    BY <1>3, ConstantsAssumption DEF BookSet
  <2>5. CASE t.sym \in Products /\ b.positions[t.sym] # NoPosition
    <3>1. PICK old, next : old = b.positions[t.sym] /\ next = RecalcOpenPnl([old EXCEPT !.mark = m], t.sym)
      OBVIOUS
    <3>2. old \in OpenPosition /\ old = HeldOf(b, t.sym) /\ Bought(old, b.cash[t.sym], t.sym)
      BY <1>3, <2>4, <2>5, <3>1 DEF HeldOf, SettledBooks, Settled
    <3>3. Settled(next, b.cash[t.sym], t.sym) /\ next.mark = m /\ next.qty = old.qty
      BY <2>5, <3>1, <3>2, MarkingSettles
    <3>4. next \in OpenPosition
      BY <3>3 DEF Settled, Bought
    <3>5. positions' = [b.positions EXCEPT ![t.sym] = next]
      BY <1>3, <1>8, <2>1, <2>5, <3>1 DEF UpdateMark
    <3>6. /\ c.positions \in [Products -> OpenPosition \cup {NoPosition}]
          /\ c.positions[t.sym] = next /\ \A s \in Products : s # t.sym => c.positions[s] = b.positions[s]
      BY <1>4, <2>4, <2>5, <3>4, <3>5
    <3>7. HeldOf(c, t.sym) = next /\ \A s \in Products : s # t.sym => HeldOf(c, s) = HeldOf(b, s)
      BY <3>4, <3>6, OpenIsSome DEF HeldOf
    <3>8. c \in BookSet
      BY <1>3, <1>4, <3>6 DEF BookSet
    <3>9. ASSUME NEW s \in Products
          PROVE  /\ Settled(HeldOf(c, s), c.cash[s], s)
                 /\ c.positions[s] # NoPosition /\ marks'[s] # None => c.positions[s].mark = marks'[s]
      <4>1. CASE s = t.sym
        BY <1>4, <2>3, <3>3, <3>6, <3>7, <4>1
      <4>2. CASE s # t.sym
        BY <1>3, <1>4, <2>3, <2>4, <3>6, <3>7, <4>2 DEF SettledBooks
      <4> QED BY <4>1, <4>2
    <3>10. c \in FittingBooks(marks')
      BY <1>3, <1>4, <3>8, <3>9 DEF FittingBooks, SettledBooks
    <3>11. Balanced(c)
      <4>1. \A s \in Products : HeldOf(c, s).qty = HeldOf(b, s).qty
        BY <3>2, <3>3, <3>7
      <4> QED BY <1>3, <1>4, <4>1 DEF Balanced
    <3> QED BY <1>1, <1>2, <1>5, <1>6, <2>3, <3>10, <3>11, BooksAtRest
  <2>6. CASE ~(t.sym \in Products /\ b.positions[t.sym] # NoPosition)
    <3>1. positions' = b.positions
      BY <1>3, <1>8, <2>6 DEF UpdateMark
    <3>2. c = b
      <4>1. positions' = positions
        BY <1>3, <3>1
      <4> QED BY <1>2, <4>1 DEF Held
    <3>3. \A s \in Products : b.positions[s] # NoPosition => marks'[s] = marks[s]
      BY <2>3, <2>4, <2>6
    <3>4. c \in FittingBooks(marks')
      BY <1>3, <3>2, <3>3 DEF FittingBooks, SettledBooks
    <3> QED BY <1>1, <1>2, <1>3, <1>5, <1>6, <2>3, <3>2, <3>4, BooksAtRest
  <2> QED BY <2>5, <2>6
<1> QED BY <1>7, <1>8

-----------------------------------------------------------------------------
\* A step of the ledger.
LEMMA LedgerStep ==
  ASSUME LedgerInv, [LedgerNext]_ledgerVars
  PROVE  LedgerInv'
<1>1. [Next]_vars
  BY DEF LedgerNext, ledgerVars, OrderEndpoint, Run, ApplyMarket, ResetLedger, RestartLedger, Next
<1>2. IInv /\ SoundInv
  BY DEF LedgerInv
<1>3. IInv'
  BY <1>1, <1>2, NextKeepsIInv
<1>4. SoundInv'
  BY <1>1, <1>2, <1>3, NextKeepsSoundInv
<1>5. CASE UNCHANGED ledgerVars
  <2>1. Held' = Held /\ WouldBe' = WouldBe
    BY <1>5 DEF ledgerVars, vars, books, Held, WouldBe
  <2>2. /\ queue' = queue /\ ctl' = ctl /\ incoming' = incoming /\ batch' = batch /\ sequence' = sequence
        /\ marks' = marks
    BY <1>5 DEF ledgerVars, vars, books
  <2>3. (~WouldBe.lost => SizesMatch(WouldBe.fills))'
    BY <2>1, <2>2 DEF LedgerInv, SizesMatch
  <2>4. Balanced(Held)' /\ Balanced(WouldBe)'
    BY <2>1 DEF LedgerInv, Balanced
  <2>5. Ordered(Held.fills, sequence)' /\ Ordered(WouldBe.fills, sequence)'
    BY <2>1, <2>2 DEF LedgerInv, Ordered
  <2> QED BY <1>3, <1>4, <2>1, <2>2, <2>3, <2>4, <2>5 DEF LedgerInv
<1>6. CASE OrderEndpoint
  <2>1. Book
    BY <1>6 DEF OrderEndpoint
  <2>2. Quiet
    <3>1. ASSUME NEW c \in Command, SubmitOrder(c) PROVE Quiet
      BY <1>3, <3>1, SubmitIsQuiet
    <3>2. ASSUME NEW id \in Ids, CancelOrder(id) PROVE Quiet
      BY <1>3, <3>2, CancelIsQuiet
    <3>3. ASSUME NEW id \in Ids, NEW px \in RawPrices \cup {None, NaN}, NEW qty \in Quantities \cup {None},
                 ReplaceOrder(id, px, qty)
          PROVE  Quiet
      BY <1>3, <3>3, ReplaceIsQuiet
    <3> QED BY <1>6, <3>1, <3>2, <3>3 DEF OrderEndpoint
  <2> QED BY <1>3, <1>4, <2>1, <2>2, QuietStep
<1>7. CASE Run
  <2>1. Book
    BY <1>7 DEF Run
  <2>2. ASSUME NEW p \in Ticks, MatchIncoming(p) PROVE LedgerInv'
    BY <1>3, <1>4, <2>1, <2>2, MatchBooks
  <2>3. CASE FinishIncoming
    BY <1>3, <1>4, <2>1, <2>3, FinishIsQuiet, QuietStep
  <2>4. ASSUME NEW d \in Sides, NEW p \in Ticks, SweepOrder(d, p) PROVE LedgerInv'
    BY <1>3, <1>4, <2>1, <2>4, SweepBooks
  <2>5. CASE FinishSweep
    BY <1>3, <1>4, <2>1, <2>5, FinishSweepIsQuiet, QuietStep
  <2> QED BY <1>7, <2>2, <2>3, <2>4, <2>5 DEF Run, Step
<1>8. CASE ApplyMarket
  BY <1>3, <1>4, <1>8, MarkKeepsBooks DEF ApplyMarket
<1>9. ASSUME NEW clearFills \in BOOLEAN, ResetLedger(clearFills) PROVE LedgerInv'
  BY <1>3, <1>4, <1>9, ResetKeepsBooks
<1>10. CASE RestartLedger
  BY <1>3, <1>4, <1>10, RestartEmptiesBooks
<1> QED BY <1>5, <1>6, <1>7, <1>8, <1>9, <1>10 DEF LedgerNext

\* What follows of the books.
LEMMA LedgerInvSuffices ==
  ASSUME LedgerInv
  PROVE  /\ LedgerTypeOK /\ NetPositionIsExternal /\ ProfitIsValueLessCash
         /\ MarksAreCurrent /\ FillIdsUnique /\ FilledSizeMatchesFills
<1>1. PICK b : b = Held
  OBVIOUS
<1>2. /\ b \in FittingBooks(marks) /\ b \in BookSet /\ b \in SettledBooks(marks) /\ Balanced(b)
      /\ Ordered(b.fills, sequence) /\ (ctl = "idle" /\ ~b.lost => SizesMatch(b.fills))
      /\ fills = b.fills /\ positions = b.positions /\ cash = b.cash /\ external = b.external /\ lost = b.lost
  BY <1>1, IdleBooks DEF FittingBooks
<1>3. \A s \in Products : Position(s) = HeldOf(b, s)
  BY <1>2 DEF Position, HeldOf
<1>4. \A s \in Products : Settled(Position(s), cash[s], s) /\ cash[s] \in Int
  BY <1>2, <1>3 DEF SettledBooks, BookSet
<1>5. fills \in Seq(FillRecord) /\ Len(fills) <= MaxFills
  BY <1>2 DEF BookSet, FittingBooks
<1>6. LedgerTypeOK
  <2>1. \A i \in DOMAIN fills : fills[i].qty > 0 /\ fills[i].sym \in Products
    <3>1. \A i \in DOMAIN fills : fills[i] \in FillRecord
      BY <1>5
    <3> QED BY <3>1 DEF FillRecord, Positive
  <2>2. ASSUME NEW s \in Products, positions[s] # NoPosition
        PROVE  /\ positions[s].qty \in Int /\ positions[s].buy \in Nat /\ positions[s].sell \in Nat
               /\ \A x \in {"avg", "mark", "open", "realized"} : IsFraction(positions[s][x])
    <3>1. positions[s] \in OpenPosition
      BY <1>2, <2>2 DEF BookSet
    <3>2. /\ positions[s].avg \in Fractions /\ positions[s].mark \in Fractions
          /\ positions[s].open \in Fractions /\ positions[s].realized \in Fractions
      BY <3>1 DEF OpenPosition
    <3>3. \A x \in {"avg", "mark", "open", "realized"} : IsFraction(positions[s][x])
      BY <3>2, FractionParts
    <3> QED BY <3>1, <3>3 DEF OpenPosition
  <2> QED BY <1>5, <2>1, <2>2 DEF LedgerTypeOK
<1>7. NetPositionIsExternal
  BY <1>2, <1>3, <1>4 DEF NetPositionIsExternal, Balanced, Settled, Bought
<1>8. ProfitIsValueLessCash
  <2> SUFFICES ASSUME NEW s \in Products
               PROVE  Plus(Position(s).realized, Position(s).open) =
                        Scaled(Minus(Scaled(Position(s).mark, Position(s).qty), Whole(cash[s])), Multiplier[s])
    BY DEF ProfitIsValueLessCash
  <2>1. PICK p, c, mult : p = Position(s) /\ c = cash[s] /\ mult = Multiplier[s]
    OBVIOUS
  <2>2. /\ p \in OpenPosition /\ c \in Int /\ mult \in Int /\ Paid(p.avg, p.qty, p.realized, c, mult)
        /\ p.open = Scaled(Minus(p.mark, p.avg), p.qty * mult)
    BY <1>4, <2>1, MultiplierIs DEF Settled, Bought
  <2>3. p.avg \in Fractions /\ p.mark \in Fractions /\ p.qty \in Int
    BY <2>2 DEF OpenPosition
  <2>4. Plus(p.realized, Scaled(Minus(p.mark, p.avg), p.qty * mult)) =
          Scaled(Minus(Scaled(p.mark, p.qty), Whole(c)), mult)
    BY <2>2, <2>3, ProfitIs
  <2> QED BY <2>1, <2>2, <2>4
<1>9. MarksAreCurrent
  BY <1>2 DEF MarksAreCurrent, SettledBooks
<1>10. FillIdsUnique
  <2> SUFFICES ASSUME NEW i \in DOMAIN fills, NEW j \in DOMAIN fills, fills[i].seq = fills[j].seq, i # j
               PROVE  FALSE
    BY DEF FillIdsUnique
  <2>1. i \in Nat /\ j \in Nat /\ fills[i] \in FillRecord /\ fills[j] \in FillRecord
    BY <1>5
  <2>2. fills[i].seq \in Nat /\ fills[j].seq \in Nat
    BY <2>1 DEF FillRecord
  <2>3. i < j => fills[i].seq < fills[j].seq
    BY <1>2 DEF Ordered
  <2>4. j < i => fills[j].seq < fills[i].seq
    BY <1>2 DEF Ordered
  <2> QED BY <2>1, <2>2, <2>3, <2>4
<1>11. FilledSizeMatchesFills
  BY <1>2 DEF FilledSizeMatchesFills, SizesMatch, SizeIs
<1> QED BY <1>6, <1>7, <1>8, <1>9, <1>10, <1>11

\* The books of the server follow the fills of the engine: types, net positions, profits,
\* marks, ids of fills and the sizes filled of resting orders, whatever came before.
THEOREM LedgerInvariance == LedgerSpec => [](LedgerTypeOK /\ NetPositionIsExternal /\ ProfitIsValueLessCash
                                             /\ MarksAreCurrent /\ FillIdsUnique /\ FilledSizeMatchesFills)
<1>1. LedgerInit => LedgerInv
  BY LedgerBegins
<1>2. LedgerInv /\ [LedgerNext]_ledgerVars => LedgerInv'
  BY LedgerStep
<1>3. LedgerInv => /\ LedgerTypeOK /\ NetPositionIsExternal /\ ProfitIsValueLessCash
                   /\ MarksAreCurrent /\ FillIdsUnique /\ FilledSizeMatchesFills
  BY LedgerInvSuffices
<1> QED BY <1>1, <1>2, <1>3, PTL DEF LedgerSpec

\* The same, of the part of a behaviour of the services that is the ledger.
Booking == focus = "ledger" => LedgerInv

\* What a trader is shown of positions, profits and fills is what was traded.
THEOREM LedgerHolds == ServicesSpec => []LedgerFollowsFills
<1>1. ServicesInit => Booking
  BY LedgerBegins DEF ServicesInit, Booking
<1>2. Booking /\ [ServicesNext]_serviceVars => Booking'
  <2> SUFFICES ASSUME Booking, [ServicesNext]_serviceVars, focus' = "ledger" PROVE LedgerInv'
    BY DEF Booking
  <2>1. focus = "ledger" /\ LedgerInv
    BY DEF Booking, ServicesNext, serviceVars
  <2>2. [LedgerNext]_ledgerVars
    BY <2>1 DEF ServicesNext, serviceVars, ledgerVars
  <2> QED BY <2>1, <2>2, LedgerStep
<1>3. Booking => LedgerFollowsFills
  BY LedgerInvSuffices DEF Booking, LedgerFollowsFills
<1> QED BY <1>1, <1>2, <1>3, PTL DEF ServicesSpec

(***************************************************************************)
(* The wait of the price feed.                                             *)
(***************************************************************************)
\* The longest wait, and the waits it allows.
Longest == Most(Base, Ceiling)
Waits == Base .. Longest

\* f gives the waits after up to n failures.
WaitsUpTo(f, n) ==
  /\ f \in [0 .. n -> Waits]
  /\ f[0] = Base
  /\ \A k \in 1 .. n : f[k] = Least(2 * f[k - 1], Longest)

LEMMA LongestIs == /\ Longest \in Nat /\ Base \in Nat \ {0} /\ Base <= Longest /\ Base \in Waits
                   /\ Ceiling \in Nat /\ Longest = (IF Base < Ceiling THEN Ceiling ELSE Base)
BY PriceFeedAssumption DEF Longest, Most, Waits

\* Doubling a wait, up to the longest, gives a wait.
LEMMA Doubled ==
  ASSUME NEW w \in Waits
  PROVE  Least(2 * w, Longest) \in Waits
BY LongestIs DEF Least, Waits

\* The waits after one failure more.
LEMMA WaitsGoOn ==
  ASSUME NEW n \in Nat, \E f : WaitsUpTo(f, n)
  PROVE  \E g : WaitsUpTo(g, n + 1)
<1>1. PICK f : WaitsUpTo(f, n)
  OBVIOUS
<1> DEFINE g == [k \in 0 .. (n + 1) |-> IF k = n + 1 THEN Least(2 * f[n], Longest) ELSE f[k]]
<1>2. \A k \in 0 .. n : f[k] \in Waits /\ g[k] = f[k]
  BY <1>1 DEF WaitsUpTo
<1>3. g[n + 1] = Least(2 * f[n], Longest)
  OBVIOUS
<1>4. g[n + 1] \in Waits
  BY <1>2, <1>3, Doubled
<1>5. g \in [0 .. (n + 1) -> Waits]
  <2>1. \A k \in 0 .. (n + 1) : g[k] \in Waits
    BY <1>2, <1>4
  <2> QED BY <2>1
<1>6. g[0] = Base
  BY <1>1, <1>2 DEF WaitsUpTo
<1>7. \A k \in 1 .. (n + 1) : g[k] = Least(2 * g[k - 1], Longest)
  <2> TAKE k \in 1 .. (n + 1)
  <2>1. CASE k = n + 1
    BY <2>1, <1>2, <1>3
  <2>2. CASE k # n + 1
    <3>1. k \in 1 .. n /\ k \in 0 .. n /\ k - 1 \in 0 .. n
      BY <2>2
    <3>2. f[k] = Least(2 * f[k - 1], Longest)
      BY <1>1, <3>1 DEF WaitsUpTo
    <3> QED BY <3>1, <3>2, <1>2
  <2> QED BY <2>1, <2>2
<1>8. WaitsUpTo(g, n + 1)
  BY <1>5, <1>6, <1>7 DEF WaitsUpTo
<1> QED BY <1>8

\* There are waits up to every number of failures: a first number without would follow
\* one with.
LEMMA WaitsAre ==
  ASSUME NEW n \in Nat
  PROVE  \E f : WaitsUpTo(f, n)
<1> DEFINE T == {k \in Nat : ~ \E f : WaitsUpTo(f, k)}
<1> SUFFICES ASSUME T # {} PROVE FALSE
  OBVIOUS
<1>1. PICK k \in T : \A j \in T : k <= j
  BY LeastNatural
<1>2. k \in Nat /\ ~ \E f : WaitsUpTo(f, k)
  OBVIOUS
<1>3. k # 0
  <2> SUFFICES ASSUME k = 0 PROVE FALSE
    OBVIOUS
  <2> DEFINE f == [j \in 0 .. 0 |-> Base]
  <2>1. WaitsUpTo(f, 0)
    BY LongestIs DEF WaitsUpTo
  <2> QED BY <2>1, <1>2
<1>4. k - 1 \in Nat /\ k - 1 \notin T
  BY <1>1, <1>2, <1>3
<1>5. \E f : WaitsUpTo(f, k - 1)
  BY <1>4
<1>6. \E g : WaitsUpTo(g, k)
  BY <1>4, <1>5, WaitsGoOn
<1> QED BY <1>2, <1>6

\* Expected is the function that its equation asks for.
LEMMA ExpectedIs == WaitsUpTo(Expected, Longest)
<1> DEFINE All(h) == [n \in 0 .. Most(Base, Ceiling) |->
                        IF n = 0 THEN Base ELSE Least(2 * h[n - 1], Most(Base, Ceiling))]
<1>1. PICK f : WaitsUpTo(f, Longest)
  BY WaitsAre, LongestIs
<1>2. f = All(f)
  <2>1. \A n \in 0 .. Longest : f[n] = IF n = 0 THEN Base ELSE Least(2 * f[n - 1], Longest)
    BY <1>1, LongestIs DEF WaitsUpTo
  <2>2. f = [n \in 0 .. Longest |-> f[n]]
    BY <1>1 DEF WaitsUpTo
  <2> QED BY <2>1, <2>2, Zenon DEF Longest
<1>3. Expected = CHOOSE h : h = All(h)
  BY DEF Expected
<1>4. Expected = All(Expected)
  BY <1>2, <1>3, Zenon
<1> HIDE DEF All
<1>5. DOMAIN Expected = 0 .. Longest
  BY <1>4 DEF All, Longest
<1>6. \A n \in 0 .. Longest : Expected[n] = IF n = 0 THEN Base ELSE Least(2 * Expected[n - 1], Longest)
  BY <1>4, Zenon DEF All, Longest
<1>7. Expected[0] = Base
  BY <1>6, LongestIs
<1>8. \A n \in 1 .. Longest : Expected[n] = Least(2 * Expected[n - 1], Longest)
  BY <1>6, LongestIs
<1> DEFINE T == {n \in 0 .. Longest : Expected[n] \notin Waits}
<1>9. T = {}
  <2> SUFFICES ASSUME T # {} PROVE FALSE
    OBVIOUS
  <2>1. T \subseteq Nat
    BY LongestIs
  <2>2. PICK n \in T : \A j \in T : n <= j
    BY <2>1, LeastNatural
  <2>3. n # 0
    BY <1>7, LongestIs
  <2>4. n \in 1 .. Longest /\ n - 1 \in 0 .. Longest /\ n - 1 \notin T
    BY <2>1, <2>2, <2>3, LongestIs
  <2>5. Expected[n - 1] \in Waits
    BY <2>4
  <2> QED BY <1>8, <2>4, <2>5, Doubled
<1>10. \A n \in 0 .. Longest : Expected[n] \in Waits
  BY <1>9
<1>11. Expected \in [0 .. Longest -> Waits]
  <2>1. Expected = [n \in 0 .. Longest |-> Expected[n]]
    BY <1>4, <1>5, Zenon DEF All
  <2> QED BY <1>10, <2>1
<1> QED BY <1>7, <1>8, <1>11 DEF WaitsUpTo

\* A wait grows with every failure, until it is the longest.
LEMMA WaitsGrow ==
  ASSUME NEW n \in 0 .. Longest
  PROVE  Expected[n] \in Waits /\ Expected[n] >= Least(n + 1, Longest)
<1>1. \A k \in 0 .. Longest : Expected[k] \in Waits
  BY ExpectedIs DEF WaitsUpTo
<1> DEFINE T == {k \in 0 .. Longest : ~ (Expected[k] >= Least(k + 1, Longest))}
<1>2. T = {}
  <2> SUFFICES ASSUME T # {} PROVE FALSE
    OBVIOUS
  <2>1. T \subseteq Nat
    BY LongestIs
  <2>2. PICK k \in T : \A j \in T : k <= j
    BY <2>1, LeastNatural
  <2>3. k # 0
    BY ExpectedIs, LongestIs DEF WaitsUpTo, Least
  <2>4. k \in 1 .. Longest /\ k - 1 \in 0 .. Longest /\ k - 1 \notin T
    BY <2>1, <2>2, <2>3, LongestIs
  <2>5. Expected[k - 1] >= Least(k, Longest) /\ Expected[k - 1] \in Waits
    BY <2>4, <1>1
  <2>6. Expected[k] = Least(2 * Expected[k - 1], Longest)
    BY <2>4, ExpectedIs DEF WaitsUpTo
  <2>7. Expected[k - 1] \in Int /\ Expected[k - 1] >= 1
    BY <2>5, LongestIs DEF Waits
  <2>8. Expected[k] >= Least(k + 1, Longest)
    BY <2>4, <2>5, <2>6, <2>7, LongestIs DEF Least
  <2> QED BY <2>8
<1> QED BY <1>1, <1>2

\* A wait that was not answered is followed by the next one, and the last one by itself.
LEMMA NextWait ==
  ASSUME NEW n \in 0 .. Longest
  PROVE  Least(Most(2 * Expected[n], Expected[n] + 1), Most(Expected[n], Ceiling)) =
           Expected[Least(n + 1, Longest)]
<1>1. Expected[n] \in Int /\ Base <= Expected[n] /\ Expected[n] <= Longest
  BY WaitsGrow, LongestIs DEF Waits
<1>2. Least(Most(2 * Expected[n], Expected[n] + 1), Most(Expected[n], Ceiling)) = Least(2 * Expected[n], Longest)
  BY <1>1, LongestIs DEF Least, Most
<1>3. CASE n < Longest
  <2>1. n + 1 \in 1 .. Longest /\ Least(n + 1, Longest) = n + 1 /\ (n + 1) - 1 = n
    BY <1>3, LongestIs DEF Least
  <2>2. Expected[n + 1] = Least(2 * Expected[(n + 1) - 1], Longest)
    BY <2>1, ExpectedIs DEF WaitsUpTo
  <2> QED BY <1>2, <2>1, <2>2
<1>4. CASE n = Longest
  <2>1. Expected[n] >= Longest
    BY <1>4, WaitsGrow, LongestIs DEF Least
  <2>2. Expected[n] = Longest /\ Least(2 * Longest, Longest) = Longest /\ Least(n + 1, Longest) = Longest
    BY <1>1, <1>4, <2>1, LongestIs DEF Least
  <2> QED BY <1>2, <1>4, <2>2
<1> QED BY <1>3, <1>4, LongestIs

(* What every state of the feed keeps: the delay is the one of the failures so far,  *)
(* and a wait is the one of the failures before the last.                            *)
WaitInv ==
  /\ fruitless \in 0 .. Longest /\ signalled \in BOOLEAN
  /\ delay = Expected[fruitless]
  /\ WaitFitsFailures

LEMMA WaitBegins == PriceFeedInit => WaitInv
<1> SUFFICES ASSUME PriceFeedInit PROVE WaitInv
  OBVIOUS
<1>1. fruitless = 0 /\ delay = Base /\ signalled = FALSE /\ feedAt = "open"
  BY DEF PriceFeedInit
<1>2. 0 \in 0 .. Longest
  BY LongestIs
<1>3. Expected[0] = Base
  BY ExpectedIs DEF WaitsUpTo
<1>4. WaitFitsFailures
  BY <1>1 DEF WaitFitsFailures
<1> QED BY <1>1, <1>2, <1>3, <1>4 DEF WaitInv

\* The end of a session.
LEMMA EndKeepsWait ==
  ASSUME WaitInv, NEW heard \in BOOLEAN, SessionEnds(heard)
  PROVE  WaitInv'
<1>1. Longest' = Longest /\ Expected' = Expected
  BY DEF Longest, Most, Expected, Least
<1>2. signalled' \in BOOLEAN
  BY DEF SessionEnds
<1>3. CASE ~feedRunning
  BY <1>2, <1>3 DEF WaitInv, WaitFitsFailures, SessionEnds
<1>4. CASE feedRunning /\ heard
  BY <1>2, <1>4, ExpectedIs, LongestIs DEF WaitInv, WaitFitsFailures, SessionEnds, WaitsUpTo
<1>5. CASE feedRunning /\ ~heard
  <2> DEFINE n == fruitless
  <2>1. n \in 0 .. Longest /\ n \in Nat
    BY LongestIs DEF WaitInv
  <2>2. pause' = Expected[n] /\ delay' = LongerDelay /\ fruitless' = Least(n + 1, Longest)
    BY <1>5 DEF SessionEnds, WaitInv, Longest
  <2>3. delay' = Expected[fruitless']
    BY <2>1, <2>2, NextWait DEF LongerDelay, WaitInv
  <2>4. fruitless' \in 1 .. Longest
    BY <2>1, <2>2, LongestIs DEF Least
  <2>5. Expected[n] = Expected[fruitless' - 1]
    <3>1. CASE n < Longest
      BY <2>1, <2>2, <3>1, LongestIs DEF Least
    <3>2. CASE n = Longest
      <4>1. fruitless' - 1 = Longest - 1 /\ Longest - 1 \in 0 .. Longest /\ Longest \in 0 .. Longest
        BY <2>1, <2>2, <3>2, LongestIs DEF Least
      <4>2. Expected[Longest] \in Waits /\ Expected[Longest] >= Longest
        BY <4>1, WaitsGrow, LongestIs DEF Least
      <4>3. Expected[Longest - 1] \in Waits /\ Expected[Longest - 1] >= Longest
        BY <4>1, WaitsGrow, LongestIs DEF Least
      <4> QED BY <3>2, <4>1, <4>2, <4>3, LongestIs DEF Waits
    <3> QED BY <2>1, <3>1, <3>2, LongestIs
  <2>6. WaitFitsFailures'
    BY <1>1, <2>2, <2>4, <2>5, LongestIs DEF WaitFitsFailures
  <2> QED BY <1>1, <1>2, <2>3, <2>4, <2>6, LongestIs DEF WaitInv
<1> QED BY <1>3, <1>4, <1>5

\* Every step of the feed, of the process that ends it and of the provider.
LEMMA WaitStep ==
  ASSUME WaitInv, [PriceFeedNext]_priceFeedVars
  PROVE  WaitInv'
<1>1. signalled \in BOOLEAN
  BY DEF WaitInv
<1>2. CASE OpenSession
  <2>1. CASE feedRunning /\ provider # "refuses"
    BY <1>2, <2>1 DEF WaitInv, WaitFitsFailures, OpenSession
  <2>2. CASE ~ (feedRunning /\ provider # "refuses")
    <3>1. SessionEnds(FALSE)
      BY <1>2, <2>2 DEF OpenSession
    <3> QED BY <3>1, EndKeepsWait
  <2> QED BY <2>1, <2>2
<1>3. CASE NoRecord
  <2>1. CASE quietFor + 1 >= StaleAfter
    <3>1. SessionEnds(signalled)
      BY <1>3, <2>1 DEF NoRecord
    <3> QED BY <1>1, <3>1, EndKeepsWait
  <2>2. CASE ~ (quietFor + 1 >= StaleAfter)
    BY <1>3, <2>2 DEF WaitInv, WaitFitsFailures, NoRecord
  <2> QED BY <2>1, <2>2
<1>4. CASE SessionFails
  <2>1. SessionEnds(signalled)
    BY <1>4 DEF SessionFails
  <2> QED BY <1>1, <2>1, EndKeepsWait
<1>5. CASE PauseEnds
  BY <1>5 DEF WaitInv, WaitFitsFailures, PauseEnds
<1>6. ASSUME NEW record \in Records, NextRecord(record) PROVE WaitInv'
  BY <1>6 DEF WaitInv, WaitFitsFailures, NextRecord
<1>7. CASE HandleSignal
  BY <1>7 DEF WaitInv, WaitFitsFailures, HandleSignal
<1>8. CASE ProviderTurns
  BY <1>8 DEF WaitInv, WaitFitsFailures, ProviderTurns
<1>9. CASE UNCHANGED priceFeedVars
  BY <1>9 DEF WaitInv, WaitFitsFailures, priceFeedVars
<1> QED
  BY <1>2, <1>3, <1>4, <1>5, <1>6, <1>7, <1>8, <1>9 DEF PriceFeedNext, FeedSteps

\* The wait before a session is the one its failures call for, however often the provider
\* turned: the base after a signal, twice the last one up to the ceiling after none.
THEOREM WaitsFitTheFailures == PriceFeedSpec => []WaitFitsFailures
<1>1. PriceFeedInit => WaitInv
  BY WaitBegins
<1>2. WaitInv /\ [PriceFeedNext]_priceFeedVars => WaitInv'
  BY WaitStep
<1>3. WaitInv => WaitFitsFailures
  BY DEF WaitInv
<1> QED BY <1>1, <1>2, <1>3, PTL DEF PriceFeedSpec
===============================================================================
