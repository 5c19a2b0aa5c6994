------------------------------ MODULE ImplProofs ------------------------------
(***************************************************************************)
(* Exchange implements OrderBook, for every product, price, quantity and   *)
(* number of orders.  The argument follows the loops: what an order has to *)
(* do with a book is its first trade there and what it has to do with the  *)
(* book after it (FullTrade, LastTrade), so that at every iteration        *)
(* MatchHolds equates what the whole command does to the book it found     *)
(* with what the rest of the loop does to the queues; SweepHolds says the  *)
(* same of a tick.                                                         *)
(***************************************************************************)
EXTENDS ExchangeImpl, ExchangeProofs

\* OrderBook takes its values and orders from the module that Exchange does.
LEMMA SameOperators ==
  /\ \A f : Book!SumFunction(f) = SumFunctionOnSet(f, DOMAIN f)
  /\ \A d, p, r : Book!Better(d, p, r) <=> Better(d, p, r)
  /\ \A d, p, r : Book!Crosses(d, p, r) <=> Crosses(d, p, r)
  /\ \A d : Book!Opposite(d) = Opposite(d)
  /\ \A p : Book!FromTicks(p) = FromTicks(p)
  /\ \A o : Book!Rests(o) <=> Rests(o)
  /\ \A c, n : Book!OrderOf(c, n) = OrderOf(c, n)
  /\ \A c, live : Book!Refused(c, live) <=> Refused(c, live)
  /\ \A o, px, qty : Book!Amended(o, px, qty) = Amended(o, px, qty)
  /\ \A t, d, p : Book!Triggered(t, d, p) <=> Triggered(t, d, p)
  /\ Book!Command = Command /\ Book!Tick = Tick
<1>1. \A f : Book!SumFunction(f) = SumFunctionOnSet(f, DOMAIN f)
  BY DEF Book!SumFunction, Book!SumFunctionOnSet, Book!FoldFunctionOnSet, Book!MapThenFoldSet, SumFunctionOnSet, FoldFunctionOnSet, MapThenFoldSet
<1>2. /\ \A d, p, r : Book!Better(d, p, r) <=> Better(d, p, r)
      /\ \A d, p, r : Book!Crosses(d, p, r) <=> Crosses(d, p, r)
      /\ \A d : Book!Opposite(d) = Opposite(d)
      /\ \A p : Book!FromTicks(p) = FromTicks(p)
      /\ \A o : Book!Rests(o) <=> Rests(o)
  BY DEF Book!Better, Better, Book!Crosses, Crosses, Book!Opposite, Opposite, Book!FromTicks, FromTicks, Book!Rests, Rests
<1>3. \A c, n : Book!OrderOf(c, n) = OrderOf(c, n)
  BY DEF Book!OrderOf, OrderOf, Book!MarketPriceBoundary, MarketPriceBoundary, Book!ToTicks, ToTicks
<1>4. \A c, live : Book!Refused(c, live) <=> Refused(c, live)
  BY DEF Book!Refused, Refused
<1>5. \A o, px, qty : Book!Amended(o, px, qty) = Amended(o, px, qty)
  BY DEF Book!Amended, Amended, Book!FromTicks, FromTicks
<1>6. \A t, d, p : Book!Triggered(t, d, p) <=> Triggered(t, d, p)
  BY DEF Book!Triggered, Triggered, Book!ToTicks, ToTicks
<1>7. Book!Command = Command /\ Book!Tick = Tick
  BY DEF Book!Command, Command, Book!Tick, Tick, Book!Sides, Sides, Book!Types, Types, Book!Tifs, Tifs
<1> QED
  BY <1>1, <1>2, <1>3, <1>4, <1>5, <1>6, <1>7

-----------------------------------------------------------------------------
\* What order in does to a book: the orders it can trade with, what each of them
\* gives, and the book, the quantity and the fills it ends with.
Crossing(in, book) ==
  {o \in book : o.sym = in.sym /\ o.side = Opposite(in.side) /\ Crosses(in.side, in.px, o.px)}
Gives(in, book) == [o \in Crossing(in, book) |-> Book!Share(o, in.rem, Crossing(in, book))]
HitBy(in, book) == {o \in Crossing(in, book) : Gives(in, book)[o] > 0}
BookAfter(in, book) ==
  (book \ HitBy(in, book))
    \cup {[o EXCEPT !.rem = @ - Gives(in, book)[o]] :
            o \in {h \in HitBy(in, book) : Gives(in, book)[h] < h.rem}}
LeftOf(in, book) == in.rem - SumFunctionOnSet(Gives(in, book), Crossing(in, book))
FillsOf(in, book) == {Book!Fill(o, in.id, Gives(in, book)[o]) : o \in HitBy(in, book)}

Has(orders) == IsFiniteSet(orders) /\ \A o \in orders : o.rem \in Nat

\* The quantity of finitely many orders, one of them taken out.
LEMMA QuantityOf ==
  ASSUME NEW S, Has(S)
  PROVE  /\ Book!Quantity(S) \in Nat
         /\ S = {} => Book!Quantity(S) = 0
         /\ \A y \in S : Book!Quantity(S) = y.rem + Book!Quantity(S \ {y})
<1> DEFINE f == [o \in S |-> o.rem]
<1>1. Book!Quantity(S) = SumFunctionOnSet(f, S)
  BY SameOperators DEF Book!Quantity
<1>2. IsFiniteSet(S) /\ \A o \in S : f[o] \in Nat
  BY DEF Has
<1>3. SumFunctionOnSet(f, S) \in Nat
  <2> HIDE DEF f
  <2> QED
    BY <1>2, SumType
<1>4. S = {} => SumFunctionOnSet(f, S) = 0
  BY SumOfNothing
<1>5. ASSUME NEW y \in S
      PROVE  Book!Quantity(S) = y.rem + Book!Quantity(S \ {y})
  <2> DEFINE T == S \ {y}
             g == [o \in T |-> o.rem]
  <2>1. Book!Quantity(T) = SumFunctionOnSet(g, T)
    <3>1. DOMAIN g = T
      OBVIOUS
    <3> QED
      BY <3>1, SameOperators DEF Book!Quantity
  <2>2. \A x \in T : f[x] = g[x]
    OBVIOUS
  <2>3. IsFiniteSet(T)
    BY <1>2, FS_RemoveElement
  <2>4. SumFunctionOnSet(f, T) = SumFunctionOnSet(g, T)
    <3> HIDE DEF f, g, T
    <3> QED
      BY <2>2, <2>3, SumsOfSameValues
  <2>5. SumFunctionOnSet(f, S) = f[y] + SumFunctionOnSet(f, T)
    <3> HIDE DEF f
    <3> QED
      BY <1>2, SumByElement
  <2>6. f[y] = y.rem
    OBVIOUS
  <2> QED
    BY <1>1, <2>1, <2>4, <2>5, <2>6
<1> QED
  BY <1>1, <1>3, <1>4, <1>5

\* How much an order has to wait for.
Before(o, orders) == {x \in orders : Book!Ahead(x, o)}

\* What an order gives, by the quantity of those ahead of it.
LEMMA ShareOf ==
  ASSUME NEW S, Has(S), NEW o \in S, NEW qty \in Int
  PROVE  /\ Before(o, S) \subseteq S /\ Has(Before(o, S))
         /\ Book!Quantity(Before(o, S)) \in Nat
         /\ LET wanted == qty - Book!Quantity(Before(o, S))
            IN Book!Share(o, qty, S) =
                 IF wanted <= 0 THEN 0 ELSE IF wanted < o.rem THEN wanted ELSE o.rem
<1>1. Before(o, S) \subseteq S
  BY DEF Before
<1>2. Has(Before(o, S))
  <2>1. IsFiniteSet(Before(o, S))
    BY <1>1, FS_Subset DEF Has
  <2> QED
    BY <1>1, <2>1 DEF Has
<1>3. Book!Quantity(Before(o, S)) \in Nat
  BY <1>2, QuantityOf
<1>4. LET wanted == qty - Book!Quantity(Before(o, S))
      IN Book!Share(o, qty, S) =
           IF wanted <= 0 THEN 0 ELSE IF wanted < o.rem THEN wanted ELSE o.rem
  BY DEF Book!Share, Before
<1> QED
  BY <1>1, <1>2, <1>3, <1>4

\* b is the first of the orders.
First(b, orders) ==
  /\ b \in orders /\ b.rem > 0
  /\ ~Book!Ahead(b, b)
  /\ \A o \in orders \ {b} : Book!Ahead(b, o) /\ ~Book!Ahead(o, b)

\* The first order gives what is wanted, and what it has at the most.
LEMMA FirstGives ==
  ASSUME NEW S, Has(S), NEW b, First(b, S), NEW qty \in Nat
  PROVE  Book!Share(b, qty, S) = IF qty < b.rem THEN qty ELSE b.rem
<1>1. Before(b, S) = {}
  BY DEF First, Before
<1>2. Has({}) /\ Book!Quantity({}) = 0
  <2>1. Has({})
    BY FS_EmptySet DEF Has
  <2> QED
    BY <2>1, QuantityOf
<1>3. b \in S /\ b.rem \in Nat /\ qty \in Int /\ b.rem > 0
  BY DEF First, Has
<1>4. LET wanted == qty - Book!Quantity(Before(b, S))
      IN Book!Share(b, qty, S) =
           IF wanted <= 0 THEN 0 ELSE IF wanted < b.rem THEN wanted ELSE b.rem
  BY <1>3, ShareOf
<1> QED
  BY <1>1, <1>2, <1>3, <1>4

\* The others give what is wanted beyond that.
LEMMA OthersGive ==
  ASSUME NEW S, Has(S), NEW b, First(b, S), NEW qty \in Nat, NEW o \in S \ {b}
  PROVE  /\ qty >= b.rem => Book!Share(o, qty, S) = Book!Share(o, qty - b.rem, S \ {b})
         /\ qty <= b.rem => Book!Share(o, qty, S) = 0
<1> DEFINE T == S \ {b}
<1>1. b \in S /\ b.rem \in Nat /\ b.rem > 0 /\ o \in T /\ o.rem \in Nat
  BY DEF First, Has
<1>2. Has(T)
  BY FS_RemoveElement DEF Has
<1>3. /\ b \in Before(o, S) /\ Before(o, T) = Before(o, S) \ {b}
  BY <1>1 DEF First, Before
<1>4. Has(Before(o, S)) /\ Has(Before(o, T))
  BY <1>1, <1>2, ShareOf
<1> DEFINE m == Book!Quantity(Before(o, S))
           n == Book!Quantity(Before(o, T))
<1>5. m \in Nat /\ n \in Nat /\ m = b.rem + n
  BY <1>3, <1>4, QuantityOf
<1>6. Book!Share(o, qty, S) =
        IF qty - m <= 0 THEN 0 ELSE IF qty - m < o.rem THEN qty - m ELSE o.rem
  <2>1. o \in S /\ qty \in Int
    OBVIOUS
  <2> HIDE DEF T
  <2> QED
    BY <2>1, ShareOf
<1>7. Book!Share(o, qty - b.rem, T) =
        IF qty - b.rem - n <= 0 THEN 0 ELSE IF qty - b.rem - n < o.rem THEN qty - b.rem - n ELSE o.rem
  <2>1. o \in T /\ qty - b.rem \in Int
    BY <1>1
  <2> HIDE DEF T
  <2> QED
    BY <1>2, <2>1, ShareOf
<1>8. qty - m = qty - b.rem - n
  BY <1>1, <1>5
<1> HIDE DEF m, n, T
<1>9. qty >= b.rem => Book!Share(o, qty, S) = Book!Share(o, qty - b.rem, T)
  BY <1>6, <1>7, <1>8
<1>10. qty <= b.rem => Book!Share(o, qty, S) = 0
  BY <1>1, <1>5, <1>6
<1> QED
  BY <1>9, <1>10 DEF T

\* The orders that are hit are those that give something.
LEMMA GivesOf ==
  ASSUME NEW in, NEW book
  PROVE  /\ \A o \in Crossing(in, book) :
              Gives(in, book)[o] = Book!Share(o, in.rem, Crossing(in, book))
         /\ \A o : o \in HitBy(in, book) <=>
              o \in Crossing(in, book) /\ Book!Share(o, in.rem, Crossing(in, book)) > 0
         /\ HitBy(in, book) \subseteq Crossing(in, book)
         /\ Crossing(in, book) \subseteq book
  BY DEF Gives, HitBy, Crossing

\* What each order gives is a quantity.
LEMMA SharesAreQuantities ==
  ASSUME NEW in, in.rem \in Nat, NEW book, Has(Crossing(in, book))
  PROVE  \A o \in Crossing(in, book) : Gives(in, book)[o] \in Nat
<1> SUFFICES ASSUME NEW o \in Crossing(in, book) PROVE Gives(in, book)[o] \in Nat
  OBVIOUS
<1> DEFINE S == Crossing(in, book)
           m == Book!Quantity(Before(o, S))
<1>1. o.rem \in Nat /\ in.rem \in Int /\ Has(S) /\ o \in S
  BY DEF Has
<1>2. /\ m \in Nat
      /\ Book!Share(o, in.rem, S) =
           IF in.rem - m <= 0 THEN 0 ELSE IF in.rem - m < o.rem THEN in.rem - m ELSE o.rem
  <2> HIDE DEF S
  <2> QED
    BY <1>1, ShareOf
<1>3. Gives(in, book)[o] = Book!Share(o, in.rem, S)
  BY GivesOf
<1> HIDE DEF m, S
<1> QED
  BY <1>1, <1>2, <1>3

\* An order that wants nothing more, or that nothing crosses, does nothing.
LEMMA NothingGiven ==
  ASSUME NEW in, in.rem \in Nat, NEW book, Has(Crossing(in, book)),
         in.rem = 0 \/ Crossing(in, book) = {}
  PROVE  BookAfter(in, book) = book /\ LeftOf(in, book) = in.rem /\ FillsOf(in, book) = {}
<1> DEFINE S == Crossing(in, book)
<1>1. \A o \in S : Gives(in, book)[o] = 0
  <2> SUFFICES ASSUME NEW o \in S PROVE Gives(in, book)[o] = 0
    OBVIOUS
  <2> DEFINE m == Book!Quantity(Before(o, S))
  <2>1. in.rem = 0 /\ in.rem \in Int /\ Has(S) /\ o \in S /\ o.rem \in Nat
    BY DEF Has
  <2>2. /\ m \in Nat
        /\ Book!Share(o, in.rem, S) =
             IF in.rem - m <= 0 THEN 0 ELSE IF in.rem - m < o.rem THEN in.rem - m ELSE o.rem
    <3> HIDE DEF S
    <3> QED
      BY <2>1, ShareOf
  <2>3. Gives(in, book)[o] = Book!Share(o, in.rem, S)
    BY GivesOf
  <2> HIDE DEF m, S
  <2> QED
    BY <2>1, <2>2, <2>3
<1>2. HitBy(in, book) = {}
  BY <1>1, GivesOf
<1>3. SumFunctionOnSet(Gives(in, book), S) = 0
  <2>1. IsFiniteSet(S)
    BY DEF Has
  <2> HIDE DEF S
  <2> QED
    BY <1>1, <2>1, SumOfZeros
<1> HIDE DEF S
<1>4. BookAfter(in, book) = book /\ FillsOf(in, book) = {}
  BY <1>2 DEF BookAfter, FillsOf
<1>5. LeftOf(in, book) = in.rem
  BY <1>3 DEF LeftOf, S
<1> QED
  BY <1>4, <1>5

\* The first order is taken whole, and the rest goes on without it.
LEMMA FullTrade ==
  ASSUME NEW in \in Order, NEW book, Has(Crossing(in, book)),
         NEW b, First(b, Crossing(in, book)), in.rem >= b.rem,
         NEW next \in Order, next = [in EXCEPT !.rem = @ - b.rem]
  PROVE  /\ BookAfter(in, book) = BookAfter(next, book \ {b})
         /\ LeftOf(in, book) = LeftOf(next, book \ {b})
         /\ FillsOf(in, book) = FillsOf(next, book \ {b}) \cup {Book!Fill(b, in.id, b.rem)}
<1> DEFINE S == Crossing(in, book)
           T == S \ {b}
           rest == book \ {b}
<1>1. /\ next.id = in.id /\ next.sym = in.sym /\ next.side = in.side /\ next.px = in.px
      /\ next.rem = in.rem - b.rem /\ in.rem \in Nat /\ next.rem \in Nat
  BY DEF Order
<1>2. b \in S /\ b \in book /\ b.rem \in Nat /\ b.rem > 0
  BY DEF First, Has, Crossing
<1>3. Crossing(next, rest) = T
  BY <1>1 DEF Crossing
<1>4. Gives(in, book)[b] = b.rem
  BY <1>1, <1>2, FirstGives, GivesOf
<1>5. ASSUME NEW o \in T
      PROVE  Gives(in, book)[o] = Gives(next, rest)[o]
  <2>1. Gives(in, book)[o] = Book!Share(o, in.rem, S)
    BY GivesOf
  <2>2. Gives(next, rest)[o] = Book!Share(o, next.rem, T)
    <3> HIDE DEF rest, T
    <3> QED
      BY <1>3, GivesOf
  <2>3. Book!Share(o, in.rem, S) = Book!Share(o, in.rem - b.rem, T)
    <3>1. Has(S) /\ First(b, S) /\ o \in S \ {b}
      OBVIOUS
    <3> HIDE DEF S
    <3> QED
      BY <1>1, <3>1, OthersGive
  <2> QED
    BY <1>1, <2>1, <2>2, <2>3
<1>6. HitBy(in, book) = HitBy(next, rest) \cup {b} /\ b \notin HitBy(next, rest)
  <2>1. \A o : o \in HitBy(in, book) <=> o \in S /\ Gives(in, book)[o] > 0
    BY DEF HitBy
  <2>2. \A o : o \in HitBy(next, rest) <=> o \in T /\ Gives(next, rest)[o] > 0
    BY <1>3 DEF HitBy
  <2>3. \A o : o \in S <=> o = b \/ o \in T
    BY <1>2
  <2> HIDE DEF S
  <2> QED
    BY <1>2, <1>4, <1>5, <2>1, <2>2, <2>3
<1>7. BookAfter(in, book) = BookAfter(next, rest)
  <2> DEFINE P == {h \in HitBy(in, book) : Gives(in, book)[h] < h.rem}
             Q == {h \in HitBy(next, rest) : Gives(next, rest)[h] < h.rem}
  <2>1. HitBy(next, rest) \subseteq T
    <3> HIDE DEF rest, T
    <3> QED
      BY <1>3, GivesOf
  <2>2. P = Q
    <3> HIDE DEF T, rest, S
    <3>1. \A o \in HitBy(next, rest) : Gives(in, book)[o] = Gives(next, rest)[o]
      BY <1>5, <2>1
    <3>2. ~ (Gives(in, book)[b] < b.rem)
      BY <1>2, <1>4
    <3> QED
      BY <1>6, <3>1, <3>2
  <2>3. \A o \in Q : Gives(in, book)[o] = Gives(next, rest)[o]
    BY <1>5, <2>1
  <2>4. {[o EXCEPT !.rem = @ - Gives(in, book)[o]] : o \in P}
          = {[o EXCEPT !.rem = @ - Gives(next, rest)[o]] : o \in Q}
    <3> HIDE DEF P, Q, S
    <3> QED
      BY <2>2, <2>3
  <2>5. book \ HitBy(in, book) = rest \ HitBy(next, rest)
    BY <1>6
  <2> HIDE DEF rest, S
  <2> QED
    BY <2>4, <2>5 DEF BookAfter
<1>8. FillsOf(in, book) = FillsOf(next, rest) \cup {Book!Fill(b, in.id, b.rem)}
  <2>1. \A o \in HitBy(next, rest) : Gives(in, book)[o] = Gives(next, rest)[o]
    <3> HIDE DEF rest, T
    <3> QED
      BY <1>3, <1>5, GivesOf
  <2> HIDE DEF rest, S
  <2> QED
    BY <1>1, <1>4, <1>6, <2>1 DEF FillsOf
<1>9. LeftOf(in, book) = LeftOf(next, rest)
  <2> DEFINE f == Gives(in, book)
             g == Gives(next, rest)
  <2>1. Has(T)
    BY FS_RemoveElement DEF Has
  <2>2. \A o \in S : f[o] \in Nat
    BY <1>1, SharesAreQuantities
  <2>3. SumFunctionOnSet(f, S) = f[b] + SumFunctionOnSet(f, T)
    <3>1. IsFiniteSet(S)
      BY DEF Has
    <3> HIDE DEF f, S
    <3> QED
      BY <1>2, <2>2, <3>1, SumByElement
  <2>4. SumFunctionOnSet(f, T) = SumFunctionOnSet(g, T)
    <3>1. IsFiniteSet(T) /\ \A o \in T : f[o] = g[o]
      BY <1>5, <2>1 DEF Has
    <3> HIDE DEF f, g, T
    <3> QED
      BY <3>1, SumsOfSameValues
  <2>5. SumFunctionOnSet(f, T) \in Nat
    <3>1. IsFiniteSet(T) /\ \A o \in T : f[o] \in Nat
      BY <2>1, <2>2 DEF Has
    <3> HIDE DEF f, T
    <3> QED
      BY <3>1, SumType
  <2>6. /\ LeftOf(in, book) = in.rem - SumFunctionOnSet(f, S)
        /\ LeftOf(next, rest) = next.rem - SumFunctionOnSet(g, T)
    BY <1>3 DEF LeftOf
  <2>7. f[b] = b.rem
    BY <1>4
  <2> HIDE DEF f, g, S, T, rest
  <2> QED
    BY <1>1, <1>2, <2>3, <2>4, <2>5, <2>6, <2>7
<1> QED
  BY <1>7, <1>8, <1>9

\* The first order has more than is wanted: it is partly taken, the others are left.
LEMMA LastTrade ==
  ASSUME NEW in \in Order, NEW book, Has(Crossing(in, book)),
         NEW b, First(b, Crossing(in, book)), in.rem > 0, in.rem < b.rem
  PROVE  /\ BookAfter(in, book) = (book \ {b}) \cup {[b EXCEPT !.rem = @ - in.rem]}
         /\ LeftOf(in, book) = 0
         /\ FillsOf(in, book) = {Book!Fill(b, in.id, in.rem)}
<1> DEFINE S == Crossing(in, book)
           T == S \ {b}
           f == Gives(in, book)
<1>1. /\ b \in S /\ b \in book /\ b.rem \in Nat /\ b.rem > 0 /\ in.rem \in Nat
      /\ Has(S) /\ First(b, S)
  BY DEF First, Has, Crossing, Order
<1>2. f[b] = in.rem
  <2>1. f[b] = Book!Share(b, in.rem, S)
    BY <1>1, GivesOf
  <2> HIDE DEF f, S
  <2> QED
    BY <1>1, <2>1, FirstGives
<1>3. \A o \in T : f[o] = 0
  <2> SUFFICES ASSUME NEW o \in T PROVE f[o] = 0
    OBVIOUS
  <2>1. f[o] = Book!Share(o, in.rem, S) /\ o \in S \ {b} /\ in.rem <= b.rem
    BY <1>1, GivesOf
  <2> HIDE DEF f, S
  <2> QED
    BY <1>1, <2>1, OthersGive
<1>4. HitBy(in, book) = {b}
  <2>1. \A o : o \in HitBy(in, book) <=> o \in S /\ f[o] > 0
    BY DEF HitBy
  <2> HIDE DEF S, f
  <2> QED
    BY <1>1, <1>2, <1>3, <2>1
<1>5. BookAfter(in, book) = (book \ {b}) \cup {[b EXCEPT !.rem = @ - in.rem]}
  <2>1. {h \in HitBy(in, book) : f[h] < h.rem} = {b}
    <3> HIDE DEF f
    <3> QED
      BY <1>1, <1>2, <1>4
  <2>2. BookAfter(in, book) = (book \ {b}) \cup {[o EXCEPT !.rem = @ - f[o]] : o \in {b}}
    BY <1>4, <2>1 DEF BookAfter
  <2> HIDE DEF f
  <2> QED
    BY <1>2, <2>2
<1>6. FillsOf(in, book) = {Book!Fill(b, in.id, in.rem)}
  BY <1>2, <1>4 DEF FillsOf
<1>7. LeftOf(in, book) = 0
  <2>1. IsFiniteSet(S) /\ IsFiniteSet(T) /\ \A o \in S : f[o] \in Nat
    <3>1. \A o \in S : f[o] \in Nat
      BY <1>1, SharesAreQuantities
    <3>2. IsFiniteSet(S) /\ IsFiniteSet(S \ {b})
      BY <1>1, FS_RemoveElement DEF Has
    <3> QED
      BY <3>1, <3>2
  <2>2. SumFunctionOnSet(f, S) = f[b] + SumFunctionOnSet(f, T)
    <3> HIDE DEF f, S
    <3> QED
      BY <1>1, <2>1, SumByElement
  <2>3. SumFunctionOnSet(f, T) = 0
    <3> HIDE DEF f, T
    <3> QED
      BY <1>3, <2>1, SumOfZeros
  <2>4. LeftOf(in, book) = in.rem - SumFunctionOnSet(f, S)
    BY DEF LeftOf
  <2> HIDE DEF f, S, T
  <2> QED
    BY <1>1, <1>2, <2>2, <2>3, <2>4
<1> QED
  BY <1>5, <1>6, <1>7

-----------------------------------------------------------------------------
\* An order is live exactly when it stands in the level of its symbol, side and price.
LiveStands ==
  \A o : o \in Live <=>
    o \in Order /\ \E i \in DOMAIN queue[o.sym][o.side][o.px] : o = queue[o.sym][o.side][o.px][i]

\* Every order of a level is live, and every live order is well formed.
LEMMA LiveIs ==
  ASSUME BookInv
  PROVE  /\ LiveStands
         /\ \A s \in Products, d \in Sides, p \in Ticks : \A i \in DOMAIN queue[s][d][p] :
              /\ queue[s][d][p][i] \in Live /\ queue[s][d][p][i] \in Order
              /\ queue[s][d][p][i].sym = s /\ queue[s][d][p][i].side = d /\ queue[s][d][p][i].px = p
         /\ \A o \in Live : o \in Order /\ o.rem \in Nat /\ o.rem > 0
<1>1. ASSUME NEW s \in Products, NEW d \in Sides, NEW p \in Ticks, NEW i \in DOMAIN queue[s][d][p]
      PROVE  /\ queue[s][d][p][i] \in Live /\ queue[s][d][p][i] \in Order
             /\ queue[s][d][p][i].sym = s /\ queue[s][d][p][i].side = d /\ queue[s][d][p][i].px = p
             /\ queue[s][d][p][i].rem > 0
  <2>1. queue[s][d][p][i] \in Live
    <3> DEFINE level == {queue[s][d][p][k] : k \in DOMAIN queue[s][d][p]}
               levels == {{queue[t][e][r][k] : k \in DOMAIN queue[t][e][r]} :
                            t \in Products, e \in Sides, r \in Ticks}
    <3>1. level \in levels
      OBVIOUS
    <3>2. queue[s][d][p][i] \in level
      OBVIOUS
    <3>3. Live = UNION levels
      BY DEF Live
    <3> HIDE DEF level, levels
    <3> QED
      BY <3>1, <3>2, <3>3
  <2>2. queue[s][d][p][i] \in Order
    BY LevelFacts
  <2> QED
    BY <2>1, <2>2 DEF BookInv, QueuedOrdersAreLive
<1>2. ASSUME NEW o \in Live
      PROVE  \E s \in Products, d \in Sides, p \in Ticks : \E i \in DOMAIN queue[s][d][p] :
               o = queue[s][d][p][i]
  BY DEF Live
<1>3. ASSUME NEW o \in Live
      PROVE  /\ o \in Order /\ o.rem \in Nat /\ o.rem > 0
             /\ \E i \in DOMAIN queue[o.sym][o.side][o.px] : o = queue[o.sym][o.side][o.px][i]
  <2>1. PICK s \in Products, d \in Sides, p \in Ticks : \E i \in DOMAIN queue[s][d][p] :
               o = queue[s][d][p][i]
    BY <1>2
  <2>2. PICK i \in DOMAIN queue[s][d][p] : o = queue[s][d][p][i]
    BY <2>1
  <2>3. o \in Order /\ o.sym = s /\ o.side = d /\ o.px = p /\ o.rem > 0
    BY <1>1, <2>2
  <2>4. o.rem \in Nat
    BY <2>3 DEF Order
  <2> QED
    BY <2>2, <2>3, <2>4
<1>4. ASSUME NEW o \in Order, NEW i \in DOMAIN queue[o.sym][o.side][o.px],
             o = queue[o.sym][o.side][o.px][i]
      PROVE  o \in Live
  <2>1. o.sym \in Products /\ o.side \in Sides /\ o.px \in Ticks
    BY DEF Order
  <2> QED
    BY <1>1, <1>4, <2>1
<1>5. LiveStands
  BY <1>3, <1>4 DEF LiveStands
<1> QED
  BY <1>1, <1>3, <1>5

\* LiveStands in this state and in the next.
LEMMA LiveStandsNow == BookInv => LiveStands
  BY LiveIs

\* The same of the next state.
LEMMA LiveStandsNext == BookInv' => LiveStands'
  BY LiveStandsNow, PTL

\* A step that replaces one level.
LEMMA LiveChanges ==
  ASSUME BookInv, BookInv', NEW s \in Products, NEW d \in Sides, NEW p \in Ticks,
         NEW left \in Seq(Order), queue' = SetLevel(s, d, p, left)
  PROVE  Live' = (Live \ Range(queue[s][d][p])) \cup Range(left)
<1> DEFINE q == queue[s][d][p]
<1>1. /\ queue'[s][d][p] = left
      /\ \A s2 \in Products, d2 \in Sides, p2 \in Ticks :
           <<s2, d2, p2>> # <<s, d, p>> => queue'[s2][d2][p2] = queue[s2][d2][p2]
  BY LevelChange DEF BookInv
<1>2. \A o : o \in Live <=>
              o \in Order /\ \E i \in DOMAIN queue[o.sym][o.side][o.px] :
                                o = queue[o.sym][o.side][o.px][i]
  BY LiveIs DEF LiveStands
<1>3. \A o : o \in Live' <=>
              o \in Order /\ \E i \in DOMAIN queue'[o.sym][o.side][o.px] :
                                o = queue'[o.sym][o.side][o.px][i]
  BY LiveStandsNext DEF LiveStands
<1>4. /\ \A i \in DOMAIN q : q[i] \in Order /\ q[i].sym = s /\ q[i].side = d /\ q[i].px = p
      /\ \A i \in DOMAIN left : left[i] \in Order /\ left[i].sym = s /\ left[i].side = d /\ left[i].px = p
  <2>1. \A i \in DOMAIN q : q[i] \in Order /\ q[i].sym = s /\ q[i].side = d /\ q[i].px = p
    BY LiveIs
  <2>2. ASSUME NEW i \in DOMAIN left
        PROVE  left[i] \in Order /\ left[i].sym = s /\ left[i].side = d /\ left[i].px = p
    <3>1. left[i] = queue'[s][d][p][i] /\ i \in DOMAIN queue'[s][d][p] /\ left[i] \in Order
      BY <1>1
    <3> QED
      BY <3>1 DEF BookInv, QueuedOrdersAreLive
  <2> QED
    BY <2>1, <2>2
<1>5. ASSUME NEW o
      PROVE  o \in Live' <=> o \in (Live \ Range(q)) \cup Range(left)
  <2>1. CASE o \in Order /\ <<o.sym, o.side, o.px>> = <<s, d, p>>
    <3>1. o.sym = s /\ o.side = d /\ o.px = p
      BY <2>1
    <3> HIDE DEF q
    <3>2. o \in Live' <=> o \in Range(left)
      BY <1>1, <1>3, <2>1, <3>1 DEF Range
    <3>3. o \in Live <=> o \in Range(q)
      BY <1>2, <2>1, <3>1 DEF Range, q
    <3> QED
      BY <3>2, <3>3
  <2>2. CASE o \in Order /\ <<o.sym, o.side, o.px>> # <<s, d, p>>
    <3>1. o.sym \in Products /\ o.side \in Sides /\ o.px \in Ticks
      BY <2>2 DEF Order
    <3>2. queue'[o.sym][o.side][o.px] = queue[o.sym][o.side][o.px]
      BY <1>1, <2>2, <3>1
    <3>3. o \in Live' <=> o \in Live
      <4>1. o \in Live <=> \E i \in DOMAIN queue[o.sym][o.side][o.px] : o = queue[o.sym][o.side][o.px][i]
        BY <1>2, <2>2
      <4>2. o \in Live' <=> \E i \in DOMAIN queue'[o.sym][o.side][o.px] : o = queue'[o.sym][o.side][o.px][i]
        BY <1>3, <2>2
      <4> QED
        BY <3>2, <4>1, <4>2
    <3>4. o \notin Range(q) /\ o \notin Range(left)
      <4>1. ~ (o.sym = s /\ o.side = d /\ o.px = p)
        BY <2>2
      <4> HIDE DEF q
      <4> QED
        BY <1>4, <4>1 DEF Range
    <3> QED
      BY <3>3, <3>4
  <2>3. CASE o \notin Order
    BY <1>2, <1>3, <1>4, <2>3 DEF Range
  <2> QED
    BY <2>1, <2>2, <2>3
<1> QED
  BY <1>5

\* An order leaves its level.
LEMMA LiveWithout ==
  ASSUME BookInv, BookInv', NEW s \in Products, NEW d \in Sides, NEW p \in Ticks,
         NEW k \in DOMAIN queue[s][d][p], NEW left, Without(queue[s][d][p], k, left),
         queue' = SetLevel(s, d, p, left)
  PROVE  Live' = Live \ {queue[s][d][p][k]}
<1> DEFINE q == queue[s][d][p]
<1>1. /\ q \in Seq(Order) /\ \A i, j \in DOMAIN q : q[i] = q[j] => i = j
      /\ left \in Seq(Order) /\ DOMAIN left = 1 .. Len(q) - 1 /\ DOMAIN q = 1 .. Len(q)
      /\ Len(q) \in Nat
      /\ \A j \in DOMAIN left : left[j] = q[IF j < k THEN j ELSE j + 1]
  <2>1. q \in Seq(Order) /\ \A i, j \in DOMAIN q : q[i] = q[j] => i = j
    BY LevelFacts
  <2>2. DOMAIN q = 1 .. Len(q) /\ Len(q) \in Nat
    <3> HIDE DEF q
    <3> QED
      BY <2>1
  <2>3. /\ left \in Seq(Order) /\ DOMAIN left = 1 .. Len(q) - 1
        /\ \A j \in DOMAIN left : left[j] = q[IF j < k THEN j ELSE j + 1]
    BY DEF Without
  <2> QED
    BY <2>1, <2>2, <2>3
<1>2. Live' = (Live \ Range(q)) \cup Range(left)
  BY <1>1, LiveChanges
<1>3. Range(q) \subseteq Live
  BY LiveIs DEF Range
<1>4. k \in 1 .. Len(q)
  BY <1>1
<1> HIDE DEF q
<1>5. ASSUME NEW i \in DOMAIN q, i # k
      PROVE  \E j \in DOMAIN left : left[j] = q[i]
  <2>1. CASE i < k
    <3>1. i \in DOMAIN left /\ left[i] = q[i]
      BY <1>1, <1>4, <2>1
    <3> QED
      BY <3>1
  <2>2. CASE i > k
    <3>1. i - 1 \in DOMAIN left /\ ~ (i - 1 < k) /\ (i - 1) + 1 = i
      BY <1>1, <1>4, <2>2
    <3>2. left[i - 1] = q[i]
      BY <1>1, <3>1
    <3> QED
      BY <3>1, <3>2
  <2> QED
    BY <1>1, <1>4, <1>5, <2>1, <2>2
<1>6. ASSUME NEW j \in DOMAIN left
      PROVE  \E i \in DOMAIN q : i # k /\ left[j] = q[i]
  <2>1. j < k => j \in DOMAIN q /\ j # k /\ left[j] = q[j]
    BY <1>1, <1>4
  <2>2. ~ (j < k) => j + 1 \in DOMAIN q /\ j + 1 # k /\ left[j] = q[j + 1]
    BY <1>1, <1>4
  <2> QED
    BY <2>1, <2>2
<1>7. Range(left) = Range(q) \ {q[k]}
  BY <1>1, <1>4, <1>5, <1>6 DEF Range
<1>8. q[k] \in Range(q)
  BY <1>1, <1>4 DEF Range
<1> QED
  BY <1>2, <1>3, <1>7, <1>8 DEF q

\* An order joins its level.
LEMMA LiveWith ==
  ASSUME BookInv, BookInv', NEW s \in Products, NEW d \in Sides, NEW p \in Ticks, NEW o \in Order,
         queue' = SetLevel(s, d, p, Append(queue[s][d][p], o))
  PROVE  Live' = Live \cup {o}
<1> DEFINE q == queue[s][d][p]
           left == Append(q, o)
<1>1. q \in Seq(Order)
  BY LevelFacts
<1>2. /\ left \in Seq(Order) /\ Len(q) \in Nat /\ DOMAIN q = 1 .. Len(q)
      /\ DOMAIN left = 1 .. Len(q) + 1
      /\ left[Len(q) + 1] = o /\ \A i \in 1 .. Len(q) : left[i] = q[i]
  <2> HIDE DEF q
  <2> QED
    BY <1>1, AppendProperties
<1>3. Live' = (Live \ Range(q)) \cup Range(left)
  <2> HIDE DEF left
  <2> QED
    BY <1>2, LiveChanges DEF left
<1>4. Range(q) \subseteq Live
  BY LiveIs DEF Range
<1> HIDE DEF q, left
<1>5. Range(left) = Range(q) \cup {o}
  BY <1>2 DEF Range
<1> QED
  BY <1>3, <1>4, <1>5

\* The first order of a level is partly filled.
LEMMA LiveLess ==
  ASSUME BookInv, BookInv', NEW s \in Products, NEW d \in Sides, NEW p \in Ticks, NEW o \in Order,
         queue[s][d][p] # <<>>,
         queue' = SetLevel(s, d, p, [queue[s][d][p] EXCEPT ![1] = o])
  PROVE  Live' = (Live \ {queue[s][d][p][1]}) \cup {o}
<1> DEFINE q == queue[s][d][p]
           left == [q EXCEPT ![1] = o]
<1>1. q \in Seq(Order) /\ q # <<>> /\ \A i, j \in DOMAIN q : q[i] = q[j] => i = j
  BY LevelFacts
<1>2. /\ left \in Seq(Order) /\ 1 \in DOMAIN q /\ DOMAIN left = DOMAIN q
      /\ left[1] = o /\ \A i \in DOMAIN q \ {1} : left[i] = q[i]
  <2> HIDE DEF q
  <2> QED
    BY <1>1
<1>3. Live' = (Live \ Range(q)) \cup Range(left)
  <2> HIDE DEF left
  <2> QED
    BY <1>2, LiveChanges DEF left
<1>4. Range(q) \subseteq Live
  BY LiveIs DEF Range
<1> HIDE DEF q, left
<1>5. Range(left) = (Range(q) \ {q[1]}) \cup {o}
  BY <1>1, <1>2 DEF Range
<1>6. q[1] \in Range(q)
  BY <1>2 DEF Range
<1> QED
  BY <1>3, <1>4, <1>5, <1>6 DEF q
\* The live orders of one level are told apart by their sequence numbers, and the
\* levels are finitely many: so are the orders an incoming one can trade with.
LEMMA CrossingIsFinite ==
  ASSUME BookInv, NEW in
  PROVE  Has(Crossing(in, Live))
<1> DEFINE S == Crossing(in, Live)
           T == Ticks \X (0 .. sequence)
           f == [o \in S |-> <<o.px, o.seq>>]
<1>1. ASSUME NEW o \in S
      PROVE  /\ o \in Order /\ o.px \in Ticks /\ o.seq \in 0 .. sequence /\ o.rem \in Nat
             /\ o.sym = in.sym /\ o.side = Opposite(in.side)
             /\ o.sym \in Products /\ o.side \in Sides
             /\ \E i \in DOMAIN queue[o.sym][o.side][o.px] : o = queue[o.sym][o.side][o.px][i]
  <2>1. o \in Live /\ o.sym = in.sym /\ o.side = Opposite(in.side)
    BY DEF Crossing
  <2>2. /\ o \in Order
        /\ \E i \in DOMAIN queue[o.sym][o.side][o.px] : o = queue[o.sym][o.side][o.px][i]
    BY <2>1, LiveIs DEF LiveStands
  <2>3. o.px \in Ticks /\ o.sym \in Products /\ o.side \in Sides /\ o.seq \in Nat /\ o.rem \in Nat
    BY <2>2 DEF Order
  <2>4. o.seq <= sequence
    BY <2>2, <2>3 DEF BookInv, FifoBySequence
  <2>5. sequence \in Nat
    BY DEF BookInv
  <2> QED
    BY <2>1, <2>2, <2>3, <2>4, <2>5
<1>2. ASSUME NEW o \in S, NEW r \in S, o.px = r.px, o.seq = r.seq
      PROVE  o = r
  <2> DEFINE q == queue[o.sym][o.side][o.px]
  <2>1. r.sym = o.sym /\ r.side = o.side /\ r.px = o.px
    BY <1>1, <1>2
  <2>2. PICK i \in DOMAIN q : o = q[i]
    BY <1>1
  <2>3. PICK j \in DOMAIN q : r = q[j]
    BY <1>1, <2>1
  <2>4. /\ o.sym \in Products /\ o.side \in Sides /\ o.px \in Ticks /\ o.seq \in 0 .. sequence
        /\ sequence \in Nat
    BY <1>1 DEF BookInv
  <2>5. i \in Int /\ j \in Int
    <3>1. q \in Seq(Order)
      BY <2>4 DEF BookInv
    <3> HIDE DEF q
    <3> QED
      BY <3>1
  <2>6. \A a, b \in DOMAIN q : a < b => q[a].seq < q[b].seq
    BY <2>4 DEF BookInv, FifoBySequence
  <2> HIDE DEF q, S
  <2>7. ~ (i < j) /\ ~ (j < i)
    BY <1>2, <2>2, <2>3, <2>4, <2>6
  <2> QED
    BY <2>2, <2>3, <2>5, <2>7
<1>3. f \in Injection(S, T)
  <2>1. f \in [S -> T]
    BY <1>1
  <2>2. \A a, b \in S : f[a] = f[b] => a = b
    BY <1>2
  <2> HIDE DEF f, S, T
  <2> QED
    BY <2>1, <2>2 DEF Injection, IsInjective
<1>4. IsFiniteSet(T)
  <2>1. sequence \in Int /\ MinTick \in Int /\ MaxTick \in Int
    BY ConstantsAssumption DEF BookInv
  <2>2. IsFiniteSet(Ticks) /\ IsFiniteSet(0 .. sequence)
    BY <2>1, FS_Interval DEF Ticks
  <2> QED
    BY <2>2, FS_Product
<1>5. IsFiniteSet(S)
  <2> HIDE DEF f, S, T
  <2> QED
    BY <1>3, <1>4, FS_Injection
<1> QED
  BY <1>1, <1>5 DEF Has

\* In this state and in the next.
LEMMA FiniteNow == BookInv => Has(Crossing(incoming, Live))
  BY CrossingIsFinite

\* The same of the next state.
LEMMA FiniteNext == BookInv' => Has(Crossing(incoming', Live'))
<1>1. BookInv' => Has(Crossing(incoming, Live))'
  BY FiniteNow, PTL
<1> QED
  BY <1>1

\* The oldest order of the best level is the first an incoming order trades with.
LEMMA BestIsFirst ==
  ASSUME BookInv, NEW in \in Order, NEW p \in Ticks,
         IsBest(in.sym, Opposite(in.side), p), Crosses(in.side, in.px, p)
  PROVE  First(queue[in.sym][Opposite(in.side)][p][1], Crossing(in, Live))
<1> DEFINE s == in.sym
           d == Opposite(in.side)
           q == queue[s][d][p]
           b == q[1]
<1>1. s \in Products /\ d \in Sides /\ q # <<>>
  BY DEF Order, Opposite, Sides, IsBest
<1>2. q \in Seq(Order)
  BY <1>1 DEF BookInv
<1>3. 1 \in DOMAIN q /\ \A i \in DOMAIN q : i \in Int /\ i >= 1
  <2> HIDE DEF q
  <2> QED
    BY <1>1, <1>2
<1>4. /\ b \in Live /\ b \in Order /\ b.sym = s /\ b.side = d /\ b.px = p
  BY <1>1, <1>3, LiveIs
<1>5. b.rem > 0 /\ b \in Crossing(in, Live)
  BY <1>4, LiveIs DEF Crossing
<1>6. b.seq \in Int /\ p \in Int
  BY <1>4, ConstantsAssumption DEF Order, Ticks
<1>7. \A o, r : Book!Ahead(o, r) <=> Better(o.side, o.px, r.px) \/ (o.px = r.px /\ o.seq < r.seq)
  BY SameOperators DEF Book!Ahead
<1>8. ~Book!Ahead(b, b)
  <2> HIDE DEF b
  <2> QED
    BY <1>4, <1>6, <1>7 DEF Better
<1>9. ASSUME NEW o \in Crossing(in, Live), o # b
      PROVE  Book!Ahead(b, o) /\ ~Book!Ahead(o, b)
  <2>1. o \in Live /\ o.sym = s /\ o.side = d
    BY DEF Crossing
  <2>2. o \in Order /\ \E i \in DOMAIN queue[s][d][o.px] : o = queue[s][d][o.px][i]
    BY <2>1, LiveIs DEF LiveStands
  <2>3. PICK i \in DOMAIN queue[s][d][o.px] : o = queue[s][d][o.px][i]
    BY <2>2
  <2>4. o.px \in Ticks /\ o.px \in Int /\ o.seq \in Int
    BY <2>2, ConstantsAssumption DEF Order, Ticks
  <2>5. queue[s][d][o.px] # <<>>
    <3>1. queue[s][d][o.px] \in Seq(Order)
      BY <1>1, <2>4 DEF BookInv
    <3>2. DOMAIN queue[s][d][o.px] # {}
      BY <2>3
    <3> QED
      BY <3>2
  <2>6. o.px = p \/ Better(d, p, o.px)
    BY <2>4, <2>5 DEF IsBest
  <2>7. CASE o.px # p
    <3> HIDE DEF b, d
    <3> QED
      BY <1>4, <1>6, <1>7, <2>1, <2>4, <2>6, <2>7 DEF Better
  <2>8. CASE o.px = p
    <3>1. i \in DOMAIN q /\ o = q[i]
      BY <2>3, <2>8
    <3>2. i # 1
      BY <1>9, <3>1
    <3>3. b.seq < o.seq
      <4>1. 1 < i
        BY <1>3, <3>1, <3>2
      <4> QED
        BY <1>1, <1>3, <3>1, <4>1 DEF BookInv, FifoBySequence
    <3> HIDE DEF b, d, q
    <3> QED
      BY <1>4, <1>6, <1>7, <2>1, <2>4, <2>8, <3>3 DEF Better
  <2> QED
    BY <2>7, <2>8
<1> HIDE DEF b
<1>10. First(b, Crossing(in, Live))
  BY <1>5, <1>8, <1>9 DEF First
<1> QED
  BY <1>10 DEF b
\* A registered id is the id of one live order.
LEMMA RegisteredAreLive ==
  ASSUME BookInv
  PROVE  /\ Registered = {o.id : o \in Live}
         /\ \A o, r \in Live : o.id = r.id => o = r
<1>1. ASSUME NEW id \in Registered
      PROVE  \E o \in Live : o.id = id
  <2>1. PICK s \in Products, d \in Sides, p \in Ticks :
               /\ registry[id] = [sym |-> s, side |-> d, px |-> p]
               /\ \E i \in DOMAIN queue[s][d][p] : queue[s][d][p][i].id = id
    <3>1. id \in Ids /\ registry[id] # Nowhere
      BY DEF Registered
    <3> QED
      BY <3>1, LocationFacts
  <2>2. PICK i \in DOMAIN queue[s][d][p] : queue[s][d][p][i].id = id
    BY <2>1
  <2>3. queue[s][d][p][i] \in Live
    BY LiveIs
  <2> QED
    BY <2>2, <2>3
<1>2. ASSUME NEW o \in Live
      PROVE  /\ o.id \in Registered
             /\ o.sym \in Products /\ o.side \in Sides /\ o.px \in Ticks
             /\ registry[o.id] = [sym |-> o.sym, side |-> o.side, px |-> o.px]
             /\ \E i \in DOMAIN queue[o.sym][o.side][o.px] : o = queue[o.sym][o.side][o.px][i]
  <2>1. /\ o \in Order
        /\ \E i \in DOMAIN queue[o.sym][o.side][o.px] : o = queue[o.sym][o.side][o.px][i]
    BY LiveIs DEF LiveStands
  <2>2. o.sym \in Products /\ o.side \in Sides /\ o.px \in Ticks /\ o.id \in Ids
    BY <2>1 DEF Order
  <2>3. registry[o.id] = [sym |-> o.sym, side |-> o.side, px |-> o.px]
    BY <2>1, <2>2, LevelFacts
  <2>4. registry[o.id] # Nowhere
    BY <2>3 DEF Nowhere
  <2> QED
    BY <2>1, <2>2, <2>3, <2>4 DEF Registered
<1>3. ASSUME NEW o \in Live, NEW r \in Live, o.id = r.id
      PROVE  o = r
  <2>1. [sym |-> o.sym, side |-> o.side, px |-> o.px] = [sym |-> r.sym, side |-> r.side, px |-> r.px]
    BY <1>2, <1>3
  <2>2. r.sym = o.sym /\ r.side = o.side /\ r.px = o.px
    BY <2>1
  <2>3. PICK i \in DOMAIN queue[o.sym][o.side][o.px] : o = queue[o.sym][o.side][o.px][i]
    BY <1>2
  <2>4. PICK j \in DOMAIN queue[o.sym][o.side][o.px] : r = queue[o.sym][o.side][o.px][j]
    BY <1>2, <2>2
  <2>5. o.sym \in Products /\ o.side \in Sides /\ o.px \in Ticks
    BY <1>2
  <2> DEFINE q == queue[o.sym][o.side][o.px]
  <2>6. \A a, b \in DOMAIN q : q[a].id = q[b].id => a = b
    BY <2>5, LevelFacts
  <2>7. i \in DOMAIN q /\ j \in DOMAIN q /\ o = q[i] /\ r = q[j]
    BY <2>3, <2>4
  <2> HIDE DEF q
  <2>8. i = j
    BY <1>3, <2>6, <2>7
  <2> QED
    BY <2>7, <2>8
<1>4. \A o \in Live : o.id \in Registered
  BY <1>2
<1>5. Registered = {o.id : o \in Live}
  BY <1>1, <1>4
<1> QED
  BY <1>3, <1>5

\* remove_registered takes one live order.
LEMMA RemovalIsOfOne ==
  ASSUME BookInv, BookInv', NEW id \in Ids, id \in Registered, RemoveRegistered(id)
  PROVE  /\ RegisteredOrder(id) \in Live /\ RegisteredOrder(id).id = id
         /\ Live' = Live \ {RegisteredOrder(id)}
<1>1. PICK s \in Products, d \in Sides, p \in Ticks :
             /\ registry[id] = [sym |-> s, side |-> d, px |-> p]
             /\ \E i \in DOMAIN queue[s][d][p] : queue[s][d][p][i].id = id
  <2>1. registry[id] # Nowhere
    BY DEF Registered
  <2> QED
    BY <2>1, LocationFacts
<1> DEFINE q == queue[s][d][p]
           k == PositionOf(id, q)
<1>2. registry[id].sym = s /\ registry[id].side = d /\ registry[id].px = p
  BY <1>1
<1>3. k \in DOMAIN q /\ q[k].id = id
  BY <1>1 DEF PositionOf
<1>4. q \in Seq(Order) /\ q[k] \in Order
  BY <1>3 DEF BookInv
<1>5. LevelWithout(id) = RemoveAt(q, k) /\ RegisteredOrder(id) = q[k]
  BY <1>2 DEF LevelWithout, RegisteredOrder
<1> HIDE DEF k
<1>6. Without(q, k, RemoveAt(q, k))
  BY <1>3, <1>4, RemoveAtQueue DEF Without
<1>7. queue' = SetLevel(s, d, p, RemoveAt(q, k))
  BY <1>2, <1>5 DEF RemoveRegistered
<1>8. Live' = Live \ {q[k]}
  BY <1>3, <1>6, <1>7, LiveWithout
<1>9. q[k] \in Live
  BY <1>3, LiveIs
<1> QED
  BY <1>3, <1>5, <1>8, <1>9

-----------------------------------------------------------------------------
(***************************************************************************)
(* The fills that a batch tells of.                                        *)
(***************************************************************************)
FillAt(r) == [maker |-> r.id, taker |-> r.contra, qty |-> r.fill, px |-> r.px]

\* The ids of the orders accepted in a list of reports.
AcceptedIn(R) == {R[i].id : i \in {a \in DOMAIN R : R[a].status = "accepted"}}

FillsIn(R) == {FillAt(R[i]) : i \in {a \in DOMAIN R : R[a].fill > 0 /\ R[a].id \notin AcceptedIn(R)}}

\* The fills shown are those that the batch tells of.
LEMMA FillsAreToldOf == Fills = FillsIn(batch.reports)
<1>1. MakerReports = {a \in DOMAIN batch.reports :
                        batch.reports[a].fill > 0 /\ batch.reports[a].id \notin AcceptedIn(batch.reports)}
  BY DEF MakerReports, AcceptedIn
<1> QED
  BY <1>1 DEF Fills, FillsIn, FillAt

\* The same of the next state.
LEMMA FillsAreToldOfNext == Fills' = FillsIn(batch'.reports)
<1>1. MakerReports' = {a \in DOMAIN batch'.reports :
                         batch'.reports[a].fill > 0 /\ batch'.reports[a].id \notin AcceptedIn(batch'.reports)}
  BY DEF MakerReports, AcceptedIn
<1> QED
  BY <1>1 DEF Fills, FillsIn, FillAt

\* A report more.
LEMMA OneReportMore ==
  ASSUME NEW R, NEW T, R \in Seq(T), NEW r
  PROVE  /\ AcceptedIn(Append(R, r)) = AcceptedIn(R) \cup (IF r.status = "accepted" THEN {r.id} ELSE {})
         /\ r.status # "accepted" =>
              FillsIn(Append(R, r)) =
                FillsIn(R) \cup (IF r.fill > 0 /\ r.id \notin AcceptedIn(R) THEN {FillAt(r)} ELSE {})
<1> DEFINE Q == Append(R, r)
<1>1. /\ Len(R) \in Nat /\ DOMAIN R = 1 .. Len(R) /\ DOMAIN Q = 1 .. Len(R) + 1
      /\ Q[Len(R) + 1] = r /\ \A i \in 1 .. Len(R) : Q[i] = R[i]
  <2>1. R \in Seq(T \cup {r})
    OBVIOUS
  <2> QED
    BY <2>1, AppendProperties
<1>2. DOMAIN Q = DOMAIN R \cup {Len(R) + 1}
  BY <1>1
<1> HIDE DEF Q
<1>3. AcceptedIn(Q) = AcceptedIn(R) \cup (IF r.status = "accepted" THEN {r.id} ELSE {})
  BY <1>1, <1>2 DEF AcceptedIn
<1>4. ASSUME r.status # "accepted"
      PROVE  FillsIn(Q) =
               FillsIn(R) \cup (IF r.fill > 0 /\ r.id \notin AcceptedIn(R) THEN {FillAt(r)} ELSE {})
  <2>1. AcceptedIn(Q) = AcceptedIn(R)
    BY <1>3, <1>4
  <2> QED
    BY <1>1, <1>2, <2>1 DEF FillsIn
<1> QED
  BY <1>3, <1>4 DEF Q

\* A report that is no fill.
LEMMA QuietReport ==
  ASSUME NEW R, NEW T, R \in Seq(T), NEW r, r.fill = 0, r.status # "accepted"
  PROVE  FillsIn(Append(R, r)) = FillsIn(R)
<1>1. FillsIn(Append(R, r)) =
        FillsIn(R) \cup (IF r.fill > 0 /\ r.id \notin AcceptedIn(R) THEN {FillAt(r)} ELSE {})
  BY OneReportMore
<1>2. ~ (r.fill > 0)
  OBVIOUS
<1> QED
  BY <1>1, <1>2

\* The two reports of a trade, one after the other.
LEMMA TwoMore ==
  ASSUME NEW T, NEW R \in Seq(T), NEW x \in T, NEW y \in T
  PROVE  R \o <<x, y>> = Append(Append(R, x), y)
OBVIOUS

\* A batch without a trade.
LEMMA NoFillsIn ==
  ASSUME NEW R, \A i \in DOMAIN R : ~ (R[i].fill > 0)
  PROVE  FillsIn(R) = {}
  BY DEF FillsIn
-----------------------------------------------------------------------------
(***************************************************************************)
(* The steps of the atomic book.                                           *)
(***************************************************************************)
\* What is shown of an engine that is idle, and of one that is not.
LEMMA ShownNow ==
  /\ ctl = "idle" => Shown.live = Live /\ Shown.clock = sequence /\ Shown.fills = Fills
  /\ ctl # "idle" => Shown = held
BY DEF Shown, Seen

\* In the next state.
LEMMA ShownNext ==
  /\ ctl' = "idle" =>
       (Shown.live)' = Live' /\ (Shown.clock)' = sequence' /\ (Shown.fills)' = Fills'
  /\ ctl' # "idle" => Shown' = held'
BY DEF Shown, Seen

\* held is set when an operation begins and kept while it runs.
HeldNext == held' = IF ctl' = "idle" THEN None ELSE IF ctl = "idle" THEN Seen ELSE held

\* A step of the exchange is a step of the book, or changes nothing that is shown.
Refines == Book!Next \/ UNCHANGED Book!vars

\* The step that begins an operation, and a step inside one.
LEMMA BeginningShowsNothing ==
  ASSUME HeldNext, ctl = "idle", ctl' # "idle"
  PROVE  Refines /\ held'.live = Live /\ held'.clock = sequence /\ held'.fills = Fills
<1>1. held' = Seen /\ Shown' = Seen /\ Shown = Seen
  BY ShownNext DEF HeldNext, Shown
<1>2. (Shown.live)' = Shown.live /\ (Shown.clock)' = Shown.clock /\ (Shown.fills)' = Shown.fills
  BY <1>1
<1> QED
  BY <1>1, <1>2 DEF Refines, Seen, Book!vars

\* A step inside a run of the engine is no step of the abstract book.
LEMMA RunningShowsNothing ==
  ASSUME HeldNext, ctl # "idle", ctl' # "idle"
  PROVE  Refines /\ held' = held
<1>1. held' = held /\ Shown' = held /\ Shown = held
  BY ShownNow, ShownNext DEF HeldNext
<1>2. (Shown.live)' = Shown.live /\ (Shown.clock)' = Shown.clock /\ (Shown.fills)' = Shown.fills
  BY <1>1
<1> QED
  BY <1>1, <1>2 DEF Refines, Book!vars

\* The loops, seen as one trade.
LEMMA TradeIs ==
  ASSUME NEW c, NEW book, NEW n \in (Shown.clock + 1) .. (Shown.clock)',
         NEW left, left = [OrderOf(c, n) EXCEPT !.rem = LeftOf(OrderOf(c, n), book)],
         (Shown.live)' = BookAfter(OrderOf(c, n), book) \cup (IF Rests(left) THEN {left} ELSE {}),
         (Shown.fills)' = FillsOf(OrderOf(c, n), book)
  PROVE  Book!Trade(c, book)
<1> DEFINE in == Book!OrderOf(c, n)
           crossing == {o \in book : /\ o.sym = in.sym /\ o.side = Book!Opposite(in.side)
                                     /\ Book!Crosses(in.side, in.px, o.px)}
           give == [o \in crossing |-> Book!Share(o, in.rem, crossing)]
           hit == {o \in crossing : give[o] > 0}
           rest == [in EXCEPT !.rem = @ - Book!SumFunction(give)]
<1>1. in = OrderOf(c, n)
  BY SameOperators
<1> HIDE DEF in
<1>2. crossing = Crossing(in, book)
  BY SameOperators DEF Crossing
<1>3. give = Gives(in, book)
  BY <1>2 DEF Gives
<1>4. hit = HitBy(in, book)
  BY <1>2, <1>3 DEF HitBy
<1>5. rest = left
  <2>1. DOMAIN give = crossing
    OBVIOUS
  <2> HIDE DEF give, crossing
  <2>2. Book!SumFunction(give) = SumFunctionOnSet(Gives(in, book), Crossing(in, book))
    BY <1>2, <1>3, <2>1, SameOperators
  <2> QED
    BY <1>1, <2>2 DEF LeftOf
<1>6. (Shown.live)' =
        (book \ hit)
          \cup {[o EXCEPT !.rem = @ - give[o]] : o \in {h \in hit : give[h] < h.rem}}
          \cup (IF Book!Rests(rest) THEN {rest} ELSE {})
  <2>1. BookAfter(in, book) =
          (book \ hit) \cup {[o EXCEPT !.rem = @ - give[o]] : o \in {h \in hit : give[h] < h.rem}}
    <3> HIDE DEF give, hit, crossing
    <3> QED
      BY <1>3, <1>4 DEF BookAfter
  <2>2. Book!Rests(rest) <=> Rests(left)
    BY <1>5, SameOperators
  <2> HIDE DEF give, hit, crossing, rest
  <2> QED
    BY <1>1, <1>5, <2>1, <2>2
<1>7. (Shown.fills)' = {Book!Fill(o, in.id, give[o]) : o \in hit}
  <2> HIDE DEF give, hit, crossing
  <2> QED
    BY <1>1, <1>3, <1>4 DEF FillsOf
<1> QED
  BY <1>6, <1>7 DEF Book!Trade, in
-----------------------------------------------------------------------------
(***************************************************************************)
(* What the loops keep of the operation they carry out.                    *)
(***************************************************************************)
\* Command c is to trade with `book`: submitted, or the amendment of an order
\* that has left the book.
StartedBy(c, book) ==
  \/ c \in Command /\ book = held.live /\ ~Refused(c, {o.id : o \in held.live})
  \/ \E o \in held.live, px \in RawPrices \cup {None, NaN}, qty \in Quantities \cup {None} :
       /\ c = Amended(o, px, qty)
       /\ book = held.live \ {o}
       /\ ~Refused(c, {b.id : b \in book})

\* in has still to do with `book` what the incoming order has to do with the queues.
InTrade(in, book) ==
  /\ in \in Order
  /\ incoming = [in EXCEPT !.rem = incoming.rem]
  /\ BookAfter(in, book) = BookAfter(incoming, Live)
  /\ LeftOf(in, book) = LeftOf(incoming, Live)
  /\ FillsOf(in, book) = Fills \cup FillsOf(incoming, Live)

MatchHolds ==
  ctl = "match" =>
    /\ AcceptedIn(batch.reports) = {incoming.id}
    /\ held.clock \in Nat
    /\ \E c, book, n :
         /\ StartedBy(c, book)
         /\ n \in (held.clock + 1) .. sequence
         /\ InTrade(OrderOf(c, n), book)

\* The orders that the tick fills, and what is told of them.
Marked(orders) == {o \in orders : o.sym = tick.sym /\ Triggered(tick, o.side, o.px)}
MarkFills(orders) == {Book!Fill(o, Book!External, o.rem) : o \in Marked(orders)}

SweepHolds ==
  ctl = "sweep" =>
    /\ AcceptedIn(batch.reports) = {}
    /\ held.clock \in Nat /\ held.clock <= sequence
    /\ held.live \ Marked(held.live) = Live \ Marked(Live)
    /\ MarkFills(held.live) = Fills \cup MarkFills(Live)

LoopInv == MatchHolds /\ SweepHolds

\* Nothing is asked of an engine that is idle.
LEMMA IdleKeepsLoopInv ==
  ASSUME ctl' = "idle"
  PROVE  LoopInv'
  BY DEF LoopInv, MatchHolds, SweepHolds

\* An accepted order starts to trade.
LEMMA EnterIsTrade ==
  ASSUME BookInv', HeldNext, ctl = "idle", sequence \in Nat,
         NEW c, NEW book, NEW n \in Nat, n >= sequence, NEW before,
         Enter(c, n, before), Live' = book, OrderOf(c, n + 1) \in Order,
         NEW T, before.reports \in Seq(T),
         DOMAIN before = {"reports", "deltas"},
         AcceptedIn(before.reports) = {}, FillsIn(before.reports) = {},
         \/ c \in Command /\ book = Live /\ ~Refused(c, {o.id : o \in Live})
         \/ \E o \in Live, px \in RawPrices \cup {None, NaN}, qty \in Quantities \cup {None} :
              /\ c = Amended(o, px, qty) /\ book = Live \ {o}
              /\ ~Refused(c, {b.id : b \in book})
  PROVE  LoopInv' /\ Refines
<1> DEFINE r == ReportFor(OrderOf(c, n + 1), "accepted", n + 2)
           R == Append(before.reports, r)
<1>1. /\ ctl' = "match" /\ incoming' = OrderOf(c, n + 1) /\ sequence' = n + 2
      /\ batch'.reports = R
  BY DEF Enter
<1>2. held'.live = Live /\ held'.clock = sequence /\ Refines
  BY <1>1, BeginningShowsNothing
<1>3. StartedBy(c, book)'
  BY <1>2 DEF StartedBy
<1>4. r.status = "accepted" /\ r.fill = 0 /\ r.id = incoming'.id
  BY <1>1 DEF ReportFor
<1>5. AcceptedIn(R) = {incoming'.id}
  <2> HIDE DEF r
  <2> QED
    BY <1>4, OneReportMore
<1>6. FillsIn(R) = {}
  <2>1. /\ Len(before.reports) \in Nat /\ DOMAIN R = 1 .. Len(before.reports) + 1
        /\ DOMAIN before.reports = 1 .. Len(before.reports)
        /\ R[Len(before.reports) + 1] = r
        /\ \A i \in 1 .. Len(before.reports) : R[i] = before.reports[i]
    <3> HIDE DEF r
    <3>1. before.reports \in Seq(T \cup {r})
      OBVIOUS
    <3> QED
      BY <3>1, AppendProperties
  <2>2. \A i \in DOMAIN R : ~ (R[i].fill > 0 /\ R[i].id \notin AcceptedIn(R))
    <3> SUFFICES ASSUME NEW i \in DOMAIN R, R[i].fill > 0, R[i].id \notin AcceptedIn(R) PROVE FALSE
      OBVIOUS
    <3> HIDE DEF r, R
    <3>1. i # Len(before.reports) + 1
      BY <1>4, <2>1
    <3>2. i \in DOMAIN before.reports /\ R[i] = before.reports[i]
      BY <2>1, <3>1
    <3>3. FillAt(R[i]) \in FillsIn(before.reports)
      BY <3>2 DEF FillsIn
    <3> QED
      BY <3>3
  <2> HIDE DEF R
  <2> QED
    BY <2>2 DEF FillsIn
<1>7. Fills' = {}
  <2>1. Fills' = FillsIn(batch'.reports)
    BY FillsAreToldOfNext
  <2> QED
    BY <1>1, <1>6, <2>1
<1>8. InTrade(OrderOf(c, n + 1), book)'
  <2> DEFINE in == OrderOf(c, n + 1)
  <2>1. [in EXCEPT !.rem = in.rem] = in
    BY DEF Order
  <2> HIDE DEF in
  <2>2. incoming' = in /\ in \in Order
    BY <1>1 DEF in
  <2>3. InTrade(in, book)'
    BY <1>7, <2>1, <2>2 DEF InTrade
  <2> QED
    BY <2>3 DEF in
<1>9. n + 1 \in (held'.clock + 1) .. sequence'
  BY <1>1, <1>2
<1>10. MatchHolds'
  <2> HIDE DEF r, R
  <2> QED
    BY <1>1, <1>2, <1>3, <1>5, <1>8, <1>9 DEF MatchHolds
<1> QED
  BY <1>1, <1>2, <1>10 DEF LoopInv, SweepHolds
-----------------------------------------------------------------------------
(***************************************************************************)
(* The operations.                                                         *)
(***************************************************************************)
\* The live orders are those of the queues.
LEMMA SameLive == queue' = queue => Live' = Live
BY DEF Live

\* An operation that begins and ends in one step.
LEMMA WholeOperation ==
  ASSUME ctl = "idle", ctl' = "idle",
         \/ sequence' > sequence /\ Live' = Live /\ Fills' = {}
         \/ sequence' > sequence /\ (\E o \in Live : Live' = Live \ {o}) /\ Fills' = {}
         \/ (sequence' > sequence \/ sequence' = 0) /\ Live' = {} /\ Fills' = {}
  PROVE  LoopInv' /\ Refines
<1>1. /\ Shown.live = Live /\ Shown.clock = sequence
      /\ (Shown.live)' = Live' /\ (Shown.clock)' = sequence' /\ (Shown.fills)' = Fills'
  BY ShownNow, ShownNext
<1>2. Book!Next
  BY <1>1 DEF Book!Next, Book!Refuse, Book!Cancel, Book!Clear
<1> QED
  BY <1>2, IdleKeepsLoopInv DEF Refines

\* A submitted order is refused at once or starts to trade.
LEMMA SubmitRefines ==
  ASSUME IInv, IInv', HeldNext, NEW c \in Command, SubmitOrder(c)
  PROVE  LoopInv' /\ Refines
<1>1. /\ ctl = "idle" /\ sequence \in Nat /\ BookInv /\ BookInv' /\ Live' = Live
      /\ Registered = {o.id : o \in Live}
  <2>1. ctl = "idle" /\ sequence \in Nat /\ BookInv /\ BookInv' /\ queue' = queue
    BY DEF IInv, TypeOK, SubmitOrder, Ready
  <2> QED
    BY <2>1, SameLive, RegisteredAreLive
<1>2. CASE Bounce(c, sequence, EmptyBatch)
  <2>1. /\ ctl' = "idle" /\ sequence' > sequence
        /\ batch'.reports = Append(<<>>, Reject(c.id, sequence + 1))
    BY <1>1, <1>2 DEF Bounce, EmptyBatch
  <2>2. Fills' = {}
    <3>1. \A i \in DOMAIN batch'.reports : batch'.reports[i].fill = 0
      BY <2>1 DEF Reject
    <3> QED
      BY <3>1, NoFillsIn, FillsAreToldOfNext
  <2> QED
    BY <1>1, <2>1, <2>2, WholeOperation
<1>3. CASE ~Refused(c, Registered) /\ Enter(c, sequence, EmptyBatch)
  <2>1. OrderOf(c, sequence + 1) \in Order
    BY <1>3 DEF IInv, TypeOK, Enter
  <2>2. /\ EmptyBatch.reports \in Seq({}) /\ DOMAIN EmptyBatch = {"reports", "deltas"}
        /\ AcceptedIn(EmptyBatch.reports) = {} /\ FillsIn(EmptyBatch.reports) = {}
    BY DEF EmptyBatch, AcceptedIn, FillsIn
  <2>3. sequence >= sequence /\ ~Refused(c, {o.id : o \in Live})
    BY <1>1, <1>3
  <2> QED
    BY <1>1, <1>3, <2>1, <2>2, <2>3, EnterIsTrade
<1> QED
  BY <1>2, <1>3 DEF SubmitOrder

\* A cancel takes one order out, or is refused.
LEMMA CancelRefines ==
  ASSUME IInv, IInv', HeldNext, NEW id \in Ids, CancelOrder(id)
  PROVE  LoopInv' /\ Refines
<1>1. /\ ctl = "idle" /\ ctl' = "idle" /\ sequence \in Nat /\ sequence' > sequence
      /\ BookInv /\ BookInv'
  BY DEF IInv, TypeOK, CancelOrder, UnknownOrder, Ready
<1>2. CASE UnknownOrder(id)
  <2>1. batch'.reports = <<Reject(id, sequence + 1)>> /\ Live' = Live
    BY <1>2, SameLive DEF UnknownOrder, EmptyBatch
  <2>2. Fills' = {}
    <3>1. \A i \in DOMAIN batch'.reports : batch'.reports[i].fill = 0
      BY <2>1 DEF Reject
    <3> QED
      BY <3>1, NoFillsIn, FillsAreToldOfNext
  <2> QED
    BY <1>1, <2>1, <2>2, WholeOperation
<1>3. CASE id \in Registered /\ RemoveRegistered(id) /\ ~UnknownOrder(id)
  <2>1. batch'.reports = <<ReportFor(RegisteredOrder(id), "cancelled", sequence + 1)>>
    BY <1>3 DEF CancelOrder
  <2>2. Fills' = {}
    <3>1. \A i \in DOMAIN batch'.reports : batch'.reports[i].fill = 0
      BY <2>1 DEF ReportFor
    <3> QED
      BY <3>1, NoFillsIn, FillsAreToldOfNext
  <2>3. \E o \in Live : Live' = Live \ {o}
    BY <1>1, <1>3, RemovalIsOfOne
  <2> QED
    BY <1>1, <2>2, <2>3, WholeOperation
<1> QED
  BY <1>2, <1>3 DEF CancelOrder

\* A replaced order leaves the book; its amendment is refused or starts to trade.
LEMMA ReplaceRefines ==
  ASSUME IInv, IInv', HeldNext, NEW id \in Ids, NEW px \in RawPrices \cup {None, NaN},
         NEW qty \in Quantities \cup {None}, ReplaceOrder(id, px, qty)
  PROVE  LoopInv' /\ Refines
<1>1. ctl = "idle" /\ sequence \in Nat /\ BookInv /\ BookInv'
  BY DEF IInv, TypeOK, ReplaceOrder, Ready
<1>2. CASE UnknownOrder(id)
  <2>1. /\ batch'.reports = <<Reject(id, sequence + 1)>> /\ Live' = Live
        /\ ctl' = "idle" /\ sequence' > sequence
    BY <1>1, <1>2, SameLive DEF UnknownOrder, EmptyBatch
  <2>2. Fills' = {}
    <3>1. \A i \in DOMAIN batch'.reports : batch'.reports[i].fill = 0
      BY <2>1 DEF Reject
    <3> QED
      BY <3>1, NoFillsIn, FillsAreToldOfNext
  <2> QED
    BY <1>1, <2>1, <2>2, WholeOperation
<1>3. CASE ~UnknownOrder(id)
  <2> DEFINE old == RegisteredOrder(id)
             c == Amended(old, px, qty)
             n == sequence + 1
             r == ReportFor(old, "replaced", n)
             before == [reports |-> <<r>>, deltas |-> <<RemovalDelta(id)>>]
  <2>1. /\ id \in Registered /\ RemoveRegistered(id)
        /\ \/ Refused(c, Registered \ {id}) /\ Bounce(c, n, before)
           \/ ~Refused(c, Registered \ {id}) /\ Enter(c, n, before)
    BY <1>3 DEF ReplaceOrder
  <2>2. old \in Live /\ old.id = id /\ Live' = Live \ {old}
    BY <1>1, <2>1, RemovalIsOfOne
  <2>3. Registered \ {id} = {b.id : b \in Live \ {old}}
    <3>1. Registered = {o.id : o \in Live} /\ \A o, b \in Live : o.id = b.id => o = b
      BY <1>1, RegisteredAreLive
    <3> HIDE DEF old
    <3> QED
      BY <2>2, <3>1
  <2>4. r.fill = 0 /\ r.status # "accepted"
    BY DEF ReportFor
  <2>5. /\ before.reports = <<r>> /\ DOMAIN before = {"reports", "deltas"}
        /\ before.reports \in Seq({r})
    OBVIOUS
  <2>6. n \in Nat /\ n >= sequence
    BY <1>1
  <2>7. CASE Bounce(c, n, before)
    <3>1. /\ ctl' = "idle" /\ sequence' > sequence
          /\ batch'.reports = Append(<<r>>, Reject(c.id, n + 1))
      BY <1>1, <2>7 DEF Bounce
    <3>2. Fills' = {}
      <4>1. Reject(c.id, n + 1).fill = 0
        BY DEF Reject
      <4> HIDE DEF r
      <4>2. \A i \in DOMAIN batch'.reports : batch'.reports[i].fill = 0
        BY <2>4, <3>1, <4>1
      <4> QED
        BY <4>2, NoFillsIn, FillsAreToldOfNext
    <3> QED
      BY <1>1, <2>2, <3>1, <3>2, WholeOperation
  <2>8. CASE ~Refused(c, Registered \ {id}) /\ Enter(c, n, before)
    <3>1. OrderOf(c, n + 1) \in Order
      BY <2>8 DEF IInv, TypeOK, Enter
    <3>2. AcceptedIn(before.reports) = {} /\ FillsIn(before.reports) = {}
      <4> HIDE DEF r
      <4> QED
        BY <2>4, <2>5 DEF AcceptedIn, FillsIn
    <3>3. /\ old \in Live /\ c = Amended(old, px, qty) /\ Live \ {old} = Live \ {old}
          /\ ~Refused(c, {b.id : b \in Live \ {old}})
      BY <2>2, <2>3, <2>8
    <3> HIDE DEF old, c, before, n
    <3>4. \E o \in Live, x \in RawPrices \cup {None, NaN}, y \in Quantities \cup {None} :
            /\ c = Amended(o, x, y) /\ Live \ {old} = Live \ {o}
            /\ ~Refused(c, {b.id : b \in Live \ {old}})
      BY <3>3
    <3> QED
      BY <1>1, <2>2, <2>5, <2>6, <2>8, <3>1, <3>2, <3>4, EnterIsTrade
  <2> QED
    BY <2>1, <2>7, <2>8
<1> QED
  BY <1>2, <1>3
\* After a reset or a restart, even inside an operation, the book is clear.
LEMMA EmptyRefines ==
  ASSUME IInv, HeldNext, Reset \/ Restart
  PROVE  LoopInv' /\ Refines
<1>1. /\ sequence \in Nat /\ ctl' = "idle" /\ queue' = EmptyBook /\ batch' = EmptyBatch
      /\ (ctl = "idle" /\ sequence' > sequence) \/ sequence' = 0
  BY DEF IInv, TypeOK, Reset, Restart, Ready
<1>2. Live' = {}
  <2>1. \A s \in Products, d \in Sides, p \in Ticks : DOMAIN queue'[s][d][p] = {}
    BY <1>1 DEF EmptyBook
  <2> QED
    BY <2>1 DEF Live
<1>3. Fills' = {}
  <2>1. DOMAIN batch'.reports = {}
    BY <1>1 DEF EmptyBatch
  <2> QED
    BY <2>1, NoFillsIn, FillsAreToldOfNext
<1>4. CASE ctl = "idle"
  BY <1>1, <1>2, <1>3, <1>4, WholeOperation
<1>5. CASE ctl # "idle"
  <2>1. (Shown.live)' = {} /\ (Shown.clock)' = 0 /\ (Shown.fills)' = {}
    BY <1>1, <1>2, <1>3, <1>5, ShownNext
  <2>2. Book!Next
    BY <2>1 DEF Book!Next, Book!Clear
  <2> QED
    BY <1>1, <2>2, IdleKeepsLoopInv DEF Refines
<1> QED
  BY <1>4, <1>5

\* A tick of a product starts the sweep; no order is of any other symbol.
LEMMA ApplyRefines ==
  ASSUME IInv, IInv', HeldNext, NEW t \in Tick, ApplyMarketData(t)
  PROVE  LoopInv' /\ Refines
<1>1. /\ ctl = "idle" /\ sequence \in Nat /\ sequence' = sequence /\ Live' = Live
      /\ batch' = EmptyBatch /\ BookInv
  BY SameLive DEF IInv, TypeOK, ApplyMarketData, Ready
<1>2. Fills' = {} /\ AcceptedIn(batch'.reports) = {}
  <2>1. DOMAIN batch'.reports = {}
    BY <1>1 DEF EmptyBatch
  <2> QED
    BY <2>1, NoFillsIn, FillsAreToldOfNext DEF AcceptedIn
<1>3. CASE t.sym \in Products /\ ctl' = "sweep" /\ tick' = t
  <2>1. held'.live = Live /\ held'.clock = sequence /\ Refines
    BY <1>1, <1>3, BeginningShowsNothing
  <2>2. SweepHolds'
    <3>1. (held.live \ Marked(held.live))' = (Live \ Marked(Live))'
      BY <1>1, <2>1 DEF Marked
    <3>2. MarkFills(held.live)' = (Fills \cup MarkFills(Live))'
      BY <1>1, <1>2, <2>1 DEF MarkFills, Marked
    <3> QED
      BY <1>1, <1>2, <2>1, <3>1, <3>2 DEF SweepHolds
  <2> QED
    BY <1>3, <2>1, <2>2 DEF LoopInv, MatchHolds
<1>4. CASE t.sym \notin Products /\ UNCHANGED <<ctl, tick>>
  <2>1. /\ Shown.live = Live /\ Shown.clock = sequence
        /\ (Shown.live)' = Live /\ (Shown.clock)' = sequence /\ (Shown.fills)' = {}
    BY <1>1, <1>2, <1>4, ShownNow, ShownNext
  <2> DEFINE hit == {o \in Live : o.sym = t.sym /\ Book!Triggered(t, o.side, o.px)}
  <2>2. hit = {}
    <3>1. \A o \in Live : o.sym \in Products
      BY <1>1, LiveIs DEF Order
    <3> QED
      BY <1>4, <3>1
  <2>3. t \in Book!Tick
    BY SameOperators
  <2>4. Book!Mark(t)
    BY <1>1, <2>1, <2>2 DEF Book!Mark
  <2> QED
    BY <1>1, <1>4, <2>3, <2>4, IdleKeepsLoopInv DEF Refines, Book!Next
<1> QED
  BY <1>3, <1>4 DEF ApplyMarketData

-----------------------------------------------------------------------------
(***************************************************************************)
(* The sweep.                                                              *)
(***************************************************************************)
\* One order filled by the tick: it is marked no more, and told of.
LEMMA SweepRefines ==
  ASSUME IInv, IInv', SoundInv, LoopInv, HeldNext, NEW d \in Sides, NEW p \in Ticks, SweepOrder(d, p)
  PROVE  LoopInv' /\ Refines
<1> DEFINE s == tick.sym
           q == queue[s][d][p]
           b == q[1]
           r == FillReport([b EXCEPT !.rem = 0], MarketData, b.rem, p, sequence + 1)
<1>1. /\ ctl = "sweep" /\ ctl' = "sweep" /\ tick' = tick /\ s \in Products
      /\ BookInv /\ BookInv' /\ sequence \in Nat /\ sequence' = sequence + 1
      /\ IsBest(s, d, p) /\ Triggered(tick, d, p)
  BY DEF IInv, TypeOK, SweepOrder, CanSweep
<1>2. q \in Seq(Order) /\ q # <<>> /\ b = Head(q) /\ 1 \in DOMAIN q
  <2>1. q \in Seq(Order) /\ q # <<>>
    BY <1>1 DEF BookInv, IsBest
  <2> QED
    BY <2>1, TailOfQueue
<1>3. queue' = SetLevel(s, d, p, Tail(q)) /\ batch'.reports = Append(batch.reports, r)
  BY <1>1, <1>2 DEF SweepOrder
<1>4. /\ b \in Live /\ b \in Order /\ b.sym = s /\ b.side = d /\ b.px = p
      /\ b.rem > 0
  BY <1>1, <1>2, LiveIs
<1>5. Live' = Live \ {b}
  <2>1. Without(q, 1, Tail(q))
    <3> HIDE DEF q
    <3>1. /\ Tail(q) \in Seq(Order) /\ DOMAIN Tail(q) = 1 .. Len(q) - 1
          /\ \A i \in DOMAIN Tail(q) : (Tail(q)[i] = q[i + 1] /\ ~ (i < 1))
      BY <1>2, TailOfQueue
    <3> QED
      BY <3>1 DEF Without
  <2> HIDE DEF s
  <2> QED
    BY <1>1, <1>2, <1>3, <2>1, LiveWithout
<1>6. /\ r.id = b.id /\ r.contra = MarketData /\ r.fill = b.rem /\ r.px = FromTicks(p)
      /\ r.status = "filled"
  <2> HIDE DEF b
  <2> QED
    BY <1>4 DEF FillReport, ReportFor, Order
<1>7. FillAt(r) = Book!Fill(b, Book!External, b.rem)
  <2> HIDE DEF r, b
  <2> QED
    BY <1>4, <1>6, SameOperators DEF FillAt, Book!Fill, Book!External, MarketData
<1>8. /\ held' = held /\ Refines
  BY <1>1, RunningShowsNothing
<1>9. /\ AcceptedIn(batch.reports) = {} /\ held.clock \in Nat /\ held.clock <= sequence
      /\ held.live \ Marked(held.live) = Live \ Marked(Live)
      /\ MarkFills(held.live) = Fills \cup MarkFills(Live)
  BY <1>1 DEF LoopInv, SweepHolds
<1>10. batch.reports \in Seq(Report)
  BY DEF SoundInv, Sound
<1> HIDE DEF r
<1>11. AcceptedIn(batch'.reports) = {} /\ Fills' = Fills \cup {Book!Fill(b, Book!External, b.rem)}
  <2>1. AcceptedIn(batch'.reports) = {}
    BY <1>3, <1>6, <1>9, <1>10, OneReportMore
  <2>2. FillsIn(batch'.reports) = FillsIn(batch.reports) \cup {FillAt(r)}
    <3>1. r.status # "accepted" /\ r.fill > 0 /\ r.id \notin AcceptedIn(batch.reports)
      BY <1>4, <1>6, <1>9
    <3> QED
      BY <1>3, <1>10, <3>1, OneReportMore
  <2> QED
    BY <1>7, <2>1, <2>2, FillsAreToldOf, FillsAreToldOfNext
<1> HIDE DEF b
<1>12. b \in Marked(Live)
  BY <1>1, <1>4 DEF Marked
<1>13. Marked(Live)' = Marked(Live) \ {b} /\ Marked(held.live)' = Marked(held.live)
  BY <1>1, <1>5, <1>8 DEF Marked
<1>14. (held.live \ Marked(held.live))' = (Live \ Marked(Live))'
  BY <1>5, <1>8, <1>9, <1>12, <1>13
<1>15. MarkFills(held.live)' = (Fills \cup MarkFills(Live))'
  <2>1. MarkFills(held.live)' = MarkFills(held.live)
    BY <1>8, <1>13 DEF MarkFills
  <2>2. MarkFills(Live) = MarkFills(Live)' \cup {Book!Fill(b, Book!External, b.rem)}
    BY <1>12, <1>13 DEF MarkFills
  <2> QED
    BY <1>9, <1>11, <2>1, <2>2
<1>16. SweepHolds'
  BY <1>1, <1>8, <1>9, <1>11, <1>14, <1>15 DEF SweepHolds
<1> QED
  BY <1>1, <1>8, <1>16 DEF LoopInv, MatchHolds

\* When the best order of each side is out of reach, every order is.
LEMMA FinishSweepRefines ==
  ASSUME IInv, IInv', LoopInv, HeldNext, FinishSweep
  PROVE  LoopInv' /\ Refines
<1>1. /\ ctl = "sweep" /\ ctl' = "idle" /\ tick \in Tick /\ tick.sym \in Products
      /\ BookInv /\ sequence \in Nat /\ sequence' = sequence /\ Live' = Live /\ batch' = batch
      /\ \A d \in Sides, p \in Ticks : ~CanSweep(d, p)
  BY SameLive DEF IInv, TypeOK, FinishSweep
<1>2. Fills' = Fills
  BY <1>1, FillsAreToldOf, FillsAreToldOfNext
<1>3. Marked(Live) = {}
  <2> SUFFICES ASSUME NEW o \in Marked(Live) PROVE FALSE
    OBVIOUS
  <2>1. o \in Live /\ o.sym = tick.sym /\ Triggered(tick, o.side, o.px)
    BY DEF Marked
  <2>2. o \in Order /\ \E i \in DOMAIN queue[o.sym][o.side][o.px] : o = queue[o.sym][o.side][o.px][i]
    BY <1>1, <2>1, LiveIs DEF LiveStands
  <2>3. o.sym \in Products /\ o.side \in Sides /\ o.px \in Ticks
    BY <2>2 DEF Order
  <2>4. queue[o.sym][o.side][o.px] # <<>>
    <3>1. queue[o.sym][o.side][o.px] \in Seq(Order)
      BY <1>1, <2>3 DEF BookInv
    <3>2. DOMAIN queue[o.sym][o.side][o.px] # {}
      BY <2>2
    <3> QED
      BY <3>2
  <2>5. PICK b \in Ticks : IsBest(o.sym, o.side, b) /\ (b = o.px \/ Better(o.side, b, o.px))
    BY <1>1, <2>3, <2>4, BestExists DEF BookInv
  <2>6. b \in Int /\ o.px \in Int
    BY <2>3, ConstantsAssumption DEF Ticks
  <2>7. /\ tick.last # None => ToTicks(tick.last) \in Int
        /\ tick.ask # None => ToTicks(tick.ask) \in Int
        /\ tick.bid # None => ToTicks(tick.bid) \in Int
    <3>1. /\ tick.last \in RawPrices \cup {None} /\ tick.ask \in RawPrices \cup {None}
          /\ tick.bid \in RawPrices \cup {None}
      BY <1>1 DEF Tick
    <3>2. \A h \in RawPrices : ToTicks(h) \in Int
      BY ConstantsAssumption DEF ToTicks
    <3> QED
      BY <3>1, <3>2
  <2>8. Triggered(tick, o.side, b)
    BY <2>1, <2>5, <2>6, <2>7 DEF Triggered, Better
  <2> QED
    BY <1>1, <2>1, <2>3, <2>5, <2>8 DEF CanSweep
<1>4. /\ held.clock \in Nat /\ held.clock <= sequence
      /\ Live = held.live \ Marked(held.live) /\ Fills = MarkFills(held.live)
  BY <1>1, <1>3 DEF LoopInv, SweepHolds, MarkFills
<1>5. /\ Shown.live = held.live /\ Shown.clock = held.clock
      /\ (Shown.live)' = Live /\ (Shown.clock)' = sequence /\ (Shown.fills)' = Fills
  BY <1>1, <1>2, ShownNow, ShownNext
<1>6. Marked(held.live) = {o \in Shown.live : o.sym = tick.sym /\ Book!Triggered(tick, o.side, o.px)}
  BY <1>5, SameOperators DEF Marked
<1>7. tick \in Book!Tick
  BY <1>1, SameOperators
<1>8. Book!Mark(tick)
  BY <1>4, <1>5, <1>6 DEF Book!Mark, MarkFills
<1> QED
  BY <1>1, <1>7, <1>8, IdleKeepsLoopInv DEF Refines, Book!Next
-----------------------------------------------------------------------------
(***************************************************************************)
(* The matching loop.                                                      *)
(***************************************************************************)
\* One trade: what the order had to do with the book before it is this trade and
\* what it has to do with the book after it.
LEMMA OneTradeLess ==
  ASSUME BookInv, BookInv', incoming \in Order, incoming' \in Order, NEW p \in Ticks, MatchIncoming(p)
  PROVE  LET b == Head(queue[incoming.sym][Opposite(incoming.side)][p])
             qty == TradeQuantity(incoming, b)
         IN /\ BookAfter(incoming, Live) = BookAfter(incoming', Live')
            /\ LeftOf(incoming, Live) = LeftOf(incoming', Live')
            /\ FillsOf(incoming, Live) = FillsOf(incoming', Live') \cup {Book!Fill(b, incoming.id, qty)}
            /\ b \in Live /\ b.px = p /\ qty \in Nat /\ qty > 0
            /\ incoming' = [incoming EXCEPT !.rem = @ - qty]
<1> DEFINE s == incoming.sym
           d == Opposite(incoming.side)
           q == queue[s][d][p]
           b == Head(q)
           qty == TradeQuantity(incoming, b)
           maker == [b EXCEPT !.rem = @ - qty]
           left == IF maker.rem = 0 THEN Tail(q) ELSE [q EXCEPT ![1] = maker]
<1>1. /\ IsBest(s, d, p) /\ Crosses(incoming.side, incoming.px, p) /\ incoming.rem > 0
      /\ incoming' = [incoming EXCEPT !.rem = @ - qty] /\ queue' = SetLevel(s, d, p, left)
      /\ s \in Products /\ d \in Sides
  <2>1. CanMatch(p)
    BY DEF MatchIncoming
  <2>2. IsBest(s, d, p) /\ Crosses(incoming.side, incoming.px, p) /\ incoming.rem > 0
    BY <2>1 DEF CanMatch
  <2>3. incoming' = [incoming EXCEPT !.rem = @ - qty] /\ queue' = SetLevel(s, d, p, left)
    BY DEF MatchIncoming
  <2>4. s \in Products /\ d \in Sides
    BY DEF Order, Opposite, Sides
  <2> QED
    BY <2>2, <2>3, <2>4
<1>2. q \in Seq(Order) /\ q # <<>> /\ b = q[1] /\ 1 \in DOMAIN q
  <2>1. q \in Seq(Order)
    <3> HIDE DEF s, d
    <3> QED
      BY <1>1 DEF BookInv
  <2>2. q # <<>>
    BY <1>1 DEF IsBest
  <2> HIDE DEF q
  <2> QED
    BY <2>1, <2>2, TailOfQueue
<1>3. incoming' = [incoming EXCEPT !.rem = @ - qty] /\ queue' = SetLevel(s, d, p, left)
  BY <1>1
<1>4. First(b, Crossing(incoming, Live))
  <2>1. First(q[1], Crossing(incoming, Live))
    BY <1>1, BestIsFirst
  <2> HIDE DEF q
  <2> QED
    BY <1>2, <2>1
<1>5. Has(Crossing(incoming, Live)) /\ Has(Crossing(incoming', Live'))
  BY FiniteNow, FiniteNext
<1>6. b \in Live /\ b \in Order /\ b.px = p /\ b.rem \in Nat /\ b.rem > 0 /\ incoming.rem \in Nat
  <2>1. q[1] \in Live /\ q[1] \in Order /\ q[1].px = p
    <3> HIDE DEF s, d
    <3> QED
      BY <1>1, <1>2, LiveIs
  <2> HIDE DEF q
  <2>2. b \in Live /\ b \in Order /\ b.px = p
    BY <1>2, <2>1
  <2> HIDE DEF b
  <2>3. b.rem \in Nat /\ b.rem > 0
    BY <2>2, LiveIs
  <2>4. incoming.rem \in Nat
    BY DEF Order
  <2> QED
    BY <2>2, <2>3, <2>4
<1>7. /\ qty \in Nat /\ qty > 0
      /\ (incoming.rem >= b.rem => qty = b.rem) /\ (incoming.rem < b.rem => qty = incoming.rem)
  <2> HIDE DEF b
  <2> QED
    BY <1>1, <1>6 DEF TradeQuantity
<1>8. maker.rem = b.rem - qty
  <2> HIDE DEF b, qty
  <2> QED
    BY <1>6 DEF Order
<1>9. CASE incoming.rem >= b.rem
  <2>1. qty = b.rem /\ left = Tail(q)
    <3>1. maker.rem = 0
      <4> HIDE DEF b, qty, maker
      <4> QED
        BY <1>6, <1>7, <1>8, <1>9
    <3> QED
      BY <1>7, <1>9, <3>1
  <2>2. Live' = Live \ {b}
    <3>1. Without(q, 1, Tail(q))
      <4> HIDE DEF q
      <4>1. /\ Tail(q) \in Seq(Order) /\ DOMAIN Tail(q) = 1 .. Len(q) - 1
            /\ \A i \in DOMAIN Tail(q) : (Tail(q)[i] = q[i + 1] /\ ~ (i < 1))
        BY <1>2, TailOfQueue
      <4> QED
        BY <4>1 DEF Without
    <3>2. queue' = SetLevel(s, d, p, Tail(q))
      BY <1>3, <2>1
    <3> HIDE DEF s, d
    <3> QED
      BY <1>1, <1>2, <3>1, <3>2, LiveWithout
  <2>3. incoming' = [incoming EXCEPT !.rem = @ - b.rem]
    BY <1>3, <2>1
  <2> HIDE DEF b, qty
  <2>4. /\ BookAfter(incoming, Live) = BookAfter(incoming', Live \ {b})
        /\ LeftOf(incoming, Live) = LeftOf(incoming', Live \ {b})
        /\ FillsOf(incoming, Live)
             = FillsOf(incoming', Live \ {b}) \cup {Book!Fill(b, incoming.id, b.rem)}
    BY <1>4, <1>5, <1>9, <2>3, FullTrade
  <2> QED
    BY <1>3, <1>6, <1>7, <2>1, <2>2, <2>4 DEF b, qty
<1>10. CASE incoming.rem < b.rem
  <2>1. qty = incoming.rem /\ left = [q EXCEPT ![1] = maker]
    <3>1. maker.rem # 0
      <4> HIDE DEF b, qty, maker
      <4> QED
        BY <1>6, <1>7, <1>8, <1>10
    <3> QED
      BY <1>7, <1>10, <3>1
  <2>2. maker = [b EXCEPT !.rem = @ - incoming.rem] /\ maker \in Order
    <3>1. qty = incoming.rem
      BY <2>1
    <3> HIDE DEF b, qty
    <3>2. b.rem - qty \in Nat
      BY <1>6, <1>10, <3>1
    <3> QED
      BY <1>6, <3>1, <3>2 DEF Order
  <2>3. Live' = (Live \ {b}) \cup {maker}
    <3>1. queue' = SetLevel(s, d, p, [q EXCEPT ![1] = maker])
      BY <1>3, <2>1
    <3>2. s \in Products /\ d \in Sides /\ queue[s][d][p] # <<>> /\ q = queue[s][d][p]
      BY <1>1, <1>2
    <3> HIDE DEF s, d, maker, q
    <3>3. Live' = (Live \ {q[1]}) \cup {maker}
      BY <2>2, <3>1, <3>2, LiveLess
    <3> QED
      BY <1>2, <3>3
  <2>4. incoming'.rem = 0 /\ incoming'.rem \in Nat
    <3>1. incoming' = [incoming EXCEPT !.rem = @ - incoming.rem]
      BY <1>3, <2>1
    <3> QED
      BY <1>6, <3>1 DEF Order
  <2> HIDE DEF b, qty, maker
  <2>5. /\ BookAfter(incoming, Live) = (Live \ {b}) \cup {[b EXCEPT !.rem = @ - incoming.rem]}
        /\ LeftOf(incoming, Live) = 0
        /\ FillsOf(incoming, Live) = {Book!Fill(b, incoming.id, incoming.rem)}
    BY <1>1, <1>4, <1>5, <1>10, LastTrade
  <2>6. /\ BookAfter(incoming', Live') = Live' /\ LeftOf(incoming', Live') = incoming'.rem
        /\ FillsOf(incoming', Live') = {}
    BY <1>5, <2>4, NothingGiven
  <2> QED
    BY <1>3, <1>6, <1>7, <2>1, <2>2, <2>3, <2>4, <2>5, <2>6 DEF b, qty
<1>11. incoming.rem >= b.rem \/ incoming.rem < b.rem
  <2> HIDE DEF b
  <2> QED
    BY <1>6
<1> QED
  BY <1>9, <1>10, <1>11

\* Of two changes of a quantity the last one counts.
LEMMA RemTwice ==
  ASSUME NEW in \in Order, NEW now, NEW u, now = [in EXCEPT !.rem = u], NEW v
  PROVE  [now EXCEPT !.rem = v] = [in EXCEPT !.rem = v]
BY DEF Order

\* One trade of the loop: its two reports, of which the second is the fill shown.
LEMMA MatchRefines ==
  ASSUME IInv, IInv', SoundInv, LoopInv, HeldNext, NEW p \in Ticks, MatchIncoming(p)
  PROVE  LoopInv' /\ Refines
<1> DEFINE s == incoming.sym
           d == Opposite(incoming.side)
           b == Head(queue[s][d][p])
           qty == TradeQuantity(incoming, b)
           maker == [b EXCEPT !.rem = @ - qty]
           f1 == FillReport(incoming', maker.id, qty, p, sequence + 1)
           f2 == FillReport(maker, incoming'.id, qty, p, sequence + 2)
<1>1. /\ ctl = "match" /\ ctl' = "match" /\ BookInv /\ BookInv' /\ sequence \in Nat
      /\ sequence' = sequence + 2 /\ incoming \in Order /\ incoming' \in Order
      /\ registry[incoming.id] = Nowhere
  <2>1. ctl = "match" /\ ctl' = "match" /\ sequence' = sequence + 2
    BY DEF MatchIncoming, IInv, TypeOK
  <2> QED
    BY <2>1 DEF IInv, TypeOK, IncomingIsNew
<1>2. /\ BookAfter(incoming, Live) = BookAfter(incoming', Live')
      /\ LeftOf(incoming, Live) = LeftOf(incoming', Live')
      /\ FillsOf(incoming, Live) = FillsOf(incoming', Live') \cup {Book!Fill(b, incoming.id, qty)}
      /\ b \in Live /\ b.px = p /\ qty \in Nat /\ qty > 0
      /\ incoming' = [incoming EXCEPT !.rem = @ - qty]
  BY <1>1, OneTradeLess
<1>3. batch'.reports = batch.reports \o <<f1, f2>>
  BY DEF MatchIncoming
<1>4. /\ b \in Order /\ b.id \in Registered /\ maker.id = b.id
      /\ incoming.id \notin Registered /\ incoming'.id = incoming.id
  <2>1. b \in Order /\ b.id \in Registered
    BY <1>1, <1>2, LiveIs, RegisteredAreLive
  <2>2. incoming.id \notin Registered
    BY <1>1 DEF Registered
  <2> HIDE DEF b, qty
  <2> QED
    BY <1>1, <1>2, <2>1, <2>2 DEF Order
<1> HIDE DEF b, qty, maker
<1>5. /\ f1.id = incoming.id /\ f1.status # "accepted"
      /\ f2.id = b.id /\ f2.contra = incoming.id /\ f2.fill = qty /\ f2.px = FromTicks(p)
      /\ f2.status # "accepted"
  BY <1>4 DEF FillReport, ReportFor
<1>6. FillAt(f2) = Book!Fill(b, incoming.id, qty)
  <2> HIDE DEF f2
  <2> QED
    BY <1>2, <1>5, SameOperators DEF FillAt, Book!Fill
<1>7. held' = held /\ Refines
  BY <1>1, RunningShowsNothing
<1>8. AcceptedIn(batch.reports) = {incoming.id} /\ held.clock \in Nat
  BY <1>1 DEF LoopInv, MatchHolds
<1>9. batch.reports \in Seq(Report)
  BY DEF SoundInv, Sound
<1> HIDE DEF f1, f2
<1>10. batch'.reports = Append(Append(batch.reports, f1), f2)
  <2> DEFINE T == Report \cup {f1, f2}
  <2>1. batch.reports \in Seq(T) /\ f1 \in T /\ f2 \in T
    BY <1>9
  <2> HIDE DEF T
  <2> QED
    BY <1>3, <2>1, TwoMore
<1>11. AcceptedIn(batch'.reports) = {incoming'.id} /\ Fills' = Fills \cup {FillAt(f2)}
  <2> DEFINE R == Append(batch.reports, f1)
  <2>1. AcceptedIn(R) = {incoming.id} /\ FillsIn(R) = FillsIn(batch.reports)
    <3>1. AcceptedIn(R) = AcceptedIn(batch.reports)
      BY <1>5, <1>9, OneReportMore
    <3>2. f1.id \in AcceptedIn(batch.reports)
      BY <1>5, <1>8
    <3>3. FillsIn(R) = FillsIn(batch.reports)
      BY <1>5, <1>9, <3>2, OneReportMore
    <3> QED
      BY <1>8, <3>1, <3>3
  <2>2. R \in Seq(Report \cup {f1})
    BY <1>9
  <2>3. batch'.reports = Append(R, f2)
    BY <1>10
  <2> HIDE DEF R
  <2>4. f2.fill > 0 /\ f2.id \notin AcceptedIn(R)
    BY <1>2, <1>4, <1>5, <2>1
  <2>5. /\ AcceptedIn(batch'.reports) = AcceptedIn(R)
        /\ FillsIn(batch'.reports) = FillsIn(R) \cup {FillAt(f2)}
    BY <1>5, <2>2, <2>3, <2>4, OneReportMore
  <2> QED
    BY <1>4, <2>1, <2>5, FillsAreToldOf, FillsAreToldOfNext
<1>12. PICK c, book, n :
              /\ StartedBy(c, book)
              /\ n \in (held.clock + 1) .. sequence
              /\ InTrade(OrderOf(c, n), book)
  BY <1>1 DEF LoopInv, MatchHolds
<1>13. StartedBy(c, book)' /\ n \in (held'.clock + 1) .. sequence'
  <2>1. n \in (held'.clock + 1) .. sequence'
    BY <1>1, <1>7, <1>8, <1>12
  <2> QED
    BY <1>7, <1>12, <2>1 DEF StartedBy
<1>14. InTrade(OrderOf(c, n), book)'
  <2> DEFINE in == OrderOf(c, n)
  <2>1. /\ in \in Order /\ incoming = [in EXCEPT !.rem = incoming.rem]
        /\ BookAfter(in, book) = BookAfter(incoming, Live)
        /\ LeftOf(in, book) = LeftOf(incoming, Live)
        /\ FillsOf(in, book) = Fills \cup FillsOf(incoming, Live)
    BY <1>12 DEF InTrade
  <2> HIDE DEF in
  <2>2. incoming' = [in EXCEPT !.rem = incoming'.rem]
    <3> DEFINE now == incoming
               next == incoming'
    <3>1. now = [in EXCEPT !.rem = now.rem] /\ in \in Order
      BY <2>1
    <3>2. next = [now EXCEPT !.rem = next.rem]
      BY <1>1, <1>2 DEF Order
    <3> HIDE DEF now, next
    <3>3. next = [in EXCEPT !.rem = next.rem]
      BY <3>1, <3>2, RemTwice
    <3> QED
      BY <3>3 DEF next
  <2>3. FillsOf(in, book) = Fills' \cup FillsOf(incoming', Live')
    BY <1>2, <1>6, <1>11, <2>1
  <2>4. InTrade(in, book)'
    BY <1>2, <2>1, <2>2, <2>3 DEF InTrade
  <2> QED
    BY <2>4 DEF in
<1>15. MatchHolds'
  BY <1>7, <1>8, <1>11, <1>13, <1>14 DEF MatchHolds
<1> QED
  BY <1>1, <1>7, <1>15 DEF LoopInv, SweepHolds
\* What is left when the loop ends is what the book makes of the command.
LEMMA FinishRefines ==
  ASSUME IInv, IInv', SoundInv, LoopInv, HeldNext, FinishIncoming
  PROVE  LoopInv' /\ Refines
<1>1. /\ ctl = "match" /\ ctl' = "idle" /\ BookInv /\ BookInv' /\ sequence \in Nat
      /\ incoming \in Order /\ \A p \in Ticks : ~CanMatch(p)
  BY DEF IInv, TypeOK, FinishIncoming
<1>2. /\ AcceptedIn(batch.reports) = {incoming.id} /\ held.clock \in Nat
      /\ batch.reports \in Seq(Report) /\ incoming.rem \in Nat
  <2>1. AcceptedIn(batch.reports) = {incoming.id} /\ held.clock \in Nat
    BY <1>1 DEF LoopInv, MatchHolds
  <2>2. batch.reports \in Seq(Report)
    BY DEF SoundInv, Sound
  <2>3. incoming.rem \in Nat
    BY <1>1 DEF Order
  <2> QED
    BY <2>1, <2>2, <2>3
<1>3. /\ BookAfter(incoming, Live) = Live /\ LeftOf(incoming, Live) = incoming.rem
      /\ FillsOf(incoming, Live) = {}
  <2>1. incoming.rem = 0 \/ Crossing(incoming, Live) = {}
    <3> SUFFICES ASSUME incoming.rem > 0, NEW o \in Crossing(incoming, Live) PROVE FALSE
      BY <1>2
    <3>1. CrossesNothing(incoming)
      BY <1>1, LoopEndsUncrossed
    <3>2. o \in Live /\ o.sym = incoming.sym /\ o.side = Opposite(incoming.side)
          /\ Crosses(incoming.side, incoming.px, o.px)
      BY DEF Crossing
    <3>3. o \in Order /\ \E i \in DOMAIN queue[o.sym][o.side][o.px] : o = queue[o.sym][o.side][o.px][i]
      BY <1>1, <3>2, LiveIs DEF LiveStands
    <3>4. o.sym \in Products /\ o.side \in Sides /\ o.px \in Ticks
      BY <3>3 DEF Order
    <3>5. queue[o.sym][o.side][o.px] \in Seq(Order) /\ DOMAIN queue[o.sym][o.side][o.px] # {}
      BY <1>1, <3>3, <3>4 DEF BookInv
    <3>6. queue[o.sym][o.side][o.px] # <<>>
      BY <3>5
    <3> QED
      BY <3>1, <3>2, <3>4, <3>6 DEF CrossesNothing
  <2>2. Has(Crossing(incoming, Live))
    BY <1>1, FiniteNow
  <2> QED
    BY <1>2, <2>1, <2>2, NothingGiven
<1>4. PICK c, book, n :
             /\ StartedBy(c, book)
             /\ n \in (held.clock + 1) .. sequence
             /\ InTrade(OrderOf(c, n), book)
  BY <1>1 DEF LoopInv, MatchHolds
<1> DEFINE in == OrderOf(c, n)
<1>5. /\ in \in Order /\ incoming = [in EXCEPT !.rem = LeftOf(in, book)]
      /\ BookAfter(in, book) = Live /\ FillsOf(in, book) = Fills
  BY <1>3, <1>4 DEF InTrade
<1>6. /\ Live' = Live \cup (IF Rests(incoming) THEN {incoming} ELSE {})
      /\ Fills' = Fills /\ sequence' \in Nat /\ sequence' >= sequence
  <2>1. CASE Rests(incoming) /\ RestOrder
    <3> DEFINE r == ReportFor(incoming, "working", sequence + 1)
    <3>1. /\ queue' = SetLevel(incoming.sym, incoming.side, incoming.px,
                               Append(queue[incoming.sym][incoming.side][incoming.px], incoming))
          /\ sequence' = sequence + 1 /\ batch'.reports = Append(batch.reports, r)
      BY <2>1 DEF RestOrder, Enqueue
    <3>2. incoming.sym \in Products /\ incoming.side \in Sides /\ incoming.px \in Ticks
      BY <1>1 DEF Order
    <3>3. Live' = Live \cup {incoming}
      BY <1>1, <3>1, <3>2, LiveWith
    <3>4. r.fill = 0 /\ r.status # "accepted"
      BY DEF ReportFor
    <3> HIDE DEF r
    <3>5. Fills' = Fills
      <4>1. FillsIn(batch'.reports) = FillsIn(batch.reports)
        BY <1>2, <3>1, <3>4, QuietReport
      <4> QED
        BY <4>1, FillsAreToldOf, FillsAreToldOfNext
    <3> QED
      BY <1>1, <2>1, <3>1, <3>3, <3>5
  <2>2. CASE /\ incoming.rem > 0 /\ ~Rests(incoming)
             /\ sequence' = sequence + 1
             /\ batch' = [batch EXCEPT !.reports =
                            Append(@, ReportFor(incoming, "cancelled", sequence + 1))]
             /\ UNCHANGED <<queue, registry>>
    <3> DEFINE r == ReportFor(incoming, "cancelled", sequence + 1)
    <3>1. batch'.reports = Append(batch.reports, r)
      <4>1. batch \in [reports : Seq(Report), deltas : Seq(Delta)]
        BY DEF SoundInv, Sound
      <4> HIDE DEF r
      <4> QED
        BY <2>2, <4>1 DEF r
    <3>2. r.fill = 0 /\ r.status # "accepted"
      BY DEF ReportFor
    <3> HIDE DEF r
    <3>3. Fills' = Fills
      <4>1. FillsIn(batch'.reports) = FillsIn(batch.reports)
        BY <1>2, <3>1, <3>2, QuietReport
      <4> QED
        BY <4>1, FillsAreToldOf, FillsAreToldOfNext
    <3>4. Live' = Live
      BY <2>2, SameLive
    <3> QED
      BY <1>1, <2>2, <3>3, <3>4
  <2>3. CASE incoming.rem = 0 /\ UNCHANGED <<queue, registry, sequence, batch>>
    <3>1. Live' = Live /\ Fills' = Fills /\ sequence' = sequence
      BY <2>3, SameLive, FillsAreToldOf, FillsAreToldOfNext
    <3>2. ~Rests(incoming)
      BY <2>3 DEF Rests
    <3> QED
      BY <1>1, <3>1, <3>2
  <2> QED
    BY <2>1, <2>2, <2>3 DEF FinishIncoming
<1>7. /\ Shown.live = held.live /\ Shown.clock = held.clock
      /\ (Shown.live)' = Live' /\ (Shown.clock)' = sequence' /\ (Shown.fills)' = Fills'
  BY <1>1, ShownNow, ShownNext
<1>8. Book!Trade(c, book)
  <2>1. n \in (Shown.clock + 1) .. (Shown.clock)'
    BY <1>1, <1>2, <1>4, <1>6, <1>7
  <2>2. /\ (Shown.live)' = BookAfter(in, book) \cup (IF Rests(incoming) THEN {incoming} ELSE {})
        /\ (Shown.fills)' = FillsOf(in, book)
    BY <1>5, <1>6, <1>7
  <2> QED
    BY <1>5, <2>1, <2>2, TradeIs
<1>9. Book!Next
  <2>1. CASE c \in Command /\ book = held.live /\ ~Refused(c, {o.id : o \in held.live})
    <3>1. c \in Book!Command /\ ~Book!Refused(c, {o.id : o \in Shown.live}) /\ Book!Trade(c, Shown.live)
      BY <1>7, <1>8, <2>1, SameOperators
    <3>2. Book!Submit(c)
      BY <3>1 DEF Book!Submit
    <3> QED
      BY <3>1, <3>2 DEF Book!Next
  <2>2. ASSUME NEW o \in held.live, NEW px \in RawPrices \cup {None, NaN},
               NEW qty \in Quantities \cup {None},
               c = Amended(o, px, qty), book = held.live \ {o},
               ~Refused(c, {b.id : b \in book})
        PROVE  Book!Next
    <3>1. /\ o \in Shown.live /\ c = Book!Amended(o, px, qty) /\ book = Shown.live \ {o}
          /\ ~Book!Refused(c, {b.id : b \in book})
      BY <1>7, <2>2, SameOperators
    <3>2. Book!Replace(o, px, qty)
      BY <1>8, <3>1 DEF Book!Replace
    <3> QED
      BY <3>1, <3>2 DEF Book!Next
  <2> QED
    BY <1>4, <2>1, <2>2 DEF StartedBy
<1> QED
  BY <1>1, <1>9, IdleKeepsLoopInv DEF Refines

-----------------------------------------------------------------------------
\* The empty engine is the empty book.
LEMMA InitShowsNothing == ImplInit => LoopInv /\ Book!Init
<1> SUFFICES ASSUME ImplInit PROVE LoopInv /\ Book!Init
  OBVIOUS
<1>1. ctl = "idle" /\ queue = EmptyBook /\ batch = EmptyBatch /\ sequence = 0
  BY DEF ImplInit, Init
<1>2. Live = {}
  <2>1. \A s \in Products, d \in Sides, p \in Ticks : DOMAIN queue[s][d][p] = {}
    BY <1>1 DEF EmptyBook
  <2> QED
    BY <2>1 DEF Live
<1>3. Fills = {}
  <2>1. DOMAIN batch.reports = {}
    BY <1>1 DEF EmptyBatch
  <2> QED
    BY <2>1, NoFillsIn, FillsAreToldOf
<1> QED
  BY <1>1, <1>2, <1>3, ShownNow DEF LoopInv, MatchHolds, SweepHolds, Book!Init

\* Every step keeps what the loops know, and is a step of the book or shows nothing.
LEMMA StepRefines ==
  IInv /\ IInv' /\ SoundInv /\ LoopInv /\ [ImplNext]_implVars => LoopInv' /\ Refines
<1> SUFFICES ASSUME IInv, IInv', SoundInv, LoopInv, [ImplNext]_implVars PROVE LoopInv' /\ Refines
  OBVIOUS
<1>1. CASE UNCHANGED implVars
  <2>1. UNCHANGED <<queue, registry, sequence, ctl, incoming, tick, batch, held>>
    BY <1>1 DEF implVars, vars
  <2>2. Live' = Live /\ Fills' = Fills
    BY <2>1, SameLive, FillsAreToldOf, FillsAreToldOfNext
  <2>3. LoopInv'
    BY <2>1, <2>2 DEF LoopInv, MatchHolds, SweepHolds, StartedBy, InTrade, Marked, MarkFills
  <2>4. Shown' = Shown
    BY <2>1, <2>2 DEF Shown, Seen
  <2> QED
    BY <2>3, <2>4 DEF Refines, Book!vars
<1>2. CASE ImplNext
  <2>0. HeldNext /\ Next
    BY <1>2 DEF ImplNext, HeldNext
  <2>1. ASSUME NEW c \in Command, SubmitOrder(c) PROVE LoopInv' /\ Refines
    BY <2>0, <2>1, SubmitRefines
  <2>2. ASSUME NEW id \in Ids, CancelOrder(id) PROVE LoopInv' /\ Refines
    BY <2>0, <2>2, CancelRefines
  <2>3. ASSUME NEW id \in Ids, NEW px \in RawPrices \cup {None, NaN},
               NEW qty \in Quantities \cup {None}, ReplaceOrder(id, px, qty)
        PROVE  LoopInv' /\ Refines
    BY <2>0, <2>3, ReplaceRefines
  <2>4. ASSUME NEW t \in Tick, ApplyMarketData(t) PROVE LoopInv' /\ Refines
    BY <2>0, <2>4, ApplyRefines
  <2>5. CASE Reset \/ Restart
    BY <2>0, <2>5, EmptyRefines
  <2>6. ASSUME NEW p \in Ticks, MatchIncoming(p) PROVE LoopInv' /\ Refines
    BY <2>0, <2>6, MatchRefines
  <2>7. CASE FinishIncoming
    BY <2>0, <2>7, FinishRefines
  <2>8. ASSUME NEW d \in Sides, NEW p \in Ticks, SweepOrder(d, p) PROVE LoopInv' /\ Refines
    BY <2>0, <2>8, SweepRefines
  <2>9. CASE FinishSweep
    BY <2>0, <2>9, FinishSweepRefines
  <2> QED
    BY <2>0, <2>1, <2>2, <2>3, <2>4, <2>5, <2>6, <2>7, <2>8, <2>9 DEF Next, Step
<1> QED
  BY <1>1, <1>2

\* Seen between two operations, the engine with its queues, its registry and its two
\* loops is the atomic book: every handler has the effect of one of its steps.
THEOREM ExchangeImplementsBook == ImplSpec => ImplementsOrderBook
<1>1. ImplSpec => Spec
  <2>1. ImplInit => Init
    BY DEF ImplInit
  <2>2. [ImplNext]_implVars => [Next]_vars
    BY DEF ImplNext, implVars
  <2> QED
    BY <2>1, <2>2, PTL DEF ImplSpec, Spec
<1>2. ImplInit => LoopInv /\ Book!Init
  BY InitShowsNothing
<1>3. IInv /\ IInv' /\ SoundInv /\ LoopInv /\ [ImplNext]_implVars => LoopInv' /\ [Book!Next]_(Book!vars)
  BY StepRefines DEF Refines
<1> QED
  BY <1>1, <1>2, <1>3, Invariance, BatchInvariance, PTL DEF ImplSpec, ImplementsOrderBook, Book!Spec
===============================================================================
