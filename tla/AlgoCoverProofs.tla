--------------------------- MODULE AlgoCoverProofs ---------------------------
(***************************************************************************)
(* The order path of the gateway, for every number of threads, jobs,       *)
(* entries and failures: an event makes one cover in a session, an answer  *)
(* finds the policy of whatever entry it tells of, and a handler posts     *)
(* each of its covers once.                                                *)
(***************************************************************************)
EXTENDS AlgoCover, BookLemmas, SequenceTheorems

\* Every cover was made from an event that has been claimed, and no two from one.
Claimed ==
  /\ \E S : made \in Seq(S)
  /\ ~forgot => /\ \A i \in DOMAIN made : made[i].key \in processed
                /\ \A i, j \in DOMAIN made : made[i].key = made[j].key => i = j

\* Appending to a sequence of anything.
LEMMA AppendAny ==
  ASSUME NEW s, NEW x, \E S : s \in Seq(S)
  PROVE  /\ \E S : Append(s, x) \in Seq(S)
         /\ DOMAIN Append(s, x) = DOMAIN s \cup {Len(s) + 1}
         /\ \A i \in DOMAIN s : Append(s, x)[i] = s[i]
         /\ Append(s, x)[Len(s) + 1] = x
<1>1. PICK S : s \in Seq(S)
  OBVIOUS
<1>2. s \in Seq(S \cup {x})
  BY <1>1
<1>3. Append(s, x) \in Seq(S \cup {x})
  BY <1>2
<1>4. /\ DOMAIN Append(s, x) = DOMAIN s \cup {Len(s) + 1}
      /\ \A i \in DOMAIN s : Append(s, x)[i] = s[i]
      /\ Append(s, x)[Len(s) + 1] = x
  BY <1>2
<1>5. QED
  BY <1>3, <1>4

\* The one step that makes a cover claims its event first.
LEMMA ProcessEventClaims ==
  ASSUME NEW t \in Threads, Claimed, ProcessEvent(t)
  PROVE  Claimed'
<1> DEFINE e == Head(thread[t].reply)
           cover == [of |-> e.id, key |-> e.key, fill |-> e.fill]
<1>1. /\ processed' = processed \cup {e.key}
      /\ forgot' = forgot
      /\ made' = made \/ (made' = Append(made, cover) /\ e.key \notin processed)
  BY DEF ProcessEvent, FirstSeen
<1>2. CASE made' = made
  BY <1>1, <1>2 DEF Claimed
<1>3. CASE made' = Append(made, cover) /\ e.key \notin processed
  <2> HIDE DEF e
  <2>1. cover.key = e.key
    OBVIOUS
  <2> HIDE DEF cover
  <2>2. \E S : made \in Seq(S)
    BY DEF Claimed
  <2>3. /\ \E S : Append(made, cover) \in Seq(S)
        /\ DOMAIN Append(made, cover) = DOMAIN made \cup {Len(made) + 1}
        /\ \A i \in DOMAIN made : Append(made, cover)[i] = made[i]
        /\ Append(made, cover)[Len(made) + 1] = cover
    BY ONLY <2>2, AppendAny
  <2>4. /\ \E S : made' \in Seq(S)
        /\ DOMAIN made' = DOMAIN made \cup {Len(made) + 1}
        /\ \A i \in DOMAIN made : made'[i] = made[i]
        /\ made'[Len(made) + 1] = cover
    BY ONLY <1>3, <2>3
  <2>5. ASSUME ~forgot'
        PROVE  /\ \A i \in DOMAIN made' : made'[i].key \in processed'
               /\ \A i, j \in DOMAIN made' : made'[i].key = made'[j].key => i = j
    <3>1. /\ \A i \in DOMAIN made : made[i].key \in processed
          /\ \A i, j \in DOMAIN made : made[i].key = made[j].key => i = j
      BY <1>1, <2>5 DEF Claimed
    <3>2. ASSUME NEW i \in DOMAIN made'
          PROVE  \/ i \in DOMAIN made /\ made'[i] = made[i] /\ made[i].key \in processed
                 \/ i = Len(made) + 1 /\ made'[i].key = e.key
      BY <2>1, <2>4, <3>1
    <3>3. \A i \in DOMAIN made' : made'[i].key \in processed'
      BY <1>1, <3>2
    <3>4. ASSUME NEW i \in DOMAIN made', NEW j \in DOMAIN made', made'[i].key = made'[j].key
          PROVE  i = j
      BY <1>3, <3>1, <3>2, <3>4
    <3>5. QED
      BY <3>3, <3>4
  <2>6. QED
    BY <2>4, <2>5 DEF Claimed
<1>4. QED
  BY <1>1, <1>2, <1>3

\* Nothing is said of the covers of a session that has been forgotten.
LEMMA ForgettingClaims ==
  ASSUME Claimed, forgot', made' = made \/ made' = <<>>
  PROVE  Claimed'
<1>1. <<>> \in Seq({})
  OBVIOUS
<1>2. \E S : made' \in Seq(S)
  BY <1>1 DEF Claimed
<1>3. QED
  BY <1>2 DEF Claimed

\* Every step: only an event that is being processed claims one, and only a session that ends forgets.
LEMMA StepClaims ==
  ASSUME Claimed, [CoverNext]_coverVars
  PROVE  Claimed'
<1>1. ASSUME NEW t \in Threads, ProcessEvent(t) PROVE Claimed'
  BY <1>1, ProcessEventClaims
<1>2. ASSUME NEW t \in Threads, ClearSession(t) PROVE Claimed'
  BY <1>2, ForgettingClaims DEF ClearSession
<1>3. CASE GatewayCrash
  BY <1>3, ForgettingClaims DEF GatewayCrash
<1>4. CASE UNCHANGED <<processed, made, forgot>>
  BY <1>4 DEF Claimed
<1>5. ASSUME NEW t \in Threads, NEW j \in jobs, Start(t, j) PROVE Claimed'
  BY <1>4, <1>5 DEF Start
<1>6. ASSUME NEW t \in Threads, Handle(t) PROVE Claimed'
  <2>1. CASE Remember(t)
    BY <1>4, <2>1 DEF Remember
  <2>2. CASE Post(t)
    BY <1>4, <2>2 DEF Post
  <2>3. CASE PostCover(t)
    BY <1>4, <2>3 DEF PostCover
  <2>4. CASE NextRequest(t)
    BY <1>4, <2>4 DEF NextRequest
  <2>5. QED
    BY <1>1, <1>2, <1>6, <2>1, <2>2, <2>3, <2>4 DEF Handle
<1>7. ASSUME NEW t \in Threads, Unreachable(t) \/ TimeOut(t) PROVE Claimed'
  BY <1>4, <1>7 DEF Unreachable, TimeOut
<1>8. CASE Exchanges
  BY <1>4, <1>8 DEF Exchanges, ServeOn, Serve
<1>9. CASE ExchangeCrash
  BY <1>4, <1>9 DEF ExchangeCrash
<1>10. CASE UNCHANGED coverVars
  BY <1>4, <1>10 DEF coverVars, relay
<1>11. QED
  BY <1>3, <1>5, <1>6, <1>7, <1>8, <1>9, <1>10 DEF CoverNext

\* An event makes one cover, whichever of several threads reads of it and in however
\* many answers: the claim of an event and the look at the set are one step.
THEOREM EventsCoveredOnce == CoverSpec => []EventCoveredOnce
<1>1. CoverInit => Claimed
  <2>1. <<>> \in Seq({})
    OBVIOUS
  <2>2. QED
    BY <2>1 DEF CoverInit, Claimed
<1>2. Claimed /\ [CoverNext]_coverVars => Claimed'
  BY StepClaims
<1>3. Claimed => EventCoveredOnce
  BY DEF Claimed, EventCoveredOnce
<1>4. QED
  BY <1>1, <1>2, <1>3, PTL DEF CoverSpec

-----------------------------------------------------------------------------
(***************************************************************************)
(* The inductive invariant of the handlers.  A cover's price follows its   *)
(* fill and need not be one a client could ask for: orders and reports are *)
(* taken at any integer price here, and Known bounds the ids they carry.   *)
(***************************************************************************)
\* The ids an answer may carry: an entry's only once its policy is stored.
Known == {id \in Ids \cup {NoId} : forgot \/ id \notin EntryIds \/ id \in policies}

\* The side that orders of id are on.
Fits(id, side) ==
  \A c \in Entries :
    /\ id = c.id => side = c.side
    /\ \A ms \in 0..MaxClock : id = CoverId(c.id, ms) => side = Opposite(c.side)

FreeOrder(K) ==
  {o \in [id : Ids, sym : Products, side : Sides, type : Types, tif : Tifs, px : Int,
          orig : Int, rem : Int, seq : Int] : o.id \in K /\ Fits(o.id, o.side)}

FreeReport(K) ==
  {r \in [id : Ids \cup {NoId}, contra : Ids \cup {NoId, MarketData}, sym : Products \cup {None},
          side : Sides \cup {None}, lim : Int, px : Int, fill : Int, rem : Int, seq : Int,
          status : {"accepted", "working", "partial", "filled", "cancelled", "rejected"}] :
     r.id \in K /\ (r.side = None \/ Fits(r.id, r.side))}

FreeCommand(K) ==
  {c \in [id : Ids \cup {NoId}, sym : Symbols \cup {None}, side : Sides, type : Types,
          tif : Tifs, px : Int \cup {NaN}, qty : Int] : c.id \in K /\ Fits(c.id, c.side)}

FreeRequest(K) ==
  [op : {"send"}, cmd : FreeCommand(K)] \cup [op : {"cancel"}, id : Ids]
    \cup [op : {"market"}, tick : Tick] \cup [op : {"reset"}]

Keys == (Ids \cup {NoId}) \X Int \X Int

FreeEvent(K) ==
  {e \in [id : Ids \cup {NoId}, key : Keys, side : Sides \cup {None}, sym : Products \cup {None},
          px : Int, qty : Int, tagged : BOOLEAN, fill : Int] :
     e.id \in K /\ (e.id \in EntryIds => Fits(e.id, e.side))}

\* The books and what is registered, as far as the reports made of them go.
BooksAreFree(K) ==
  /\ queue \in [Products -> [Sides -> [Ticks -> Seq(FreeOrder(K))]]]
  /\ \A s \in Products, d \in Sides, p \in Ticks :
       \A i \in DOMAIN queue[s][d][p] : queue[s][d][p][i].side = d
  /\ registry \in [Ids -> [sym : Products, side : Sides, px : Int] \cup {Nowhere}]
  /\ \A id \in Ids : registry[id] # Nowhere /\ registry[id].px \in Ticks =>
       \E i \in DOMAIN queue[registry[id].sym][registry[id].side][registry[id].px] :
         queue[registry[id].sym][registry[id].side][registry[id].px][i].id = id

\* The operation in progress, which a cancel never is.
OperationIsFree(K) ==
  /\ sequence \in Int
  /\ ctl \in {"idle", "match", "sweep"}
  /\ ctl = "match" => incoming \in FreeOrder(K)
  /\ ctl = "sweep" => tick.sym \in Products
  /\ batch = [reports |-> batch.reports, deltas |-> batch.deltas]
  /\ ctl # "idle" => batch.reports \in Seq(FreeReport(K))

EngineIsFree(K) == BooksAreFree(K) /\ OperationIsFree(K)

\* What a handler holds, where it is.
Pcs == {"idle", "remember", "clear", "post", "wait", "process", "settle"}

Handler(K) ==
  [pc : Pcs, todo : Seq(FreeRequest(Ids \cup {NoId})), reply : Seq(FreeEvent(K)),
   covers : Seq(FreeCommand(K))]

HandlerIsSound(h, K) ==
  /\ h \in Handler(K)
  /\ h.pc # "idle" => h.todo # <<>>
  /\ Len(h.todo) > 1 => \A i \in DOMAIN h.todo : h.todo[i].op = "send"
  /\ h.pc = "remember" => Head(h.todo).op = "send"
  /\ h.pc \in {"post", "wait"} => Head(h.todo) \in FreeRequest(K)
  /\ h.pc = "settle" => h.covers # <<>>
  /\ h.pc \notin {"process", "settle"} => h.covers = <<>>

HandlersAreSound(K) ==
  /\ thread = [t \in Threads |-> thread[t]]
  /\ \A t \in Threads : HandlerIsSound(thread[t], K)

\* A call is with the exchange exactly while its handler waits.
CallIsMatched(t) ==
  IF Waiting(t)
  THEN \/ serving = t /\ Own(t) = {}
       \/ serving # t /\ \E p \in pending : Own(t) = {p}
  ELSE serving # t /\ Own(t) = {}

CallsAreMatched(K) ==
  /\ pending \subseteq [by : Threads \cup {Nobody}, req : FreeRequest(K)]
  /\ serving \in Threads \cup {Nobody}
  /\ serving # Nobody => ctl # "idle"
  /\ \A t \in Threads : CallIsMatched(t)
  /\ \A p \in pending : p.by \in Threads /\ thread[p.by].pc = "wait" =>
       p.req = Head(thread[p.by].todo)

Accounts ==
  /\ policies \subseteq EntryIds
  /\ now \in 0..MaxClock /\ faults \in 0..MaxFaults
  /\ jobs \subseteq Jobs
  /\ made \in Seq([of : EntryIds, key : Keys, fill : Int])
  /\ posts \in Int
  /\ CoversPostedOnce

StateInv(K) ==
  EngineIsFree(K) /\ HandlersAreSound(K) /\ CallsAreMatched(K) /\ Accounts

HandlersInv == \E K \in SUBSET (Ids \cup {NoId}) : K = Known /\ StateInv(K)
-----------------------------------------------------------------------------
(***************************************************************************)
(* The engine under the gateway's requests.                                *)
(***************************************************************************)
\* A book of orders of any kind, with one level replaced.
LEMMA FreeLevel ==
  ASSUME NEW T, NEW s \in Products, NEW d \in Sides, NEW p \in Ticks, NEW q \in Seq(T),
         queue \in [Products -> [Sides -> [Ticks -> Seq(T)]]],
         queue' = SetLevel(s, d, p, q)
  PROVE  /\ queue' \in [Products -> [Sides -> [Ticks -> Seq(T)]]]
         /\ queue'[s][d][p] = q
         /\ \A s2 \in Products, d2 \in Sides, p2 \in Ticks :
              <<s2, d2, p2>> # <<s, d, p>> => queue'[s2][d2][p2] = queue[s2][d2][p2]
  BY DEF SetLevel

\* A level the map does not have is left alone.
LEMMA NoSuchLevel ==
  ASSUME NEW T, NEW s \in Products, NEW d \in Sides, NEW p, p \notin Ticks, NEW q,
         queue \in [Products -> [Sides -> [Ticks -> Seq(T)]]]
  PROVE  SetLevel(s, d, p, q) = queue
<1>1. [queue[s][d] EXCEPT ![p] = q] = queue[s][d]
  OBVIOUS
<1>2. [queue[s] EXCEPT ![d] = [queue[s][d] EXCEPT ![p] = q]] = queue[s]
  BY <1>1
<1>3. [queue EXCEPT ![s] = [queue[s] EXCEPT ![d] = [queue[s][d] EXCEPT ![p] = q]]] = queue
  BY <1>2
<1> QED
  BY <1>3 DEF SetLevel

\* Taking an order out of a queue leaves the others.
LEMMA OthersStay ==
  ASSUME NEW T, NEW q \in Seq(T), NEW k \in DOMAIN q
  PROVE  /\ RemoveAt(q, k) \in Seq(T)
         /\ \A i \in DOMAIN RemoveAt(q, k) : \E j \in DOMAIN q : RemoveAt(q, k)[i] = q[j]
         /\ \A i \in DOMAIN q : i # k =>
              \E j \in DOMAIN RemoveAt(q, k) : RemoveAt(q, k)[j] = q[i]
<1> DEFINE front == SubSeq(q, 1, k - 1)
           back == SubSeq(q, k + 1, Len(q))
<1>1. k \in 1 .. Len(q) /\ Len(q) \in Nat /\ DOMAIN q = 1 .. Len(q)
  OBVIOUS
<1>2. /\ front \in Seq(T) /\ Len(front) = k - 1
      /\ \A j \in 1 .. k - 1 : front[j] = q[j]
  BY <1>1
<1>3. /\ back \in Seq(T) /\ Len(back) = Len(q) - k
      /\ \A j \in 1 .. Len(q) - k : back[j] = q[k + j]
  BY <1>1
<1> HIDE DEF front, back
<1>4. /\ front \o back \in Seq(T) /\ Len(front \o back) = Len(q) - 1
      /\ \A j \in 1 .. Len(q) - 1 :
           (front \o back)[j] = IF j < k THEN front[j] ELSE back[j - (k - 1)]
  <2>1. /\ front \o back \in Seq(T) /\ Len(front \o back) = Len(front) + Len(back)
        /\ \A j \in 1 .. Len(front) + Len(back) :
             (front \o back)[j] = IF j <= Len(front) THEN front[j] ELSE back[j - Len(front)]
    BY <1>2, <1>3, ConcatProperties
  <2>2. Len(front) = k - 1 /\ Len(back) = Len(q) - k /\ k \in Int /\ Len(q) \in Int
    BY ONLY <1>1, <1>2, <1>3
  <2>3. Len(front) + Len(back) = Len(q) - 1
    BY ONLY <2>2
  <2>4. ASSUME NEW j \in 1 .. Len(q) - 1
        PROVE  (front \o back)[j] = IF j < k THEN front[j] ELSE back[j - (k - 1)]
    <3>1. j <= k - 1 <=> j < k
      BY ONLY <2>2, j \in 1 .. Len(q) - 1
    <3>2. (front \o back)[j] = IF j <= k - 1 THEN front[j] ELSE back[j - (k - 1)]
      BY ONLY <2>1, <2>2, <2>3, j \in 1 .. Len(q) - 1
    <3> QED
      BY <3>1, <3>2
  <2> QED
    BY <2>1, <2>3, <2>4
<1>9. DOMAIN (front \o back) = 1 .. Len(q) - 1
  <2> DEFINE f == front \o back
  <2>1. f \in Seq(T) /\ Len(f) = Len(q) - 1
    BY <1>4
  <2> HIDE DEF f
  <2>2. DOMAIN f = 1 .. Len(q) - 1
    BY <2>1
  <2> QED
    BY <2>2 DEF f
<1>5. ASSUME NEW j \in 1 .. Len(q) - 1
      PROVE  (front \o back)[j] = q[IF j < k THEN j ELSE j + 1]
  <2>1. CASE j < k
    <3>1. j \in 1 .. k - 1
      BY <1>1, <2>1
    <3>2. front[j] = q[j]
      BY ONLY <1>2, <3>1
    <3>3. (front \o back)[j] = front[j]
      BY <1>4, <2>1
    <3> QED
      BY <2>1, <3>2, <3>3
  <2>2. CASE ~(j < k)
    <3>1. j - (k - 1) \in 1 .. Len(q) - k /\ k + (j - (k - 1)) = j + 1
      BY <2>2, <1>1
    <3>2. back[j - (k - 1)] = q[k + (j - (k - 1))]
      BY <3>1, <1>3
    <3>3. (front \o back)[j] = back[j - (k - 1)]
      BY <2>2, <1>4
    <3>4. q[IF j < k THEN j ELSE j + 1] = q[j + 1]
      BY <2>2
    <3> QED
      BY <3>1, <3>2, <3>3, <3>4
  <2> QED
    BY <2>1, <2>2
<1>6. RemoveAt(q, k) = front \o back
  BY DEF RemoveAt, front, back
<1>7. ASSUME NEW i \in 1 .. Len(q) - 1 PROVE \E j \in DOMAIN q : (front \o back)[i] = q[j]
  <2>1. (IF i < k THEN i ELSE i + 1) \in DOMAIN q
    BY <1>1
  <2> QED
    BY <1>5, <2>1
<1>8. ASSUME NEW i \in DOMAIN q, i # k
      PROVE  \E j \in 1 .. Len(q) - 1 : (front \o back)[j] = q[i]
  <2>1. CASE i < k
    <3>1. i \in 1 .. Len(q) - 1
      BY <1>1, <2>1
    <3> QED
      BY <1>5, <2>1, <3>1
  <2>2. CASE i > k
    <3>1. i - 1 \in 1 .. Len(q) - 1 /\ ~(i - 1 < k) /\ (i - 1) + 1 = i
      BY <1>1, <2>2
    <3> QED
      BY <1>5, <3>1
  <2>3. i < k \/ i > k
    BY ONLY <1>1, <1>8
  <2> QED
    BY <2>1, <2>2, <2>3
<1> QED
  BY <1>4, <1>6, <1>7, <1>8, <1>9

\* One level of the book changes: every registered order must still be found.
LEMMA LevelKeepsFree ==
  ASSUME NEW K, BooksAreFree(K), NEW s \in Products, NEW d \in Sides, NEW p \in Ticks,
         NEW left \in Seq(FreeOrder(K)), \A i \in DOMAIN left : left[i].side = d,
         queue' = SetLevel(s, d, p, left),
         registry' \in [Ids -> [sym : Products, side : Sides, px : Int] \cup {Nowhere}],
         \A id \in Ids : registry'[id] # Nowhere =>
           \/ /\ registry'[id] = registry[id]
              /\ \A i \in DOMAIN queue[s][d][p] : queue[s][d][p][i].id = id =>
                   \E j \in DOMAIN left : left[j].id = id
           \/ /\ registry'[id] = [sym |-> s, side |-> d, px |-> p]
              /\ \E j \in DOMAIN left : left[j].id = id
  PROVE  BooksAreFree(K)'
<1>1. /\ queue \in [Products -> [Sides -> [Ticks -> Seq(FreeOrder(K))]]]
      /\ \A s2 \in Products, d2 \in Sides, p2 \in Ticks :
           \A i \in DOMAIN queue[s2][d2][p2] : queue[s2][d2][p2][i].side = d2
      /\ registry \in [Ids -> [sym : Products, side : Sides, px : Int] \cup {Nowhere}]
  BY DEF BooksAreFree
<1>2. /\ queue' \in [Products -> [Sides -> [Ticks -> Seq(FreeOrder(K))]]]
      /\ queue'[s][d][p] = left
      /\ \A s2 \in Products, d2 \in Sides, p2 \in Ticks :
           <<s2, d2, p2>> # <<s, d, p>> => queue'[s2][d2][p2] = queue[s2][d2][p2]
  BY <1>1, FreeLevel
<1>3. ASSUME NEW s2 \in Products, NEW d2 \in Sides, NEW p2 \in Ticks,
             NEW i \in DOMAIN queue'[s2][d2][p2]
      PROVE  queue'[s2][d2][p2][i].side = d2
  <2>1. CASE s2 = s /\ d2 = d /\ p2 = p
    BY ONLY <1>2, <1>3, <2>1, \A j \in DOMAIN left : left[j].side = d
  <2>2. CASE ~(s2 = s /\ d2 = d /\ p2 = p)
    <3>1. queue'[s2][d2][p2] = queue[s2][d2][p2]
      BY ONLY <1>2, <2>2, s2 \in Products, d2 \in Sides, p2 \in Ticks
    <3> QED
      BY ONLY <1>1, <1>3, <3>1
  <2> QED
    BY <2>1, <2>2
<1>4. ASSUME NEW id \in Ids, registry'[id] # Nowhere, registry'[id].px \in Ticks
      PROVE  \E i \in DOMAIN queue'[registry'[id].sym][registry'[id].side][registry'[id].px] :
               queue'[registry'[id].sym][registry'[id].side][registry'[id].px][i].id = id
  <2>1. CASE /\ registry'[id] = registry[id]
             /\ \A i \in DOMAIN queue[s][d][p] : queue[s][d][p][i].id = id =>
                  \E j \in DOMAIN left : left[j].id = id
    <3> DEFINE s2 == registry[id].sym
               d2 == registry[id].side
               p2 == registry[id].px
    <3>1. s2 \in Products /\ d2 \in Sides /\ p2 \in Ticks
      BY <1>1, <1>4, <2>1
    <3>2. \E i \in DOMAIN queue[s2][d2][p2] : queue[s2][d2][p2][i].id = id
      BY <1>4, <2>1 DEF BooksAreFree
    <3>3. \E i \in DOMAIN queue'[s2][d2][p2] : queue'[s2][d2][p2][i].id = id
      <4> HIDE DEF s2, d2, p2
      <4>1. CASE <<s2, d2, p2>> = <<s, d, p>>
        <5>1. s2 = s /\ d2 = d /\ p2 = p
          BY <4>1
        <5>2. \E j \in DOMAIN left : left[j].id = id
          BY ONLY <2>1, <3>2, <5>1
        <5> QED
          BY ONLY <1>2, <5>1, <5>2
      <4>2. CASE <<s2, d2, p2>> # <<s, d, p>>
        BY <1>2, <3>1, <3>2, <4>2
      <4> QED
        BY <4>1, <4>2
    <3> QED
      BY <2>1, <3>3
  <2>2. CASE /\ registry'[id] = [sym |-> s, side |-> d, px |-> p]
             /\ \E j \in DOMAIN left : left[j].id = id
    BY <1>2, <2>2
  <2> QED
    BY <1>4, <2>1, <2>2
<1> QED
  BY <1>2, <1>3, <1>4 DEF BooksAreFree

\* Reports of an order that is known tell of a known order.
LEMMA ReportIsFree ==
  ASSUME NEW K, NEW o \in FreeOrder(K), NEW n \in Int,
         NEW status \in {"accepted", "working", "partial", "filled", "cancelled"}
  PROVE  ReportFor(o, status, n) \in FreeReport(K)
<1>1. /\ o.id \in Ids /\ o.sym \in Products /\ o.side \in Sides /\ o.px \in Int /\ o.rem \in Int
      /\ o.id \in K /\ Fits(o.id, o.side) /\ FromTicks(o.px) \in Int
  BY DEF FreeOrder, FromTicks
<1> QED
  BY <1>1 DEF ReportFor, FreeReport

\* A report of a fill is of an order that is known.
LEMMA FillIsFree ==
  ASSUME NEW K, NEW o \in FreeOrder(K), NEW n \in Int, NEW contra \in Ids \cup {MarketData},
         NEW qty \in Int, NEW p \in Int
  PROVE  FillReport(o, contra, qty, p, n) \in FreeReport(K)
<1> DEFINE status == IF o.rem = 0 THEN "filled" ELSE "partial"
           r == ReportFor(o, status, n)
<1>1. r \in FreeReport(K) /\ FromTicks(p) \in Int
  BY ReportIsFree DEF FromTicks
<1>2. FillReport(o, contra, qty, p, n) = [r EXCEPT !.contra = contra, !.px = FromTicks(p), !.fill = qty]
  BY DEF FillReport
<1> HIDE DEF r
<1> QED
  BY <1>1, <1>2 DEF FreeReport

\* A reject is of the identity it was asked about.
LEMMA RejectIsFree ==
  ASSUME NEW K, NEW id \in Ids \cup {NoId}, id \in K, NEW n \in Int
  PROVE  Reject(id, n) \in FreeReport(K)
  BY DEF Reject, FreeReport

\* What an operation leaves for its caller to read, once it has run to its end.
Answers(K) == batch.reports \in Seq(FreeReport(K))

\* A step that leaves the books alone.
LEMMA BooksUntouched ==
  ASSUME NEW K, BooksAreFree(K), UNCHANGED <<queue, registry>>
  PROVE  BooksAreFree(K)'
  BY DEF BooksAreFree

\* The order a free command becomes.
LEMMA FreeOrderOf ==
  ASSUME NEW K, NEW c \in FreeCommand(K), NEW n \in Int, c.sym \in Products, c.id # NoId,
         c.type = "limit" => c.px # NaN
  PROVE  OrderOf(c, n) \in FreeOrder(K)
<1>1. /\ c.id \in Ids /\ c.side \in Sides /\ c.type \in Types /\ c.tif \in Tifs /\ c.qty \in Int
      /\ c.id \in K /\ Fits(c.id, c.side) /\ c.px \in Int \cup {NaN}
  BY DEF FreeCommand
<1> DEFINE px == IF c.type = "market" THEN MarketPriceBoundary(c.side) ELSE ToTicks(c.px)
<1>2. px \in Int
  <2>1. CASE c.type = "market"
    BY <2>1, ConstantsAssumption DEF MarketPriceBoundary
  <2>2. CASE c.type # "market"
    <3>1. c.px \in Int
      BY <1>1, <2>2 DEF Types
    <3> QED
      BY <2>2, <3>1 DEF ToTicks
  <2> QED
    BY <2>1, <2>2
<1>3. OrderOf(c, n) = [id |-> c.id, sym |-> c.sym, side |-> c.side, type |-> c.type,
                       tif |-> c.tif, px |-> px, orig |-> c.qty, rem |-> c.qty, seq |-> n]
  BY DEF OrderOf
<1> HIDE DEF px
<1> QED
  BY <1>1, <1>2, <1>3 DEF FreeOrder

\* An order handed to the engine.
LEMMA SubmitIsFree ==
  ASSUME NEW K, EngineIsFree(K), NEW c \in FreeCommand(K), SubmitOrder(c)
  PROVE  EngineIsFree(K)' /\ Answers(K)'
<1>1. /\ ctl = "idle" /\ sequence \in Int /\ UNCHANGED <<queue, registry, tick>>
      /\ c.id \in Ids \cup {NoId} /\ c.id \in K /\ c.px \in Int \cup {NaN}
  BY DEF SubmitOrder, Ready, EngineIsFree, OperationIsFree, FreeCommand
<1>2. BooksAreFree(K)'
  BY <1>1, BooksUntouched DEF EngineIsFree
<1>3. OperationIsFree(K)' /\ Answers(K)'
  <2>1. CASE Refused(c, Registered) /\ Bounce(c, sequence, EmptyBatch)
    <3> DEFINE r == Reject(c.id, sequence + 1)
    <3>1. /\ batch' = [reports |-> <<r>>, deltas |-> <<>>] /\ ctl' = "idle"
          /\ sequence' = sequence + 1
      BY <1>1, <2>1 DEF Bounce, EmptyBatch
    <3>2. r \in FreeReport(K)
      BY <1>1, RejectIsFree
    <3> HIDE DEF r
    <3>3. batch' = [reports |-> batch'.reports, deltas |-> batch'.deltas] /\ Answers(K)'
      BY <3>1, <3>2 DEF Answers
    <3> QED
      BY <1>1, <3>1, <3>3 DEF OperationIsFree
  <2>2. CASE ~Refused(c, Registered) /\ Enter(c, sequence, EmptyBatch)
    <3> DEFINE o == OrderOf(c, sequence + 1)
               r == ReportFor(o, "accepted", sequence + 2)
    <3>1. /\ batch' = [reports |-> <<r>>, deltas |-> <<>>] /\ ctl' = "match" /\ incoming' = o
          /\ sequence' = sequence + 2
      BY <2>2 DEF Enter, EmptyBatch
    <3>2. c.sym \in Products /\ c.id # NoId /\ (c.type = "limit" => c.px # NaN)
      BY <2>2 DEF Refused
    <3>3. o \in FreeOrder(K)
      BY <1>1, <3>2, FreeOrderOf
    <3>4. r \in FreeReport(K)
      <4> HIDE DEF o
      <4> QED
        BY <1>1, <3>3, ReportIsFree
    <3> HIDE DEF o, r
    <3>5. batch' = [reports |-> batch'.reports, deltas |-> batch'.deltas] /\ Answers(K)'
      BY <3>1, <3>4 DEF Answers
    <3> QED
      BY <1>1, <3>1, <3>3, <3>5 DEF OperationIsFree, Answers
  <2> QED
    BY <2>1, <2>2 DEF SubmitOrder
<1> QED
  BY <1>2, <1>3 DEF EngineIsFree

\* A record arrives, and the loops end with nothing more to do.
LEMMA ApplyIsFree ==
  ASSUME NEW K, EngineIsFree(K), NEW t, ApplyMarketData(t)
  PROVE  EngineIsFree(K)' /\ Answers(K)'
<1>1. /\ ctl = "idle" /\ sequence' = sequence /\ sequence \in Int /\ UNCHANGED <<queue, registry>>
      /\ batch' = [reports |-> <<>>, deltas |-> <<>>]
      /\ \/ t.sym \in Products /\ ctl' = "sweep" /\ tick' = t
         \/ ctl' = "idle"
  BY DEF ApplyMarketData, Ready, EngineIsFree, OperationIsFree, EmptyBatch
<1>2. BooksAreFree(K)'
  BY <1>1, BooksUntouched DEF EngineIsFree
<1>3. Answers(K)'
  BY <1>1 DEF Answers
<1>4. OperationIsFree(K)'
  BY <1>1, <1>3 DEF OperationIsFree, Answers
<1> QED
  BY <1>2, <1>3, <1>4 DEF EngineIsFree

\* A sweep that ends.
LEMMA FinishSweepIsFree ==
  ASSUME NEW K, EngineIsFree(K), FinishSweep
  PROVE  EngineIsFree(K)' /\ Answers(K)'
<1>1. /\ ctl = "sweep" /\ ctl' = "idle" /\ UNCHANGED <<queue, registry, sequence, batch>>
      /\ OperationIsFree(K)
  BY DEF FinishSweep, EngineIsFree
<1>2. BooksAreFree(K)'
  BY <1>1, BooksUntouched DEF EngineIsFree
<1>3. OperationIsFree(K)' /\ Answers(K)'
  BY <1>1 DEF OperationIsFree, Answers
<1> QED
  BY <1>2, <1>3 DEF EngineIsFree

\* An engine that has been emptied.
LEMMA EmptiedIsFree ==
  ASSUME NEW K, queue' = EmptyBook, registry' = [id \in Ids |-> Nowhere],
         sequence' \in Int, ctl' = "idle", batch' = EmptyBatch
  PROVE  EngineIsFree(K)'
<1>1. \A s \in Products, d \in Sides, p \in Ticks : queue'[s][d][p] = <<>>
  BY DEF EmptyBook
<1>2. queue' \in [Products -> [Sides -> [Ticks -> Seq(FreeOrder(K))]]]
  <2>1. <<>> \in Seq(FreeOrder(K))
    OBVIOUS
  <2> QED
    BY <2>1 DEF EmptyBook
<1>3. BooksAreFree(K)'
  BY <1>1, <1>2 DEF BooksAreFree
<1>4. OperationIsFree(K)'
  BY DEF OperationIsFree, EmptyBatch
<1> QED
  BY <1>3, <1>4 DEF EngineIsFree

\* A reset of the exchange.
LEMMA ResetIsFree ==
  ASSUME NEW K, EngineIsFree(K), Reset
  PROVE  EngineIsFree(K)'
<1>1. /\ queue' = EmptyBook /\ registry' = [id \in Ids |-> Nowhere] /\ ctl' = "idle"
      /\ batch' = EmptyBatch /\ sequence' \in Int
  BY DEF Reset, Ready, EngineIsFree, OperationIsFree
<1> QED
  BY <1>1, EmptiedIsFree

\* A restart of the exchange.
LEMMA RestartIsFree ==
  ASSUME NEW K, Restart
  PROVE  EngineIsFree(K)'
<1>1. /\ queue' = EmptyBook /\ registry' = [id \in Ids |-> Nowhere] /\ ctl' = "idle"
      /\ batch' = EmptyBatch /\ sequence' \in Int
  BY DEF Restart
<1> QED
  BY <1>1, EmptiedIsFree

\* An order leaves its queue.
LEMMA OrderLeavesFree ==
  ASSUME NEW K, BooksAreFree(K), NEW s \in Products, NEW d \in Sides, NEW p \in Ticks,
         NEW k \in DOMAIN queue[s][d][p], NEW id, queue[s][d][p][k].id = id,
         queue' = SetLevel(s, d, p, RemoveAt(queue[s][d][p], k)),
         registry' = [registry EXCEPT ![id] = Nowhere]
  PROVE  BooksAreFree(K)'
<1> DEFINE q == queue[s][d][p]
           left == RemoveAt(q, k)
<1>1. /\ q \in Seq(FreeOrder(K)) /\ \A i \in DOMAIN q : q[i].side = d
      /\ registry \in [Ids -> [sym : Products, side : Sides, px : Int] \cup {Nowhere}]
  BY DEF BooksAreFree
<1>2. /\ k \in DOMAIN q /\ q[k].id = id /\ queue' = SetLevel(s, d, p, left)
  OBVIOUS
<1> HIDE DEF q
<1>3. /\ left \in Seq(FreeOrder(K))
      /\ \A i \in DOMAIN left : \E j \in DOMAIN q : left[i] = q[j]
      /\ \A i \in DOMAIN q : i # k => \E j \in DOMAIN left : left[j] = q[i]
  BY <1>1, <1>2, OthersStay
<1> HIDE DEF left
<1>4. \A i \in DOMAIN left : left[i].side = d
  BY <1>1, <1>3
<1>5. registry' \in [Ids -> [sym : Products, side : Sides, px : Int] \cup {Nowhere}]
  BY <1>1
<1>6. ASSUME NEW x \in Ids, registry'[x] # Nowhere
      PROVE  /\ registry'[x] = registry[x]
             /\ \A i \in DOMAIN q : q[i].id = x => \E j \in DOMAIN left : left[j].id = x
  <2>1. x # id /\ registry'[x] = registry[x]
    BY <1>1, <1>6
  <2>2. ASSUME NEW i \in DOMAIN q, q[i].id = x PROVE \E j \in DOMAIN left : left[j].id = x
    BY ONLY <1>2, <1>3, <2>1, <2>2
  <2> QED
    BY <2>1, <2>2
<1>7. \A x \in Ids : registry'[x] # Nowhere =>
       \/ /\ registry'[x] = registry[x]
          /\ \A i \in DOMAIN queue[s][d][p] : queue[s][d][p][i].id = x =>
               \E j \in DOMAIN left : left[j].id = x
       \/ /\ registry'[x] = [sym |-> s, side |-> d, px |-> p]
          /\ \E j \in DOMAIN left : left[j].id = x
  BY ONLY <1>6 DEF q
<1> QED
  BY <1>2, <1>3, <1>4, <1>5, <1>7, LevelKeepsFree

\* The one operation that reads the registry to find an order.
LEMMA CancelIsFree ==
  ASSUME NEW K, EngineIsFree(K), NEW id \in Ids, CancelOrder(id)
  PROVE  EngineIsFree(K)'
<1>1. ctl = "idle" /\ ctl' = "idle" /\ sequence \in Int /\ sequence' = sequence + 1
  BY DEF CancelOrder, UnknownOrder, Ready, EngineIsFree, OperationIsFree
<1>2. batch' = [reports |-> batch'.reports, deltas |-> batch'.deltas]
  BY DEF CancelOrder, UnknownOrder, EmptyBatch
<1>3. OperationIsFree(K)'
  BY <1>1, <1>2 DEF OperationIsFree
<1>4. BooksAreFree(K)'
  <2>1. CASE UnknownOrder(id)
    BY <2>1, BooksUntouched DEF UnknownOrder, EngineIsFree
  <2>2. CASE id \in Registered /\ RemoveRegistered(id)
    <3>1. /\ BooksAreFree(K)
          /\ queue \in [Products -> [Sides -> [Ticks -> Seq(FreeOrder(K))]]]
          /\ registry \in [Ids -> [sym : Products, side : Sides, px : Int] \cup {Nowhere}]
      BY DEF EngineIsFree, BooksAreFree
    <3>2. registry[id] # Nowhere
      BY <2>2 DEF Registered
    <3>3. PICK s \in Products, d \in Sides, p \in Int :
            s = registry[id].sym /\ d = registry[id].side /\ p = registry[id].px
      BY <3>1, <3>2
    <3> DEFINE q == queue[s][d][p]
    <3>4. PICK k : k = PositionOf(id, q)
      OBVIOUS
    <3>5. /\ queue' = SetLevel(s, d, p, RemoveAt(q, k))
          /\ registry' = [registry EXCEPT ![id] = Nowhere]
      BY <2>2, <3>3, <3>4 DEF RemoveRegistered, LevelWithout
    <3>6. CASE p \in Ticks
      <4>1. \E i \in DOMAIN q : q[i].id = id
        BY <3>1, <3>2, <3>3, <3>6 DEF BooksAreFree
      <4>2. k \in DOMAIN q /\ q[k].id = id
        <5> HIDE DEF q
        <5> QED
          BY <3>4, <4>1 DEF PositionOf
      <4> QED
        BY <3>1, <3>5, <3>6, <4>2, OrderLeavesFree
    <3>7. CASE p \notin Ticks
      <4>1. queue' = queue
        BY <3>1, <3>5, <3>7, NoSuchLevel
      <4>2. registry' \in [Ids -> [sym : Products, side : Sides, px : Int] \cup {Nowhere}]
        BY <3>1, <3>5
      <4>3. \A x \in Ids : registry'[x] # Nowhere => registry'[x] = registry[x]
        BY <3>1, <3>5
      <4> QED
        BY <3>1, <4>1, <4>2, <4>3 DEF BooksAreFree
    <3> QED
      BY <3>6, <3>7
  <2> QED
    BY <2>1, <2>2 DEF CancelOrder
<1> QED
  BY <1>3, <1>4 DEF EngineIsFree

\* A queue whose oldest order goes.
LEMMA HeadLeavesFree ==
  ASSUME NEW K, BooksAreFree(K), NEW s \in Products, NEW d \in Sides, NEW p \in Ticks,
         queue[s][d][p] # <<>>,
         queue' = SetLevel(s, d, p, Tail(queue[s][d][p])),
         registry' = [registry EXCEPT ![queue[s][d][p][1].id] = Nowhere]
  PROVE  BooksAreFree(K)'
<1> DEFINE q == queue[s][d][p]
           left == Tail(q)
<1>1. /\ q \in Seq(FreeOrder(K)) /\ \A i \in DOMAIN q : q[i].side = d
      /\ registry \in [Ids -> [sym : Products, side : Sides, px : Int] \cup {Nowhere}]
  BY DEF BooksAreFree
<1>2. q # <<>>
  OBVIOUS
<1>3. /\ queue' = SetLevel(s, d, p, left) /\ registry' = [registry EXCEPT ![q[1].id] = Nowhere]
  OBVIOUS
<1> HIDE DEF q
<1>4. /\ left \in Seq(FreeOrder(K)) /\ Len(left) = Len(q) - 1 /\ Len(q) \in Nat
      /\ \A i \in 1 .. Len(q) - 1 : left[i] = q[i + 1]
      /\ DOMAIN left = 1 .. Len(q) - 1 /\ DOMAIN q = 1 .. Len(q)
  BY <1>1, <1>2
<1> HIDE DEF left
<1>5. \A i \in DOMAIN left : left[i].side = d
  BY <1>1, <1>4
<1>6. registry' \in [Ids -> [sym : Products, side : Sides, px : Int] \cup {Nowhere}]
  BY <1>1, <1>3
<1>7. ASSUME NEW x \in Ids, registry'[x] # Nowhere
      PROVE  /\ registry'[x] = registry[x]
             /\ \A i \in DOMAIN q : q[i].id = x => \E j \in DOMAIN left : left[j].id = x
  <2>1. x # q[1].id /\ registry'[x] = registry[x]
    BY <1>1, <1>3, <1>7
  <2>2. ASSUME NEW i \in DOMAIN q, q[i].id = x PROVE \E j \in DOMAIN left : left[j].id = x
    <3>1. i # 1
      BY <2>1, <2>2
    <3>2. i - 1 \in 1 .. Len(q) - 1 /\ (i - 1) + 1 = i
      BY <1>4, <3>1
    <3>3. left[i - 1] = q[i]
      BY <1>4, <3>2
    <3> QED
      BY <1>4, <2>2, <3>2, <3>3
  <2> QED
    BY <2>1, <2>2
<1>8. \A x \in Ids : registry'[x] # Nowhere =>
       \/ /\ registry'[x] = registry[x]
          /\ \A i \in DOMAIN queue[s][d][p] : queue[s][d][p][i].id = x =>
               \E j \in DOMAIN left : left[j].id = x
       \/ /\ registry'[x] = [sym |-> s, side |-> d, px |-> p]
          /\ \E j \in DOMAIN left : left[j].id = x
  BY ONLY <1>7 DEF q
<1> QED
  BY <1>3, <1>4, <1>5, <1>6, <1>8, LevelKeepsFree, SMTT(30)

\* A queue whose oldest order is worked on.
LEMMA HeadChangesFree ==
  ASSUME NEW K, BooksAreFree(K), NEW s \in Products, NEW d \in Sides, NEW p \in Ticks,
         queue[s][d][p] # <<>>, NEW o \in FreeOrder(K), o.id = queue[s][d][p][1].id, o.side = d,
         queue' = SetLevel(s, d, p, [queue[s][d][p] EXCEPT ![1] = o]),
         registry' = registry
  PROVE  BooksAreFree(K)'
<1> DEFINE q == queue[s][d][p]
           left == [q EXCEPT ![1] = o]
<1>1. /\ q \in Seq(FreeOrder(K)) /\ \A i \in DOMAIN q : q[i].side = d
      /\ registry \in [Ids -> [sym : Products, side : Sides, px : Int] \cup {Nowhere}]
  BY DEF BooksAreFree
<1>2. /\ q # <<>> /\ o.id = q[1].id /\ queue' = SetLevel(s, d, p, left)
  OBVIOUS
<1> HIDE DEF q
<1>3. /\ left \in Seq(FreeOrder(K)) /\ DOMAIN left = DOMAIN q /\ 1 \in DOMAIN q
      /\ \A i \in DOMAIN q : left[i] = IF i = 1 THEN o ELSE q[i]
  BY <1>1, <1>2
<1> HIDE DEF left
<1>4. \A i \in DOMAIN left : left[i].side = d
  BY <1>1, <1>3
<1>5. ASSUME NEW x \in Ids, registry'[x] # Nowhere
      PROVE  /\ registry'[x] = registry[x]
             /\ \A i \in DOMAIN q : q[i].id = x => \E j \in DOMAIN left : left[j].id = x
  BY <1>2, <1>3
<1> QED
  BY <1>1, <1>2, <1>3, <1>4, <1>5, LevelKeepsFree DEF q

\* The oldest order of a level, which is known.
LEMMA HeadIsFree ==
  ASSUME NEW K, BooksAreFree(K), NEW s \in Products, NEW d \in Sides, NEW p \in Ticks,
         queue[s][d][p] # <<>>
  PROVE  /\ Head(queue[s][d][p]) = queue[s][d][p][1]
         /\ queue[s][d][p][1] \in FreeOrder(K) /\ queue[s][d][p][1].side = d
<1> DEFINE q == queue[s][d][p]
<1>1. q \in Seq(FreeOrder(K)) /\ (\A i \in DOMAIN q : q[i].side = d) /\ q # <<>>
  BY DEF BooksAreFree
<1> HIDE DEF q
<1>2. Head(q) = q[1] /\ 1 \in DOMAIN q /\ q[1] \in FreeOrder(K) /\ q[1].side = d
  BY <1>1
<1> QED
  BY <1>2 DEF q

\* What is left of an order of which a part is filled.
LEMMA WorkedIsFree ==
  ASSUME NEW K, NEW o \in FreeOrder(K), NEW rem \in Int
  PROVE  [o EXCEPT !.rem = rem] \in FreeOrder(K)
  BY DEF FreeOrder

\* One match.
LEMMA MatchIsFree ==
  ASSUME NEW K, EngineIsFree(K), NEW p \in Ticks, MatchIncoming(p)
  PROVE  EngineIsFree(K)' /\ Answers(K)'
<1>1. /\ ctl = "match" /\ incoming \in FreeOrder(K) /\ BooksAreFree(K) /\ sequence \in Int
      /\ batch.reports \in Seq(FreeReport(K))
  BY DEF MatchIncoming, EngineIsFree, OperationIsFree
<1>2. PICK s \in Products, d \in Sides : s = incoming.sym /\ d = Opposite(incoming.side)
  BY <1>1 DEF FreeOrder, Opposite, Sides
<1> DEFINE q == queue[s][d][p]
<1>3. q # <<>>
  BY <1>1, <1>2 DEF MatchIncoming, CanMatch, IsBest
<1>4. PICK resting \in FreeOrder(K) : resting = Head(q) /\ resting = q[1] /\ resting.side = d
  BY <1>1, <1>3, HeadIsFree
<1>5. PICK qty \in Int : qty = TradeQuantity(incoming, resting)
  BY <1>1 DEF FreeOrder, TradeQuantity
<1> DEFINE taker == [incoming EXCEPT !.rem = @ - qty]
           maker == [resting EXCEPT !.rem = @ - qty]
           left == IF maker.rem = 0 THEN Tail(q) ELSE [q EXCEPT ![1] = maker]
           f1 == FillReport(taker, maker.id, qty, p, sequence + 1)
           f2 == FillReport(maker, taker.id, qty, p, sequence + 2)
<1>6. /\ incoming' = taker /\ queue' = SetLevel(s, d, p, left)
      /\ registry' = IF maker.rem = 0 THEN [registry EXCEPT ![maker.id] = Nowhere] ELSE registry
      /\ sequence' = sequence + 2 /\ ctl' = ctl
      /\ \E e : batch' = [reports |-> batch.reports \o <<f1, f2>>, deltas |-> e]
  <2> DEFINE s1 == incoming.sym
             d1 == Opposite(incoming.side)
             q1 == queue[s1][d1][p]
             qty1 == TradeQuantity(incoming, Head(q1))
             taker1 == [incoming EXCEPT !.rem = @ - qty1]
             maker1 == [Head(q1) EXCEPT !.rem = @ - qty1]
             left1 == IF maker1.rem = 0 THEN Tail(q1) ELSE [q1 EXCEPT ![1] = maker1]
             g1 == FillReport(taker1, maker1.id, qty1, p, sequence + 1)
             g2 == FillReport(maker1, taker1.id, qty1, p, sequence + 2)
             done == left1 = <<>> \/ taker1.rem = 0
             e == IF done
                  THEN Append(batch.deltas, LevelDelta(s1, d1, p, left1, sequence + 2))
                  ELSE batch.deltas
  <2>1. /\ incoming' = taker1 /\ queue' = SetLevel(s1, d1, p, left1)
        /\ registry' = IF maker1.rem = 0 THEN [registry EXCEPT ![maker1.id] = Nowhere] ELSE registry
        /\ sequence' = sequence + 2 /\ ctl' = ctl
        /\ batch' = [reports |-> batch.reports \o <<g1, g2>>, deltas |-> e]
    BY DEF MatchIncoming
  <2> HIDE DEF e
  <2>2. s1 = s /\ d1 = d
    BY <1>2
  <2>3. q1 = q
    BY <2>2
  <2>4. Head(q1) = resting
    BY <1>4, <2>3
  <2>5. qty1 = qty
    BY <1>5, <2>4
  <2> HIDE DEF qty1, q1, q
  <2>6. taker1 = taker /\ maker1 = maker
    BY <2>4, <2>5
  <2> HIDE DEF taker1, taker, maker1, maker
  <2>7. left1 = left
    BY <2>3, <2>6
  <2>8. g1 = f1 /\ g2 = f2
    BY <2>5, <2>6
  <2> HIDE DEF left1, left, g1, g2, f1, f2, s1, d1
  <2> QED
    BY <2>1, <2>2, <2>6, <2>7, <2>8
<1>7. /\ taker \in FreeOrder(K) /\ maker \in FreeOrder(K)
      /\ maker.id = resting.id /\ maker.side = d
  <2>1. incoming.rem - qty \in Int /\ resting.rem - qty \in Int
    BY <1>1 DEF FreeOrder
  <2>2. taker \in FreeOrder(K) /\ maker \in FreeOrder(K)
    BY <1>1, <2>1, WorkedIsFree
  <2> QED
    BY <1>4, <2>2 DEF FreeOrder
<1> HIDE DEF taker, maker
<1>8. BooksAreFree(K)'
  <2>1. CASE maker.rem = 0
    <3>1. /\ queue' = SetLevel(s, d, p, Tail(q))
          /\ registry' = [registry EXCEPT ![q[1].id] = Nowhere]
      BY <1>4, <1>6, <1>7, <2>1
    <3> QED
      BY <1>1, <1>3, <3>1, HeadLeavesFree
  <2>2. CASE maker.rem # 0
    <3>1. PICK o \in FreeOrder(K) : o = maker
      BY <1>7
    <3>2. /\ queue' = SetLevel(s, d, p, [q EXCEPT ![1] = o]) /\ registry' = registry
          /\ o.id = q[1].id /\ o.side = d
      BY <1>4, <1>6, <1>7, <2>2, <3>1
    <3> QED
      BY <1>1, <1>3, <3>2, HeadChangesFree
  <2> QED
    BY <2>1, <2>2
<1>9. f1 \in FreeReport(K) /\ f2 \in FreeReport(K)
  <2>1. p \in Int /\ sequence + 1 \in Int /\ sequence + 2 \in Int
    BY <1>1, ConstantsAssumption DEF Ticks
  <2>2. maker.id \in Ids \cup {MarketData} /\ taker.id \in Ids \cup {MarketData}
    BY <1>7 DEF FreeOrder
  <2> QED
    BY <1>7, <2>1, <2>2, FillIsFree
<1> HIDE DEF f1, f2, q, left
<1>10. batch.reports \o <<f1, f2>> \in Seq(FreeReport(K))
  BY <1>1, <1>9
<1>11. Answers(K)' /\ batch' = [reports |-> batch'.reports, deltas |-> batch'.deltas]
  <2>1. PICK x \in Seq(FreeReport(K)) : \E e : batch' = [reports |-> x, deltas |-> e]
    BY <1>6, <1>10
  <2> QED
    BY <2>1 DEF Answers
<1>12. OperationIsFree(K)'
  BY <1>1, <1>6, <1>7, <1>11 DEF OperationIsFree, Answers
<1> QED
  BY <1>8, <1>11, <1>12 DEF EngineIsFree

\* A new order behind its level.
LEMMA RestIsFree ==
  ASSUME NEW K, BooksAreFree(K), incoming \in FreeOrder(K), RestOrder
  PROVE  BooksAreFree(K)'
<1>1. PICK o \in FreeOrder(K) : o = incoming
  OBVIOUS
<1>2. PICK s \in Products, d \in Sides, p \in Int : s = o.sym /\ d = o.side /\ p = o.px
  BY DEF FreeOrder
<1>3. PICK id \in Ids : id = o.id
  BY DEF FreeOrder
<1> DEFINE q == queue[s][d][p]
           left == Append(q, o)
<1>4. /\ queue' = SetLevel(s, d, p, left)
      /\ registry' = [registry EXCEPT ![id] = [sym |-> s, side |-> d, px |-> p]]
  BY <1>1, <1>2, <1>3 DEF RestOrder, Enqueue
<1>5. /\ registry \in [Ids -> [sym : Products, side : Sides, px : Int] \cup {Nowhere}]
      /\ queue \in [Products -> [Sides -> [Ticks -> Seq(FreeOrder(K))]]]
  BY DEF BooksAreFree
<1>6. registry' \in [Ids -> [sym : Products, side : Sides, px : Int] \cup {Nowhere}]
  BY <1>4, <1>5
<1>7. /\ \A x \in Ids : x # id => registry'[x] = registry[x]
      /\ registry'[id] = [sym |-> s, side |-> d, px |-> p]
  BY <1>4, <1>5
<1>8. CASE p \in Ticks
  <2>1. q \in Seq(FreeOrder(K)) /\ \A i \in DOMAIN q : q[i].side = d
    BY <1>8 DEF BooksAreFree
  <2> HIDE DEF q
  <2>2. /\ left \in Seq(FreeOrder(K)) /\ DOMAIN left = 1 .. Len(q) + 1 /\ DOMAIN q = 1 .. Len(q)
        /\ Len(q) \in Nat /\ left[Len(q) + 1] = o
        /\ \A i \in 1 .. Len(q) : left[i] = q[i]
    BY <2>1
  <2> HIDE DEF left
  <2>3. \A i \in DOMAIN left : left[i].side = d
    BY <1>2, <2>1, <2>2
  <2>4. \A i \in DOMAIN q : i \in DOMAIN left /\ left[i] = q[i]
    BY ONLY <2>2
  <2>5. \E j \in DOMAIN left : left[j].id = id
    BY ONLY <1>3, <2>2
  <2>6. \A x \in Ids : registry'[x] # Nowhere =>
         \/ /\ registry'[x] = registry[x]
            /\ \A i \in DOMAIN queue[s][d][p] : queue[s][d][p][i].id = x =>
                 \E j \in DOMAIN left : left[j].id = x
         \/ /\ registry'[x] = [sym |-> s, side |-> d, px |-> p]
            /\ \E j \in DOMAIN left : left[j].id = x
    BY ONLY <1>7, <2>4, <2>5 DEF q
  <2> QED
    BY <1>4, <1>6, <1>8, <2>2, <2>3, <2>6, LevelKeepsFree
<1>9. CASE p \notin Ticks
  <2> HIDE DEF left
  <2>1. queue' = queue
    BY <1>4, <1>5, <1>9, NoSuchLevel
  <2>2. \A x \in Ids : registry'[x] # Nowhere /\ registry'[x].px \in Ticks =>
          registry'[x] = registry[x]
    BY <1>7, <1>9
  <2>3. ASSUME NEW x \in Ids, registry'[x] # Nowhere, registry'[x].px \in Ticks
        PROVE  \E i \in DOMAIN queue'[registry'[x].sym][registry'[x].side][registry'[x].px] :
                 queue'[registry'[x].sym][registry'[x].side][registry'[x].px][i].id = x
    <3>1. registry'[x] = registry[x]
      BY <2>2, <2>3
    <3>2. \E i \in DOMAIN queue[registry[x].sym][registry[x].side][registry[x].px] :
            queue[registry[x].sym][registry[x].side][registry[x].px][i].id = x
      BY <2>3, <3>1 DEF BooksAreFree
    <3> QED
      BY <2>1, <3>1, <3>2
  <2>4. \A s1 \in Products, d1 \in Sides, p1 \in Ticks :
          \A i \in DOMAIN queue'[s1][d1][p1] : queue'[s1][d1][p1][i].side = d1
    BY <2>1 DEF BooksAreFree
  <2>5. queue' \in [Products -> [Sides -> [Ticks -> Seq(FreeOrder(K))]]]
    BY <1>5, <2>1
  <2> QED
    BY <1>6, <2>3, <2>4, <2>5 DEF BooksAreFree
<1> QED
  BY <1>8, <1>9

\* An order that stops matching.
LEMMA FinishIsFree ==
  ASSUME NEW K, EngineIsFree(K), FinishIncoming
  PROVE  EngineIsFree(K)' /\ Answers(K)'
<1>1. /\ ctl = "match" /\ ctl' = "idle" /\ incoming \in FreeOrder(K) /\ BooksAreFree(K)
      /\ sequence \in Int /\ batch.reports \in Seq(FreeReport(K))
      /\ batch = [reports |-> batch.reports, deltas |-> batch.deltas]
  BY DEF FinishIncoming, EngineIsFree, OperationIsFree
<1>2. BooksAreFree(K)'
  <2>1. CASE RestOrder
    BY <1>1, <2>1, RestIsFree
  <2>2. CASE UNCHANGED <<queue, registry>>
    BY <1>1, <2>2, BooksUntouched
  <2> QED
    BY <2>1, <2>2 DEF FinishIncoming
<1>3. /\ sequence' \in Int /\ Answers(K)'
      /\ batch' = [reports |-> batch'.reports, deltas |-> batch'.deltas]
  <2> DEFINE w == ReportFor(incoming, "working", sequence + 1)
             c == ReportFor(incoming, "cancelled", sequence + 1)
  <2>1. w \in FreeReport(K) /\ c \in FreeReport(K) /\ sequence + 1 \in Int
    BY <1>1, ReportIsFree
  <2>2. CASE RestOrder
    <3>1. /\ batch' = [reports |-> Append(batch.reports, w), deltas |-> batch'.deltas]
          /\ sequence' = sequence + 1
      BY <2>2 DEF RestOrder
    <3> HIDE DEF w
    <3> QED
      BY <1>1, <2>1, <3>1 DEF Answers
  <2>3. CASE sequence' = sequence + 1 /\ batch' = [batch EXCEPT !.reports = Append(@, c)]
    <3> HIDE DEF c
    <3>1. batch' = [reports |-> Append(batch.reports, c), deltas |-> batch.deltas]
      BY <1>1, <2>3
    <3>2. Append(batch.reports, c) \in Seq(FreeReport(K))
      BY <1>1, <2>1
    <3>3. PICK x \in Seq(FreeReport(K)) : x = Append(batch.reports, c)
      BY <3>2
    <3>4. /\ batch'.reports = x
          /\ batch' = [reports |-> batch'.reports, deltas |-> batch'.deltas]
      BY ONLY <3>1, <3>3
    <3>5. sequence' \in Int
      BY <1>1, <2>3
    <3> QED
      BY <3>4, <3>5 DEF Answers
  <2>4. CASE UNCHANGED <<sequence, batch>>
    BY <1>1, <2>4 DEF Answers
  <2> QED
    BY <2>2, <2>3, <2>4 DEF FinishIncoming
<1>4. OperationIsFree(K)'
  BY <1>1, <1>3 DEF OperationIsFree
<1> QED
  BY <1>2, <1>3, <1>4 DEF EngineIsFree

\* One fill of a sweep.
LEMMA SweepIsFree ==
  ASSUME NEW K, EngineIsFree(K), NEW d \in Sides, NEW p \in Ticks, SweepOrder(d, p)
  PROVE  EngineIsFree(K)' /\ Answers(K)'
<1>1. /\ ctl = "sweep" /\ ctl' = ctl /\ BooksAreFree(K) /\ sequence \in Int /\ tick' = tick
      /\ batch.reports \in Seq(FreeReport(K))
      /\ tick.sym \in Products
  BY DEF SweepOrder, EngineIsFree, OperationIsFree
<1>2. PICK s \in Products : s = tick.sym
  BY <1>1
<1> DEFINE q == queue[s][d][p]
<1>3. q # <<>>
  BY <1>2 DEF SweepOrder, CanSweep, IsBest
<1>4. PICK first \in FreeOrder(K) : first = Head(q) /\ first = q[1]
  BY <1>1, <1>3, HeadIsFree
<1>5. PICK o \in FreeOrder(K) : o = [first EXCEPT !.rem = 0]
  <2>1. 0 \in Int
    OBVIOUS
  <2> QED
    BY <2>1, WorkedIsFree
<1>6. o.id = first.id /\ first.rem \in Int
  BY <1>5 DEF FreeOrder
<1> DEFINE r == FillReport(o, MarketData, first.rem, p, sequence + 1)
<1>7. /\ queue' = SetLevel(s, d, p, Tail(q))
      /\ registry' = [registry EXCEPT ![o.id] = Nowhere]
      /\ sequence' = sequence + 1
      /\ batch' = [reports |-> Append(batch.reports, r), deltas |-> batch'.deltas]
  BY <1>1, <1>2, <1>4, <1>5 DEF SweepOrder
<1>8. BooksAreFree(K)'
  <2>1. registry' = [registry EXCEPT ![q[1].id] = Nowhere]
    BY <1>4, <1>6, <1>7
  <2> QED
    BY <1>1, <1>3, <1>7, <2>1, HeadLeavesFree
<1>9. r \in FreeReport(K)
  <2>1. p \in Int /\ sequence + 1 \in Int
    BY <1>1, ConstantsAssumption DEF Ticks
  <2> QED
    BY <1>6, <2>1, FillIsFree
<1> HIDE DEF r, q
<1>10. Answers(K)' /\ batch' = [reports |-> batch'.reports, deltas |-> batch'.deltas]
  <2>1. Append(batch.reports, r) \in Seq(FreeReport(K))
    BY <1>1, <1>9
  <2>2. PICK x \in Seq(FreeReport(K)) : x = Append(batch.reports, r)
    BY <2>1
  <2>3. /\ batch'.reports = x
        /\ batch' = [reports |-> batch'.reports, deltas |-> batch'.deltas]
    BY ONLY <1>7, <2>2
  <2> QED
    BY <2>3 DEF Answers
<1>11. OperationIsFree(K)'
  BY <1>1, <1>7, <1>10 DEF OperationIsFree, Answers
<1> QED
  BY <1>8, <1>10, <1>11 DEF EngineIsFree

\* The engine's part of a request and of its loops.
LEMMA PerformIsFree ==
  ASSUME NEW K, EngineIsFree(K), NEW request \in FreeRequest(K), Perform(request)
  PROVE  /\ EngineIsFree(K)'
         /\ request.op # "cancel" /\ request.op # "reset" => Answers(K)'
         /\ request.op \in {"cancel", "reset"} => ctl' = "idle"
<1>1. CASE request.op = "send" /\ SubmitOrder(request.cmd)
  <2>1. request.cmd \in FreeCommand(K)
    BY <1>1 DEF FreeRequest
  <2> QED
    BY <1>1, <2>1, SubmitIsFree
<1>2. CASE request.op = "cancel" /\ CancelOrder(request.id)
  <2>1. request.id \in Ids
    BY <1>2 DEF FreeRequest
  <2>2. ctl' = "idle"
    BY <1>2 DEF CancelOrder, UnknownOrder, Ready
  <2> QED
    BY <1>2, <2>1, <2>2, CancelIsFree
<1>3. CASE request.op = "market" /\ ApplyMarketData(request.tick)
  BY <1>3, ApplyIsFree
<1>4. CASE request.op = "reset" /\ Reset
  <2>1. ctl' = "idle"
    BY <1>4 DEF Reset, Ready
  <2> QED
    BY <1>4, <2>1, ResetIsFree
<1> QED
  BY <1>1, <1>2, <1>3, <1>4 DEF Perform

\* Any step of a run of the engine.
LEMMA StepIsFree ==
  ASSUME NEW K, EngineIsFree(K), Step
  PROVE  EngineIsFree(K)' /\ Answers(K)'
  BY MatchIsFree, FinishIsFree, SweepIsFree, FinishSweepIsFree DEF Step

\* More is known as more policies are stored.
LEMMA MoreIsFree ==
  ASSUME NEW K, NEW L, K \subseteq L
  PROVE  /\ FreeOrder(K) \subseteq FreeOrder(L) /\ FreeReport(K) \subseteq FreeReport(L)
         /\ FreeCommand(K) \subseteq FreeCommand(L) /\ FreeEvent(K) \subseteq FreeEvent(L)
         /\ FreeRequest(K) \subseteq FreeRequest(L)
  BY DEF FreeOrder, FreeReport, FreeCommand, FreeEvent, FreeRequest

\* What is known only grows, and the engine may know more.
LEMMA MoreOfTheEngine ==
  ASSUME NEW K, NEW L, K \subseteq L, EngineIsFree(K)'
  PROVE  EngineIsFree(L)'
<1>1. Seq(FreeOrder(K)) \subseteq Seq(FreeOrder(L)) /\ Seq(FreeReport(K)) \subseteq Seq(FreeReport(L))
  BY MoreIsFree
<1>2. FreeOrder(K) \subseteq FreeOrder(L)
  BY MoreIsFree
<1>3. BooksAreFree(L)'
  BY <1>1 DEF EngineIsFree, BooksAreFree
<1>4. OperationIsFree(L)'
  BY <1>1, <1>2 DEF EngineIsFree, OperationIsFree
<1> QED
  BY <1>3, <1>4 DEF EngineIsFree

-----------------------------------------------------------------------------
(***************************************************************************)
(* What a handler reads of an answer.                                      *)
(***************************************************************************)
\* One report more, if it is of the kind asked for.
Longer(s, b, g, n) ==
  IF n = 0 THEN <<>>
  ELSE IF (s[n].fill > 0) = b THEN Append(g[n - 1], s[n]) ELSE g[n - 1]

\* Those is what adding the reports one by one leads to.
LEMMA ThoseByOne ==
  ASSUME NEW T, NEW s \in Seq(T), NEW b
  PROVE  \E h : /\ \A n \in 0 .. Len(s) : h[n] = Longer(s, b, h, n)
                /\ Those(s, b) = h[Len(s)]
<1> DEFINE Upto(n) == \E g : \A i \in 0 .. n : g[i] = Longer(s, b, g, i)
           N == {n \in Nat : Upto(n)}
           All(h) == [n \in 0 .. Len(s) |->
                        IF n = 0 THEN <<>>
                        ELSE IF (s[n].fill > 0) = b THEN Append(h[n - 1], s[n]) ELSE h[n - 1]]
           h == CHOOSE h : h = All(h)
<1>1. 0 \in N
  <2> DEFINE g == [i \in {0} |-> <<>>]
  <2>1. \A i \in 0 .. 0 : g[i] = Longer(s, b, g, i)
    BY DEF Longer
  <2> QED
    BY <2>1
<1>2. ASSUME NEW n \in Nat, n \in N
      PROVE  n + 1 \in N
  <2>1. PICK g : \A i \in 0 .. n : g[i] = Longer(s, b, g, i)
    BY <1>2
  <2> DEFINE e == [i \in 0 .. n + 1 |-> IF i <= n THEN g[i] ELSE Longer(s, b, g, i)]
  <2>2. ASSUME NEW i \in 0 .. n + 1 PROVE e[i] = Longer(s, b, e, i)
    <3>1. e[i] = Longer(s, b, g, i)
      BY <2>1
    <3>2. i # 0 => e[i - 1] = g[i - 1]
      OBVIOUS
    <3> HIDE DEF e
    <3> QED
      BY <3>1, <3>2 DEF Longer
  <2> HIDE DEF e
  <2>3. Upto(n + 1)
    BY <2>2
  <2> QED
    BY <2>3
<1>3. Len(s) \in N
  <2>1. Nat \subseteq N
    <3> HIDE DEF N
    <3> QED
      BY <1>1, <1>2, Climbs
  <2> QED
    BY <2>1
<1>4. PICK g : \A i \in 0 .. Len(s) : g[i] = Longer(s, b, g, i)
  BY <1>3
<1>5. [n \in 0 .. Len(s) |-> g[n]] = All([n \in 0 .. Len(s) |-> g[n]])
  BY <1>4 DEF Longer
<1>6. h = All(h)
  BY <1>5
<1>7. Those(s, b) = h[Len(s)]
  BY DEF Those
<1>8. ASSUME NEW n \in 0 .. Len(s) PROVE h[n] = Longer(s, b, h, n)
  <2>1. h[n] = All(h)[n]
    BY <1>6
  <2> HIDE DEF h
  <2> QED
    BY <2>1 DEF Longer
<1> HIDE DEF h
<1> QED
  BY <1>7, <1>8

\* Selecting among reports leaves reports.
LEMMA ThoseAreReports ==
  ASSUME NEW T, NEW s \in Seq(T), NEW b
  PROVE  Those(s, b) \in Seq(T)
<1>1. PICK h : /\ \A n \in 0 .. Len(s) : h[n] = Longer(s, b, h, n)
               /\ Those(s, b) = h[Len(s)]
  BY ThoseByOne
<1> DEFINE N == {n \in Nat : n <= Len(s) => h[n] \in Seq(T)}
<1>2. 0 \in N
  <2>1. Len(s) \in Nat /\ <<>> \in Seq(T)
    OBVIOUS
  <2>2. h[0] = Longer(s, b, h, 0)
    BY <1>1, <2>1
  <2>3. h[0] = <<>>
    BY <2>2 DEF Longer
  <2> QED
    BY <2>1, <2>3
<1>3. ASSUME NEW n \in Nat, n \in N PROVE n + 1 \in N
  <2> SUFFICES ASSUME n + 1 <= Len(s) PROVE h[n + 1] \in Seq(T)
    OBVIOUS
  <2>1. h[n] \in Seq(T) /\ s[n + 1] \in T /\ (n + 1) - 1 = n /\ n + 1 # 0
    BY <1>3
  <2>2. h[n + 1] = Longer(s, b, h, n + 1)
    BY <1>1
  <2>3. h[n + 1] = Append(h[n], s[n + 1]) \/ h[n + 1] = h[n]
    BY <2>1, <2>2 DEF Longer
  <2>4. PICK g \in Seq(T), x \in T : g = h[n] /\ x = s[n + 1]
    BY <2>1
  <2>5. Append(g, x) \in Seq(T)
    OBVIOUS
  <2> QED
    BY ONLY <2>3, <2>4, <2>5
<1>4. Nat \subseteq N
  <2> HIDE DEF N
  <2> QED
    BY <1>2, <1>3, Climbs
<1> QED
  BY <1>1, <1>4

\* An event made of a report.
LEMMA EventIsFree ==
  ASSUME NEW K, NEW r \in FreeReport(K), NEW px \in Int, NEW size \in Int, NEW tagged \in BOOLEAN
  PROVE  Event(r, px, size, tagged) \in FreeEvent(K)
<1>1. /\ r.id \in Ids \cup {NoId} /\ r.sym \in Products \cup {None} /\ r.side \in Sides \cup {None}
      /\ r.fill \in Int /\ r.seq \in Int /\ r.px \in Int /\ r.id \in K
      /\ r.side = None \/ Fits(r.id, r.side)
  BY DEF FreeReport
<1>2. /\ SideOf(r) \in Sides \cup {None}
      /\ r.id \in EntryIds => Fits(r.id, SideOf(r))
  <2>1. CASE r.id \in EntryIds /\ r.side = None
    <3>1. PICK c \in Entries : c = CHOOSE x \in Entries : x.id = r.id
      BY <2>1 DEF EntryIds
    <3>2. c.id = r.id /\ SideOf(r) = c.side
      BY <2>1, <3>1 DEF EntryIds, SideOf
    <3>3. c.side \in Sides
      BY AlgoCoverAssumption DEF Command
    <3>4. Fits(r.id, c.side)
      <4>1. ASSUME NEW e \in Entries, r.id = e.id PROVE c.side = e.side
        <5>1. c = e
          BY <3>2, <4>1, AlgoCoverAssumption
        <5> QED
          BY <5>1
      <4>2. ASSUME NEW e \in Entries, NEW ms \in 0..MaxClock, r.id = CoverId(e.id, ms)
            PROVE  FALSE
        <5>1. r.id \in CoverIds
          BY <4>2 DEF CoverIds, EntryIds
        <5> QED
          BY <2>1, <5>1, AlgoCoverAssumption
      <4> QED
        BY <4>1, <4>2 DEF Fits
    <3> QED
      BY <3>2, <3>3, <3>4
  <2>2. CASE ~(r.id \in EntryIds /\ r.side = None)
    BY <1>1, <2>2 DEF SideOf
  <2> QED
    BY <2>1, <2>2
<1>3. <<r.id, px, size>> \in Keys
  BY <1>1 DEF Keys
<1>4. PICK qty \in Int : qty = IF r.fill < 1 THEN 1 ELSE r.fill
  BY <1>1
<1>5. PICK fill \in Int : fill = IF r.fill > 0 THEN r.seq ELSE 0
  BY <1>1
<1>6. PICK key \in Keys : key = <<r.id, px, size>>
  BY <1>3
<1>7. PICK side \in Sides \cup {None} : side = SideOf(r)
  BY <1>2
<1>8. Event(r, px, size, tagged) =
        [id |-> r.id, key |-> key, side |-> side, sym |-> r.sym, px |-> r.px,
         qty |-> qty, tagged |-> tagged, fill |-> fill]
  BY <1>4, <1>5, <1>6, <1>7 DEF Event
<1> QED
  BY <1>1, <1>2, <1>7, <1>8 DEF FreeEvent

\* A sequence of what is made of the elements of another.
LEMMA MappedSeq ==
  ASSUME NEW S, NEW T, NEW s \in Seq(S), NEW f, f = [i \in DOMAIN s |-> f[i]],
         \A i \in DOMAIN s : f[i] \in T
  PROVE  f \in Seq(T)
<1>1. DOMAIN s = 1 .. Len(s) /\ Len(s) \in Nat
  OBVIOUS
<1> QED
  BY <1>1

\* The events made of a batch of reports.
LEMMA EventsAreFree ==
  ASSUME NEW K, NEW reports \in Seq(FreeReport(K))
  PROVE  Events(reports) \in Seq(FreeEvent(K))
<1>1. /\ Those(reports, FALSE) \in Seq(FreeReport(K))
      /\ Those(reports, TRUE) \in Seq(FreeReport(K))
  BY ThoseAreReports
<1>2. PICK orders \in Seq(FreeReport(K)) : orders = Those(reports, FALSE)
  BY <1>1
<1>3. PICK fills \in Seq(FreeReport(K)) : fills = Those(reports, TRUE)
  BY <1>1
<1> DEFINE a == [i \in DOMAIN reports |-> Event(reports[i], 0, 0, TRUE)]
           b == [i \in DOMAIN orders |-> Event(orders[i], orders[i].lim, 0, FALSE)]
           c == [i \in DOMAIN fills |-> Event(fills[i], fills[i].px, fills[i].fill, TRUE)]
<1>4. Events(reports) = a \o b \o c
  BY <1>2, <1>3 DEF Events
<1>5. \A r \in FreeReport(K) : r.lim \in Int /\ r.px \in Int /\ r.fill \in Int
  BY DEF FreeReport
<1>6. \A i \in DOMAIN reports : Event(reports[i], 0, 0, TRUE) \in FreeEvent(K)
  <2> TAKE i \in DOMAIN reports
  <2>1. reports[i] \in FreeReport(K) /\ 0 \in Int /\ TRUE \in BOOLEAN
    OBVIOUS
  <2> QED
    BY ONLY <2>1, EventIsFree
<1>7. \A i \in DOMAIN orders : Event(orders[i], orders[i].lim, 0, FALSE) \in FreeEvent(K)
  <2> TAKE i \in DOMAIN orders
  <2>1. orders[i] \in FreeReport(K) /\ 0 \in Int /\ FALSE \in BOOLEAN
    OBVIOUS
  <2>2. orders[i].lim \in Int
    BY <1>5, <2>1
  <2> QED
    BY ONLY <2>1, <2>2, EventIsFree
<1>8. \A i \in DOMAIN fills : Event(fills[i], fills[i].px, fills[i].fill, TRUE) \in FreeEvent(K)
  <2> TAKE i \in DOMAIN fills
  <2>1. fills[i] \in FreeReport(K) /\ TRUE \in BOOLEAN
    OBVIOUS
  <2>2. fills[i].px \in Int /\ fills[i].fill \in Int
    BY <1>5, <2>1
  <2> QED
    BY ONLY <2>1, <2>2, EventIsFree
<1>9. a \in Seq(FreeEvent(K)) /\ b \in Seq(FreeEvent(K)) /\ c \in Seq(FreeEvent(K))
  <2>1. /\ \A i \in DOMAIN reports : a[i] \in FreeEvent(K)
        /\ \A i \in DOMAIN orders : b[i] \in FreeEvent(K)
        /\ \A i \in DOMAIN fills : c[i] \in FreeEvent(K)
    BY <1>6, <1>7, <1>8
  <2>2. a = [i \in DOMAIN reports |-> a[i]]
    OBVIOUS
  <2>3. b = [i \in DOMAIN orders |-> b[i]]
    OBVIOUS
  <2>4. c = [i \in DOMAIN fills |-> c[i]]
    OBVIOUS
  <2> HIDE DEF a, b, c
  <2>5. a \in Seq(FreeEvent(K))
    BY ONLY <2>1, <2>2, reports \in Seq(FreeReport(K)), MappedSeq
  <2>6. b \in Seq(FreeEvent(K))
    BY ONLY <2>1, <2>3, orders \in Seq(FreeReport(K)), MappedSeq
  <2>7. c \in Seq(FreeEvent(K))
    BY ONLY <2>1, <2>4, fills \in Seq(FreeReport(K)), MappedSeq
  <2> QED
    BY <2>5, <2>6, <2>7
<1> HIDE DEF a, b, c
<1>10. a \o b \in Seq(FreeEvent(K))
  BY <1>9, ConcatProperties
<1>11. (a \o b) \o c \in Seq(FreeEvent(K))
  <2> DEFINE ab == a \o b
  <2>1. ab \in Seq(FreeEvent(K))
    BY <1>10
  <2> HIDE DEF ab
  <2>2. ab \o c \in Seq(FreeEvent(K))
    BY <1>9, <2>1, ConcatProperties
  <2> QED
    BY <2>2 DEF ab
<1> QED
  BY <1>4, <1>11

\* The cover of an event that is known, of an entry: an order the gateway sends.
LEMMA CoverIsFree ==
  ASSUME NEW K, Ids \ EntryIds \subseteq K, NEW e \in FreeEvent(K), e.id \in EntryIds,
         NEW ms \in 0..MaxClock
  PROVE  CoverFor(e, ms) \in FreeCommand(K)
<1>1. /\ e.sym \in Products \cup {None} /\ e.px \in Int /\ e.qty \in Int /\ Fits(e.id, e.side)
  BY DEF FreeEvent
<1>2. PICK entry \in Entries : entry.id = e.id /\ entry.side = e.side
  BY <1>1 DEF EntryIds, Fits
<1>3. Opposite(e.side) \in Sides
  BY DEF Opposite, Sides
<1>4. PICK id \in Ids \ EntryIds : id = CoverId(e.id, ms)
  BY AlgoCoverAssumption DEF CoverIds
<1>5. Fits(id, Opposite(e.side))
  <2>1. ASSUME NEW c \in Entries, id = c.id PROVE FALSE
    BY <1>4, <2>1 DEF EntryIds
  <2>2. ASSUME NEW c \in Entries, NEW m \in 0..MaxClock, id = CoverId(c.id, m)
        PROVE  Opposite(e.side) = Opposite(c.side)
    <3>1. c.id = e.id
      BY <1>4, <2>2 DEF CoverId
    <3>2. c = entry
      BY <1>2, <3>1, AlgoCoverAssumption
    <3> QED
      BY <1>2, <3>2
  <2> QED
    BY <2>1, <2>2 DEF Fits
<1> DEFINE away == IF e.side = "buy" THEN FromTicks(CoverTicks) ELSE -FromTicks(CoverTicks)
<1>6. PICK px \in Int : px = FromTicks(ToTicks(e.px + away))
  <2>1. away \in Int
    BY AlgoCoverAssumption DEF FromTicks
  <2>2. e.px + away \in Int
    BY <1>1, <2>1
  <2> HIDE DEF away
  <2>3. ToTicks(e.px + away) \in Int
    <3> DEFINE h == e.px + away
    <3>1. h \in Int
      BY <2>2
    <3> HIDE DEF h
    <3>2. ToTicks(h) \in Int
      BY <3>1 DEF ToTicks
    <3> QED
      BY <3>2 DEF h
  <2> QED
    BY <2>3 DEF FromTicks
<1>7. CoverFor(e, ms) =
        [id |-> id, sym |-> e.sym, side |-> Opposite(e.side), type |-> "limit", tif |-> "day",
         px |-> px, qty |-> e.qty]
  BY <1>4, <1>6 DEF CoverFor
<1> DEFINE side == Opposite(e.side)
<1> HIDE DEF side
<1>8. side \in Sides /\ Fits(id, side) /\ id \in K /\ e.sym \in Symbols \cup {None}
  BY <1>1, <1>3, <1>4, <1>5, ConstantsAssumption DEF side
<1>9. CoverFor(e, ms) =
        [id |-> id, sym |-> e.sym, side |-> side, type |-> "limit", tif |-> "day",
         px |-> px, qty |-> e.qty]
  BY <1>7 DEF side
<1> QED
  BY <1>1, <1>4, <1>8, <1>9 DEF FreeCommand, Types, Tifs

-----------------------------------------------------------------------------
(***************************************************************************)
(* What a step makes of a handler.                                         *)
(***************************************************************************)
\* The covers a handler has yet to post.
Owed(h) == Len(h.covers) - (IF h.pc = "settle" THEN 1 ELSE 0)

Waits(h) == h.pc \in {"wait", "settle"}

\* A handler stays sound when more identities are known.
LEMMA SoundWithMore ==
  ASSUME NEW K, NEW L, K \subseteq L, NEW h, HandlerIsSound(h, K)
  PROVE  HandlerIsSound(h, L)
<1>1. h \in Handler(K)
  BY DEF HandlerIsSound
<1>2. Seq(FreeEvent(K)) \subseteq Seq(FreeEvent(L)) /\ Seq(FreeCommand(K)) \subseteq Seq(FreeCommand(L))
      /\ FreeRequest(K) \subseteq FreeRequest(L)
  <2>1. /\ FreeEvent(K) \subseteq FreeEvent(L) /\ FreeCommand(K) \subseteq FreeCommand(L)
        /\ FreeRequest(K) \subseteq FreeRequest(L)
    BY MoreIsFree
  <2> QED
    BY ONLY <2>1
<1>3. h \in Handler(L)
  BY <1>1, <1>2 DEF Handler
<1> QED
  BY <1>2, <1>3 DEF HandlerIsSound

\* What a handler owes is a number, and nothing when it has no cover to post.
LEMMA OwedType ==
  ASSUME NEW K, NEW h, HandlerIsSound(h, K)
  PROVE  Owed(h) \in Nat /\ Len(h.covers) \in Nat /\ (h.covers = <<>> => Owed(h) = 0)
<1>1. h.covers \in Seq(FreeCommand(K)) /\ (h.pc = "settle" => h.covers # <<>>)
  BY DEF HandlerIsSound, Handler
<1> DEFINE c == h.covers
<1> HIDE DEF c
<1>2. c \in Seq(FreeCommand(K)) /\ (h.pc = "settle" => c # <<>>)
  BY <1>1 DEF c
<1>3. Len(c) \in Nat /\ (c # <<>> => Len(c) > 0) /\ (c = <<>> => Len(c) = 0)
  BY <1>2
<1>4. Owed(h) = Len(c) - (IF h.pc = "settle" THEN 1 ELSE 0)
  BY DEF Owed, c
<1>5. Owed(h) \in Nat /\ (c = <<>> => Owed(h) = 0)
  BY ONLY <1>2, <1>3, <1>4
<1> QED
  BY <1>3, <1>5 DEF c

\* A handler with nothing to do.
LEMMA IdleIsSound ==
  ASSUME NEW K
  PROVE  HandlerIsSound(Idle, K) /\ Owed(Idle) = 0 /\ ~Waits(Idle) /\ Idle.pc = "idle"
<1>1. Idle \in Handler(K)
  BY DEF Idle, Handler, Pcs
<1> QED
  BY <1>1 DEF Idle, HandlerIsSound, Owed, Waits

\* A call is over, with or without an answer: what was owed still is.
LEMMA CallEnds ==
  ASSUME NEW K, NEW h, HandlerIsSound(h, K), h.pc = "settle",
         NEW g, g = [h EXCEPT !.pc = "process", !.covers = Tail(@)]
  PROVE  HandlerIsSound(g, K) /\ Owed(g) = Owed(h) /\ ~Waits(g)
<1>1. /\ h \in Handler(K) /\ h.covers \in Seq(FreeCommand(K)) /\ h.covers # <<>>
      /\ h.todo # <<>> /\ (Len(h.todo) > 1 => \A i \in DOMAIN h.todo : h.todo[i].op = "send")
  BY DEF HandlerIsSound, Handler
<1>2. PICK c \in Seq(FreeCommand(K)) : c = h.covers
  BY <1>1
<1>3. Tail(c) \in Seq(FreeCommand(K)) /\ Len(Tail(c)) = Len(c) - 1 /\ Len(c) \in Nat
  BY <1>1, <1>2
<1>4. /\ g \in Handler(K) /\ g.pc = "process" /\ g.covers = Tail(c) /\ g.todo = h.todo
  BY <1>1, <1>2, <1>3 DEF Handler, Pcs
<1>5. HandlerIsSound(g, K)
  BY <1>1, <1>4 DEF HandlerIsSound
<1>6. Owed(g) = Len(c) - 1 /\ Owed(h) = Len(c) - 1
  BY <1>2, <1>3, <1>4 DEF Owed
<1> QED
  BY <1>4, <1>5, <1>6 DEF Waits

\* A call that fails leaves the handler sound and what it owes unchanged.
LEMMA FailedIsSound ==
  ASSUME NEW K, NEW h, HandlerIsSound(h, K), Waits(h)
  PROVE  HandlerIsSound(Failed(h), K) /\ Owed(Failed(h)) = Owed(h) /\ ~Waits(Failed(h))
<1>1. CASE h.pc = "wait"
  <2>1. Failed(h) = Idle /\ h.covers = <<>>
    BY <1>1 DEF Failed, HandlerIsSound
  <2> QED
    BY <2>1, IdleIsSound, OwedType
<1>2. CASE h.pc = "settle"
  <2>1. Failed(h) = [h EXCEPT !.pc = "process", !.covers = Tail(@)]
    BY <1>2 DEF Failed
  <2> QED
    BY <1>2, <2>1, CallEnds
<1> QED
  BY <1>1, <1>2 DEF Waits

\* So does a call that is answered.
LEMMA AnsweredIsSound ==
  ASSUME NEW K, NEW h, HandlerIsSound(h, K), Waits(h), NEW reports,
         h.pc = "wait" /\ Head(h.todo).op \in {"send", "market"} => reports \in Seq(FreeReport(K))
  PROVE  /\ HandlerIsSound(Answered(h, reports), K) /\ Owed(Answered(h, reports)) = Owed(h)
         /\ ~Waits(Answered(h, reports))
<1>1. CASE h.pc = "wait"
  <2>1. /\ h \in Handler(K) /\ h.covers = <<>> /\ h.todo # <<>>
        /\ Len(h.todo) > 1 => \A i \in DOMAIN h.todo : h.todo[i].op = "send"
    BY <1>1 DEF HandlerIsSound
  <2>2. PICK reply \in Seq(FreeEvent(K)) :
          reply = IF Head(h.todo).op \in {"send", "market"} THEN Events(reports) ELSE <<>>
    <3>1. <<>> \in Seq(FreeEvent(K))
      OBVIOUS
    <3> QED
      BY <1>1, <3>1, EventsAreFree
  <2>3. Answered(h, reports) = [h EXCEPT !.pc = "process", !.reply = reply]
    BY <1>1, <2>2 DEF Answered
  <2>4. PICK g : g = [h EXCEPT !.pc = "process", !.reply = reply]
    OBVIOUS
  <2>5. g \in Handler(K) /\ g.pc = "process" /\ g.covers = <<>> /\ g.todo = h.todo
    BY <2>1, <2>4 DEF Handler, Pcs
  <2>6. HandlerIsSound(g, K)
    BY <2>1, <2>5 DEF HandlerIsSound
  <2>7. Owed(g) = 0 /\ Owed(h) = 0
    BY <2>1, <2>5, <2>6, OwedType
  <2> QED
    BY <2>3, <2>4, <2>5, <2>6, <2>7 DEF Waits
<1>2. CASE h.pc = "settle"
  <2>1. Answered(h, reports) = [h EXCEPT !.pc = "process", !.covers = Tail(@)]
    BY <1>2 DEF Answered
  <2> QED
    BY <1>2, <2>1, CallEnds
<1> QED
  BY <1>1, <1>2 DEF Waits

\* What leaves the engine alone.
LEMMA EngineUntouched ==
  ASSUME NEW K, NEW L, K \subseteq L, EngineIsFree(K), UNCHANGED vars
  PROVE  EngineIsFree(L)'
<1>1. BooksAreFree(K)'
  BY BooksUntouched DEF EngineIsFree, vars
<1>2. OperationIsFree(K)'
  BY DEF EngineIsFree, OperationIsFree, vars
<1>3. EngineIsFree(K)'
  BY <1>1, <1>2 DEF EngineIsFree
<1> QED
  BY <1>3, MoreOfTheEngine

\* One handler moves.
LEMMA OneHandler ==
  ASSUME NEW K, NEW L, K \subseteq L, HandlersAreSound(K), NEW t \in Threads,
         NEW h, HandlerIsSound(h, L), thread' = [thread EXCEPT ![t] = h]
  PROVE  /\ HandlersAreSound(L)'
         /\ thread'[t] = h
         /\ \A u \in Threads : u # t => thread'[u] = thread[u]
<1>1. thread = [u \in Threads |-> thread[u]] /\ \A u \in Threads : HandlerIsSound(thread[u], K)
  BY DEF HandlersAreSound
<1>2. thread'[t] = h /\ \A u \in Threads : u # t => thread'[u] = thread[u]
  BY <1>1
<1>3. \A u \in Threads : HandlerIsSound(thread'[u], L)
  <2> TAKE u \in Threads
  <2>1. HandlerIsSound(thread[u], L)
    BY <1>1, SoundWithMore
  <2> QED
    BY <1>2, <2>1
<1>4. thread' = [u \in Threads |-> thread'[u]]
  BY <1>1
<1> QED
  BY <1>2, <1>3, <1>4 DEF HandlersAreSound

\* There are finitely many threads to add up over.
LEMMA ThreadsAreFinite == IsFiniteSet(Threads)
  BY AlgoCoverAssumption, FS_AddElement DEF Threads

\* What is counted for a thread is what its handler owes.
LEMMA UnpostedType ==
  ASSUME NEW K, HandlersAreSound(K)
  PROVE  \A t \in Threads : Unposted(t) = Owed(thread[t]) /\ Unposted(t) \in Nat
<1> TAKE t \in Threads
<1>1. Unposted(t) = Owed(thread[t])
  BY DEF Unposted, Owed, At
<1>2. HandlerIsSound(thread[t], K)
  BY DEF HandlersAreSound
<1> QED
  BY <1>1, <1>2, OwedType

\* The account of covers when no handler owes more or less than before.
LEMMA NothingPosted ==
  ASSUME CoversPostedOnce, \A t \in Threads : Owed(thread'[t]) = Owed(thread[t]),
         posts' = posts, made' = made
  PROVE  CoversPostedOnce'
<1> DEFINE f == [t \in Threads |-> Unposted(t)]
           g == [t \in Threads |-> Unposted(t)']
<1>1. \A t \in Threads : f[t] = g[t]
  BY DEF Unposted, Owed, At
<1> HIDE DEF f, g
<1>2. SumFunctionOnSet(f, Threads) = SumFunctionOnSet(g, Threads)
  BY <1>1, ThreadsAreFinite, SumsOfSameValues
<1>3. posts + SumFunctionOnSet(f, Threads) = Len(made)
  BY DEF CoversPostedOnce, f
<1>4. posts' + SumFunctionOnSet(g, Threads) = Len(made')
  BY <1>2, <1>3
<1> QED
  BY <1>4 DEF CoversPostedOnce, g

\* The account when one handler makes a cover or posts one.
LEMMA OneAccount ==
  ASSUME NEW K, NEW L, HandlersAreSound(K), HandlersAreSound(L)', CoversPostedOnce,
         NEW t \in Threads, \A u \in Threads : u # t => thread'[u] = thread[u],
         posts \in Int, posts' \in Int, Len(made) \in Nat, Len(made') \in Nat,
         posts' + Owed(thread'[t]) - Len(made') = posts + Owed(thread[t]) - Len(made)
  PROVE  CoversPostedOnce'
<1> DEFINE f == [u \in Threads |-> Unposted(u)]
           g == [u \in Threads |-> Unposted(u)']
<1>1. \A u \in Threads : f[u] = Owed(thread[u]) /\ f[u] \in Nat
  BY UnpostedType
<1>2. \A u \in Threads : g[u] = Owed(thread'[u]) /\ g[u] \in Nat
  <2> TAKE u \in Threads
  <2>1. Unposted(u)' = Owed(thread'[u])
    BY DEF Unposted, Owed, At
  <2>2. HandlerIsSound(thread'[u], L)
    BY DEF HandlersAreSound
  <2> QED
    BY <2>1, <2>2, OwedType
<1>3. posts + SumFunctionOnSet(f, Threads) = Len(made)
  BY DEF CoversPostedOnce
<1>4. posts' + SumFunctionOnSet(g, Threads) = Len(made') => CoversPostedOnce'
  BY DEF CoversPostedOnce
<1> HIDE DEF f, g
<1> DEFINE rest == Threads \ {t}
<1>5. SumFunctionOnSet(f, Threads) = f[t] + SumFunctionOnSet(f, rest)
  BY <1>1, ThreadsAreFinite, SumByElement
<1>6. SumFunctionOnSet(g, Threads) = g[t] + SumFunctionOnSet(g, rest)
  BY <1>2, ThreadsAreFinite, SumByElement
<1>7. IsFiniteSet(rest)
  BY ThreadsAreFinite, FS_Subset
<1>8. \A u \in rest : f[u] = g[u]
  BY <1>1, <1>2
<1>9. SumFunctionOnSet(f, rest) = SumFunctionOnSet(g, rest) /\ SumFunctionOnSet(f, rest) \in Nat
  <2>1. \A u \in rest : f[u] \in Nat
    BY <1>1
  <2> HIDE DEF rest
  <2> QED
    BY <1>7, <1>8, <2>1, SumsOfSameValues, SumType
<1>10. PICK sum \in Nat : sum = SumFunctionOnSet(f, rest)
  BY <1>9
<1>11. posts + (f[t] + sum) = Len(made) /\ f[t] \in Nat /\ f[t] = Owed(thread[t])
  BY <1>1, <1>3, <1>5, <1>10
<1>12. g[t] \in Nat /\ g[t] = Owed(thread'[t]) /\ SumFunctionOnSet(g, Threads) = g[t] + sum
  BY <1>2, <1>6, <1>9, <1>10
<1>13. posts' + g[t] - Len(made') = posts + f[t] - Len(made)
  BY <1>11, <1>12
<1>14. posts' + (g[t] + sum) = Len(made')
  BY ONLY <1>11, <1>12, <1>13, sum \in Nat, posts \in Int, posts' \in Int, Len(made) \in Nat,
     Len(made') \in Nat, SMTT(30)
<1> QED
  BY <1>4, <1>12, <1>14

\* No call is placed or answered.
LEMMA CallsKept ==
  ASSUME NEW K, NEW L, K \subseteq L, CallsAreMatched(K),
         pending' = pending, serving' = serving, serving # Nobody => ctl' # "idle",
         \A t \in Threads : Waits(thread'[t]) <=> Waits(thread[t]),
         \A t \in Threads : thread'[t].pc = "wait" => thread'[t] = thread[t]
  PROVE  CallsAreMatched(L)'
<1>1. FreeRequest(K) \subseteq FreeRequest(L)
  BY MoreIsFree
<1>2. pending \subseteq [by : Threads \cup {Nobody}, req : FreeRequest(L)]
  BY <1>1 DEF CallsAreMatched
<1>3. ASSUME NEW t \in Threads PROVE CallIsMatched(t)'
  <2>1. CallIsMatched(t)
    BY DEF CallsAreMatched
  <2>2. Own(t)' = Own(t)
    BY DEF Own
  <2>3. Waiting(t)' <=> Waiting(t)
    BY DEF Waiting, Waits
  <2> QED
    BY <2>1, <2>2, <2>3 DEF CallIsMatched
<1>4. ASSUME NEW p \in pending, p.by \in Threads, thread'[p.by].pc = "wait"
      PROVE  p.req = Head(thread'[p.by].todo)
  <2>1. thread'[p.by] = thread[p.by]
    BY <1>4
  <2> QED
    BY <1>4, <2>1 DEF CallsAreMatched
<1> QED
  BY <1>2, <1>3, <1>4 DEF CallsAreMatched

\* What neither makes, serves nor answers a call.
LEMMA CallsUntouched ==
  ASSUME NEW K, NEW L, K \subseteq L, CallsAreMatched(K),
         pending' = pending, serving' = serving, ctl' = ctl,
         \A t \in Threads : Waits(thread'[t]) <=> Waits(thread[t]),
         \A t \in Threads : thread'[t].pc = "wait" => thread'[t] = thread[t]
  PROVE  CallsAreMatched(L)'
<1>1. serving # Nobody => ctl' # "idle"
  BY DEF CallsAreMatched
<1> QED
  BY <1>1, CallsKept

\* A job's requests are what a handler may work through.
LEMMA JobsAreFree ==
  ASSUME NEW j \in Jobs
  PROVE  /\ j.todo \in Seq(FreeRequest(Ids \cup {NoId})) /\ j.todo # <<>>
         /\ Len(j.todo) > 1 => \A i \in DOMAIN j.todo : j.todo[i].op = "send"
         /\ j.kind = "order" => Head(j.todo).op = "send"
         /\ j.kind # "order" => \A K : Head(j.todo) \in FreeRequest(K)
<1>1. /\ j.todo \in Seq(Request) /\ j.todo # <<>> /\ (j.kind # "order" => Len(j.todo) = 1)
      /\ \A i \in DOMAIN j.todo :
           /\ j.todo[i].op = "send" <=> j.kind = "order"
           /\ j.kind = "order" => /\ j.todo[i].cmd.id \in EntryIds => j.todo[i].cmd \in Entries
                                  /\ j.todo[i].cmd.id \notin CoverIds
  BY JobsAssumption
<1>2. PICK todo \in Seq(Request) : todo = j.todo
  BY <1>1
<1>3. Head(todo) = todo[1] /\ 1 \in DOMAIN todo /\ \A i \in DOMAIN todo : todo[i] \in Request
  BY <1>1, <1>2
<1>4. ASSUME NEW i \in DOMAIN todo PROVE todo[i] \in FreeRequest(Ids \cup {NoId})
  <2>1. CASE todo[i].op = "send"
    <3>1. PICK c \in Command : todo[i] = [op |-> "send", cmd |-> c]
      BY <1>3, <2>1 DEF Request
    <3>2. (c.id \in EntryIds => c \in Entries) /\ c.id \notin CoverIds
      <4>1. j.kind = "order"
        BY <1>1, <1>2, <2>1
      <4>2. todo[i].cmd = c
        BY <3>1
      <4> QED
        BY <1>1, <1>2, <4>1, <4>2
    <3>3. Fits(c.id, c.side)
      <4>1. ASSUME NEW e \in Entries, c.id = e.id PROVE c.side = e.side
        <5>1. c \in Entries
          BY <3>2, <4>1 DEF EntryIds
        <5>2. c = e
          BY <4>1, <5>1, AlgoCoverAssumption
        <5> QED
          BY <5>2
      <4>2. ASSUME NEW e \in Entries, NEW ms \in 0..MaxClock, c.id = CoverId(e.id, ms)
            PROVE  FALSE
        BY <3>2, <4>2 DEF CoverIds, EntryIds
      <4> QED
        BY <4>1, <4>2 DEF Fits
    <3>4. c \in FreeCommand(Ids \cup {NoId})
      BY <3>3, ConstantsAssumption DEF Command, FreeCommand
    <3> QED
      BY <3>1, <3>4 DEF FreeRequest
  <2>2. CASE todo[i].op # "send"
    BY <1>3, <2>2 DEF Request, FreeRequest
  <2> QED
    BY <2>1, <2>2
<1>5. todo \in Seq(FreeRequest(Ids \cup {NoId}))
  <2> DEFINE F == FreeRequest(Ids \cup {NoId})
  <2>1. \A i \in DOMAIN todo : todo[i] \in F
    BY <1>4
  <2> HIDE DEF F
  <2>2. [i \in DOMAIN todo |-> todo[i]] \in Seq(F)
    BY <2>1, MappedSeq
  <2>3. todo = [i \in DOMAIN todo |-> todo[i]]
    OBVIOUS
  <2>4. todo \in Seq(F)
    BY <2>2, <2>3
  <2> QED
    BY <2>4 DEF F
<1>6. ASSUME j.kind # "order", NEW K PROVE Head(todo) \in FreeRequest(K)
  <2>1. todo[1].op # "send" /\ todo[1] \in Request
    BY <1>1, <1>2, <1>3, <1>6
  <2> QED
    BY <1>3, <2>1 DEF Request, FreeRequest
<1>7. Len(todo) > 1 => \A i \in DOMAIN todo : todo[i].op = "send"
  BY <1>1, <1>2
<1>8. j.kind = "order" => Head(todo).op = "send"
  BY <1>1, <1>2, <1>3
<1> QED
  BY <1>1, <1>2, <1>5, <1>6, <1>7, <1>8

\* A handler moves that neither places a call, nor ends one, nor owes more or less.
LEMMA QuietMove ==
  ASSUME NEW K, NEW L, K \subseteq L, StateInv(K), NEW t \in Threads, NEW h,
         HandlerIsSound(h, L), thread' = [thread EXCEPT ![t] = h],
         ~Waits(thread[t]), ~Waits(h), Owed(h) = Owed(thread[t]),
         UNCHANGED <<vars, pending, serving, made, posts>>
  PROVE  EngineIsFree(L)' /\ HandlersAreSound(L)' /\ CallsAreMatched(L)' /\ CoversPostedOnce'
<1>1. EngineIsFree(K) /\ HandlersAreSound(K) /\ CallsAreMatched(K) /\ Accounts
  BY DEF StateInv
<1>2. /\ HandlersAreSound(L)' /\ thread'[t] = h
      /\ \A u \in Threads : u # t => thread'[u] = thread[u]
  BY <1>1, OneHandler
<1>3. EngineIsFree(L)'
  BY <1>1, EngineUntouched
<1>4. CallsAreMatched(L)'
  <2>1. \A u \in Threads : Waits(thread'[u]) <=> Waits(thread[u])
    BY <1>2
  <2>2. h.pc # "wait"
    BY DEF Waits
  <2>3. \A u \in Threads : thread'[u].pc = "wait" => thread'[u] = thread[u]
    BY <1>2, <2>2
  <2>4. ctl' = ctl
    BY DEF vars
  <2> QED
    BY <1>1, <2>1, <2>3, <2>4, CallsUntouched
<1>5. CoversPostedOnce'
  <2>1. \A u \in Threads : Owed(thread'[u]) = Owed(thread[u])
    BY <1>2
  <2> QED
    BY <1>1, <2>1, NothingPosted DEF Accounts
<1> QED
  BY <1>2, <1>3, <1>4, <1>5

\* What a handler is, where it stands.
LEMMA HandlerFacts ==
  ASSUME NEW K, HandlersAreSound(K), NEW t \in Threads
  PROVE  /\ HandlerIsSound(thread[t], K) /\ thread[t] \in Handler(K)
         /\ DOMAIN thread = Threads
         /\ \A pc : At(t, pc) <=> thread[t].pc = pc
  BY DEF HandlersAreSound, HandlerIsSound, At

\* A thread takes a job.
LEMMA StartIsSound ==
  ASSUME NEW K, NEW L, K \subseteq L, StateInv(K), NEW t \in Threads, NEW j \in jobs, Start(t, j)
  PROVE  StateInv(L)'
<1>1. HandlersAreSound(K) /\ Accounts /\ j \in Jobs
  BY DEF StateInv, Accounts
<1>2. PICK g \in Handler(K) : g = thread[t] /\ HandlerIsSound(g, K)
  BY <1>1, HandlerFacts
<1>3. g.pc = "idle" /\ g.covers = <<>>
  BY <1>2 DEF Start, At, HandlerIsSound
<1>4. PICK pc : pc = CASE j.kind = "order" -> "remember"
                       [] j.kind = "session" -> "clear"
                       [] OTHER -> "post"
  OBVIOUS
<1>5. /\ pc \in {"remember", "clear", "post"}
      /\ pc = "remember" => j.kind = "order"
      /\ pc = "post" => j.kind # "order"
  BY <1>4
<1>6. PICK h : h = [g EXCEPT !.todo = j.todo, !.pc = pc]
  OBVIOUS
<1>7. thread' = [thread EXCEPT ![t] = h]
  BY <1>2, <1>4, <1>6, <1>1, HandlerFacts DEF Start
<1>8. HandlerIsSound(h, K) /\ ~Waits(h) /\ h.covers = <<>>
  <2>1. /\ h \in Handler(K) /\ h.pc = pc /\ h.todo = j.todo /\ h.covers = <<>>
    BY <1>1, <1>3, <1>5, <1>6, JobsAreFree DEF Handler, Pcs
  <2>2. HandlerIsSound(h, K)
    BY <1>1, <1>5, <2>1, JobsAreFree DEF HandlerIsSound
  <2> QED
    BY <1>5, <2>1, <2>2 DEF Waits
<1>9. HandlerIsSound(h, L) /\ Owed(h) = Owed(g) /\ ~Waits(g)
  BY <1>2, <1>3, <1>8, SoundWithMore, OwedType DEF Waits
<1>10. UNCHANGED <<vars, pending, serving, made, posts>>
  BY DEF Start
<1>11. EngineIsFree(L)' /\ HandlersAreSound(L)' /\ CallsAreMatched(L)' /\ CoversPostedOnce'
  BY <1>2, <1>7, <1>8, <1>9, <1>10, QuietMove
<1>12. Accounts'
  <2>1. jobs' = jobs \ {j} /\ UNCHANGED <<policies, now, faults, made, posts>>
    BY DEF Start
  <2> QED
    BY <1>1, <1>11, <2>1 DEF Accounts
<1> QED
  BY <1>11, <1>12 DEF StateInv

\* The policy of an algo order is kept, before its order is sent.
LEMMA RememberIsSound ==
  ASSUME NEW K, NEW L, K \subseteq L, L = Known', StateInv(K), NEW t \in Threads, Remember(t)
  PROVE  StateInv(L)'
<1>1. HandlersAreSound(K) /\ Accounts
  BY DEF StateInv
<1>2. PICK g \in Handler(K) : g = thread[t] /\ HandlerIsSound(g, K)
  BY <1>1, HandlerFacts
<1>3. g.pc = "remember" /\ g.covers = <<>> /\ g.todo # <<>> /\ Head(g.todo).op = "send"
  BY <1>2 DEF Remember, At, HandlerIsSound
<1>4. PICK r \in FreeRequest(Ids \cup {NoId}) : r = Head(g.todo)
  <2>1. g.todo \in Seq(FreeRequest(Ids \cup {NoId}))
    BY <1>2 DEF Handler
  <2> QED
    BY <1>3, <2>1
<1>5. /\ r.cmd \in FreeCommand(Ids \cup {NoId}) /\ r = [op |-> "send", cmd |-> r.cmd]
      /\ r.cmd.id \in Ids \cup {NoId}
  BY <1>3, <1>4 DEF FreeRequest, FreeCommand
<1>6. policies' = policies \cup ({r.cmd.id} \cap EntryIds)
  BY <1>2, <1>4 DEF Remember
<1>7. r.cmd.id \in L
  BY <1>5, <1>6 DEF Known
<1>8. r \in FreeRequest(L)
  <2>1. r.cmd \in FreeCommand(L)
    BY <1>5, <1>7 DEF FreeCommand
  <2> QED
    BY <1>5, <2>1 DEF FreeRequest
<1>9. PICK h : h = [g EXCEPT !.pc = "post"]
  OBVIOUS
<1>10. thread' = [thread EXCEPT ![t] = h]
  BY <1>1, <1>2, <1>9, HandlerFacts DEF Remember, Go
<1>11. HandlerIsSound(h, L) /\ ~Waits(h) /\ h.covers = <<>>
  <2>1. HandlerIsSound(g, L)
    BY <1>2, SoundWithMore
  <2>2. g \in Handler(L)
    BY <2>1 DEF HandlerIsSound
  <2>3. h \in Handler(L) /\ h.pc = "post" /\ h.todo = g.todo /\ h.covers = <<>>
    BY <1>3, <1>9, <2>2 DEF Handler, Pcs
  <2> QED
    BY <1>4, <1>8, <2>1, <2>3, <1>3 DEF HandlerIsSound, Waits
<1>12. Owed(h) = Owed(g) /\ ~Waits(g)
  BY <1>2, <1>3, <1>11, OwedType DEF Waits
<1>13. UNCHANGED <<vars, pending, serving, made, posts>>
  BY DEF Remember
<1>14. EngineIsFree(L)' /\ HandlersAreSound(L)' /\ CallsAreMatched(L)' /\ CoversPostedOnce'
  BY <1>2, <1>10, <1>11, <1>12, <1>13, QuietMove
<1>15. Accounts'
  <2>1. UNCHANGED <<jobs, now, faults, made, posts>>
    BY DEF Remember
  <2> QED
    BY <1>1, <1>6, <1>14, <2>1 DEF Accounts
<1> QED
  BY <1>14, <1>15 DEF StateInv

\* The session ends and its policies are forgotten.
LEMMA ClearIsSound ==
  ASSUME NEW K, NEW L, K \subseteq L, L = Known', StateInv(K), NEW t \in Threads, ClearSession(t)
  PROVE  StateInv(L)'
<1>1. HandlersAreSound(K) /\ Accounts
  BY DEF StateInv
<1>2. PICK g \in Handler(K) : g = thread[t] /\ HandlerIsSound(g, K)
  BY <1>1, HandlerFacts
<1>3. g.pc = "clear" /\ g.covers = <<>> /\ g.todo # <<>>
  BY <1>2 DEF ClearSession, At, HandlerIsSound
<1>4. L = Ids \cup {NoId}
  BY DEF ClearSession, Known
<1>5. Head(g.todo) \in FreeRequest(L)
  <2>1. g.todo \in Seq(FreeRequest(Ids \cup {NoId}))
    BY <1>2 DEF Handler
  <2> QED
    BY <1>3, <1>4, <2>1
<1>6. PICK h : h = [g EXCEPT !.pc = "post"]
  OBVIOUS
<1>7. thread' = [thread EXCEPT ![t] = h]
  BY <1>1, <1>2, <1>6, HandlerFacts DEF ClearSession, Go
<1>8. HandlerIsSound(h, L) /\ ~Waits(h) /\ h.covers = <<>>
  <2>1. HandlerIsSound(g, L)
    BY <1>2, SoundWithMore
  <2>2. g \in Handler(L)
    BY <2>1 DEF HandlerIsSound
  <2>3. h \in Handler(L) /\ h.pc = "post" /\ h.todo = g.todo /\ h.covers = <<>>
    BY <1>3, <1>6, <2>2 DEF Handler, Pcs
  <2> QED
    BY <1>3, <1>5, <2>1, <2>3 DEF HandlerIsSound, Waits
<1>9. Owed(h) = Owed(g) /\ ~Waits(g)
  BY <1>2, <1>3, <1>8, OwedType DEF Waits
<1>10. UNCHANGED <<vars, pending, serving, made, posts>>
  BY DEF ClearSession
<1>11. EngineIsFree(L)' /\ HandlersAreSound(L)' /\ CallsAreMatched(L)' /\ CoversPostedOnce'
  BY <1>2, <1>7, <1>8, <1>9, <1>10, QuietMove
<1>12. Accounts'
  <2>1. policies' = {} /\ UNCHANGED <<jobs, now, faults, made, posts>>
    BY DEF ClearSession
  <2> QED
    BY <1>1, <1>11, <2>1 DEF Accounts
<1> QED
  BY <1>11, <1>12 DEF StateInv

\* A handler goes on to its next request.
LEMMA NextRequestIsSound ==
  ASSUME NEW K, NEW L, K \subseteq L, StateInv(K), NEW t \in Threads, NextRequest(t)
  PROVE  StateInv(L)'
<1>1. HandlersAreSound(K) /\ Accounts
  BY DEF StateInv
<1>2. PICK g \in Handler(K) : g = thread[t] /\ HandlerIsSound(g, K)
  BY <1>1, HandlerFacts
<1>3. g.pc = "process" /\ g.covers = <<>> /\ g.todo # <<>>
  BY <1>2 DEF NextRequest, At, HandlerIsSound
<1>4. PICK todo \in Seq(FreeRequest(Ids \cup {NoId})) : todo = g.todo
  BY <1>2 DEF Handler
<1>5. /\ Tail(todo) \in Seq(FreeRequest(Ids \cup {NoId})) /\ Len(Tail(todo)) = Len(todo) - 1
      /\ Len(todo) \in Nat /\ Len(todo) > 0
      /\ DOMAIN todo = 1 .. Len(todo) /\ DOMAIN Tail(todo) = 1 .. Len(todo) - 1
      /\ \A i \in 1 .. Len(todo) - 1 : Tail(todo)[i] = todo[i + 1]
  BY <1>3, <1>4
<1>6. Len(todo) > 1 => \A i \in DOMAIN todo : todo[i].op = "send"
  BY <1>2, <1>4 DEF HandlerIsSound
<1>7. PICK rest \in Seq(FreeRequest(Ids \cup {NoId})) : rest = Tail(todo)
  BY <1>5
<1>8. \A i \in DOMAIN rest : rest[i].op = "send"
  <2> TAKE i \in DOMAIN rest
  <2>1. i \in 1 .. Len(todo) - 1 /\ i + 1 \in DOMAIN todo /\ Len(todo) > 1
    BY <1>5, <1>7
  <2> QED
    BY <1>5, <1>6, <1>7, <2>1
<1>9. Len(todo) # 1 => rest # <<>> /\ Head(rest).op = "send"
  <2> HAVE Len(todo) # 1
  <2>1. Len(rest) > 0
    BY <1>5, <1>7
  <2>2. rest # <<>> /\ Head(rest) = rest[1] /\ 1 \in DOMAIN rest
    BY <2>1
  <2> QED
    BY <1>8, <2>2
<1>10. PICK pc : pc = IF Len(todo) = 1 THEN "idle" ELSE "remember"
  OBVIOUS
<1>11. PICK h : h = [g EXCEPT !.todo = rest, !.pc = pc]
  OBVIOUS
<1>12. thread' = [thread EXCEPT ![t] = h]
  BY <1>1, <1>2, <1>4, <1>7, <1>10, <1>11, HandlerFacts DEF NextRequest
<1>13. HandlerIsSound(h, K) /\ ~Waits(h) /\ h.covers = <<>>
  <2>1. pc \in {"idle", "remember"} /\ (pc = "remember" => Len(todo) # 1)
    BY <1>10
  <2>2. h \in Handler(K) /\ h.pc = pc /\ h.todo = rest /\ h.covers = <<>>
    BY <1>3, <1>11, <2>1 DEF Handler, Pcs
  <2>3. HandlerIsSound(h, K)
    BY <1>8, <1>9, <2>1, <2>2 DEF HandlerIsSound
  <2> QED
    BY <2>1, <2>2, <2>3 DEF Waits
<1>14. HandlerIsSound(h, L) /\ Owed(h) = Owed(g) /\ ~Waits(g)
  BY <1>2, <1>3, <1>13, SoundWithMore, OwedType DEF Waits
<1>15. UNCHANGED <<vars, pending, serving, made, posts>>
  BY DEF NextRequest
<1>16. EngineIsFree(L)' /\ HandlersAreSound(L)' /\ CallsAreMatched(L)' /\ CoversPostedOnce'
  BY <1>2, <1>12, <1>13, <1>14, <1>15, QuietMove
<1>17. Accounts'
  <2>1. UNCHANGED <<policies, jobs, now, faults, made, posts>>
    BY DEF NextRequest
  <2> QED
    BY <1>1, <1>16, <2>1 DEF Accounts
<1> QED
  BY <1>16, <1>17 DEF StateInv

\* The cover of a fill is made with the claim of its event.
LEMMA ProcessEventIsSound ==
  ASSUME NEW K, NEW L, K \subseteq L, K = Known, StateInv(K), NEW t \in Threads, ProcessEvent(t)
  PROVE  StateInv(L)'
<1>1. EngineIsFree(K) /\ HandlersAreSound(K) /\ CallsAreMatched(K) /\ Accounts
  BY DEF StateInv
<1>2. PICK g \in Handler(K) : g = thread[t] /\ HandlerIsSound(g, K)
  BY <1>1, HandlerFacts
<1>3. g.pc = "process" /\ g.reply # <<>> /\ g.todo # <<>>
  BY <1>2 DEF ProcessEvent, At, HandlerIsSound
<1>4. PICK reply \in Seq(FreeEvent(K)) : reply = g.reply
  BY <1>2 DEF Handler
<1>5. PICK covers \in Seq(FreeCommand(K)) : covers = g.covers
  BY <1>2 DEF Handler
<1>6. PICK e \in FreeEvent(K) : e = Head(g.reply)
  BY <1>3, <1>4
<1>7. PICK rest \in Seq(FreeEvent(K)) : rest = Tail(g.reply)
  <2>1. reply # <<>>
    BY <1>3, <1>4
  <2>2. Tail(reply) \in Seq(FreeEvent(K))
    BY <2>1
  <2>3. Tail(g.reply) \in Seq(FreeEvent(K))
    BY <1>4, <2>2
  <2> QED
    BY <2>3
<1>8. PICK ms \in 0..MaxClock : ms = now'
  <2>1. now' \in now..MaxClock /\ now \in 0..MaxClock
    BY <1>1 DEF ProcessEvent, Accounts
  <2> QED
    BY <2>1, AlgoCoverAssumption
<1>9. PICK cover : cover = CoverFor(e, ms)
  OBVIOUS
<1> DEFINE covered == FirstSeen(e.key) /\ e.id \in policies /\ e.tagged
           m == [of |-> e.id, key |-> e.key, fill |-> e.fill]
<1>10. PICK next : next = IF covered THEN Append(covers, cover) ELSE covers
  OBVIOUS
<1>11. PICK h : h = [g EXCEPT !.reply = rest, !.covers = next]
  OBVIOUS
<1>12. thread' = [thread EXCEPT ![t] = h]
  BY <1>1, <1>2, <1>5, <1>6, <1>7, <1>8, <1>9, <1>10, <1>11, HandlerFacts DEF ProcessEvent
<1>13. made' = IF covered THEN Append(made, m) ELSE made
  BY <1>2, <1>6 DEF ProcessEvent
<1>14. policies' = policies
  BY DEF ProcessEvent, KeepPolicy
<1>15. covered => e.id \in EntryIds /\ cover \in FreeCommand(K)
  <2>1. HAVE covered
  <2>2. e.id \in EntryIds
    BY <1>1, <2>1 DEF Accounts
  <2>3. Ids \ EntryIds \subseteq K
    BY DEF Known
  <2> QED
    BY <1>9, <2>2, <2>3, CoverIsFree
<1>16. next \in Seq(FreeCommand(K)) /\ Len(next) = Len(covers) + (IF covered THEN 1 ELSE 0)
  BY <1>10, <1>15
<1>17. HandlerIsSound(h, K) /\ h.pc = "process"
  <2>1. h \in Handler(K) /\ h.pc = "process" /\ h.todo = g.todo
    BY <1>3, <1>11, <1>16 DEF Handler
  <2> QED
    BY <1>2, <1>3, <2>1 DEF HandlerIsSound
<1>18. Owed(h) = Len(next) /\ Owed(g) = Len(covers) /\ Len(covers) \in Nat
  BY <1>2, <1>3, <1>5, <1>11, <1>17 DEF Owed, Handler
<1>19. HandlerIsSound(h, L) /\ ~Waits(h) /\ ~Waits(g)
  BY <1>3, <1>17, SoundWithMore DEF Waits
<1>20. /\ HandlersAreSound(L)' /\ thread'[t] = h
       /\ \A u \in Threads : u # t => thread'[u] = thread[u]
  BY <1>1, <1>12, <1>19, OneHandler
<1>21. UNCHANGED <<vars, pending, serving, jobs, faults, posts>>
  BY DEF ProcessEvent
<1>22. EngineIsFree(L)'
  BY <1>1, <1>21, EngineUntouched
<1>23. CallsAreMatched(L)'
  <2>1. \A u \in Threads : Waits(thread'[u]) <=> Waits(thread[u])
    BY <1>2, <1>19, <1>20
  <2>2. h.pc # "wait" /\ ctl' = ctl
    BY <1>17, <1>21 DEF vars
  <2>3. \A u \in Threads : thread'[u].pc = "wait" => thread'[u] = thread[u]
    BY <1>20, <2>2
  <2> QED
    BY <1>1, <1>21, <2>1, <2>2, <2>3, CallsUntouched
<1>24. /\ made' \in Seq([of : EntryIds, key : Keys, fill : Int])
       /\ Len(made') = Len(made) + (IF covered THEN 1 ELSE 0) /\ Len(made) \in Nat
  <2>1. made \in Seq([of : EntryIds, key : Keys, fill : Int])
    BY <1>1 DEF Accounts
  <2>2. covered => m \in [of : EntryIds, key : Keys, fill : Int]
    BY <1>15 DEF FreeEvent
  <2>3. PICK S : S = [of : EntryIds, key : Keys, fill : Int]
    OBVIOUS
  <2>4. PICK old \in Seq(S) : old = made
    BY <2>1, <2>3
  <2> HIDE DEF m, covered
  <2>5. CASE covered
    <3>1. m \in S /\ made' = Append(old, m)
      BY <1>13, <2>2, <2>3, <2>4, <2>5
    <3>2. Append(old, m) \in Seq(S) /\ Len(Append(old, m)) = Len(old) + 1 /\ Len(old) \in Nat
      BY <3>1
    <3> QED
      BY <2>3, <2>4, <2>5, <3>1, <3>2
  <2>6. CASE ~covered
    BY <1>13, <2>3, <2>4, <2>6
  <2> QED
    BY <2>5, <2>6
<1>25. CoversPostedOnce'
  <2>1. posts \in Int /\ posts' = posts /\ CoversPostedOnce
    BY <1>1, <1>21 DEF Accounts
  <2> HIDE DEF covered
  <2>2. posts' + Owed(thread'[t]) - Len(made') = posts + Owed(thread[t]) - Len(made)
    BY <1>2, <1>16, <1>18, <1>20, <1>24, <2>1
  <2>3. Len(made') \in Nat
    BY <1>24
  <2> QED
    BY <1>1, <1>20, <1>24, <2>1, <2>2, <2>3, OneAccount
<1>26. Accounts'
  BY <1>1, <1>8, <1>14, <1>21, <1>24, <1>25 DEF Accounts
<1> QED
  BY <1>20, <1>22, <1>23, <1>26 DEF StateInv

\* A handler that waits for nothing has nothing with the exchange; its call is new.
LEMMA CallPlaced ==
  ASSUME NEW K, NEW L, K \subseteq L, CallsAreMatched(K), NEW t \in Threads,
         NEW request \in FreeRequest(L), Call(t, request), serving' = serving, ctl' = ctl,
         ~Waits(thread[t]), Waits(thread'[t]),
         thread'[t].pc = "wait" => request = Head(thread'[t].todo),
         \A u \in Threads : u # t => thread'[u] = thread[u]
  PROVE  CallsAreMatched(L)'
<1> DEFINE p == [by |-> t, req |-> request]
<1>1. /\ pending \subseteq [by : Threads \cup {Nobody}, req : FreeRequest(K)]
      /\ serving \in Threads \cup {Nobody} /\ (serving # Nobody => ctl # "idle")
      /\ \A u \in Threads : CallIsMatched(u)
      /\ \A x \in pending : x.by \in Threads /\ thread[x.by].pc = "wait" =>
           x.req = Head(thread[x.by].todo)
  BY DEF CallsAreMatched
<1>2. pending' = pending \cup {p} /\ p.by = t /\ p.req = request
  BY DEF Call
<1>3. pending' \subseteq [by : Threads \cup {Nobody}, req : FreeRequest(L)]
  <2>1. FreeRequest(K) \subseteq FreeRequest(L)
    BY MoreIsFree
  <2> QED
    BY <1>1, <1>2, <2>1
<1>4. serving # t /\ Own(t) = {}
  BY <1>1 DEF CallIsMatched, Waiting, Waits
<1> HIDE DEF p
<1>5. Own(t)' = {p} /\ p \in pending'
  BY <1>2, <1>4 DEF Own
<1>6. ASSUME NEW u \in Threads PROVE CallIsMatched(u)'
  <2>1. CASE u = t
    <3>1. Waiting(u)'
      BY <2>1 DEF Waiting, Waits
    <3> QED
      BY <1>4, <1>5, <2>1, <3>1 DEF CallIsMatched
  <2>2. CASE u # t
    <3>1. CallIsMatched(u)
      BY <1>1
    <3>2. Own(u)' = Own(u)
      BY <1>2, <2>2 DEF Own
    <3>3. Waiting(u)' <=> Waiting(u)
      BY <2>2 DEF Waiting
    <3> QED
      BY <1>2, <3>1, <3>2, <3>3 DEF CallIsMatched
  <2> QED
    BY <2>1, <2>2
<1>7. ASSUME NEW x \in pending', x.by \in Threads, thread'[x.by].pc = "wait"
      PROVE  x.req = Head(thread'[x.by].todo)
  <2>1. CASE x = p
    BY <1>2, <1>7, <2>1
  <2>2. CASE x # p
    <3>1. x \in pending /\ x \notin Own(t)
      BY <1>2, <1>4, <2>2
    <3>2. x.by # t
      BY <3>1 DEF Own
    <3> QED
      BY <1>1, <1>7, <3>1, <3>2
  <2> QED
    BY <2>1, <2>2
<1> QED
  BY <1>1, <1>3, <1>6, <1>7 DEF CallsAreMatched

\* A call to the exchange is made.
LEMMA PostIsSound ==
  ASSUME NEW K, NEW L, K \subseteq L, StateInv(K), NEW t \in Threads, Post(t)
  PROVE  StateInv(L)'
<1>1. EngineIsFree(K) /\ HandlersAreSound(K) /\ CallsAreMatched(K) /\ Accounts
  BY DEF StateInv
<1>2. PICK g \in Handler(K) : g = thread[t] /\ HandlerIsSound(g, K)
  BY <1>1, HandlerFacts
<1>3. g.pc = "post" /\ g.covers = <<>> /\ g.todo # <<>>
  BY <1>2 DEF Post, At, HandlerIsSound
<1>4. PICK request \in FreeRequest(K) : request = Head(g.todo)
  BY <1>2, <1>3 DEF HandlerIsSound
<1>5. PICK h : h = [g EXCEPT !.pc = "wait"]
  OBVIOUS
<1>6. thread' = [thread EXCEPT ![t] = h] /\ Call(t, request)
  BY <1>1, <1>2, <1>4, <1>5, HandlerFacts DEF Post, Go
<1>7. h \in Handler(K) /\ h.pc = "wait" /\ h.todo = g.todo /\ h.covers = <<>>
  BY <1>3, <1>5 DEF Handler, Pcs
<1>8. HandlerIsSound(h, K) /\ Waits(h) /\ ~Waits(g)
  BY <1>2, <1>3, <1>4, <1>7 DEF HandlerIsSound, Waits
<1>9. HandlerIsSound(h, L) /\ Owed(h) = Owed(g)
  BY <1>2, <1>3, <1>7, <1>8, SoundWithMore, OwedType
<1>10. /\ HandlersAreSound(L)' /\ thread'[t] = h
       /\ \A u \in Threads : u # t => thread'[u] = thread[u]
  BY <1>1, <1>6, <1>9, OneHandler
<1>11. UNCHANGED <<vars, serving, policies, now, jobs, faults, made, posts>>
  BY DEF Post
<1>12. EngineIsFree(L)'
  BY <1>1, <1>11, EngineUntouched
<1>13. CallsAreMatched(L)'
  <2>1. request \in FreeRequest(L) /\ ctl' = ctl
    BY <1>11, MoreIsFree DEF vars
  <2> QED
    BY <1>1, <1>2, <1>4, <1>6, <1>7, <1>8, <1>10, <1>11, <2>1, CallPlaced
<1>14. Accounts'
  <2>1. \A u \in Threads : Owed(thread'[u]) = Owed(thread[u])
    BY <1>2, <1>9, <1>10
  <2>2. CoversPostedOnce'
    BY <1>1, <1>11, <2>1, NothingPosted DEF Accounts
  <2> QED
    BY <1>1, <1>11, <2>2 DEF Accounts
<1> QED
  BY <1>10, <1>12, <1>13, <1>14 DEF StateInv

\* A cover is posted.
LEMMA PostCoverIsSound ==
  ASSUME NEW K, NEW L, K \subseteq L, StateInv(K), NEW t \in Threads, PostCover(t)
  PROVE  StateInv(L)'
<1>1. EngineIsFree(K) /\ HandlersAreSound(K) /\ CallsAreMatched(K) /\ Accounts
  BY DEF StateInv
<1>2. PICK g \in Handler(K) : g = thread[t] /\ HandlerIsSound(g, K)
  BY <1>1, HandlerFacts
<1>3. g.pc = "process" /\ g.covers # <<>> /\ g.todo # <<>>
  BY <1>2 DEF PostCover, At, HandlerIsSound
<1>4. PICK covers \in Seq(FreeCommand(K)) : covers = g.covers
  BY <1>2 DEF Handler
<1>5. Head(covers) \in FreeCommand(K) /\ Len(covers) \in Nat
  BY <1>3, <1>4
<1>6. PICK request \in FreeRequest(K) : request = [op |-> "send", cmd |-> Head(g.covers)]
  BY <1>4, <1>5 DEF FreeRequest
<1>7. PICK h : h = [g EXCEPT !.pc = "settle"]
  OBVIOUS
<1>8. thread' = [thread EXCEPT ![t] = h] /\ Call(t, request) /\ posts' = posts + 1
  BY <1>1, <1>2, <1>6, <1>7, HandlerFacts DEF PostCover, Go
<1>9. h \in Handler(K) /\ h.pc = "settle" /\ h.todo = g.todo /\ h.covers = covers
  BY <1>3, <1>4, <1>7 DEF Handler, Pcs
<1>10. HandlerIsSound(h, K) /\ Waits(h) /\ ~Waits(g)
  BY <1>2, <1>3, <1>4, <1>9 DEF HandlerIsSound, Waits
<1>11. HandlerIsSound(h, L) /\ Owed(h) = Len(covers) - 1 /\ Owed(g) = Len(covers)
  BY <1>3, <1>4, <1>5, <1>9, <1>10, SoundWithMore DEF Owed
<1>12. /\ HandlersAreSound(L)' /\ thread'[t] = h
       /\ \A u \in Threads : u # t => thread'[u] = thread[u]
  BY <1>1, <1>8, <1>11, OneHandler
<1>13. UNCHANGED <<vars, serving, policies, now, jobs, faults, made>>
  BY DEF PostCover
<1>14. EngineIsFree(L)'
  BY <1>1, <1>13, EngineUntouched
<1>15. CallsAreMatched(L)'
  <2>1. request \in FreeRequest(L) /\ ctl' = ctl /\ h.pc # "wait"
    BY <1>9, <1>13, MoreIsFree DEF vars
  <2> QED
    BY <1>1, <1>2, <1>8, <1>10, <1>12, <1>13, <2>1, CallPlaced
<1>16. Accounts'
  <2>1. posts \in Int /\ posts' \in Int /\ CoversPostedOnce
    BY <1>1, <1>8 DEF Accounts
  <2>2. Len(made) \in Nat /\ Len(made') = Len(made)
    BY <1>1, <1>13 DEF Accounts
  <2>3. posts' + Owed(thread'[t]) - Len(made') = posts + Owed(thread[t]) - Len(made)
    BY <1>2, <1>5, <1>8, <1>11, <1>12, <2>1, <2>2
  <2>4. CoversPostedOnce'
    BY <1>1, <1>12, <2>1, <2>2, <2>3, OneAccount
  <2> QED
    BY <1>1, <1>13, <2>1, <2>4 DEF Accounts
<1> QED
  BY <1>12, <1>14, <1>15, <1>16 DEF StateInv

(***************************************************************************)
(* Calls that end.                                                         *)
(***************************************************************************)
\* The call of t is over; nobody else's is touched.  What is left of it with the
\* exchange, if anything, is nobody's.
LEMMA CallEnded ==
  ASSUME NEW K, CallsAreMatched(K), NEW t \in Threads, ~Waits(thread'[t]),
         \A u \in Threads : u # t => thread'[u] = thread[u],
         pending \ Own(t) \subseteq pending',
         \A p \in pending' :
           \/ p \in pending \ Own(t)
           \/ p.by = Nobody /\ p \in [by : Threads \cup {Nobody}, req : FreeRequest(K)],
         serving' \in Threads \cup {Nobody}, serving' # Nobody => ctl' # "idle",
         \A u \in Threads : serving' = u <=> serving = u /\ u # t
  PROVE  CallsAreMatched(K)'
<1>1. /\ pending \subseteq [by : Threads \cup {Nobody}, req : FreeRequest(K)]
      /\ \A u \in Threads : CallIsMatched(u)
      /\ \A p \in pending : p.by \in Threads /\ thread[p.by].pc = "wait" =>
           p.req = Head(thread[p.by].todo)
  BY DEF CallsAreMatched
<1>2. Nobody \notin Threads
  BY AlgoCoverAssumption
<1>3. pending' \subseteq [by : Threads \cup {Nobody}, req : FreeRequest(K)]
  BY <1>1
<1>4. Own(t)' = {}
  BY <1>2 DEF Own
<1>5. \A u \in Threads : u # t => Own(u)' = Own(u)
  BY <1>2 DEF Own
<1>6. ASSUME NEW u \in Threads PROVE CallIsMatched(u)'
  <2>1. CASE u = t
    <3>1. ~Waiting(u)'
      BY <2>1 DEF Waiting, Waits
    <3> QED
      BY <1>4, <2>1, <3>1 DEF CallIsMatched
  <2>2. CASE u # t
    <3>1. Own(u)' = Own(u) /\ CallIsMatched(u) /\ (serving' = u <=> serving = u)
      BY <1>1, <1>5, <2>2
    <3>2. Waiting(u)' <=> Waiting(u)
      BY <2>2 DEF Waiting
    <3>3. ASSUME NEW p \in pending, Own(u) = {p}
          PROVE  \E x \in pending' : Own(u)' = {x}
      <4>1. p \in pending \ Own(t)
        BY <2>2, <3>3 DEF Own
      <4> QED
        BY <3>1, <3>3, <4>1
    <3>4. CASE Waiting(u)
      BY <3>1, <3>2, <3>3, <3>4 DEF CallIsMatched
    <3>5. CASE ~Waiting(u)
      BY <3>1, <3>2, <3>5 DEF CallIsMatched
    <3> QED
      BY <3>4, <3>5
  <2> QED
    BY <2>1, <2>2
<1>7. ASSUME NEW p \in pending', p.by \in Threads, thread'[p.by].pc = "wait"
      PROVE  p.req = Head(thread'[p.by].todo)
  <2>1. p \in pending /\ p.by # t
    BY <1>2, <1>7 DEF Own, Waits
  <2> QED
    BY <1>1, <1>7, <2>1
<1> QED
  BY <1>3, <1>6, <1>7 DEF CallsAreMatched

\* What a handler goes on with after its call, and the accounts of it.
LEMMA HandlerFreed ==
  ASSUME NEW K, StateInv(K), NEW t \in Threads, NEW h, thread' = [thread EXCEPT ![t] = h],
         HandlerIsSound(h, K), Owed(h) = Owed(thread[t]),
         UNCHANGED <<policies, now, jobs, made, posts>>, faults' \in 0..MaxFaults
  PROVE  /\ HandlersAreSound(K)' /\ Accounts' /\ thread'[t] = h
         /\ \A u \in Threads : u # t => thread'[u] = thread[u]
<1>1. HandlersAreSound(K) /\ Accounts
  BY DEF StateInv
<1>2. /\ HandlersAreSound(K)' /\ thread'[t] = h
      /\ \A u \in Threads : u # t => thread'[u] = thread[u]
  BY <1>1, OneHandler
<1>3. \A u \in Threads : Owed(thread'[u]) = Owed(thread[u])
  BY <1>2
<1>4. CoversPostedOnce'
  BY <1>1, <1>3, NothingPosted DEF Accounts
<1>5. Accounts'
  BY <1>1, <1>4 DEF Accounts
<1> QED
  BY <1>2, <1>5

\* A fault counts against the bound on faults.
LEMMA OneFaultLess ==
  ASSUME Fault, faults \in 0..MaxFaults
  PROVE  faults' \in 0..MaxFaults
  BY AlgoCoverAssumption DEF Fault

\* A handler's requests are with the exchange only while it waits.
LEMMA OwnerWaits ==
  ASSUME NEW K, CallsAreMatched(K), NEW t \in Threads, Own(t) # {}
  PROVE  Waits(thread[t]) /\ serving # t
  BY DEF CallsAreMatched, CallIsMatched, Waiting, Waits

\* A call that does not reach the exchange.
LEMMA UnreachableIsSound ==
  ASSUME NEW K, StateInv(K), NEW t \in Threads, Unreachable(t)
  PROVE  StateInv(K)'
<1>1. EngineIsFree(K) /\ HandlersAreSound(K) /\ CallsAreMatched(K) /\ Accounts
  BY DEF StateInv
<1>2. PICK g \in Handler(K) : g = thread[t] /\ HandlerIsSound(g, K)
  BY <1>1, HandlerFacts
<1>3. Waits(g) /\ serving # t
  BY <1>1, <1>2, OwnerWaits DEF Unreachable
<1>4. PICK h : h = Failed(g)
  OBVIOUS
<1>5. HandlerIsSound(h, K) /\ Owed(h) = Owed(thread[t]) /\ ~Waits(h)
  BY <1>2, <1>3, <1>4, FailedIsSound
<1>6. thread' = [thread EXCEPT ![t] = h] /\ pending' = pending \ Own(t) /\ Fault
      /\ UNCHANGED <<vars, serving, policies, now, jobs, made, posts>>
  BY <1>1, <1>2, <1>4, HandlerFacts DEF Unreachable
<1>7. faults' \in 0..MaxFaults
  BY <1>1, <1>6, OneFaultLess DEF Accounts
<1>8. /\ HandlersAreSound(K)' /\ Accounts' /\ thread'[t] = h
      /\ \A u \in Threads : u # t => thread'[u] = thread[u]
  BY <1>5, <1>6, <1>7, HandlerFreed
<1>9. CallsAreMatched(K)'
  <2>1. /\ serving' = serving /\ serving \in Threads \cup {Nobody}
        /\ serving # Nobody => ctl # "idle"
        /\ ctl' = ctl
    BY <1>1, <1>6 DEF CallsAreMatched, vars
  <2> QED
    BY <1>1, <1>3, <1>5, <1>6, <1>8, <2>1, CallEnded
<1>10. EngineIsFree(K)'
  BY <1>1, <1>6, EngineUntouched
<1> QED
  BY <1>8, <1>9, <1>10 DEF StateInv

\* A call the gateway no longer waits for.
LEMMA TimeOutIsSound ==
  ASSUME NEW K, StateInv(K), NEW t \in Threads, TimeOut(t)
  PROVE  StateInv(K)'
<1>1. EngineIsFree(K) /\ HandlersAreSound(K) /\ CallsAreMatched(K) /\ Accounts
  BY DEF StateInv
<1>2. PICK g \in Handler(K) : g = thread[t] /\ HandlerIsSound(g, K)
  BY <1>1, HandlerFacts
<1>3. Waits(g)
  BY <1>2 DEF TimeOut, Waiting, Waits
<1>4. PICK h : h = Failed(g)
  OBVIOUS
<1>5. HandlerIsSound(h, K) /\ Owed(h) = Owed(thread[t]) /\ ~Waits(h)
  BY <1>2, <1>3, <1>4, FailedIsSound
<1>6. thread' = [thread EXCEPT ![t] = h] /\ Disown(t) /\ Fault
      /\ UNCHANGED <<vars, policies, now, jobs, made, posts>>
  BY <1>1, <1>2, <1>4, HandlerFacts DEF TimeOut
<1>7. faults' \in 0..MaxFaults
  BY <1>1, <1>6, OneFaultLess DEF Accounts
<1>8. /\ HandlersAreSound(K)' /\ Accounts' /\ thread'[t] = h
      /\ \A u \in Threads : u # t => thread'[u] = thread[u]
  BY <1>5, <1>6, <1>7, HandlerFreed
<1>9. CallsAreMatched(K)'
  <2>1. /\ serving \in Threads \cup {Nobody} /\ (serving # Nobody => ctl # "idle")
        /\ pending \subseteq [by : Threads \cup {Nobody}, req : FreeRequest(K)]
        /\ ctl' = ctl
    BY <1>1, <1>6 DEF CallsAreMatched, vars
  <2>2. /\ pending' = (pending \ Own(t)) \cup {[p EXCEPT !.by = Nobody] : p \in Own(t)}
        /\ serving' = IF serving = t THEN Nobody ELSE serving
    BY <1>6 DEF Disown
  <2>3. \A p \in Own(t) :
          LET x == [p EXCEPT !.by = Nobody]
          IN x.by = Nobody /\ x \in [by : Threads \cup {Nobody}, req : FreeRequest(K)]
    BY <2>1 DEF Own
  <2>4. \A u \in Threads : serving' = u <=> serving = u /\ u # t
    BY <2>2, AlgoCoverAssumption
  <2>5. serving' \in Threads \cup {Nobody} /\ (serving' # Nobody => ctl' # "idle")
    BY <2>1, <2>2
  <2>6. \A p \in pending' :
          \/ p \in pending \ Own(t)
          \/ p.by = Nobody /\ p \in [by : Threads \cup {Nobody}, req : FreeRequest(K)]
    BY <2>2, <2>3
  <2>7. pending \ Own(t) \subseteq pending'
    BY <2>2
  <2> QED
    BY <1>1, <1>5, <1>8, <2>4, <2>5, <2>6, <2>7, CallEnded
<1>10. EngineIsFree(K)'
  BY <1>1, <1>6, EngineUntouched
<1> QED
  BY <1>8, <1>9, <1>10 DEF StateInv

\* The exchange's answer to the call of t ends it.
LEMMA DeliveredIsSound ==
  ASSUME NEW K, StateInv(K), NEW t \in Threads, Deliver(t), Waits(thread[t]),
         thread[t].pc = "wait" /\ Head(thread[t].todo).op \in {"send", "market"} => Answers(K)',
         UNCHANGED <<policies, now, jobs, faults, made, posts>>,
         pending' = pending \ Own(t), serving' = Nobody, \A u \in Threads : u # t => serving # u
  PROVE  HandlersAreSound(K)' /\ Accounts' /\ CallsAreMatched(K)'
<1>1. HandlersAreSound(K) /\ CallsAreMatched(K) /\ Accounts /\ Nobody \notin Threads
  BY AlgoCoverAssumption DEF StateInv
<1>2. PICK g \in Handler(K) : g = thread[t] /\ HandlerIsSound(g, K)
  BY <1>1, HandlerFacts
<1>3. PICK reports : reports = batch'.reports
  OBVIOUS
<1>4. PICK h : h = Answered(g, reports)
  OBVIOUS
<1>5. HandlerIsSound(h, K) /\ Owed(h) = Owed(thread[t]) /\ ~Waits(h)
  <2>1. g.pc = "wait" /\ Head(g.todo).op \in {"send", "market"} => reports \in Seq(FreeReport(K))
    BY <1>2, <1>3 DEF Answers
  <2> QED
    BY <1>2, <1>4, <2>1, AnsweredIsSound
<1>6. thread' = [thread EXCEPT ![t] = h]
  BY <1>1, <1>2, <1>3, <1>4, HandlerFacts DEF Deliver
<1>7. faults' \in 0..MaxFaults
  BY <1>1 DEF Accounts
<1>8. /\ HandlersAreSound(K)' /\ Accounts' /\ thread'[t] = h
      /\ \A u \in Threads : u # t => thread'[u] = thread[u]
  BY <1>5, <1>6, <1>7, HandlerFreed
<1>9. CallsAreMatched(K)'
  BY <1>1, <1>5, <1>8, CallEnded
<1> QED
  BY <1>8, <1>9

\* Nothing is told to anyone.
LEMMA NobodyHears ==
  ASSUME NEW K, StateInv(K), UNCHANGED <<thread, policies, now, jobs, faults, made, posts>>
  PROVE  HandlersAreSound(K)' /\ Accounts'
<1>1. HandlersAreSound(K) /\ Accounts
  BY DEF StateInv
<1>2. HandlersAreSound(K)'
  BY <1>1 DEF HandlersAreSound
<1>3. CoversPostedOnce'
  BY <1>1, NothingPosted DEF Accounts
<1> QED
  BY <1>1, <1>2, <1>3 DEF Accounts

\* The exchange takes up a call it does not answer at once, or whose caller gave up.
LEMMA TakenUp ==
  ASSUME NEW K, CallsAreMatched(K), NEW p \in pending, pending' = pending \ {p}, thread' = thread,
         serving = Nobody, serving' = p.by, p.by \in Threads => ctl' # "idle"
  PROVE  CallsAreMatched(K)'
<1>1. /\ pending \subseteq [by : Threads \cup {Nobody}, req : FreeRequest(K)]
      /\ \A u \in Threads : CallIsMatched(u)
      /\ \A x \in pending : x.by \in Threads /\ thread[x.by].pc = "wait" =>
           x.req = Head(thread[x.by].todo)
  BY DEF CallsAreMatched
<1>2. Nobody \notin Threads /\ p.by \in Threads \cup {Nobody}
  BY <1>1, AlgoCoverAssumption
<1>3. ASSUME NEW u \in Threads PROVE CallIsMatched(u)'
  <2>1. Waiting(u)' <=> Waiting(u)
    BY DEF Waiting
  <2>2. CASE u = p.by
    <3>1. p \in Own(u)
      BY <2>2 DEF Own
    <3>2. Waiting(u) /\ Own(u) = {p}
      BY <1>1, <3>1 DEF CallIsMatched
    <3>3. Own(u)' = {}
      BY <3>2 DEF Own
    <3> QED
      BY <2>1, <2>2, <3>2, <3>3 DEF CallIsMatched
  <2>3. CASE u # p.by
    <3>1. Own(u)' = Own(u) /\ p \notin Own(u)
      BY <2>3 DEF Own
    <3>2. CallIsMatched(u) /\ serving # u /\ serving' # u
      BY <1>1, <1>2, <2>3
    <3>3. ASSUME NEW x \in pending, Own(u) = {x} PROVE \E y \in pending' : Own(u)' = {y}
      BY <3>1, <3>3
    <3>4. CASE Waiting(u)
      BY <2>1, <3>1, <3>2, <3>3, <3>4 DEF CallIsMatched
    <3>5. CASE ~Waiting(u)
      BY <2>1, <3>1, <3>2, <3>5 DEF CallIsMatched
    <3> QED
      BY <3>4, <3>5
  <2> QED
    BY <2>2, <2>3
<1> QED
  BY <1>1, <1>2, <1>3 DEF CallsAreMatched

\* The exchange takes a call up.
LEMMA ServeIsSound ==
  ASSUME NEW K, StateInv(K), NEW p \in pending, Serve(p)
  PROVE  StateInv(K)'
<1>1. EngineIsFree(K) /\ HandlersAreSound(K) /\ CallsAreMatched(K) /\ Accounts
  BY DEF StateInv
<1>2. /\ pending' = pending \ {p} /\ Perform(p.req)
      /\ UNCHANGED <<policies, now, jobs, faults, made, posts>>
      /\ \/ ctl' = "idle" /\ Deliver(p.by) /\ UNCHANGED serving
         \/ ctl' # "idle" /\ serving' = p.by /\ UNCHANGED thread
  BY DEF Serve
<1>3. /\ pending \subseteq [by : Threads \cup {Nobody}, req : FreeRequest(K)]
      /\ serving \in Threads \cup {Nobody} /\ (serving # Nobody => ctl # "idle")
      /\ \A u \in Threads : CallIsMatched(u)
      /\ p.by \in Threads /\ thread[p.by].pc = "wait" => p.req = Head(thread[p.by].todo)
  BY <1>1 DEF CallsAreMatched
<1>4. p.by \in Threads \cup {Nobody} /\ p.req \in FreeRequest(K)
  BY <1>3
<1>5. ctl = "idle"
  BY <1>2 DEF Perform, SubmitOrder, CancelOrder, UnknownOrder, ApplyMarketData, Reset, Ready
<1>6. serving = Nobody /\ Nobody \notin Threads
  BY <1>3, <1>5, AlgoCoverAssumption
<1>7. PICK request \in FreeRequest(K) : request = p.req
  BY <1>4
<1>8. /\ EngineIsFree(K)'
      /\ request.op # "cancel" /\ request.op # "reset" => Answers(K)'
      /\ request.op \in {"cancel", "reset"} => ctl' = "idle"
  BY <1>1, <1>2, <1>7, PerformIsFree
<1>9. CASE p.by \in Threads /\ ctl' = "idle"
  <2>1. PICK t \in Threads : t = p.by
    BY <1>9
  <2>2. p \in Own(t)
    BY <2>1 DEF Own
  <2>3. Waits(thread[t]) /\ Own(t) = {p}
    BY <1>3, <1>6, <2>2 DEF CallIsMatched, Waiting, Waits
  <2>4. Deliver(t) /\ serving' = Nobody /\ pending' = pending \ Own(t)
    BY <1>2, <1>6, <1>9, <2>1, <2>3
  <2>5. thread[t].pc = "wait" /\ Head(thread[t].todo).op \in {"send", "market"} => Answers(K)'
    BY <1>3, <1>7, <1>8, <2>1
  <2>6. HandlersAreSound(K)' /\ Accounts' /\ CallsAreMatched(K)'
    BY <1>2, <1>6, <2>3, <2>4, <2>5, DeliveredIsSound
  <2> QED
    BY <1>8, <2>6 DEF StateInv
<1>10. CASE p.by = Nobody \/ ctl' # "idle"
  <2>1. thread' = thread /\ serving' = p.by
    BY <1>2, <1>6, <1>10 DEF Deliver
  <2>2. HandlersAreSound(K)' /\ Accounts'
    BY <1>2, <2>1, NobodyHears
  <2>3. p.by \in Threads => ctl' # "idle"
    BY <1>6, <1>10
  <2>4. CallsAreMatched(K)'
    BY <1>1, <1>2, <1>6, <2>1, <2>3, TakenUp
  <2> QED
    BY <1>8, <2>2, <2>4 DEF StateInv
<1> QED
  BY <1>4, <1>9, <1>10

\* The exchange goes on with the call it serves.
LEMMA ServeOnIsSound ==
  ASSUME NEW K, StateInv(K), ServeOn
  PROVE  StateInv(K)'
<1>1. EngineIsFree(K) /\ HandlersAreSound(K) /\ CallsAreMatched(K) /\ Accounts
  BY DEF StateInv
<1>2. /\ Step /\ UNCHANGED <<policies, pending, now, jobs, faults, made, posts>>
      /\ \/ ctl' = "idle" /\ Deliver(serving) /\ serving' = Nobody
         \/ ctl' # "idle" /\ UNCHANGED <<thread, serving>>
  BY DEF ServeOn
<1>3. EngineIsFree(K)' /\ Answers(K)'
  BY <1>1, <1>2, StepIsFree
<1>4. /\ serving \in Threads \cup {Nobody} /\ Nobody \notin Threads
      /\ \A u \in Threads : CallIsMatched(u)
  BY <1>1, AlgoCoverAssumption DEF CallsAreMatched
<1>5. CASE serving \in Threads /\ ctl' = "idle"
  <2>1. PICK t \in Threads : t = serving
    BY <1>5
  <2>2. Waits(thread[t]) /\ Own(t) = {}
    BY <1>4, <2>1 DEF CallIsMatched, Waiting, Waits
  <2>3. Deliver(t) /\ serving' = Nobody /\ pending' = pending \ Own(t)
    BY <1>2, <1>5, <2>1, <2>2
  <2>4. HandlersAreSound(K)' /\ Accounts' /\ CallsAreMatched(K)'
    BY <1>2, <1>3, <2>1, <2>2, <2>3, DeliveredIsSound
  <2> QED
    BY <1>3, <2>4 DEF StateInv
<1>6. CASE serving = Nobody \/ ctl' # "idle"
  <2>1. thread' = thread /\ serving' = serving /\ (serving # Nobody => ctl' # "idle")
    BY <1>2, <1>6 DEF Deliver
  <2>2. HandlersAreSound(K)' /\ Accounts'
    BY <1>2, <2>1, NobodyHears
  <2>3. CallsAreMatched(K)'
    BY <1>1, <1>2, <2>1, CallsKept
  <2> QED
    BY <1>3, <2>2, <2>3 DEF StateInv
<1> QED
  BY <1>4, <1>5, <1>6

\* Every call in flight fails.
LEMMA ExchangeCrashIsSound ==
  ASSUME NEW K, StateInv(K), ExchangeCrash
  PROVE  StateInv(K)'
<1>1. EngineIsFree(K) /\ HandlersAreSound(K) /\ CallsAreMatched(K) /\ Accounts
  BY DEF StateInv
<1>2. /\ Fault /\ Restart /\ pending' = {} /\ serving' = Nobody
      /\ thread' = [t \in Threads |-> IF Waiting(t) THEN Failed(thread[t]) ELSE thread[t]]
      /\ UNCHANGED <<policies, now, jobs, made, posts>>
  BY DEF ExchangeCrash
<1>3. EngineIsFree(K)'
  BY <1>2, RestartIsFree
<1>4. ASSUME NEW t \in Threads
      PROVE  /\ HandlerIsSound(thread'[t], K) /\ Owed(thread'[t]) = Owed(thread[t])
             /\ ~Waits(thread'[t])
  <2>1. HandlerIsSound(thread[t], K)
    BY <1>1 DEF HandlersAreSound
  <2>2. CASE Waiting(t)
    <3>1. Waits(thread[t]) /\ thread'[t] = Failed(thread[t])
      BY <1>2, <2>2 DEF Waiting, Waits
    <3> QED
      BY <2>1, <3>1, FailedIsSound
  <2>3. CASE ~Waiting(t)
    <3>1. ~Waits(thread[t]) /\ thread'[t] = thread[t]
      BY <1>2, <2>3 DEF Waiting, Waits
    <3> QED
      BY <2>1, <3>1
  <2> QED
    BY <2>2, <2>3
<1>5. HandlersAreSound(K)'
  <2>1. thread' = [t \in Threads |-> thread'[t]]
    BY <1>2
  <2> QED
    BY <1>4, <2>1 DEF HandlersAreSound
<1>6. CallsAreMatched(K)'
  <2>1. \A t \in Threads : CallIsMatched(t)'
    <3> TAKE t \in Threads
    <3>1. ~Waiting(t)'
      BY <1>4 DEF Waiting, Waits
    <3>2. Own(t)' = {} /\ serving' # t
      BY <1>2, AlgoCoverAssumption DEF Own
    <3> QED
      BY <3>1, <3>2 DEF CallIsMatched
  <2> QED
    BY <1>2, <2>1 DEF CallsAreMatched
<1>7. Accounts'
  <2>1. CoversPostedOnce'
    BY <1>1, <1>2, <1>4, NothingPosted DEF Accounts
  <2>2. faults' \in 0..MaxFaults
    BY <1>1, <1>2, OneFaultLess DEF Accounts
  <2> QED
    BY <1>1, <1>2, <2>1, <2>2 DEF Accounts
<1> QED
  BY <1>3, <1>5, <1>6, <1>7 DEF StateInv

\* Nothing is owed where no handler is at work.
LEMMA NothingOwed ==
  ASSUME \A t \in Threads : thread'[t] = Idle, made' = <<>>, posts' = 0
  PROVE  CoversPostedOnce'
<1> DEFINE f == [t \in Threads |-> Unposted(t)']
<1>1. \A t \in Threads : f[t] = 0
  BY DEF Unposted, Idle, At
<1>2. SumFunctionOnSet(f, Threads) = 0
  <2> HIDE DEF f
  <2> QED
    BY <1>1, ThreadsAreFinite, SumOfZeros
<1> QED
  BY <1>2 DEF CoversPostedOnce

\* The gateway starts over, with no handler at work and nobody waiting for an answer.
LEMMA GatewayCrashIsSound ==
  ASSUME NEW K, NEW L, K \subseteq L, StateInv(K), GatewayCrash
  PROVE  StateInv(L)'
<1>1. EngineIsFree(K) /\ CallsAreMatched(K) /\ Accounts
  BY DEF StateInv
<1>2. /\ Fault /\ policies' = {} /\ thread' = [t \in Threads |-> Idle]
      /\ pending' = {[p EXCEPT !.by = Nobody] : p \in pending} /\ serving' = Nobody
      /\ made' = <<>> /\ posts' = 0 /\ UNCHANGED <<vars, now, jobs>>
  BY DEF GatewayCrash
<1>3. EngineIsFree(L)'
  BY <1>1, <1>2, EngineUntouched
<1>4. HandlersAreSound(L)'
  <2>1. \A t \in Threads : thread'[t] = Idle /\ HandlerIsSound(thread'[t], L)
    BY <1>2, IdleIsSound
  <2>2. thread' = [t \in Threads |-> thread'[t]]
    BY <1>2
  <2> QED
    BY <2>1, <2>2 DEF HandlersAreSound
<1>5. CallsAreMatched(L)'
  <2>1. pending \subseteq [by : Threads \cup {Nobody}, req : FreeRequest(L)]
    BY <1>1, MoreIsFree DEF CallsAreMatched
  <2>2. \A p \in pending' :
          p.by = Nobody /\ p \in [by : Threads \cup {Nobody}, req : FreeRequest(L)]
    BY <1>2, <2>1
  <2>3. Nobody \notin Threads
    BY AlgoCoverAssumption
  <2>4. \A t \in Threads : CallIsMatched(t)'
    <3> TAKE t \in Threads
    <3>1. ~Waiting(t)'
      BY <1>2 DEF Waiting, Idle
    <3>2. Own(t)' = {} /\ serving' # t
      BY <1>2, <2>2, <2>3 DEF Own
    <3> QED
      BY <3>1, <3>2 DEF CallIsMatched
  <2> QED
    BY <1>2, <2>2, <2>3, <2>4 DEF CallsAreMatched
<1>6. Accounts'
  <2>1. CoversPostedOnce'
    BY <1>2, NothingOwed
  <2>2. faults' \in 0..MaxFaults
    BY <1>1, <1>2, OneFaultLess DEF Accounts
  <2> QED
    BY <1>1, <1>2, <2>1, <2>2 DEF Accounts
<1> QED
  BY <1>3, <1>4, <1>5, <1>6 DEF StateInv

(***************************************************************************)
(* The invariant, and what it says.                                        *)
(***************************************************************************)
LEMMA HandlersStart == CoverInit => HandlersInv
<1> SUFFICES ASSUME CoverInit
             PROVE  HandlersInv
  OBVIOUS
<1>1. PICK K : K = Known
  OBVIOUS
<1>2. K \in SUBSET (Ids \cup {NoId})
  BY <1>1 DEF Known
<1>3. /\ Init /\ policies = {} /\ thread = [t \in Threads |-> Idle] /\ pending = {}
      /\ serving = Nobody /\ now = 0 /\ jobs = Jobs /\ faults = MaxFaults
      /\ made = <<>> /\ posts = 0
  BY DEF CoverInit
<1>4. EngineIsFree(K)
  <2>1. /\ queue = EmptyBook /\ registry = [id \in Ids |-> Nowhere] /\ sequence = 0
        /\ ctl = "idle" /\ batch = EmptyBatch
    BY <1>3 DEF Init
  <2>2. \A s \in Products, d \in Sides, p \in Ticks : queue[s][d][p] = <<>>
    BY <2>1 DEF EmptyBook
  <2>3. queue \in [Products -> [Sides -> [Ticks -> Seq(FreeOrder(K))]]]
    <3>1. <<>> \in Seq(FreeOrder(K))
      OBVIOUS
    <3> QED
      BY <2>1, <3>1 DEF EmptyBook
  <2>4. BooksAreFree(K)
    BY <2>1, <2>2, <2>3 DEF BooksAreFree
  <2>5. OperationIsFree(K)
    BY <2>1 DEF OperationIsFree, EmptyBatch
  <2> QED
    BY <2>4, <2>5 DEF EngineIsFree
<1>5. HandlersAreSound(K)
  <2>1. \A t \in Threads : thread[t] = Idle /\ HandlerIsSound(thread[t], K)
    BY <1>3, IdleIsSound
  <2>2. thread = [t \in Threads |-> thread[t]]
    BY <1>3
  <2> QED
    BY <2>1, <2>2 DEF HandlersAreSound
<1>6. CallsAreMatched(K)
  <2>1. \A t \in Threads : CallIsMatched(t)
    <3> TAKE t \in Threads
    <3>1. ~Waiting(t) /\ Own(t) = {} /\ serving # t
      BY <1>3, AlgoCoverAssumption DEF Waiting, Idle, Own
    <3> QED
      BY <3>1 DEF CallIsMatched
  <2> QED
    BY <1>3, <2>1 DEF CallsAreMatched
<1>7. Accounts
  <2>1. CoversPostedOnce
    <3> DEFINE f == [t \in Threads |-> Unposted(t)]
    <3>1. \A t \in Threads : f[t] = 0
      BY <1>3 DEF Unposted, Idle, At
    <3>2. SumFunctionOnSet(f, Threads) = 0
      <4> HIDE DEF f
      <4> QED
        BY <3>1, ThreadsAreFinite, SumOfZeros
    <3> QED
      BY <1>3, <3>2 DEF CoversPostedOnce
  <2> QED
    BY <1>3, <2>1, AlgoCoverAssumption DEF Accounts
<1> QED
  BY <1>1, <1>2, <1>4, <1>5, <1>6, <1>7 DEF HandlersInv, StateInv

\* What is known stays known: a policy is dropped only with all of them.
LEMMA KnownGrows ==
  ASSUME CoverNext
  PROVE  Known \subseteq Known'
<1>1. CASE forgot' = forgot /\ policies \subseteq policies'
  BY <1>1 DEF Known
<1>2. CASE forgot' = TRUE
  BY <1>2 DEF Known
<1>3. CASE ExchangeCrash \/ GatewayCrash
  BY <1>1, <1>2, <1>3 DEF ExchangeCrash, GatewayCrash
<1>4. CASE Exchanges
  BY <1>1, <1>4 DEF Exchanges, Serve, ServeOn
<1>5. ASSUME NEW t \in Threads, NEW j \in jobs, Start(t, j)
      PROVE  Known \subseteq Known'
  BY <1>1, <1>5 DEF Start
<1>6. ASSUME NEW t \in Threads, Unreachable(t) \/ TimeOut(t)
      PROVE  Known \subseteq Known'
  BY <1>1, <1>6 DEF Unreachable, TimeOut
<1>7. ASSUME NEW t \in Threads, Handle(t)
      PROVE  Known \subseteq Known'
  <2>1. CASE Remember(t)
    <3>1. forgot' = forgot /\ policies \subseteq policies'
      BY <2>1 DEF Remember
    <3> QED
      BY <1>1, <3>1
  <2>2. CASE ClearSession(t)
    BY <1>2, <2>2 DEF ClearSession
  <2>3. CASE ProcessEvent(t)
    <3>1. policies' = policies /\ forgot' = forgot
      BY <2>3 DEF ProcessEvent, KeepPolicy
    <3> QED
      BY <1>1, <3>1
  <2>4. CASE Post(t) \/ PostCover(t) \/ NextRequest(t)
    BY <1>1, <2>4 DEF Post, PostCover, NextRequest
  <2> QED
    BY <1>7, <2>1, <2>2, <2>3, <2>4 DEF Handle
<1> QED
  BY <1>3, <1>4, <1>5, <1>6, <1>7 DEF CoverNext

\* Calls, answers and failures store no policy and forget none.
LEMMA KnownStays ==
  ASSUME UNCHANGED <<policies, forgot>>
  PROVE  Known' = Known
  BY DEF Known

\* Every step.
LEMMA CoverStepIsSound ==
  ASSUME HandlersInv, CoverNext
  PROVE  HandlersInv'
<1>1. PICK K \in SUBSET (Ids \cup {NoId}) : K = Known /\ StateInv(K)
  BY DEF HandlersInv
<1>2. PICK L : L = Known'
  OBVIOUS
<1>3. K \subseteq L /\ L \in SUBSET (Ids \cup {NoId})
  BY <1>1, <1>2, KnownGrows DEF Known
<1>4. StateInv(L)'
  <2>1. ASSUME NEW t \in Threads, NEW j \in jobs, Start(t, j)
        PROVE  StateInv(L)'
    BY <1>1, <1>3, <2>1, StartIsSound
  <2>2. ASSUME NEW t \in Threads, Remember(t)
        PROVE  StateInv(L)'
    BY <1>1, <1>2, <1>3, <2>2, RememberIsSound
  <2>3. ASSUME NEW t \in Threads, ClearSession(t)
        PROVE  StateInv(L)'
    BY <1>1, <1>2, <1>3, <2>3, ClearIsSound
  <2>4. ASSUME NEW t \in Threads, Post(t)
        PROVE  StateInv(L)'
    BY <1>1, <1>3, <2>4, PostIsSound
  <2>5. ASSUME NEW t \in Threads, ProcessEvent(t)
        PROVE  StateInv(L)'
    BY <1>1, <1>3, <2>5, ProcessEventIsSound
  <2>6. ASSUME NEW t \in Threads, PostCover(t)
        PROVE  StateInv(L)'
    BY <1>1, <1>3, <2>6, PostCoverIsSound
  <2>7. ASSUME NEW t \in Threads, NextRequest(t)
        PROVE  StateInv(L)'
    BY <1>1, <1>3, <2>7, NextRequestIsSound
  <2>8. ASSUME NEW t \in Threads, Unreachable(t)
        PROVE  StateInv(L)'
    <3>1. L = K
      BY <1>1, <1>2, <2>8, KnownStays DEF Unreachable
    <3> QED
      BY <1>1, <2>8, <3>1, UnreachableIsSound
  <2>9. ASSUME NEW t \in Threads, TimeOut(t)
        PROVE  StateInv(L)'
    <3>1. L = K
      BY <1>1, <1>2, <2>9, KnownStays DEF TimeOut
    <3> QED
      BY <1>1, <2>9, <3>1, TimeOutIsSound
  <2>10. ASSUME NEW p \in pending, Serve(p)
         PROVE  StateInv(L)'
    <3>1. L = K
      BY <1>1, <1>2, <2>10, KnownStays DEF Serve
    <3> QED
      BY <1>1, <2>10, <3>1, ServeIsSound
  <2>11. CASE ServeOn
    <3>1. L = K
      BY <1>1, <1>2, <2>11, KnownStays DEF ServeOn
    <3> QED
      BY <1>1, <2>11, <3>1, ServeOnIsSound
  <2>12. CASE ExchangeCrash
    <3>1. L = K
      BY <1>1, <1>2, <2>12, KnownStays DEF ExchangeCrash
    <3> QED
      BY <1>1, <2>12, <3>1, ExchangeCrashIsSound
  <2>13. CASE GatewayCrash
    BY <1>1, <1>3, <2>13, GatewayCrashIsSound
  <2> QED
    BY <2>1, <2>2, <2>3, <2>4, <2>5, <2>6, <2>7, <2>8, <2>9, <2>10, <2>11, <2>12, <2>13
    DEF CoverNext, Handle, Exchanges
<1> QED
  BY <1>2, <1>3, <1>4 DEF HandlersInv

\* And none.
LEMMA CoverStutterIsSound ==
  ASSUME HandlersInv, UNCHANGED coverVars
  PROVE  HandlersInv'
<1>1. PICK K \in SUBSET (Ids \cup {NoId}) : K = Known /\ StateInv(K)
  BY DEF HandlersInv
<1>2. /\ UNCHANGED vars
      /\ UNCHANGED <<policies, thread, pending, serving, now, jobs, faults, made, posts, forgot>>
  BY DEF coverVars, relay
<1>3. EngineIsFree(K) /\ CallsAreMatched(K)
  BY <1>1 DEF StateInv
<1>4. EngineIsFree(K)'
  BY <1>2, <1>3, EngineUntouched
<1>5. HandlersAreSound(K)' /\ Accounts'
  BY <1>1, <1>2, NobodyHears
<1>6. CallsAreMatched(K)'
  BY <1>2, <1>3, CallsUntouched DEF vars
<1>7. Known' = K
  BY <1>1, <1>2, KnownStays
<1> QED
  BY <1>4, <1>5, <1>6, <1>7 DEF HandlersInv, StateInv

\* Every handler, call and account of the gateway is sound in every reachable state,
\* whatever fails: what a thread holds, what the exchange has of it and what the books
\* rest fits the policies that are stored.
THEOREM HandlersStaySound == CoverSpec => []HandlersInv
<1>1. HandlersInv /\ [CoverNext]_coverVars => HandlersInv'
  BY CoverStepIsSound, CoverStutterIsSound
<1> QED
  BY <1>1, HandlersStart, PTL DEF CoverSpec

\* An order's policy is stored before anyone can hear of the order: remember_algo_cover_policy
\* comes before execution_post, and no answer of the exchange names an order before.
THEOREM PoliciesComeFirst == CoverSpec => []PolicyBeforeReport
<1>1. ASSUME HandlersInv
      PROVE  PolicyBeforeReport
  <2>1. PICK K \in SUBSET (Ids \cup {NoId}) : K = Known /\ StateInv(K)
    BY <1>1 DEF HandlersInv
  <2>2. ASSUME ~forgot, NEW t \in Threads, NEW i \in DOMAIN thread[t].reply,
               thread[t].reply[i].id \in EntryIds
        PROVE  thread[t].reply[i].id \in policies
    <3>1. thread[t] \in Handler(K)
      BY <2>1, HandlerFacts DEF StateInv
    <3>2. PICK reply \in Seq(FreeEvent(K)) : reply = thread[t].reply
      BY <3>1 DEF Handler
    <3>3. reply[i] \in FreeEvent(K)
      BY <2>2, <3>2
    <3>4. reply[i].id \in Known
      BY <2>1, <3>3 DEF FreeEvent
    <3> QED
      BY <2>2, <3>2, <3>4 DEF Known
  <2> QED
    BY <2>2 DEF PolicyBeforeReport
<1> QED
  BY <1>1, HandlersStaySound, PTL

\* A call is with the exchange exactly while its handler waits.
LEMMA CallsCount ==
  ASSUME NEW t \in Threads, CallIsMatched(t)
  PROVE  Cardinality(Own(t)) + (IF serving = t THEN 1 ELSE 0) = (IF Waiting(t) THEN 1 ELSE 0)
<1>1. CASE Own(t) = {}
  <2>1. Cardinality(Own(t)) = 0
    BY <1>1, FS_EmptySet
  <2> QED
    BY <1>1, <2>1 DEF CallIsMatched
<1>2. CASE Own(t) # {}
  <2>1. Waiting(t) /\ serving # t /\ \E p \in pending : Own(t) = {p}
    BY <1>2 DEF CallIsMatched
  <2>2. Cardinality(Own(t)) = 1
    BY <2>1, FS_Singleton
  <2> QED
    BY <2>1, <2>2
<1> QED
  BY <1>1, <1>2

\* A handler carries what it read of through to the end, once (process_exchange_fill_events):
\* covers of entries only, on the opposite side, each posted once, whatever fails.
THEOREM CoversStaySound == CoverSpec => []CoversAreSound
<1>1. ASSUME HandlersInv
      PROVE  CoversAreSound
  <2>1. PICK K \in SUBSET (Ids \cup {NoId}) : K = Known /\ StateInv(K)
    BY <1>1 DEF HandlersInv
  <2>2. EngineIsFree(K) /\ HandlersAreSound(K) /\ CallsAreMatched(K) /\ Accounts
    BY <2>1 DEF StateInv
  <2>3. CoverTypeOK
    <3>1. \A t \in Threads : thread[t].pc \in Pcs
      BY <2>2, HandlerFacts DEF Handler
    <3>2. \A t \in Threads :
            Cardinality(Own(t)) + (IF serving = t THEN 1 ELSE 0) = (IF Waiting(t) THEN 1 ELSE 0)
      BY <2>2, CallsCount DEF CallsAreMatched
    <3> QED
      BY <2>2, <3>1, <3>2 DEF CoverTypeOK, Pcs, CallsAreMatched, Accounts
  <2>4. CoversStayCovers
    <3>1. ASSUME NEW i \in DOMAIN made
          PROVE  made[i].of \in EntryIds
      <4>1. PICK S : S = [of : EntryIds, key : Keys, fill : Int]
        OBVIOUS
      <4>2. made \in Seq(S)
        BY <2>2, <4>1 DEF Accounts
      <4>3. made[i] \in S
        BY <3>1, <4>2
      <4> QED
        BY <4>1, <4>3
    <3>2. ASSUME NEW s \in Products, NEW d \in Sides, NEW p \in Ticks, NEW i \in DOMAIN queue[s][d][p],
                 NEW c \in Entries, NEW ms \in 0..MaxClock,
                 queue[s][d][p][i].id = CoverId(c.id, ms)
          PROVE  d = Opposite(c.side)
      <4>1. BooksAreFree(K)
        BY <2>2 DEF EngineIsFree
      <4>2. PICK q \in Seq(FreeOrder(K)) : q = queue[s][d][p]
        BY <4>1 DEF BooksAreFree
      <4>3. q[i] \in FreeOrder(K) /\ q[i].side = d
        BY <3>2, <4>1, <4>2, SMTT(30) DEF BooksAreFree
      <4>4. Fits(q[i].id, d)
        BY <4>3 DEF FreeOrder
      <4> QED
        BY <3>2, <4>2, <4>4 DEF Fits
    <3> QED
      BY <3>1, <3>2 DEF CoversStayCovers
  <2> QED
    BY <2>2, <2>3, <2>4 DEF CoversAreSound, Accounts
<1> QED
  BY <1>1, HandlersStaySound, PTL
=============================================================================
