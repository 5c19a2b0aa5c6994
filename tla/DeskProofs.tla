----------------------------- MODULE DeskProofs ------------------------------
(***************************************************************************)
(* The desk of the terminal, for any windows, tabs, algos, names, orders    *)
(* and answers: an algo that was stopped does not run again by itself       *)
(* (AlgoDesk), what was saved or left open is what the next launch finds    *)
(* (Workspaces), an alert rings when its price is crossed (Alerts), while   *)
(* calls are under way no order is shown twice, moved twice or lost by a    *)
(* window (DepthLadder, EventMarket, Blotter, ResearchWindows), gestures do *)
(* as asked, what was stored is what is shown (WindowSettings, TradeReport),*)
(* and what is shown of a market is of that market (MarketStore and the     *)
(* view of DepthLadder).                                                    *)
(***************************************************************************)
EXTENDS MCTerminalDesk, FiniteSetTheorems, WellFoundedInduction,
        SequenceTheorems, TLAPS

(***************************************************************************)
(* Lists of the terminal.                                                  *)
(***************************************************************************)
\* Induction over the natural numbers, for a set of them.
LEMMA Ascends ==
  ASSUME NEW T, 0 \in T, \A n \in Nat : n \in T => n + 1 \in T
  PROVE  Nat \subseteq T
<1> DEFINE U == Nat \ T
<1> SUFFICES ASSUME U # {} PROVE FALSE
  OBVIOUS
<1>1. PICK x \in U : \A y \in U : ~ (<<y, x>> \in OpToRel(<, Nat))
  BY NatLessThanWellFounded, WFMin
<1>2. \A y \in U : ~ (y < x)
  BY <1>1 DEF OpToRel
<1>3. x \in Nat /\ x # 0 /\ x - 1 \in Nat /\ x - 1 \notin U
  BY <1>2
<1> QED
  BY <1>3

\* The members of the second list are members of the first, in their order.
Lists(list, g) ==
  /\ \A i \in DOMAIN g : \E k \in DOMAIN list : g[i] = list[k]
  /\ \A i, j \in DOMAIN g : i < j =>
       \E k, l \in DOMAIN list : k < l /\ g[i] = list[k] /\ g[j] = list[l]

\* The first n members of a list but those in gone, given the first n - 1.
Longer(list, gone, g, n) ==
  IF n = 0 THEN <<>>
  ELSE IF list[n] \in gone THEN g[n - 1] ELSE Append(g[n - 1], list[n])

\* Without is what looking at the members one by one leads to.
LEMMA WithoutByOne ==
  ASSUME NEW S, NEW list \in Seq(S), NEW gone
  PROVE  \E h : /\ \A n \in 0 .. Len(list) : h[n] = Longer(list, gone, h, n)
                /\ Without(list, gone) = h[Len(list)]
<1> DEFINE Upto(n) == \E g : \A i \in 0 .. n : g[i] = Longer(list, gone, g, i)
           N == {n \in Nat : Upto(n)}
           All(h) == [n \in 0 .. Len(list) |->
                        IF n = 0 THEN <<>>
                        ELSE IF list[n] \in gone THEN h[n - 1] ELSE Append(h[n - 1], list[n])]
           h == CHOOSE h : h = All(h)
<1>1. 0 \in N
  <2> DEFINE g == [i \in {0} |-> <<>>]
  <2>1. \A i \in 0 .. 0 : g[i] = Longer(list, gone, g, i)
    BY DEF Longer
  <2> QED
    BY <2>1
<1>2. ASSUME NEW n \in Nat, n \in N
      PROVE  n + 1 \in N
  <2>1. PICK g : \A i \in 0 .. n : g[i] = Longer(list, gone, g, i)
    BY <1>2
  <2> DEFINE e == [i \in 0 .. n + 1 |-> IF i <= n THEN g[i] ELSE Longer(list, gone, g, i)]
  <2>2. ASSUME NEW i \in 0 .. n + 1 PROVE e[i] = Longer(list, gone, e, i)
    <3>1. e[i] = Longer(list, gone, g, i)
      BY <2>1
    <3>2. i # 0 => e[i - 1] = g[i - 1]
      OBVIOUS
    <3> HIDE DEF e
    <3> QED
      BY <3>1, <3>2 DEF Longer
  <2> HIDE DEF e
  <2>3. Upto(n + 1)
    BY <2>2
  <2> QED
    BY <2>3
<1>3. Len(list) \in N
  <2>1. Nat \subseteq N
    <3> HIDE DEF N
    <3> QED
      BY <1>1, <1>2, Ascends
  <2> QED
    BY <2>1
<1>4. PICK g : \A i \in 0 .. Len(list) : g[i] = Longer(list, gone, g, i)
  BY <1>3
<1>5. [n \in 0 .. Len(list) |-> g[n]] = All([n \in 0 .. Len(list) |-> g[n]])
  BY <1>4 DEF Longer
<1>6. h = All(h)
  BY <1>5
<1>7. Without(list, gone) = h[Len(list)]
  BY DEF Without
<1>8. ASSUME NEW n \in 0 .. Len(list) PROVE h[n] = Longer(list, gone, h, n)
  <2>1. h[n] = All(h)[n]
    BY <1>6
  <2> HIDE DEF h
  <2> QED
    BY <2>1 DEF Longer
<1> HIDE DEF h
<1> QED
  BY <1>7, <1>8

\* What is kept of the first n members.
ListKept(list, gone, g, n) ==
  /\ \A i \in DOMAIN g : \E k \in 1 .. n : g[i] = list[k] /\ list[k] \notin gone
  /\ \A i, j \in DOMAIN g : i < j =>
       \E k, l \in 1 .. n : k < l /\ g[i] = list[k] /\ g[j] = list[l]
  /\ \A k \in 1 .. n : list[k] \notin gone => \E i \in DOMAIN g : g[i] = list[k]

\* One more member of the list, kept or passed over.
LEMMA KeptByOne ==
  ASSUME NEW S, NEW list \in Seq(S), NEW gone, NEW n \in Nat, n + 1 <= Len(list),
         NEW g \in Seq(S), ListKept(list, gone, g, n)
  PROVE  IF list[n + 1] \in gone THEN ListKept(list, gone, g, n + 1)
         ELSE /\ Append(g, list[n + 1]) \in Seq(S)
              /\ ListKept(list, gone, Append(g, list[n + 1]), n + 1)
<1>1. \A k \in 1 .. n : k \in 1 .. n + 1 /\ k < n + 1
  OBVIOUS
<1>2. list[n + 1] \in S /\ n + 1 \in 1 .. n + 1
  OBVIOUS
<1>3. CASE list[n + 1] \in gone
  <2>1. \A k \in 1 .. n + 1 : k = n + 1 \/ k \in 1 .. n
    OBVIOUS
  <2> QED BY <1>1, <1>3, <2>1 DEF ListKept
<1>4. ASSUME list[n + 1] \notin gone
      PROVE  /\ Append(g, list[n + 1]) \in Seq(S)
             /\ ListKept(list, gone, Append(g, list[n + 1]), n + 1)
  <2>1. PICK x \in S : x = list[n + 1]
    BY <1>2
  <2>2. PICK e \in Seq(S) : e = Append(g, x)
    <3>1. Append(g, x) \in Seq(S)
      BY <1>2, <2>1, AppendProperties
    <3> QED
      BY <3>1
  <2>3. /\ DOMAIN e = 1 .. Len(g) + 1 /\ DOMAIN g = 1 .. Len(g) /\ Len(g) \in Nat
        /\ e[Len(g) + 1] = x /\ \A i \in 1 .. Len(g) : e[i] = g[i]
    BY <1>2, <2>2
  <2>4. ASSUME NEW i \in DOMAIN e
        PROVE  \E k \in 1 .. n + 1 : e[i] = list[k] /\ list[k] \notin gone
    <3>1. CASE i = Len(g) + 1
      BY <1>2, <1>4, <2>1, <2>3, <3>1
    <3>2. CASE i \in 1 .. Len(g)
      BY <1>1, <2>3, <3>2 DEF ListKept
    <3> QED
      BY <2>3, <3>1, <3>2
  <2>5. ASSUME NEW i \in DOMAIN e, NEW j \in DOMAIN e, i < j
        PROVE  \E k, l \in 1 .. n + 1 : k < l /\ e[i] = list[k] /\ e[j] = list[l]
    <3>1. i \in 1 .. Len(g)
      BY <2>3, <2>5
    <3>2. CASE j = Len(g) + 1
      <4>1. PICK k \in 1 .. n : e[i] = list[k]
        BY <2>3, <3>1 DEF ListKept
      <4> QED
        BY <1>1, <1>2, <2>1, <2>3, <3>2, <4>1
    <3>3. CASE j \in 1 .. Len(g)
      <4>1. PICK k \in 1 .. n, l \in 1 .. n : k < l /\ g[i] = list[k] /\ g[j] = list[l]
        BY <2>3, <2>5, <3>1, <3>3 DEF ListKept
      <4> QED
        BY <1>1, <2>3, <3>1, <3>3, <4>1
    <3> QED
      BY <2>3, <3>2, <3>3
  <2>6. ASSUME NEW k \in 1 .. n + 1, list[k] \notin gone
        PROVE  \E i \in DOMAIN e : e[i] = list[k]
    <3>1. CASE k = n + 1
      BY <2>1, <2>3, <3>1
    <3>2. CASE k \in 1 .. n
      BY <2>3, <2>6, <3>2 DEF ListKept
    <3> QED BY <3>1, <3>2
  <2>7. ListKept(list, gone, e, n + 1)
    BY <2>4, <2>5, <2>6 DEF ListKept
  <2> QED
    BY ONLY <2>1, <2>2, <2>7
<1> QED
  BY <1>3, <1>4

\* Without keeps the members that are not in gone, all of them and in their order.
LEMMA WithoutIs ==
  ASSUME NEW S, NEW list \in Seq(S), NEW gone
  PROVE  /\ Without(list, gone) \in Seq(S) /\ Lists(list, Without(list, gone))
         /\ \A i \in DOMAIN Without(list, gone) : Without(list, gone)[i] \notin gone
         /\ \A k \in DOMAIN list : list[k] \notin gone =>
              \E i \in DOMAIN Without(list, gone) : Without(list, gone)[i] = list[k]
<1>1. PICK h : /\ \A n \in 0 .. Len(list) : h[n] = Longer(list, gone, h, n)
               /\ Without(list, gone) = h[Len(list)]
  BY WithoutByOne
<1> DEFINE N == {n \in Nat : n <= Len(list) => h[n] \in Seq(S) /\ ListKept(list, gone, h[n], n)}
<1>2. 0 \in N
  <2>1. h[0] = <<>>
    BY <1>1 DEF Longer
  <2>2. ListKept(list, gone, <<>>, 0)
    <3>1. 1 .. 0 = {} /\ DOMAIN <<>> = {}
      OBVIOUS
    <3> QED BY <3>1, Zenon DEF ListKept
  <2>3. h[0] \in Seq(S) /\ ListKept(list, gone, h[0], 0)
    <3>1. <<>> \in Seq(S)
      OBVIOUS
    <3> QED BY <2>1, <2>2, <3>1, Zenon
  <2> QED
    BY <2>3, Zenon
<1>3. ASSUME NEW n \in Nat, n \in N PROVE n + 1 \in N
  <2> SUFFICES ASSUME n + 1 <= Len(list)
               PROVE  h[n + 1] \in Seq(S) /\ ListKept(list, gone, h[n + 1], n + 1)
    OBVIOUS
  <2>1. h[n] \in Seq(S) /\ ListKept(list, gone, h[n], n)
    BY <1>3
  <2>2. h[n + 1] = IF list[n + 1] \in gone THEN h[n] ELSE Append(h[n], list[n + 1])
    <3>1. h[n + 1] = Longer(list, gone, h, n + 1) /\ n + 1 # 0 /\ (n + 1) - 1 = n
      BY <1>1
    <3> QED
      BY <3>1 DEF Longer
  <2> QED
    BY <2>1, <2>2, KeptByOne
<1>4. Nat \subseteq N
  <2> HIDE DEF N
  <2> QED
    BY <1>2, <1>3, Ascends
<1>5. PICK g \in Seq(S) : g = Without(list, gone) /\ ListKept(list, gone, g, Len(list))
  BY <1>1, <1>4
<1>6. DOMAIN list = 1 .. Len(list)
  OBVIOUS
<1>7. /\ Lists(list, g) /\ \A i \in DOMAIN g : g[i] \notin gone
      /\ \A k \in DOMAIN list : list[k] \notin gone => \E i \in DOMAIN g : g[i] = list[k]
  <2>1. \A i \in DOMAIN g : \E k \in DOMAIN list : g[i] = list[k] /\ list[k] \notin gone
    BY <1>5, <1>6, Zenon DEF ListKept
  <2>2. \A i, j \in DOMAIN g : i < j =>
          \E k, l \in DOMAIN list : k < l /\ g[i] = list[k] /\ g[j] = list[l]
    <3> SUFFICES ASSUME NEW i \in DOMAIN g, NEW j \in DOMAIN g, i < j
                 PROVE  \E k, l \in DOMAIN list : k < l /\ g[i] = list[k] /\ g[j] = list[l]
      BY Zenon
    <3>1. \A a, b \in DOMAIN g : a < b =>
            \E k, l \in 1 .. Len(list) : k < l /\ g[a] = list[k] /\ g[b] = list[l]
      BY <1>5, Zenon DEF ListKept
    <3>2. PICK k \in 1 .. Len(list), l \in 1 .. Len(list) : k < l /\ g[i] = list[k] /\ g[j] = list[l]
      BY <3>1, Zenon
    <3>3. k \in DOMAIN list /\ l \in DOMAIN list
      BY <1>6, <3>2
    <3> QED BY <3>2, <3>3, Zenon
  <2>3. \A k \in DOMAIN list : list[k] \notin gone => \E i \in DOMAIN g : g[i] = list[k]
    <3>1. \A k \in 1 .. Len(list) : list[k] \notin gone => \E i \in DOMAIN g : g[i] = list[k]
      BY <1>5, Zenon DEF ListKept
    <3> QED BY <1>6, <3>1, Zenon
  <2> QED BY <2>1, <2>2, <2>3, Zenon DEF Lists
<1> QED
  BY <1>5, <1>7, Zenon

(***************************************************************************)
(* Algos.                                                                  *)
(***************************************************************************)
Stages == {"sent", "ok", "error"}

\* The types of the variables, and what the windows and the calls have in common.
DeskTypes ==
  /\ tabOf \in [Hooks -> Tabs]
  /\ defs \in Library /\ store \in Library /\ lib \in [Hooks -> Library]
  /\ algoOrders \in SUBSET Algos
  /\ fetch \in [Hooks -> [at : {"closed", "answered", "idle"}, defs : Library]]
  /\ staged \in [Managers -> SUBSET Algos] /\ selected \in [Managers -> SUBSET Algos]
  /\ \A m \in Managers : selected[m] \subseteq staged[m]
  /\ deploy \in [Managers -> {None} \cup [ids : SUBSET Algos, at : Stages]]
  /\ kill \in {None} \cup [by : Managers, seen : SUBSET Algos, at : Stages, alone : BOOLEAN]
  /\ armed \in [Tabs -> SUBSET Algos]
  /\ killed \in {None} \cup [tab : Tabs, alone : BOOLEAN, seen : SUBSET Algos]

\* Nothing is stored as running, and a window that is closed shows nothing.
NothingRunsUnseen ==
  /\ \A a \in Algos : store[a] # "quoting"
  /\ \A h \in Hooks : ~Mounted(h) => lib[h] = NoAlgos

\* A Kill All that no deploy has joined has the gateway to itself.
KillIsAlone ==
  /\ kill # None /\ kill.alone =>
       /\ \A m \in Managers : deploy[m] = None
       /\ kill.at = "ok" => algoOrders = {}
  /\ killed # None /\ killed.alone => \A m \in Managers : deploy[m] = None

DeskInv == DeskTypes /\ NothingRunsUnseen /\ NeverReArmed /\ KillIsAlone /\ KillAllHolds

\* No library and no row means running by default, and every window holds a library.
LEMMA DeskStrings ==
  /\ None # "quoting" /\ None \notin Statuses
  /\ \A l \in Library : l \in [Algos -> Statuses \cup {None}]
  /\ NoAlgos \in Library /\ \A a \in Algos : NoAlgos[a] # "quoting"
  /\ Managers \subseteq Hooks /\ Builders \subseteq Hooks
  BY AlgoDeskAssumption DEF Statuses, Library, NoAlgos, Hooks

\* What is written to the storage and what is taken from the gateway never runs.
LEMMA StoredIsStopped ==
  ASSUME NEW l \in Library
  PROVE  /\ ForStorage(l) \in Library /\ \A a \in Algos : ForStorage(l)[a] # "quoting"
         /\ FromDefinition(l) \in Library /\ \A a \in Algos : FromDefinition(l)[a] # "quoting"
  BY DeskStrings DEF ForStorage, FromDefinition, Library, Statuses

\* The library l replaces that of every window of h's tab, and is stored: it runs only
\* what ran in h's window before, or what the tab has just seen deployed.
LEMMA PublishKeeps ==
  ASSUME DeskTypes, NothingRunsUnseen, NeverReArmed, tabOf' = tabOf, fetch' \in [Hooks -> [at : {"closed", "answered", "idle"}, defs : Library]],
         \A g \in Hooks : Mounted(g)' <=> Mounted(g),
         armed' \in [Tabs -> SUBSET Algos], \A t \in Tabs : armed[t] \subseteq armed'[t],
         NEW h \in Hooks, NEW l \in Library, Publish(h, l),
         \A a \in Algos : l[a] = "quoting" => a \in armed'[tabOf[h]]
  PROVE  /\ store' \in Library /\ lib' \in [Hooks -> Library]
         /\ NothingRunsUnseen' /\ NeverReArmed'
         /\ \A g \in Hooks : tabOf[g] = tabOf[h] => lib'[g] \in {l, NoAlgos}
         /\ \A g \in Hooks : tabOf[g] # tabOf[h] => lib'[g] = lib[g]
<1>1. /\ store' = ForStorage(l)
      /\ lib' = [g \in Hooks |-> IF g \in Beside(h) THEN l ELSE lib[g]]
  BY DEF Publish
<1>2. lib \in [Hooks -> Library] /\ tabOf \in [Hooks -> Tabs]
  BY DEF DeskTypes
<1>3. store' \in Library /\ lib' \in [Hooks -> Library]
  BY <1>1, <1>2, StoredIsStopped
<1>4. ASSUME NEW g \in Hooks
      PROVE  /\ tabOf[g] = tabOf[h] => lib'[g] \in {l, NoAlgos}
             /\ tabOf[g] # tabOf[h] => lib'[g] = lib[g]
             /\ ~Mounted(g)' => lib'[g] = NoAlgos
  <2>1. ~Mounted(g) => lib[g] = NoAlgos /\ g \notin Beside(h)
    BY DEF NothingRunsUnseen, Beside
  <2>2. lib'[g] = IF g \in Beside(h) THEN l ELSE lib[g]
    BY <1>1
  <2>3. g \in Beside(h) <=> tabOf[g] = tabOf[h] /\ Mounted(g)
    BY DEF Beside
  <2> QED
    BY <2>1, <2>2, <2>3
<1>5. NothingRunsUnseen'
  <2>1. \A a \in Algos : store'[a] # "quoting"
    BY <1>1, StoredIsStopped
  <2> QED
    BY <1>4, <2>1 DEF NothingRunsUnseen
<1>6. NeverReArmed'
  <2> SUFFICES ASSUME NEW g \in Hooks, NEW a \in Algos, lib'[g][a] = "quoting"
               PROVE  a \in armed'[tabOf'[g]]
    BY DEF NeverReArmed
  <2>1. CASE tabOf[g] = tabOf[h]
    <3>1. lib'[g] = l
      BY <1>4, <2>1, DeskStrings
    <3> QED
      BY <2>1, <3>1
  <2>2. CASE tabOf[g] # tabOf[h]
    <3>1. a \in armed[tabOf[g]]
      BY <1>4, <2>2 DEF NeverReArmed
    <3> QED
      BY <1>2, <3>1
  <2> QED
    BY <2>1, <2>2
<1> QED
  BY <1>3, <1>4, <1>5, <1>6

\* A step that makes nothing run that did not run in its tab leaves the Kill All as it is.
LEMMA KillKept ==
  ASSUME DeskInv, UNCHANGED <<tabOf, algoOrders, deploy, kill, killed>>,
         \A g \in Hooks, a \in Algos : lib'[g][a] = "quoting" =>
           \E f \in Hooks : tabOf[f] = tabOf[g] /\ lib[f][a] = "quoting"
  PROVE  KillIsAlone' /\ KillAllHolds'
<1>1. KillIsAlone'
  BY DEF DeskInv, KillIsAlone
<1>2. ASSUME killed' # None, killed'.alone
      PROVE  /\ algoOrders' = {}
             /\ \A h \in Hooks, a \in killed'.seen : tabOf'[h] = killed'.tab => lib'[h][a] # "quoting"
  <2>1. /\ algoOrders = {}
        /\ \A h \in Hooks, a \in killed.seen : tabOf[h] = killed.tab => lib[h][a] # "quoting"
    BY <1>2 DEF DeskInv, KillAllHolds
  <2>2. killed.seen \subseteq Algos
    BY <1>2 DEF DeskInv, DeskTypes
  <2> QED
    BY <2>1, <2>2
<1> QED
  BY <1>1, <1>2 DEF KillAllHolds

\* A window opens with what the storage holds, and has asked the gateway.
LEMMA OpenKeeps ==
  ASSUME DeskInv, NEW h \in Hooks, OpenWindow(h), UNCHANGED tabOf
  PROVE  DeskInv'
<1>1. /\ DeskTypes /\ NothingRunsUnseen /\ NeverReArmed
      /\ ~Mounted(h) /\ UNCHANGED <<tabOf, defs, algoOrders, store, staged, selected, deploy, kill, killed>>
      /\ lib' = [lib EXCEPT ![h] = store]
      /\ fetch' = [fetch EXCEPT ![h] = [at |-> "answered", defs |-> defs]]
      /\ armed' = IF Beside(h) = {} THEN [armed EXCEPT ![tabOf[h]] = {}] ELSE armed
  BY DEF DeskInv, OpenWindow, Fetching
<1>2. DeskTypes'
  <2>1. lib' \in [Hooks -> Library]
    BY <1>1 DEF DeskTypes
  <2>2. fetch' \in [Hooks -> [at : {"closed", "answered", "idle"}, defs : Library]]
    BY <1>1 DEF DeskTypes
  <2>3. armed' \in [Tabs -> SUBSET Algos]
    BY <1>1 DEF DeskTypes
  <2> QED
    BY <1>1, <2>1, <2>2, <2>3 DEF DeskTypes
<1>3. \A g \in Hooks : lib'[g] = IF g = h THEN store ELSE lib[g]
  BY <1>1 DEF DeskTypes
<1>4. NothingRunsUnseen'
  <2>1. \A g \in Hooks : Mounted(g)' <=> g = h \/ Mounted(g)
    BY <1>1 DEF Mounted, DeskTypes
  <2> QED
    BY <1>1, <1>3, <2>1 DEF NothingRunsUnseen
<1>5. NeverReArmed'
  <2> SUFFICES ASSUME NEW g \in Hooks, NEW a \in Algos, lib'[g][a] = "quoting"
               PROVE  a \in armed'[tabOf[g]]
    BY <1>1 DEF NeverReArmed
  <2>1. g # h /\ lib[g][a] = "quoting"
    BY <1>1, <1>3 DEF NothingRunsUnseen
  <2>2. Mounted(g) /\ a \in armed[tabOf[g]]
    BY <1>1, <2>1, DeskStrings DEF NothingRunsUnseen, NeverReArmed
  <2>3. CASE tabOf[g] = tabOf[h]
    <3>1. g \in Beside(h)
      BY <2>2, <2>3 DEF Beside
    <3> QED
      BY <1>1, <2>2, <3>1
  <2>4. CASE tabOf[g] # tabOf[h]
    <3>1. armed'[tabOf[g]] = armed[tabOf[g]]
      BY <1>1, <2>4 DEF DeskTypes
    <3> QED
      BY <2>2, <3>1
  <2> QED
    BY <2>3, <2>4
<1>6. KillIsAlone' /\ KillAllHolds'
  <2>1. \A g \in Hooks, a \in Algos : lib'[g][a] = "quoting" => lib[g][a] = "quoting"
    BY <1>1, <1>3 DEF NothingRunsUnseen
  <2> QED
    BY <1>1, <2>1, KillKept
<1> QED
  BY <1>2, <1>4, <1>5, <1>6 DEF DeskInv

\* Nothing new runs where a window is closed, and what it has asked for is dropped.
LEMMA ShutKeeps ==
  ASSUME DeskInv, NEW h \in Hooks, ShutWindow(h), UNCHANGED tabOf
  PROVE  DeskInv'
<1>1. /\ DeskTypes /\ NothingRunsUnseen /\ NeverReArmed /\ KillIsAlone /\ KillAllHolds
      /\ UNCHANGED <<tabOf, defs, algoOrders, store, armed, killed>>
      /\ lib' = [lib EXCEPT ![h] = NoAlgos]
      /\ fetch' = [fetch EXCEPT ![h] = [at |-> "closed", defs |-> NoAlgos]]
  BY DEF DeskInv, ShutWindow, Fetching
<1>2. /\ staged' \in [Managers -> SUBSET Algos] /\ selected' \in [Managers -> SUBSET Algos]
      /\ \A m \in Managers : selected'[m] \subseteq staged'[m]
  <2>1. CASE h \in Managers
    BY <1>1, <2>1 DEF ShutWindow, DeskTypes
  <2>2. CASE h \notin Managers
    BY <1>1, <2>2 DEF ShutWindow, DeskTypes
  <2> QED
    BY <2>1, <2>2
<1>3. /\ deploy' \in [Managers -> {None} \cup [ids : SUBSET Algos, at : Stages]]
      /\ \A m \in Managers : deploy[m] = None => deploy'[m] = None
  <2>1. CASE h \in Managers
    <3>1. deploy' = [deploy EXCEPT ![h] = IF @ = None \/ @.at # "sent" THEN None ELSE @]
      BY <2>1 DEF ShutWindow
    <3> QED
      BY <1>1, <3>1 DEF DeskTypes
  <2>2. CASE h \notin Managers
    BY <1>1, <2>2 DEF ShutWindow, DeskTypes
  <2> QED
    BY <2>1, <2>2
<1>4. kill' \in {None, kill}
  BY DEF ShutWindow
<1>5. DeskTypes'
  <2>1. lib' \in [Hooks -> Library]
    BY <1>1, DeskStrings DEF DeskTypes
  <2>2. fetch' \in [Hooks -> [at : {"closed", "answered", "idle"}, defs : Library]]
    BY <1>1, DeskStrings DEF DeskTypes
  <2> QED
    BY <1>1, <1>2, <1>3, <1>4, <2>1, <2>2 DEF DeskTypes
<1>6. \A g \in Hooks : lib'[g] = IF g = h THEN NoAlgos ELSE lib[g]
  BY <1>1 DEF DeskTypes
<1>7. NothingRunsUnseen'
  <2>1. \A g \in Hooks : g # h => (Mounted(g)' <=> Mounted(g))
    BY <1>1 DEF Mounted, DeskTypes
  <2> QED
    BY <1>1, <1>6, <2>1 DEF NothingRunsUnseen
<1>8. \A g \in Hooks, a \in Algos : lib'[g][a] = "quoting" => lib[g][a] = "quoting"
  BY <1>6, DeskStrings
<1>9. NeverReArmed'
  BY <1>1, <1>8 DEF NeverReArmed
<1>10. KillIsAlone'
  BY <1>1, <1>3, <1>4 DEF KillIsAlone
<1>11. KillAllHolds'
  <2>1. killed # None => killed.seen \subseteq Algos
    BY <1>1 DEF DeskTypes
  <2> QED
    BY <1>1, <1>8, <2>1 DEF KillAllHolds
<1> QED
  BY <1>5, <1>7, <1>9, <1>10, <1>11 DEF DeskInv

\* A library that is published by h, in a step that no call takes part in.
LEMMA ChangeKeeps ==
  ASSUME DeskInv, NEW h \in Hooks, NEW l \in Library, Publish(h, l),
         UNCHANGED <<tabOf, algoOrders, staged, selected, deploy, kill, armed, killed>>,
         defs' \in Library, fetch' \in [Hooks -> [at : {"closed", "answered", "idle"}, defs : Library]],
         \A g \in Hooks : Mounted(g)' <=> Mounted(g),
         \A a \in Algos : l[a] = "quoting" => lib[h][a] = "quoting"
  PROVE  DeskInv'
<1>1. DeskTypes /\ NothingRunsUnseen /\ NeverReArmed
  BY DEF DeskInv
<1>2. \A a \in Algos : l[a] = "quoting" => a \in armed'[tabOf[h]]
  BY <1>1 DEF NeverReArmed
<1>3. armed' \in [Tabs -> SUBSET Algos] /\ \A t \in Tabs : armed[t] \subseteq armed'[t]
  BY <1>1 DEF DeskTypes
<1>4. /\ store' \in Library /\ lib' \in [Hooks -> Library]
      /\ NothingRunsUnseen' /\ NeverReArmed'
      /\ \A g \in Hooks : tabOf[g] = tabOf[h] => lib'[g] \in {l, NoAlgos}
      /\ \A g \in Hooks : tabOf[g] # tabOf[h] => lib'[g] = lib[g]
  BY <1>1, <1>2, <1>3, PublishKeeps
<1>5. DeskTypes'
  BY <1>1, <1>4 DEF DeskTypes
<1>6. ASSUME NEW g \in Hooks, NEW a \in Algos, lib'[g][a] = "quoting"
      PROVE  \E f \in Hooks : tabOf[f] = tabOf[g] /\ lib[f][a] = "quoting"
  <2>1. CASE tabOf[g] = tabOf[h]
    BY <1>4, <1>6, <2>1, DeskStrings
  <2>2. CASE tabOf[g] # tabOf[h]
    BY <1>4, <1>6, <2>2
  <2> QED
    BY <2>1, <2>2
<1>7. KillIsAlone' /\ KillAllHolds'
  BY <1>6, KillKept
<1> QED
  BY <1>4, <1>5, <1>7 DEF DeskInv

\* The changes a user makes to the library.
LEMMA EditKeeps ==
  ASSUME DeskInv, UNCHANGED tabOf, NEW h \in Hooks, NEW a \in Algos,
         \/ \E status \in SavedAs : SaveDraft(h, a, status)
         \/ HoldAlgo(h, a) \/ RemoveAlgo(h, a)
  PROVE  DeskInv'
<1>1. defs \in Library /\ lib[h] \in Library
      /\ fetch \in [Hooks -> [at : {"closed", "answered", "idle"}, defs : Library]]
  BY DEF DeskInv, DeskTypes
<1>2. lib[h] \in [Algos -> Statuses \cup {None}] /\ defs \in [Algos -> Statuses \cup {None}]
  BY <1>1 DEF Library
<1>3. ASSUME NEW status \in SavedAs, SaveDraft(h, a, status)
      PROVE  DeskInv'
  <2>1. status \in {"draft", "held"}
    BY AlgoDeskAssumption
  <2>2. [lib[h] EXCEPT ![a] = status] \in Library /\ [defs EXCEPT ![a] = status] \in Library
    BY <1>2, <2>1 DEF Library, Statuses
  <2>3. \A b \in Algos : [lib[h] EXCEPT ![a] = status][b] = "quoting" => lib[h][b] = "quoting"
    BY <1>2, <2>1
  <2>4. /\ Publish(h, [lib[h] EXCEPT ![a] = status]) /\ defs' \in Library /\ fetch' = fetch
        /\ UNCHANGED <<algoOrders, staged, selected, deploy, kill, armed, killed>>
    BY <1>1, <1>3, <2>2 DEF SaveDraft
  <2>5. \A g \in Hooks : Mounted(g)' <=> Mounted(g)
    BY <2>4 DEF Mounted
  <2> QED
    BY <1>1, <2>2, <2>3, <2>4, <2>5, ChangeKeeps
<1>4. CASE HoldAlgo(h, a)
  <2> DEFINE l == Updated(lib[h], {a}, "held")
  <2>1. l \in Library
    BY <1>2 DEF Updated, Library, Statuses
  <2>2. \A b \in Algos : l[b] = "quoting" => lib[h][b] = "quoting"
    BY DEF Updated
  <2>3. /\ Publish(h, l) /\ defs' = defs /\ fetch' = fetch
        /\ UNCHANGED <<algoOrders, staged, selected, deploy, kill, armed, killed>>
    BY <1>4 DEF HoldAlgo
  <2>4. \A g \in Hooks : Mounted(g)' <=> Mounted(g)
    BY <2>3 DEF Mounted
  <2> HIDE DEF l
  <2> QED
    BY <1>1, <2>1, <2>2, <2>3, <2>4, ChangeKeeps
<1>5. CASE RemoveAlgo(h, a)
  <2> DEFINE l == [lib[h] EXCEPT ![a] = None]
  <2>1. l \in Library
    BY <1>2 DEF Library
  <2>2. \A b \in Algos : l[b] = "quoting" => lib[h][b] = "quoting"
    BY <1>2, DeskStrings
  <2>3. /\ Publish(h, l) /\ defs' = defs /\ fetch' = fetch
        /\ UNCHANGED <<algoOrders, staged, selected, deploy, kill, armed, killed>>
    BY <1>5 DEF RemoveAlgo
  <2>4. \A g \in Hooks : Mounted(g)' <=> Mounted(g)
    BY <2>3 DEF Mounted
  <2> HIDE DEF l
  <2> QED
    BY <1>1, <2>1, <2>2, <2>3, <2>4, ChangeKeeps
<1> QED
  BY <1>3, <1>4, <1>5

\* The gateway's definitions come in.
LEMMA FetchKeeps ==
  ASSUME DeskInv, UNCHANGED tabOf, NEW h \in Hooks, FetchApplied(h)
  PROVE  DeskInv'
<1>1. /\ DeskTypes /\ NothingRunsUnseen /\ NeverReArmed
      /\ fetch' = [fetch EXCEPT ![h] = [at |-> "idle", defs |-> NoAlgos]]
      /\ UNCHANGED <<defs, algoOrders, staged, selected, deploy, kill, armed, killed>>
      /\ fetch[h].at = "answered"
  BY DEF DeskInv, FetchApplied, Fetching
<1>2. fetch' \in [Hooks -> [at : {"closed", "answered", "idle"}, defs : Library]]
  BY <1>1, DeskStrings DEF DeskTypes
<1>3. \A g \in Hooks : Mounted(g)' <=> Mounted(g)
  BY <1>1 DEF Mounted, DeskTypes
<1>4. CASE UNCHANGED <<store, lib>>
  <2>1. DeskTypes'
    BY <1>1, <1>2, <1>4 DEF DeskTypes
  <2>2. NothingRunsUnseen'
    BY <1>1, <1>3, <1>4 DEF NothingRunsUnseen
  <2>3. NeverReArmed'
    BY <1>1, <1>4 DEF NeverReArmed
  <2>4. KillIsAlone' /\ KillAllHolds'
    BY <1>1, <1>4, KillKept
  <2> QED
    BY <2>1, <2>2, <2>3, <2>4 DEF DeskInv
<1>5. CASE Publish(h, FromDefinition(fetch[h].defs))
  <2> DEFINE l == FromDefinition(fetch[h].defs)
  <2>1. l \in Library /\ \A a \in Algos : l[a] # "quoting"
    BY <1>1, StoredIsStopped DEF DeskTypes
  <2>2. defs' \in Library
    BY <1>1 DEF DeskTypes
  <2> HIDE DEF l
  <2>3. Publish(h, l)
    BY <1>5 DEF l
  <2> QED
    BY <1>1, <1>2, <1>3, <2>1, <2>2, <2>3, ChangeKeeps
<1> QED
  BY <1>4, <1>5 DEF FetchApplied

\* The stored library comes into a tab.
LEMMA StorageKeeps ==
  ASSUME DeskInv, UNCHANGED tabOf, NEW t \in Tabs, StorageEvent(t)
  PROVE  DeskInv'
<1>1. /\ DeskTypes /\ NothingRunsUnseen /\ NeverReArmed
      /\ lib' = [h \in Hooks |-> IF tabOf[h] = t /\ Mounted(h) THEN store ELSE lib[h]]
      /\ staged' = [h \in Managers |-> IF tabOf[h] = t THEN {} ELSE staged[h]]
      /\ selected' = [h \in Managers |-> IF tabOf[h] = t THEN {} ELSE selected[h]]
      /\ UNCHANGED <<defs, algoOrders, store, fetch, deploy, kill, armed, killed>>
  BY DEF DeskInv, StorageEvent
<1>2. \A g \in Hooks : Mounted(g)' <=> Mounted(g)
  BY <1>1 DEF Mounted
<1>3. DeskTypes'
  <2>1. lib' \in [Hooks -> Library]
    BY <1>1 DEF DeskTypes
  <2>2. /\ staged' \in [Managers -> SUBSET Algos] /\ selected' \in [Managers -> SUBSET Algos]
        /\ \A m \in Managers : selected'[m] \subseteq staged'[m]
    BY <1>1 DEF DeskTypes
  <2> QED
    BY <1>1, <2>1, <2>2 DEF DeskTypes
<1>4. \A g \in Hooks, a \in Algos : lib'[g][a] = "quoting" => lib[g][a] = "quoting"
  BY <1>1 DEF NothingRunsUnseen
<1>5. NothingRunsUnseen'
  BY <1>1, <1>2 DEF NothingRunsUnseen
<1>6. NeverReArmed'
  BY <1>1, <1>4 DEF NeverReArmed
<1>7. KillIsAlone' /\ KillAllHolds'
  BY <1>1, <1>4, KillKept
<1> QED
  BY <1>3, <1>5, <1>6, <1>7 DEF DeskInv

\* Rows are loaded and ticked.
LEMMA RowKeeps ==
  ASSUME DeskInv, UNCHANGED tabOf, NEW h \in Managers, NEW a \in Algos, LoadRow(h, a) \/ ToggleRow(h, a)
  PROVE  DeskInv'
<1>1. /\ DeskTypes /\ NothingRunsUnseen /\ NeverReArmed
      /\ UNCHANGED <<defs, algoOrders, store, lib, fetch, deploy, kill, armed, killed>>
  BY DEF DeskInv, LoadRow, ToggleRow
<1>2. /\ staged' \in [Managers -> SUBSET Algos] /\ selected' \in [Managers -> SUBSET Algos]
      /\ \A m \in Managers : selected'[m] \subseteq staged'[m]
  <2>1. CASE LoadRow(h, a)
    BY <1>1, <2>1 DEF LoadRow, DeskTypes
  <2>2. CASE ToggleRow(h, a)
    <3>1. a \in staged[h] /\ staged' = staged
      BY <2>2 DEF ToggleRow
    <3>2. selected' = [selected EXCEPT ![h] = IF a \in selected[h] THEN selected[h] \ {a}
                                                ELSE selected[h] \cup {a}]
      BY <2>2 DEF ToggleRow
    <3> QED
      BY <1>1, <3>1, <3>2 DEF DeskTypes
  <2> QED
    BY <2>1, <2>2
<1>3. DeskTypes'
  BY <1>1, <1>2 DEF DeskTypes
<1>4. NothingRunsUnseen'
  BY <1>1 DEF NothingRunsUnseen, Mounted
<1>5. NeverReArmed'
  BY <1>1 DEF NeverReArmed
<1>6. KillIsAlone' /\ KillAllHolds'
  BY <1>1, KillKept
<1> QED
  BY <1>3, <1>4, <1>5, <1>6 DEF DeskInv

\* A call to the gateway, or its answer: no window's library changes.
LEMMA SameLibraries ==
  ASSUME DeskInv, UNCHANGED <<tabOf, defs, store, lib, fetch, staged, selected, armed>>,
         algoOrders' \in SUBSET Algos,
         deploy' \in [Managers -> {None} \cup [ids : SUBSET Algos, at : Stages]],
         kill' \in {None} \cup [by : Managers, seen : SUBSET Algos, at : Stages, alone : BOOLEAN],
         killed' \in {None} \cup [tab : Tabs, alone : BOOLEAN, seen : SUBSET Algos],
         KillIsAlone', KillAllHolds'
  PROVE  DeskInv'
<1>1. DeskTypes'
  BY DEF DeskInv, DeskTypes
<1>2. NothingRunsUnseen' /\ NeverReArmed'
  BY DEF DeskInv, NothingRunsUnseen, NeverReArmed, Mounted
<1> QED
  BY <1>1, <1>2 DEF DeskInv

\* A manager sends a deploy.
LEMMA DeployKeeps ==
  ASSUME DeskInv, UNCHANGED tabOf, NEW h \in Managers, NEW ids \in SUBSET Algos, Deploy(h, ids)
  PROVE  DeskInv'
<1>1. /\ DeskTypes /\ KillIsAlone
      /\ deploy' = [deploy EXCEPT ![h] = [ids |-> ids, at |-> "sent"]]
      /\ kill' = IF kill = None THEN None ELSE [kill EXCEPT !.alone = FALSE]
      /\ killed' = None
      /\ UNCHANGED <<defs, algoOrders, store, lib, fetch, staged, selected, armed>>
  BY DEF DeskInv, Deploy
<1>2. deploy' \in [Managers -> {None} \cup [ids : SUBSET Algos, at : Stages]]
  BY <1>1 DEF DeskTypes, Stages
<1>3. /\ kill' \in {None} \cup [by : Managers, seen : SUBSET Algos, at : Stages, alone : BOOLEAN]
      /\ kill' # None => ~kill'.alone
  <2>1. CASE kill = None
    BY <1>1, <2>1
  <2>2. CASE kill # None
    BY <1>1, <2>2 DEF DeskTypes
  <2> QED
    BY <2>1, <2>2
<1>4. KillIsAlone' /\ KillAllHolds'
  BY <1>1, <1>3 DEF KillIsAlone, KillAllHolds
<1>5. algoOrders' \in SUBSET Algos
  BY <1>1 DEF DeskTypes
<1> QED
  BY <1>1, <1>2, <1>3, <1>4, <1>5, SameLibraries

\* The gateway works the orders of it, or fails.
LEMMA ServerDeploysKeeps ==
  ASSUME DeskInv, UNCHANGED tabOf, NEW h \in Managers, ServerDeploys(h)
  PROVE  DeskInv'
<1>1. /\ DeskTypes /\ KillIsAlone
      /\ deploy[h] # None /\ deploy[h].at = "sent"
      /\ algoOrders' \in {algoOrders, algoOrders \cup deploy[h].ids}
      /\ UNCHANGED <<defs, store, lib, fetch, staged, selected, kill, armed, killed>>
  BY DEF DeskInv, ServerDeploys
<1>2. deploy[h] \in [ids : SUBSET Algos, at : Stages]
  BY <1>1 DEF DeskTypes
<1>3. \E ok \in BOOLEAN :
        deploy' = [deploy EXCEPT ![h] =
                     IF Mounted(h) THEN [deploy[h] EXCEPT !.at = IF ok THEN "ok" ELSE "error"] ELSE None]
  BY DEF ServerDeploys
<1>4. deploy' \in [Managers -> {None} \cup [ids : SUBSET Algos, at : Stages]]
  <2>1. \A ok \in BOOLEAN : [deploy[h] EXCEPT !.at = IF ok THEN "ok" ELSE "error"]
                              \in [ids : SUBSET Algos, at : Stages]
    BY <1>2 DEF Stages
  <2> QED
    BY <1>1, <1>3, <2>1 DEF DeskTypes
<1>5. algoOrders' \in SUBSET Algos
  BY <1>1, <1>2 DEF DeskTypes
<1>6. /\ kill # None => ~kill.alone
      /\ killed # None => ~killed.alone
  BY <1>1 DEF KillIsAlone
<1>7. KillIsAlone' /\ KillAllHolds'
  BY <1>1, <1>6 DEF KillIsAlone, KillAllHolds
<1>8. /\ kill' \in {None} \cup [by : Managers, seen : SUBSET Algos, at : Stages, alone : BOOLEAN]
      /\ killed' \in {None} \cup [tab : Tabs, alone : BOOLEAN, seen : SUBSET Algos]
  BY <1>1 DEF DeskTypes
<1> QED
  BY <1>1, <1>4, <1>5, <1>7, <1>8, SameLibraries

\* The answer shows what was sent as running, in the whole tab.
LEMMA DeployAnsweredKeeps ==
  ASSUME DeskInv, UNCHANGED tabOf, NEW h \in Managers, DeployAnswered(h)
  PROVE  DeskInv'
<1>1. /\ DeskTypes /\ NothingRunsUnseen /\ NeverReArmed /\ KillIsAlone /\ h \in Hooks
      /\ deploy[h] # None
      /\ deploy' = [deploy EXCEPT ![h] = None]
      /\ UNCHANGED <<defs, algoOrders, fetch, staged, selected, kill, killed>>
  BY DEF DeskInv, DeployAnswered, Hooks
<1>2. deploy[h] \in [ids : SUBSET Algos, at : Stages]
  BY <1>1 DEF DeskTypes
<1>3. deploy' \in [Managers -> {None} \cup [ids : SUBSET Algos, at : Stages]]
  BY <1>1 DEF DeskTypes
<1>4. /\ kill # None => ~kill.alone
      /\ killed # None => ~killed.alone
  BY <1>1 DEF KillIsAlone
<1>5. KillIsAlone' /\ KillAllHolds'
  BY <1>1, <1>4 DEF KillIsAlone, KillAllHolds
<1>6. CASE UNCHANGED <<store, lib, armed>>
  <2>1. /\ kill' \in {None} \cup [by : Managers, seen : SUBSET Algos, at : Stages, alone : BOOLEAN]
        /\ killed' \in {None} \cup [tab : Tabs, alone : BOOLEAN, seen : SUBSET Algos]
        /\ algoOrders' \in SUBSET Algos
    BY <1>1 DEF DeskTypes
  <2> QED
    BY <1>1, <1>3, <1>5, <1>6, <2>1, SameLibraries
<1>7. CASE /\ Publish(h, Updated(lib[h], deploy[h].ids, "quoting"))
           /\ armed' = [armed EXCEPT ![tabOf[h]] = @ \cup deploy[h].ids]
  <2> DEFINE ids == deploy[h].ids
             l == Updated(lib[h], ids, "quoting")
  <2>1. lib[h] \in [Algos -> Statuses \cup {None}] /\ ids \subseteq Algos
        /\ tabOf[h] \in Tabs /\ armed \in [Tabs -> SUBSET Algos]
    BY <1>1, <1>2 DEF DeskTypes, Library
  <2>2. armed' = [armed EXCEPT ![tabOf[h]] = armed[tabOf[h]] \cup ids]
    BY <1>7
  <2>3. Publish(h, l)
    BY <1>7
  <2> HIDE DEF ids
  <2>4. l \in Library
    BY <2>1 DEF Updated, Library, Statuses
  <2>5. armed' \in [Tabs -> SUBSET Algos] /\ \A t \in Tabs : armed[t] \subseteq armed'[t]
    BY <2>1, <2>2
  <2>6. ASSUME NEW a \in Algos, l[a] = "quoting"
        PROVE  a \in armed'[tabOf[h]]
    <3>1. a \in ids \/ lib[h][a] = "quoting"
      BY <2>6 DEF Updated
    <3>2. a \in ids \/ a \in armed[tabOf[h]]
      BY <1>1, <3>1 DEF NeverReArmed
    <3> QED
      BY <2>1, <2>2, <3>2
  <2>7. fetch' \in [Hooks -> [at : {"closed", "answered", "idle"}, defs : Library]]
    BY <1>1 DEF DeskTypes
  <2>8. \A g \in Hooks : Mounted(g)' <=> Mounted(g)
    BY <1>1 DEF Mounted
  <2> HIDE DEF l
  <2>9. /\ store' \in Library /\ lib' \in [Hooks -> Library]
        /\ NothingRunsUnseen' /\ NeverReArmed'
    BY <1>1, <2>3, <2>4, <2>5, <2>6, <2>7, <2>8, PublishKeeps
  <2>10. DeskTypes'
    BY <1>1, <1>3, <2>5, <2>9 DEF DeskTypes
  <2> QED
    BY <1>5, <2>9, <2>10 DEF DeskInv
<1> QED
  BY <1>6, <1>7 DEF DeployAnswered

\* A manager sends a Kill All.
LEMMA KillAllKeeps ==
  ASSUME DeskInv, UNCHANGED tabOf, NEW h \in Managers, KillAll(h)
  PROVE  DeskInv'
<1> DEFINE known == {a \in Algos : lib[h][a] \in Statuses \ {"draft"}}
           alone == \A m \in Managers : deploy[m] = None
<1>1. /\ DeskTypes /\ KillIsAlone /\ KillAllHolds
      /\ kill' = [by |-> h, seen |-> known, at |-> "sent", alone |-> alone]
      /\ UNCHANGED <<defs, algoOrders, store, lib, fetch, staged, selected, deploy, armed, killed>>
  BY DEF DeskInv, KillAll
<1>2. kill' \in [by : Managers, seen : SUBSET Algos, at : Stages, alone : BOOLEAN]
      /\ kill'.at = "sent" /\ (kill'.alone => alone)
  <2>1. known \in SUBSET Algos /\ alone \in BOOLEAN
    OBVIOUS
  <2> HIDE DEF known, alone
  <2> QED
    BY <1>1, <2>1 DEF Stages
<1>3. KillIsAlone'
  BY <1>1, <1>2 DEF KillIsAlone
<1>4. KillAllHolds'
  BY <1>1 DEF KillAllHolds
<1>5. /\ algoOrders' \in SUBSET Algos
      /\ deploy' \in [Managers -> {None} \cup [ids : SUBSET Algos, at : Stages]]
      /\ killed' \in {None} \cup [tab : Tabs, alone : BOOLEAN, seen : SUBSET Algos]
  BY <1>1 DEF DeskTypes
<1> QED
  BY <1>1, <1>2, <1>3, <1>4, <1>5, SameLibraries

\* The gateway stops every algo, or fails.
LEMMA ServerKillsKeeps ==
  ASSUME DeskInv, UNCHANGED tabOf, ServerKills
  PROVE  DeskInv'
<1>1. /\ DeskTypes /\ KillIsAlone /\ KillAllHolds
      /\ kill # None
      /\ UNCHANGED <<defs, store, lib, fetch, staged, selected, deploy, armed, killed>>
  BY DEF DeskInv, ServerKills
<1>2. PICK ok \in BOOLEAN :
             /\ algoOrders' = IF ok THEN {} ELSE algoOrders
             /\ kill' = IF Mounted(kill.by) THEN [kill EXCEPT !.at = IF ok THEN "ok" ELSE "error"] ELSE None
  BY DEF ServerKills
<1>3. kill \in [by : Managers, seen : SUBSET Algos, at : Stages, alone : BOOLEAN]
  BY <1>1 DEF DeskTypes
<1>4. /\ kill' \in {None} \cup [by : Managers, seen : SUBSET Algos, at : Stages, alone : BOOLEAN]
      /\ kill' # None => kill'.alone = kill.alone /\ (kill'.at = "ok" => ok)
  BY <1>2, <1>3 DEF Stages
<1>5. KillIsAlone'
  BY <1>1, <1>2, <1>4 DEF KillIsAlone
<1>6. KillAllHolds'
  BY <1>1, <1>2 DEF KillAllHolds
<1>7. /\ algoOrders' \in SUBSET Algos
      /\ deploy' \in [Managers -> {None} \cup [ids : SUBSET Algos, at : Stages]]
      /\ killed' \in {None} \cup [tab : Tabs, alone : BOOLEAN, seen : SUBSET Algos]
  BY <1>1, <1>2 DEF DeskTypes
<1> QED
  BY <1>1, <1>4, <1>5, <1>6, <1>7, SameLibraries

\* The answer to a Kill All pauses what the manager had listed in its whole tab.
LEMMA KillAnsweredKeeps ==
  ASSUME DeskInv, UNCHANGED tabOf, KillAnswered
  PROVE  DeskInv'
<1> DEFINE h == kill.by
<1>1. /\ DeskTypes /\ NothingRunsUnseen /\ NeverReArmed /\ KillIsAlone /\ KillAllHolds
      /\ kill # None /\ kill' = None
      /\ UNCHANGED <<defs, algoOrders, fetch, deploy, armed>>
  BY DEF DeskInv, KillAnswered
<1>2. kill \in [by : Managers, seen : SUBSET Algos, at : Stages, alone : BOOLEAN] /\ h \in Hooks
  BY <1>1 DEF DeskTypes, Hooks
<1>3. /\ algoOrders' \in SUBSET Algos
      /\ deploy' \in [Managers -> {None} \cup [ids : SUBSET Algos, at : Stages]]
  BY <1>1 DEF DeskTypes
<1>4. CASE UNCHANGED <<store, lib, staged, selected, killed>>
  <2>1. KillIsAlone' /\ KillAllHolds'
    BY <1>1, <1>4 DEF KillIsAlone, KillAllHolds
  <2>2. killed' \in {None} \cup [tab : Tabs, alone : BOOLEAN, seen : SUBSET Algos]
    BY <1>1, <1>4 DEF DeskTypes
  <2> QED
    BY <1>1, <1>3, <1>4, <2>1, <2>2, SameLibraries
<1>5. CASE /\ kill.at = "ok" /\ Publish(h, Paused(lib[h], kill.seen))
           /\ staged' = [staged EXCEPT ![h] = {}] /\ selected' = [selected EXCEPT ![h] = {}]
           /\ killed' = [tab |-> tabOf[h], alone |-> kill.alone, seen |-> kill.seen]
  <2> DEFINE l == Paused(lib[h], kill.seen)
  <2>1. lib[h] \in [Algos -> Statuses \cup {None}] /\ kill.seen \in SUBSET Algos
        /\ tabOf[h] \in Tabs
    BY <1>1, <1>2 DEF DeskTypes, Library
  <2>2. l \in Library
    BY <2>1 DEF Paused, Updated, Library, Statuses
  <2>3. \A a \in Algos : l[a] = "quoting" => lib[h][a] = "quoting" /\ a \notin kill.seen
    BY <2>1, DeskStrings DEF Paused, Updated
  <2>4. Publish(h, l)
    BY <1>5
  <2> HIDE DEF l
  <2>5. \A a \in Algos : l[a] = "quoting" => a \in armed'[tabOf[h]]
    BY <1>1, <1>2, <2>3 DEF NeverReArmed
  <2>6. armed' \in [Tabs -> SUBSET Algos] /\ \A t \in Tabs : armed[t] \subseteq armed'[t]
    BY <1>1 DEF DeskTypes
  <2>7. /\ fetch' \in [Hooks -> [at : {"closed", "answered", "idle"}, defs : Library]]
        /\ \A g \in Hooks : Mounted(g)' <=> Mounted(g)
    BY <1>1 DEF Mounted, DeskTypes
  <2>8. /\ store' \in Library /\ lib' \in [Hooks -> Library]
        /\ NothingRunsUnseen' /\ NeverReArmed'
        /\ \A g \in Hooks : tabOf[g] = tabOf[h] => lib'[g] \in {l, NoAlgos}
    <3> HIDE DEF h
    <3> QED
      BY <1>1, <1>2, <2>2, <2>4, <2>5, <2>6, <2>7, PublishKeeps
  <2>9. /\ killed' \in [tab : Tabs, alone : BOOLEAN, seen : SUBSET Algos]
        /\ killed'.tab = tabOf[h] /\ killed'.alone = kill.alone /\ killed'.seen = kill.seen
    BY <1>2, <1>5, <2>1
  <2>10. /\ staged' \in [Managers -> SUBSET Algos] /\ selected' \in [Managers -> SUBSET Algos]
         /\ \A m \in Managers : selected'[m] \subseteq staged'[m]
    BY <1>1, <1>5 DEF DeskTypes
  <2>11. DeskTypes'
    BY <1>1, <1>3, <2>6, <2>7, <2>8, <2>9, <2>10 DEF DeskTypes
  <2>12. kill.alone => algoOrders' = {} /\ \A m \in Managers : deploy'[m] = None
    BY <1>1, <1>5 DEF KillIsAlone
  <2>13. KillIsAlone'
    BY <1>1, <2>9, <2>12 DEF KillIsAlone
  <2>14. KillAllHolds'
    <3>1. ASSUME NEW g \in Hooks, NEW a \in kill.seen, tabOf[g] = tabOf[h]
          PROVE  lib'[g][a] # "quoting"
      BY <2>1, <2>3, <2>8, <3>1, DeskStrings
    <3> HIDE DEF h
    <3> QED
      BY <2>9, <2>12, <3>1 DEF KillAllHolds
  <2> QED
    BY <2>8, <2>11, <2>13, <2>14 DEF DeskInv
<1> QED
  BY <1>4, <1>5 DEF KillAnswered

\* The desk starts with no window open and nothing running.
LEMMA DeskInitially ==
  ASSUME AlgoDeskInit
  PROVE  DeskInv
<1>1. tabOf \in [Hooks -> Tabs] /\ defs \in Library
  BY AlgoDeskAssumption DEF AlgoDeskInit, Library, Statuses
<1>2. DeskTypes
  BY <1>1, DeskStrings DEF AlgoDeskInit, DeskTypes, Fetching
<1>3. NothingRunsUnseen
  BY DeskStrings DEF AlgoDeskInit, NothingRunsUnseen
<1>4. NeverReArmed
  BY DeskStrings DEF AlgoDeskInit, NeverReArmed
<1> QED
  BY <1>2, <1>3, <1>4 DEF AlgoDeskInit, DeskInv, KillIsAlone, KillAllHolds

\* What changes nothing of the desk.
LEMMA DeskStill ==
  ASSUME DeskInv, UNCHANGED algoVars
  PROVE  DeskInv'
<1>1. DeskTypes' /\ NothingRunsUnseen'
  BY DEF DeskInv, DeskTypes, NothingRunsUnseen, Mounted, algoVars
<1>2. NeverReArmed' /\ KillIsAlone' /\ KillAllHolds'
  BY DEF DeskInv, NeverReArmed, KillIsAlone, KillAllHolds, algoVars
<1> QED
  BY <1>1, <1>2 DEF DeskInv

\* An algo that was stopped does not run again by itself, for any windows in any tabs,
\* any algos and any order of their answers.
THEOREM StoppedAlgosStayStopped == AlgoDeskSpec => []StoppedStaysStopped
<1>1. AlgoDeskInit => DeskInv
  BY DeskInitially
<1>2. DeskInv /\ [AlgoDeskNext]_algoVars => DeskInv'
  <2> SUFFICES ASSUME DeskInv, AlgoDeskStep, UNCHANGED tabOf PROVE DeskInv'
    BY DeskStill DEF AlgoDeskNext
  <2>1. ASSUME NEW h \in Hooks, OpenWindow(h) \/ ShutWindow(h) \/ FetchApplied(h)
        PROVE  DeskInv'
    BY <2>1, OpenKeeps, ShutKeeps, FetchKeeps
  <2>2. ASSUME NEW h \in Builders, NEW a \in Algos, \E status \in SavedAs : SaveDraft(h, a, status)
        PROVE  DeskInv'
    BY <2>2, EditKeeps, DeskStrings
  <2>3. ASSUME NEW h \in Managers, NEW a \in Algos,
               HoldAlgo(h, a) \/ RemoveAlgo(h, a) \/ LoadRow(h, a) \/ ToggleRow(h, a)
        PROVE  DeskInv'
    BY <2>3, EditKeeps, RowKeeps, DeskStrings
  <2>4. ASSUME NEW h \in Managers, NEW a \in Algos, DeployRow(h, a)
        PROVE  DeskInv'
    BY <2>4, DeployKeeps DEF DeployRow
  <2>5. ASSUME NEW h \in Managers,
               DeploySelected(h) \/ ServerDeploys(h) \/ DeployAnswered(h) \/ KillAll(h)
        PROVE  DeskInv'
    <3>1. staged[h] \subseteq Algos
      BY DEF DeskInv, DeskTypes
    <3>2. {a \in staged[h] \cap selected[h] : lib[h][a] # None} \in SUBSET Algos
      BY <3>1
    <3>3. CASE DeploySelected(h)
      BY <3>2, <3>3, DeployKeeps DEF DeploySelected
    <3> QED
      BY <2>5, <3>3, ServerDeploysKeeps, DeployAnsweredKeeps, KillAllKeeps
  <2>6. ASSUME NEW t \in Tabs, StorageEvent(t) PROVE DeskInv'
    BY <2>6, StorageKeeps
  <2>7. CASE ServerKills \/ KillAnswered
    BY <2>7, ServerKillsKeeps, KillAnsweredKeeps
  <2> QED
    BY <2>1, <2>2, <2>3, <2>4, <2>5, <2>6, <2>7 DEF AlgoDeskStep
<1>3. DeskInv => StoppedStaysStopped
  BY DEF DeskInv, DeskTypes, StoppedStaysStopped, AlgoDeskTypeOK
<1> QED
  BY <1>1, <1>2, <1>3, PTL DEF AlgoDeskSpec
-----------------------------------------------------------------------------
(***************************************************************************)
(* Workspaces.                                                             *)
(***************************************************************************)
SameId(b, w) == Key(b) = Key(w) /\ b.at = now

\* The others of a list are those of it that are not the workspace.
LEMMA OthersAreKept ==
  ASSUME NEW list \in Seq(Workspace), NEW w
  PROVE  /\ Others(list, w) \in Seq(Workspace)
         /\ \A i \in DOMAIN Others(list, w) : ~SameId(Others(list, w)[i], w)
         /\ Lists(list, Others(list, w))
<1> DEFINE gone == {list[n] : n \in {k \in DOMAIN list : Key(list[k]) = Key(w) /\ list[k].at = now}}
<1>1. Others(list, w) = Without(list, gone)
  BY DEF Others
<1>2. PICK o : o = Others(list, w)
  OBVIOUS
<1>3. /\ o \in Seq(Workspace) /\ Lists(list, o)
      /\ \A i \in DOMAIN o : o[i] \notin gone
  BY <1>1, <1>2, WithoutIs
<1>4. ASSUME NEW i \in DOMAIN o PROVE ~SameId(o[i], w)
  <2>1. PICK k \in DOMAIN list : o[i] = list[k]
    BY <1>3 DEF Lists
  <2> QED BY <1>3, <2>1 DEF SameId
<1> QED BY <1>2, <1>3, <1>4

\* The newest is first, none is of the future, and no two have one id.
Newest(list) ==
  /\ \A i \in DOMAIN list : list[i].at <= now
  /\ \A i, j \in DOMAIN list : i < j =>
       list[i].at >= list[j].at /\ ~(Key(list[i]) = Key(list[j]) /\ list[i].at = list[j].at)

\* A backup is put in front of the older ones, so that they stay newest first.
LEMMA BackupsAreOrdered ==
  ASSUME NEW list \in Seq(Workspace), NEW w \in Workspace, now \in Nat, Newest(list)
  PROVE  Backups(list, w) \in Seq(Workspace) /\ Newest(Backups(list, w))
<1>1. PICK x \in Workspace : x = [w EXCEPT !.at = now]
  BY DEF Workspace
<1>2. x.at = now /\ Key(x) = Key(w)
  BY <1>1 DEF Workspace, Key
<1>3. PICK o \in Seq(Workspace) : /\ o = Others(list, w) /\ Lists(list, o)
                                 /\ \A i \in DOMAIN o : ~SameId(o[i], w)
  BY OthersAreKept
<1>4. PICK e \in Seq(Workspace) : e = <<x>> \o o
  <2>1. <<x>> \in Seq(Workspace)
    OBVIOUS
  <2>2. <<x>> \o o \in Seq(Workspace)
    BY <1>3, <2>1, ConcatProperties
  <2> QED
    BY <2>2
<1>5. /\ DOMAIN e = 1 .. 1 + Len(o) /\ e[1] = x /\ Len(o) \in Nat /\ DOMAIN o = 1 .. Len(o)
      /\ \A i \in 2 .. 1 + Len(o) : i - 1 \in DOMAIN o /\ e[i] = o[i - 1]
  BY <1>4
<1>6. \A y \in Workspace : y.at \in Nat
  BY DEF Workspace
<1>7. ASSUME NEW i \in DOMAIN o
      PROVE  o[i].at <= now /\ ~SameId(o[i], w)
  <2>1. PICK k \in DOMAIN list : o[i] = list[k]
    BY <1>3 DEF Lists
  <2> QED
    BY <1>3, <2>1 DEF Newest
<1>8. ASSUME NEW i \in DOMAIN o, NEW j \in DOMAIN o, i < j
      PROVE  o[i].at >= o[j].at /\ ~(Key(o[i]) = Key(o[j]) /\ o[i].at = o[j].at)
  <2>1. PICK k \in DOMAIN list, l \in DOMAIN list :
          k < l /\ o[i] = list[k] /\ o[j] = list[l]
    BY <1>3, <1>8 DEF Lists
  <2> QED
    BY <2>1 DEF Newest
<1>9. ASSUME NEW i \in DOMAIN e
      PROVE  e[i].at <= now
  <2>1. CASE i = 1
    BY <1>2, <1>5, <2>1
  <2>2. CASE i \in 2 .. 1 + Len(o)
    BY <1>5, <1>7, <2>2
  <2> QED
    BY <1>5, <2>1, <2>2
<1>10. ASSUME NEW i \in DOMAIN e, NEW j \in DOMAIN e, i < j
       PROVE  e[i].at >= e[j].at /\ ~(Key(e[i]) = Key(e[j]) /\ e[i].at = e[j].at)
  <2>1. j \in 2 .. 1 + Len(o) /\ j - 1 \in DOMAIN o /\ e[j] = o[j - 1]
    BY <1>5, <1>10
  <2>2. CASE i = 1
    <3>1. e[i] = x /\ o[j - 1].at <= now /\ ~SameId(o[j - 1], w)
      BY <1>5, <1>7, <2>1, <2>2
    <3>2. o[j - 1].at \in Nat
      BY <1>6, <2>1
    <3> QED
      BY <1>2, <2>1, <3>1, <3>2 DEF SameId
  <2>3. CASE i \in 2 .. 1 + Len(o)
    <3>1. i - 1 \in DOMAIN o /\ e[i] = o[i - 1] /\ i - 1 < j - 1
      BY <1>5, <1>10, <2>1, <2>3
    <3> QED
      BY <1>8, <2>1, <3>1
  <2> QED
    BY <1>5, <2>2, <2>3
<1>11. Backups(list, w) = SubSeq(e, 1, Lesser(MaxBackups, Len(e)))
  BY <1>1, <1>3, <1>4 DEF Backups, FirstOf
<1>12. PICK n \in Nat : n = Lesser(MaxBackups, Len(e)) /\ n <= Len(e)
  BY WorkspacesAssumption DEF Lesser
<1>13. /\ SubSeq(e, 1, n) \in Seq(Workspace) /\ DOMAIN SubSeq(e, 1, n) = 1 .. n
       /\ \A i \in 1 .. n : i \in DOMAIN e /\ SubSeq(e, 1, n)[i] = e[i]
  BY <1>12
<1>14. PICK f \in Seq(Workspace) : f = SubSeq(e, 1, n)
  BY <1>13
<1>15. DOMAIN f = 1 .. n /\ \A i \in 1 .. n : i \in DOMAIN e /\ f[i] = e[i]
  BY <1>13, <1>14
<1>16. \A i \in DOMAIN f : f[i].at <= now
  BY <1>9, <1>15
<1>17. \A i, j \in DOMAIN f : i < j =>
         f[i].at >= f[j].at /\ ~(Key(f[i]) = Key(f[j]) /\ f[i].at = f[j].at)
  BY <1>10, <1>15
<1> QED
  BY <1>11, <1>12, <1>14, <1>16, <1>17 DEF Newest

(***************************************************************************)
(* The list of the Load menu and the four entries of localStorage.         *)
(***************************************************************************)
Desk == [name : Names, windows : SUBSET (Kinds \ Retired)]

Disk == [active : Workspace \cup {None}, default : Workspace \cup {None},
         names : SUBSET Workspace, backups : Seq(Workspace)]

OnePerName(list) == \A v, w \in list : Key(v) = Key(w) => v = w

\* The kinds every workspace has are not among the retired ones.
LEMMA KindsAre ==
  /\ Required \subseteq Kinds \ Retired /\ Retired \subseteq Kinds
  /\ DefaultWindows = Kinds \ Retired
  BY DEF Required, Kinds, Retired, DefaultWindows

\* A workspace that is read keeps its name and shows no retired window.
LEMMA NormalizedIs ==
  ASSUME NEW w \in Workspace
  PROVE  /\ Normalized(w) \in Workspace /\ Key(Normalized(w)) = Key(w)
         /\ ShownOf(Normalized(w)) \in Desk
<1>1. PICK k : k = (w.windows \ Retired) \cup Required
  OBVIOUS
<1>2. k \in SUBSET Kinds /\ k \in SUBSET (Kinds \ Retired)
  BY <1>1, KindsAre DEF Workspace
<1>3. Normalized(w) = [name |-> w.name, windows |-> k, at |-> w.at]
  BY <1>1 DEF Normalized, Workspace
<1>4. w.name \in Names /\ w.at \in Nat
  BY DEF Workspace
<1> QED
  BY <1>2, <1>3, <1>4 DEF Workspace, Desk, Key, ShownOf

\* Putting a workspace on the list replaces the one of its name.
LEMMA UpsertKeeps ==
  ASSUME NEW list \in SUBSET Workspace, OnePerName(list), NEW w \in Workspace
  PROVE  Upsert(list, w) \in SUBSET Workspace /\ OnePerName(Upsert(list, w))
  BY DEF Upsert, OnePerName

\* The workspace a launch goes on with.
LEMMA ActiveIs ==
  ASSUME NEW d \in Disk, ActiveOf(d) # None
  PROVE  ActiveOf(d) \in Workspace /\ ShownOf(ActiveOf(d)) \in Desk
<1>1. CASE d.default # None
  <2>1. d.default \in Workspace /\ ActiveOf(d) = Normalized(d.default)
    BY <1>1 DEF Disk, ActiveOf
  <2> QED
    BY <2>1, NormalizedIs
<1>2. CASE d.default = None
  <2>1. d.active # None /\ ActiveOf(d) = Normalized(d.active)
    BY <1>2 DEF ActiveOf
  <2>2. d.active \in Workspace
    BY <2>1 DEF Disk
  <2> QED
    BY <2>1, <2>2, NormalizedIs
<1> QED
  BY <1>1, <1>2

\* The list a launch offers.
LEMMA SavedIs ==
  ASSUME NEW d \in Disk, OnePerName(d.names)
  PROVE  SavedOf(d) \in SUBSET Workspace /\ OnePerName(SavedOf(d))
<1>1. PICK indexed : indexed = {Normalized(w) : w \in d.names}
  OBVIOUS
<1>2. \A w \in d.names : w \in Workspace /\ Normalized(w) \in Workspace /\ Key(Normalized(w)) = Key(w)
  BY NormalizedIs DEF Disk
<1>3. indexed \in SUBSET Workspace /\ OnePerName(indexed)
  BY <1>1, <1>2 DEF OnePerName
<1>4. CASE ActiveOf(d) = None
  BY <1>1, <1>3, <1>4 DEF SavedOf
<1>5. CASE ActiveOf(d) # None
  <2>1. SavedOf(d) = Upsert(indexed, ActiveOf(d))
    BY <1>1, <1>5 DEF SavedOf
  <2> QED
    BY <1>3, <1>5, <2>1, ActiveIs, UpsertKeeps
<1> QED
  BY <1>4, <1>5

\* What an autosave writes.
LEMMA AutosavedIs ==
  ASSUME NEW d \in Disk, NEW s \in Desk, NEW list \in SUBSET Workspace, now \in Nat
  PROVE  LET a == Autosaved(d, s, list)
         IN /\ a \in Disk /\ a.names = list /\ a.default = d.default /\ a.backups = d.backups
            /\ ShownOf(a.active) = s
<1>1. PICK w \in Workspace : w = [name |-> s.name, windows |-> s.windows, at |-> now]
  BY DEF Workspace, Desk
<1>2. ShownOf(w) = s
  BY <1>1 DEF ShownOf, Desk
<1>3. Autosaved(d, s, list) = [active |-> w, default |-> d.default, names |-> list, backups |-> d.backups]
  <2>1. Autosaved(d, s, list) = [d EXCEPT !.names = list, !.active = w]
    BY <1>1 DEF Autosaved
  <2> QED
    BY <2>1 DEF Disk
<1>4. d.default \in Workspace \cup {None} /\ d.backups \in Seq(Workspace)
  BY DEF Disk
<1> QED
  BY <1>2, <1>3, <1>4 DEF Disk

\* What the first n writes of a save leave on disk.
LEMMA PersistedIs ==
  ASSUME NEW d \in Disk, Newest(d.backups), NEW w \in Workspace, NEW list \in SUBSET Workspace,
         NEW n \in Nat, now \in Nat
  PROVE  LET p == Persisted(d, w, list, n)
         IN /\ p \in Disk /\ p.names = list /\ p.active = w /\ Newest(p.backups)
            /\ p.default = IF n >= 3 THEN w ELSE d.default
<1>1. PICK default : default = IF n >= 3 THEN w ELSE d.default
  OBVIOUS
<1>2. default \in Workspace \cup {None} /\ d.backups \in Seq(Workspace)
  BY <1>1 DEF Disk
<1>3. PICK b : b = IF n >= 4 THEN Backups(d.backups, w) ELSE d.backups
  OBVIOUS
<1>4. b \in Seq(Workspace) /\ Newest(b)
  BY <1>2, <1>3, BackupsAreOrdered
<1>5. Persisted(d, w, list, n) = [active |-> w, default |-> default, names |-> list, backups |-> b]
  <2>1. Persisted(d, w, list, n) =
          [d EXCEPT !.names = list, !.active = w, !.default = default, !.backups = b]
    BY <1>1, <1>3 DEF Persisted
  <2> QED
    BY <2>1 DEF Disk
<1>6. PICK p : p = Persisted(d, w, list, n)
  OBVIOUS
<1>7. p \in Disk /\ p.names = list /\ p.active = w /\ p.backups = b /\ p.default = default
  BY <1>2, <1>4, <1>5, <1>6 DEF Disk
<1> QED
  BY <1>1, <1>4, <1>6, <1>7

(***************************************************************************)
(* The invariant.                                                          *)
(***************************************************************************)
WorkspaceTypes ==
  /\ now \in Nat /\ page \in {"closed", "recovering", "open"}
  /\ disk \in Disk /\ shown \in Desk /\ saved \in SUBSET Workspace
  /\ latest \in Workspace \cup {None}

\* The list on disk has one entry for a name also while the page is closed.
WorkspaceInv ==
  /\ WorkspaceTypes
  /\ OnePerName(saved) /\ OnePerName(disk.names) /\ Newest(disk.backups)
  /\ SavedDefaultStays /\ AutosaveIsCurrent

\* Names and keys do not depend on the state, and backups only grow older.
LEMMA LaterIsNewest ==
  ASSUME NEW list \in Seq(Workspace), now \in Nat, now' \in Nat, now <= now', Newest(list)
  PROVE  Newest(list)'
<1>1. ASSUME NEW i \in DOMAIN list PROVE list[i].at \in Nat
  <2>1. list[i] \in Workspace
    OBVIOUS
  <2> QED
    BY <2>1 DEF Workspace
<1> QED
  BY <1>1 DEF Newest, Key

\* What a step leaves is sound.
LEMMA LeftSound ==
  ASSUME NEW d \in Disk, NEW s \in Desk, NEW l \in SUBSET Workspace,
         disk' = d, shown' = s, saved' = l, OnePerName(l), OnePerName(d.names), Newest(d.backups),
         WorkspaceTypes, now' \in Nat, now <= now', latest' = latest,
         page' \in {"closed", "recovering", "open"},
         page' # "closed" => d.names = l /\ ShownOf(d.active) = s,
         kept' # None => d.default = kept'
  PROVE  WorkspaceInv'
<1>1. WorkspaceTypes'
  BY DEF WorkspaceTypes
<1>2. OnePerName(saved)' /\ OnePerName(disk.names)'
  BY DEF OnePerName, Key
<1>3. Newest(disk.backups)'
  <2>1. PICK b \in Seq(Workspace) : b = d.backups
    BY DEF Disk
  <2>2. Newest(b)'
    BY <2>1, LaterIsNewest DEF WorkspaceTypes
  <2> QED
    BY <2>1, <2>2
<1>4. SavedDefaultStays'
  BY DEF SavedDefaultStays
<1>5. AutosaveIsCurrent'
  BY DEF AutosaveIsCurrent, Open, ShownOf
<1> QED
  BY <1>1, <1>2, <1>3, <1>4, <1>5 DEF WorkspaceInv

(***************************************************************************)
(* The steps.                                                              *)
(***************************************************************************)
LEMMA LaunchIsSound ==
  ASSUME WorkspaceInv, Launch
  PROVE  WorkspaceInv'
<1>1. /\ WorkspaceTypes /\ now \in Nat /\ disk \in Disk /\ OnePerName(disk.names)
      /\ Newest(disk.backups) /\ SavedDefaultStays
  BY DEF WorkspaceInv, WorkspaceTypes
<1>2. PICK initial : initial = ActiveOf(disk)
  OBVIOUS
<1>3. PICK left \in Desk :
        left = IF initial = None THEN [name |-> DeskName, windows |-> DefaultWindows] ELSE ShownOf(initial)
  <2>1. CASE initial = None
    <3>1. DeskName \in Names /\ DefaultWindows \in SUBSET (Kinds \ Retired)
      BY KindsAre, WorkspacesAssumption
    <3>2. [name |-> DeskName, windows |-> DefaultWindows] \in Desk
      BY ONLY <3>1 DEF Desk
    <3> QED
      BY <2>1, <3>2
  <2>2. CASE initial # None
    BY <1>1, <1>2, <2>2, ActiveIs
  <2> QED
    BY <2>1, <2>2
<1>4. PICK list \in SUBSET Workspace : list = SavedOf(disk) /\ OnePerName(list)
  BY <1>1, SavedIs
<1>5. PICK d \in Disk :
        /\ d = Autosaved(disk, left, list) /\ d.names = list /\ d.default = disk.default
        /\ d.backups = disk.backups /\ ShownOf(d.active) = left
  BY <1>1, AutosavedIs
<1>6. PICK seed \in Workspace :
        seed = [name |-> left.name, windows |-> left.windows, at |-> now] /\ ShownOf(seed) = left
  <2>1. SUBSET (Kinds \ Retired) \subseteq SUBSET Kinds
    OBVIOUS
  <2>2. PICK w \in Workspace : w = [name |-> left.name, windows |-> left.windows, at |-> now]
    BY <1>1, <2>1 DEF Workspace, Desk
  <2>3. ShownOf(w) = left
    BY <2>2 DEF ShownOf, Desk
  <2> QED
    BY <2>2, <2>3
<1>7. /\ shown' = left /\ now' = now /\ latest' = latest /\ kept' = kept /\ page' = "recovering"
      /\ saved' = IF disk.default = None THEN Upsert(list, seed) ELSE list
      /\ disk' = IF disk.default = None THEN Persisted(d, seed, Upsert(list, seed), AllWrites) ELSE d
  BY <1>2, <1>3, <1>4, <1>5, <1>6 DEF Launch
<1>8. CASE disk.default = None
  <2>1. PICK l \in SUBSET Workspace : l = Upsert(list, seed) /\ OnePerName(l)
    BY <1>4, UpsertKeeps
  <2>2. PICK p \in Disk : p = Persisted(d, seed, l, AllWrites) /\ p.names = l /\ p.active = seed
                          /\ Newest(p.backups)
    BY <1>1, <1>5, PersistedIs DEF AllWrites
  <2>3. kept = None
    BY <1>1, <1>8 DEF SavedDefaultStays
  <2>4. disk' = p /\ saved' = l
    BY <1>7, <1>8, <2>1, <2>2
  <2> QED
    BY <1>1, <1>6, <1>7, <2>1, <2>2, <2>3, <2>4, LeftSound
<1>9. CASE disk.default # None
  <2>1. disk' = d /\ saved' = list
    BY <1>7, <1>9
  <2>2. kept' # None => d.default = kept'
    BY <1>1, <1>5, <1>7 DEF SavedDefaultStays
  <2> QED
    BY <1>1, <1>4, <1>5, <1>7, <2>1, <2>2, LeftSound
<1> QED
  BY <1>8, <1>9

\* The gateway's workspaces arrive, whichever of them is chosen.
LEMMA RestoreIsSound ==
  ASSUME WorkspaceInv, Restore
  PROVE  WorkspaceInv'
<1>1. /\ WorkspaceTypes /\ now \in Nat /\ disk \in Disk /\ OnePerName(saved) /\ shown \in Desk
      /\ Newest(disk.backups) /\ SavedDefaultStays /\ saved \in SUBSET Workspace
      /\ latest \in Workspace \cup {None} /\ AutosaveIsCurrent /\ Open
  BY DEF WorkspaceInv, WorkspaceTypes, Restore, Open
<1> DEFINE TedS(available) == {w \in available : Key(w) = KeyOf[TedSName]}
           Base(available) == IF TedS(available) = {} THEN saved
                              ELSE {w \in saved : Key(w) # KeyOf[TedName]}
           Activated(available) == [(CHOOSE w \in TedS(available) : TRUE) EXCEPT !.at = now]
           List(available) == IF available = {} THEN saved ELSE UpsertAll(Base(available), available)
<1>2. PICK available \in Offered :
        /\ saved' = List(available)
        /\ \/ /\ TedS(available) # {} /\ shown' = ShownOf(Activated(available)) /\ kept' = None
              /\ disk' = [Autosaved(disk, shown', saved') EXCEPT !.default = Activated(available)]
           \/ /\ disk' = [disk EXCEPT !.names = saved']
              /\ UNCHANGED <<shown, kept>>
  BY DEF Restore
<1>3. UNCHANGED <<now, latest>> /\ page' = "open"
  BY DEF Restore
<1>4. /\ available \in SUBSET Workspace
      /\ \A v, w \in available : v = w
      /\ \A w \in available : ShownOf(w) \in Desk
  <2>1. latest # None => /\ Normalized(latest) \in Workspace
                         /\ ShownOf(Normalized(latest)) \in Desk
    BY <1>1, NormalizedIs
  <2>2. available = {} \/ (latest # None /\ available = {Normalized(latest)})
    BY DEF Offered
  <2> QED
    BY <2>1, <2>2
<1>5. PICK l \in SUBSET Workspace : l = List(available) /\ OnePerName(l)
  <2>1. PICK base : base = Base(available)
    OBVIOUS
  <2>2. base \in SUBSET Workspace /\ OnePerName(base)
    BY <1>1, <2>1 DEF OnePerName
  <2>3. UpsertAll(base, available) \in SUBSET Workspace /\ OnePerName(UpsertAll(base, available))
    BY <1>4, <2>2 DEF UpsertAll, OnePerName
  <2> HIDE DEF Base, TedS
  <2> QED
    BY <1>1, <2>1, <2>3
<1>6. CASE /\ TedS(available) # {} /\ shown' = ShownOf(Activated(available)) /\ kept' = None
           /\ disk' = [Autosaved(disk, shown', saved') EXCEPT !.default = Activated(available)]
  <2>1. PICK active \in available : active = CHOOSE w \in TedS(available) : TRUE
    BY <1>6
  <2>2. PICK w \in Workspace : w = [active EXCEPT !.at = now]
    BY <1>1, <1>4, <2>1 DEF Workspace
  <2>3. ShownOf(w) = ShownOf(active)
    BY <1>4, <2>1, <2>2 DEF ShownOf, Workspace
  <2>4. PICK s \in Desk : s = ShownOf(w)
    BY <1>4, <2>1, <2>3
  <2>5. shown' = s /\ saved' = l /\ disk' = [Autosaved(disk, s, l) EXCEPT !.default = w]
    <3>1. Activated(available) = w
      BY <2>1, <2>2
    <3> HIDE DEF Activated, List, TedS
    <3> QED
      BY <1>2, <1>5, <1>6, <2>4, <3>1
  <2>6. PICK a \in Disk : /\ a = Autosaved(disk, s, l) /\ a.names = l /\ a.backups = disk.backups
                          /\ ShownOf(a.active) = s
    BY <1>1, AutosavedIs
  <2>7. PICK d \in Disk : d = [a EXCEPT !.default = w] /\ d.names = l /\ d.backups = disk.backups
                          /\ ShownOf(d.active) = s
    <3>1. PICK e : e = [a EXCEPT !.default = w]
      OBVIOUS
    <3>2. e \in Disk /\ e.names = a.names /\ e.backups = a.backups /\ e.active = a.active
      BY <3>1 DEF Disk
    <3> QED
      BY <2>6, <3>1, <3>2
  <2>8. disk' = d /\ OnePerName(d.names) /\ Newest(d.backups)
    BY <1>1, <1>5, <2>5, <2>6, <2>7
  <2> HIDE DEF TedS, Activated, List, Base
  <2>9. /\ now' \in Nat /\ now <= now' /\ latest' = latest /\ WorkspaceTypes
        /\ page' \in {"closed", "recovering", "open"} /\ OnePerName(l)
        /\ kept' # None => d.default = kept'
    BY <1>1, <1>3, <1>5, <1>6
  <2>10. shown' = s /\ saved' = l /\ d.names = l /\ ShownOf(d.active) = s
    BY <2>5, <2>7
  <2> QED
    BY ONLY d \in Disk, s \in Desk, l \in SUBSET Workspace, <2>8, <2>9, <2>10, LeftSound
<1>7. CASE disk' = [disk EXCEPT !.names = saved'] /\ UNCHANGED <<shown, kept>>
  <2>1. saved' = l
    BY <1>2, <1>5
  <2>2. PICK s \in Desk : s = shown /\ shown' = s
    BY <1>1, <1>7
  <2>3. PICK d \in Disk : /\ d = [disk EXCEPT !.names = l] /\ d.names = l /\ d.backups = disk.backups
                          /\ d.active = disk.active /\ d.default = disk.default
    <3>1. PICK a \in Disk : a = disk
      BY <1>1
    <3>2. PICK e : e = [a EXCEPT !.names = l]
      OBVIOUS
    <3>3. e \in Disk /\ e.names = l /\ e.backups = a.backups /\ e.active = a.active
          /\ e.default = a.default
      BY <3>2 DEF Disk
    <3> QED
      BY <3>1, <3>2, <3>3
  <2>4. disk' = d /\ OnePerName(d.names) /\ Newest(d.backups)
    BY <1>1, <1>5, <1>7, <2>1, <2>3
  <2>5. ShownOf(d.active) = s
    BY <1>1, <2>2, <2>3 DEF AutosaveIsCurrent
  <2>6. kept' # None => d.default = kept'
    BY <1>1, <1>7, <2>3 DEF SavedDefaultStays
  <2> HIDE DEF TedS, Activated, List, Base
  <2>7. /\ now' \in Nat /\ now <= now' /\ latest' = latest /\ WorkspaceTypes
        /\ page' \in {"closed", "recovering", "open"} /\ OnePerName(l)
    BY <1>1, <1>3, <1>5
  <2>8. shown' = s /\ d.names = l
    BY <2>2, <2>3
  <2> QED
    BY ONLY d \in Disk, s \in Desk, l \in SUBSET Workspace, <2>1, <2>4, <2>5, <2>6, <2>7, <2>8,
       LeftSound
<1> HIDE DEF TedS, Activated, List, Base
<1> QED
  BY <1>2, <1>6, <1>7

\* An edit or a load shows another desktop, which is saved as it is shown.
LEMMA ShownIsSound ==
  ASSUME WorkspaceInv, NEW s \in Desk, shown' = s, disk' = Autosaved(disk, s, saved), Open,
         UNCHANGED <<now, saved, page, latest, kept>>
  PROVE  WorkspaceInv'
<1>1. /\ WorkspaceTypes /\ now \in Nat /\ disk \in Disk /\ OnePerName(saved)
      /\ Newest(disk.backups) /\ SavedDefaultStays /\ page \in {"closed", "recovering", "open"}
  BY DEF WorkspaceInv, WorkspaceTypes
<1>2. PICK l \in SUBSET Workspace : l = saved
  BY DEF WorkspaceInv, WorkspaceTypes
<1>3. PICK d \in Disk : /\ d = Autosaved(disk, s, l) /\ d.names = l /\ d.default = disk.default
                        /\ d.backups = disk.backups /\ ShownOf(d.active) = s
  BY <1>1, AutosavedIs
<1>4. kept' # None => d.default = kept'
  BY <1>1, <1>3 DEF SavedDefaultStays
<1> QED
  BY <1>1, <1>2, <1>3, <1>4, LeftSound

\* The desk changes, and is saved by itself.
LEMMA EditIsSound ==
  ASSUME WorkspaceInv, NEW s \in Desk, Edit(s)
  PROVE  WorkspaceInv'
<1>1. shown' = s /\ disk' = Autosaved(disk, s, saved) /\ Open
      /\ UNCHANGED <<now, saved, page, latest, kept>>
  BY DEF Edit
<1> QED
  BY <1>1, ShownIsSound

\* A window is opened or closed, or the name is typed.
LEMMA DeskChangeIsSound ==
  ASSUME WorkspaceInv,
         \/ \E k \in Toggled : AddWindow(k) \/ CloseWindow(k)
         \/ \E n \in Typed : Rename(n)
  PROVE  WorkspaceInv'
<1>1. PICK s \in Desk : s = shown
  BY DEF WorkspaceInv, WorkspaceTypes
<1>2. ASSUME NEW k \in Toggled, AddWindow(k)
      PROVE  WorkspaceInv'
  <2>1. [s EXCEPT !.windows = @ \cup {k}] \in Desk
    BY WorkspacesAssumption DEF Desk
  <2> QED
    BY <1>1, <1>2, <2>1, EditIsSound DEF AddWindow
<1>3. ASSUME NEW k \in Toggled, CloseWindow(k)
      PROVE  WorkspaceInv'
  <2>1. [s EXCEPT !.windows = @ \ {k}] \in Desk
    BY DEF Desk
  <2> QED
    BY <1>1, <1>3, <2>1, EditIsSound DEF CloseWindow
<1>4. ASSUME NEW n \in Typed, Rename(n)
      PROVE  WorkspaceInv'
  <2>1. [s EXCEPT !.name = n] \in Desk
    BY WorkspacesAssumption DEF Desk
  <2> QED
    BY <1>1, <1>4, <2>1, EditIsSound DEF Rename
<1> QED
  BY <1>2, <1>3, <1>4

\* A workspace of the menu is loaded.
LEMMA LoadIsSound ==
  ASSUME WorkspaceInv, NEW w \in saved, LoadWorkspace(w)
  PROVE  WorkspaceInv'
<1>1. w \in Workspace
  BY DEF WorkspaceInv, WorkspaceTypes
<1>2. PICK s \in Desk : s = ShownOf(Normalized(w))
  BY <1>1, NormalizedIs
<1>3. shown' = s /\ disk' = Autosaved(disk, s, saved) /\ Open
      /\ UNCHANGED <<now, saved, page, latest, kept>>
  BY <1>2 DEF LoadWorkspace, Loaded
<1> QED
  BY <1>3, ShownIsSound

\* A save of which the first n writes succeed.
LEMMA SaveIsSound ==
  ASSUME WorkspaceInv, NEW n \in 2 .. AllWrites, SaveWorkspace(n)
  PROVE  WorkspaceInv'
<1>1. /\ WorkspaceTypes /\ now \in Nat /\ disk \in Disk /\ OnePerName(saved)
      /\ Newest(disk.backups) /\ SavedDefaultStays /\ page \in {"closed", "recovering", "open"}
      /\ n \in Nat
  BY DEF WorkspaceInv, WorkspaceTypes, AllWrites
<1>2. PICK s \in Desk : s = shown
  BY <1>1 DEF WorkspaceTypes
<1>3. PICK w \in Workspace : w = Snapshot /\ ShownOf(w) = s
  <2>1. SUBSET (Kinds \ Retired) \subseteq SUBSET Kinds
    OBVIOUS
  <2>2. PICK w \in Workspace : w = [name |-> s.name, windows |-> s.windows, at |-> now]
    BY <1>1, <2>1 DEF Workspace, Desk
  <2>3. ShownOf(w) = s
    BY <2>2 DEF ShownOf, Desk
  <2> QED
    BY <1>2, <2>2, <2>3 DEF Snapshot
<1>4. PICK l \in SUBSET Workspace : l = Upsert(saved, w) /\ OnePerName(l)
  BY <1>1, UpsertKeeps DEF WorkspaceTypes
<1>5. PICK d \in Disk : /\ d = Persisted(disk, w, l, n) /\ d.names = l /\ d.active = w
                        /\ Newest(d.backups) /\ d.default = IF n >= 3 THEN w ELSE disk.default
  BY <1>1, PersistedIs
<1>6. /\ shown' = s /\ saved' = l /\ disk' = d /\ UNCHANGED <<now, page, latest>>
      /\ kept' = IF n >= 3 THEN w ELSE kept
  BY <1>2, <1>3, <1>4, <1>5 DEF SaveWorkspace
<1>7. kept' # None => d.default = kept'
  BY <1>1, <1>5, <1>6 DEF SavedDefaultStays
<1> QED
  BY <1>1, <1>3, <1>4, <1>5, <1>6, <1>7, LeftSound

\* The page closes, the clock goes on, the gateway saves, or nothing happens.
LEMMA RestIsSound ==
  ASSUME WorkspaceInv, Close \/ Tick \/ ServerSaves \/ UNCHANGED workspaceVars
  PROVE  WorkspaceInv'
<1>1. /\ WorkspaceTypes /\ now \in Nat /\ disk \in Disk /\ OnePerName(saved) /\ OnePerName(disk.names)
      /\ Newest(disk.backups) /\ SavedDefaultStays /\ AutosaveIsCurrent
      /\ page \in {"closed", "recovering", "open"}
  BY DEF WorkspaceInv, WorkspaceTypes
<1>2. /\ UNCHANGED <<disk, shown, saved, latest, kept>> /\ now' \in Nat /\ now <= now'
      /\ page' \in {page, "closed"}
  BY <1>1 DEF Close, Tick, ServerSaves, workspaceVars
<1>3. PICK s \in Desk : s = shown
  BY <1>1 DEF WorkspaceTypes
<1>4. PICK l \in SUBSET Workspace : l = saved
  BY <1>1 DEF WorkspaceTypes
<1>5. PICK d \in Disk : d = disk
  BY <1>1
<1>6. page' # "closed" => d.names = l /\ ShownOf(d.active) = s
  BY <1>1, <1>2, <1>3, <1>4, <1>5 DEF AutosaveIsCurrent, Open
<1>7. kept' # None => d.default = kept'
  BY <1>1, <1>2, <1>5 DEF SavedDefaultStays
<1>8. OnePerName(l) /\ OnePerName(d.names) /\ Newest(d.backups)
  BY <1>1, <1>4, <1>5
<1>9. page' \in {"closed", "recovering", "open"}
  BY <1>1, <1>2
<1> QED
  BY <1>1, <1>2, <1>3, <1>4, <1>5, <1>6, <1>7, <1>8, <1>9, LeftSound

\* Before the first launch: an empty disk, or one with a default saved.
LEMMA WorkspacesStart ==
  ASSUME WorkspacesInit
  PROVE  WorkspaceInv
<1>1. /\ now = 0 /\ page = "closed" /\ kept = None /\ saved = {} /\ latest \in Latest
      /\ shown = [name |-> DeskName, windows |-> DefaultWindows]
  BY DEF WorkspacesInit
<1>2. shown \in Desk
  BY <1>1, KindsAre, WorkspacesAssumption DEF Desk
<1>3. disk \in Disk /\ OnePerName(disk.names) /\ disk.backups = <<>>
  <2>1. PICK w \in Workspace : w = [name |-> TedName, windows |-> {"ladder", "alerts"}, at |-> 0]
    BY WorkspacesAssumption DEF Workspace, Kinds
  <2>2. disk = EmptyDisk \/ disk = [EmptyDisk EXCEPT !.default = w, !.names = {w}]
    BY <2>1 DEF WorkspacesInit
  <2>3. EmptyDisk \in Disk /\ EmptyDisk.names = {} /\ EmptyDisk.backups = <<>>
    BY DEF EmptyDisk, Disk
  <2>4. CASE disk = EmptyDisk
    BY <2>3, <2>4 DEF OnePerName
  <2>5. CASE disk = [EmptyDisk EXCEPT !.default = w, !.names = {w}]
    <3>1. disk \in Disk /\ disk.names = {w} /\ disk.backups = <<>>
      BY <2>3, <2>5 DEF Disk
    <3> QED
      BY <3>1 DEF OnePerName
  <2> QED
    BY <2>2, <2>4, <2>5
<1>4. Newest(disk.backups) /\ OnePerName(saved)
  BY <1>1, <1>3 DEF Newest, OnePerName
<1> QED
  BY <1>1, <1>2, <1>3, <1>4, WorkspacesAssumption
  DEF WorkspaceInv, WorkspaceTypes, SavedDefaultStays, AutosaveIsCurrent, Open

\* Each step of the desktop leaves the workspaces as the next one needs them.
LEMMA WorkspaceStepIsSound ==
  ASSUME WorkspaceInv, [WorkspacesNext]_workspaceVars
  PROVE  WorkspaceInv'
<1>1. CASE Launch \/ Restore
  BY <1>1, LaunchIsSound, RestoreIsSound
<1>2. CASE Close \/ Tick \/ ServerSaves \/ UNCHANGED workspaceVars
  BY <1>2, RestIsSound
<1>3. CASE \/ \E k \in Toggled : AddWindow(k) \/ CloseWindow(k)
           \/ \E n \in Typed : Rename(n)
  BY <1>3, DeskChangeIsSound
<1>4. ASSUME NEW n \in 2 .. AllWrites, SaveWorkspace(n)
      PROVE  WorkspaceInv'
  BY <1>4, SaveIsSound
<1>5. ASSUME NEW w \in saved, LoadWorkspace(w)
      PROVE  WorkspaceInv'
  BY <1>5, LoadIsSound
<1> QED
  BY <1>1, <1>2, <1>3, <1>4, <1>5 DEF WorkspacesNext

\* What was saved or left open is what the next launch finds (persistWorkspaceSnapshot,
\* loadSavedWorkspaces, restoreRecoveredWorkspace), for any names, saves and launches,
\* whichever of the writes of a save fail and whatever the gateway offers.
THEOREM WorkspacesStayKept == WorkspacesSpec => []WorkspacesAreKept
<1>1. WorkspaceInv /\ [WorkspacesNext]_workspaceVars => WorkspaceInv'
  BY WorkspaceStepIsSound
<1>2. WorkspaceInv => WorkspacesAreKept
  <2> SUFFICES ASSUME WorkspaceInv PROVE WorkspacesAreKept
    OBVIOUS
  <2>1. SavedDefaultStays /\ OneEntryPerName /\ AutosaveIsCurrent
    BY DEF WorkspaceInv, OnePerName, OneEntryPerName
  <2>2. BackupsNewestFirst
    BY DEF WorkspaceInv, Newest, BackupsNewestFirst
  <2>3. NoRetiredWindow
    BY DEF WorkspaceInv, WorkspaceTypes, Desk, NoRetiredWindow
  <2> QED
    BY <2>1, <2>2, <2>3 DEF WorkspacesAreKept
<1> QED
  BY <1>1, <1>2, WorkspacesStart, PTL DEF WorkspacesSpec
-----------------------------------------------------------------------------
\* Every name of one list is one of the other.
NamesOf(list, other) == \A w \in list : \E v \in other : Key(v) = Key(w)

\* Saving one workspace takes no name off the list.
LEMMA UpsertNames ==
  ASSUME NEW list, NEW w
  PROVE  NamesOf(list, Upsert(list, w))
BY DEF NamesOf, Upsert

\* What a launch reads keeps the names of the index.
LEMMA SavedNames ==
  ASSUME NEW d \in Disk
  PROVE  NamesOf(d.names, SavedOf(d))
<1>1. PICK indexed : indexed = {Normalized(w) : w \in d.names}
  OBVIOUS
<1>2. \A w \in d.names : Key(Normalized(w)) = Key(w) /\ Normalized(w) \in indexed
  BY <1>1, NormalizedIs DEF Disk
<1>3. NamesOf(d.names, indexed)
  BY <1>2 DEF NamesOf
<1>4. SavedOf(d) = indexed \/ SavedOf(d) = Upsert(indexed, ActiveOf(d))
  BY <1>1 DEF SavedOf
<1> QED
  BY <1>3, <1>4, UpsertNames DEF NamesOf

\* While the page is closed the list it offered is still on disk.
NamesOnDisk == NamesOf(saved, disk.names)

\* Every save writes the list it shows, and nothing is taken off either of them later.
LEMMA NamesStayOnDisk ==
  ASSUME WorkspaceInv, WorkspaceInv', NamesOnDisk, [WorkspacesNext]_workspaceVars
  PROVE  NamesOnDisk'
<1>1. CASE Open'
  <2>1. disk'.names = saved'
    BY <1>1 DEF WorkspaceInv, AutosaveIsCurrent
  <2>2. NamesOf(saved', disk'.names)
    BY <2>1 DEF NamesOf
  <2> QED BY <2>2 DEF NamesOnDisk, NamesOf, Key
<1>2. CASE ~Open'
  <2>1. page' # "recovering" /\ page' # "open"
    BY <1>2 DEF Open
  <2>2. Close \/ Tick \/ ServerSaves \/ UNCHANGED workspaceVars \/ ~Open
    BY <2>1 DEF WorkspacesNext, Launch, Restore, AddWindow, CloseWindow, Rename, Edit,
                SaveWorkspace, LoadWorkspace, Open
  <2>3. UNCHANGED <<saved, disk>>
    BY <2>1, <2>2 DEF WorkspacesNext, Launch, Restore, AddWindow, CloseWindow, Rename, Edit,
                SaveWorkspace, LoadWorkspace, Open, Close, Tick, ServerSaves, workspaceVars
  <2> QED BY <2>3 DEF NamesOnDisk, NamesOf, Key
<1> QED BY <1>1, <1>2

\* A launch offers what is on disk, and at most saves one more.
LEMMA LaunchKeepsNames ==
  ASSUME WorkspaceInv, NamesOnDisk, Launch
  PROVE  NamesOf(saved, saved')
<1>1. disk \in Disk
  BY DEF WorkspaceInv, WorkspaceTypes
<1>2. PICK list : list = SavedOf(disk)
  OBVIOUS
<1>3. saved' = list \/ \E w : saved' = Upsert(list, w)
  BY <1>2 DEF Launch
<1>4. NamesOf(disk.names, list)
  BY <1>1, <1>2, SavedNames
<1>5. NamesOf(saved, list)
  BY <1>4 DEF NamesOnDisk, NamesOf
<1>6. \A w : NamesOf(list, Upsert(list, w))
  BY UpsertNames
<1> QED BY <1>3, <1>5, <1>6 DEF NamesOf

\* What the gateway answers is added to the list; only Ted leaves it.
LEMMA RestoreKeepsNames ==
  ASSUME Restore, NEW w \in saved, Key(w) # KeyOf[TedName]
  PROVE  \E v \in saved' : Key(v) = Key(w)
<1>1. PICK available \in Offered :
        \/ saved' = saved
        \/ saved' = UpsertAll(saved, available)
        \/ saved' = UpsertAll({v \in saved : Key(v) # KeyOf[TedName]}, available)
  BY DEF Restore
<1> QED BY <1>1 DEF UpsertAll

\* No name of the Load menu is lost, but Ted to Ted S, for any names, saves and launches
\* and whatever the gateway offers.
THEOREM NamesStay == WorkspacesSpec => NamesAreNotLost
<1>1. WorkspacesInit => WorkspaceInv /\ NamesOnDisk
  <2>1. WorkspacesInit => saved = {}
    BY DEF WorkspacesInit
  <2> QED BY <2>1, WorkspacesStart DEF NamesOnDisk, NamesOf
<1>2. WorkspaceInv /\ NamesOnDisk /\ [WorkspacesNext]_workspaceVars => (WorkspaceInv /\ NamesOnDisk)'
  BY WorkspaceStepIsSound, NamesStayOnDisk
<1>3. WorkspaceInv /\ NamesOnDisk /\ [WorkspacesNext]_workspaceVars =>
        [NamesGoOn]_workspaceVars
  <2> SUFFICES ASSUME WorkspaceInv, NamesOnDisk, WorkspacesNext, NEW w \in saved, Key(w) # KeyOf[TedName]
               PROVE  \E v \in saved' : Key(v) = Key(w)
    BY DEF NamesGoOn
  <2>1. CASE Launch
    BY <2>1, LaunchKeepsNames DEF NamesOf
  <2>2. CASE Restore
    BY <2>2, RestoreKeepsNames
  <2>3. CASE \E n \in 2 .. AllWrites : SaveWorkspace(n)
    <3>1. saved' = Upsert(saved, Snapshot)
      BY <2>3 DEF SaveWorkspace
    <3> QED BY <3>1, UpsertNames DEF NamesOf
  <2>4. CASE saved' = saved
    BY <2>4
  <2>5. Launch \/ Restore \/ (\E n \in 2 .. AllWrites : SaveWorkspace(n)) \/ saved' = saved
    BY DEF WorkspacesNext, Close, Tick, ServerSaves, AddWindow, CloseWindow, Rename, Edit,
           LoadWorkspace
  <2> QED BY <2>1, <2>2, <2>3, <2>4, <2>5
<1> QED BY <1>1, <1>2, <1>3, PTL DEF WorkspacesSpec, NamesAreNotLost

(***************************************************************************)
(* Alerts.                                                                 *)
(***************************************************************************)
\* The types of what the effect reads.
AlertTypes ==
  /\ rules \in [AlertIds -> RulesOf(Wares) \cup {None}] /\ used \subseteq AlertIds
  /\ config \in [AlertIds -> {RuleKey(rule) : rule \in RulesOf(Wares)} \cup {None}]
  /\ seen \in [AlertIds -> VerdictsOf(RulesOf(Wares)) \cup {None}]
  /\ armedRule \in [AlertIds -> BOOLEAN \cup {None}]

\* An identity is of one rule only, and the refs of the window hold, of a rule there is,
\* what the last run found of it: a price rule is armed unless it was hit.
RefsHoldVerdict(id) ==
  /\ rules[id] # None \/ config[id] # None \/ seen[id] # None => id \in used
  /\ rules[id] # None =>
       /\ seen[id] = None => config[id] = None
       /\ seen[id] # None =>
            /\ config[id] = seen[id].key
            /\ seen[id].key[2] = "last" => (armedRule[id] <=> ~(seen[id].on /\ seen[id].hit))
AlertsInv == AlertTypes /\ \A id \in AlertIds : RefsHoldVerdict(id)

\* A rule that is there has the types of one, and its parts.
LEMMA RuleIs ==
  ASSUME NEW rule \in RulesOf(Wares)
  PROVE  /\ rule # None /\ RuleKey(rule) # None /\ rule.enabled \in BOOLEAN
         /\ rule.field \in {"last", "fill"}
         /\ RuleKey(rule)[2] = rule.field /\ Hit(rule) \in BOOLEAN
<1>1. rule # None /\ RuleKey(rule) # None
  BY AlertsAssumption
<1>2. rule.enabled \in BOOLEAN /\ rule.field \in {"last", "fill"}
  BY DEF RulesOf
<1>3. RuleKey(rule)[2] = rule.field
  BY DEF RuleKey
<1>4. Hit(rule) \in BOOLEAN
  <2>1. CASE rule.op = ">="
    <3>1. Hit(rule) = (lastPrice[WareOf(rule)] >= rule.value)
      BY <2>1, Zenon DEF Hit
    <3>2. (lastPrice[WareOf(rule)] >= rule.value) \in BOOLEAN
      OBVIOUS
    <3> QED BY <3>1, <3>2, Zenon
  <2>2. CASE rule.op # ">="
    <3>1. Hit(rule) = (lastPrice[WareOf(rule)] <= rule.value)
      BY <2>2, Zenon DEF Hit
    <3>2. (lastPrice[WareOf(rule)] <= rule.value) \in BOOLEAN
      OBVIOUS
    <3> QED BY <3>1, <3>2, Zenon
  <2> QED BY <2>1, <2>2
<1> QED BY <1>1, <1>2, <1>3, <1>4

\* What the effect notes of one rule, and what it leaves armed.
LEMMA JudgedIs ==
  ASSUME AlertsInv, NEW id \in AlertIds, rules[id] # None
  PROVE  /\ Judged(id) = [key |-> RuleKey(rules[id]), on |-> rules[id].enabled,
                          hit |-> Hit(rules[id])]
         /\ Judged(id) \in VerdictsOf(RulesOf(Wares)) /\ Judged(id) # None
         /\ rules[id].field = "last" =>
              /\ ArmedAfter(id) \in BOOLEAN
              /\ ArmedAfter(id) <=> ~(rules[id].enabled /\ Hit(rules[id]))
<1>1. rules[id] \in RulesOf(Wares)
  BY DEF AlertsInv, AlertTypes
<1>2. Judged(id) = [key |-> RuleKey(rules[id]), on |-> rules[id].enabled, hit |-> Hit(rules[id])]
  BY DEF Judged
<1>3. Judged(id) \in VerdictsOf(RulesOf(Wares))
  BY <1>1, <1>2, RuleIs DEF VerdictsOf, AlertsInv
<1>4. ASSUME rules[id].field = "last"
      PROVE  ArmedAfter(id) = IF ~rules[id].enabled THEN TRUE ELSE ~Hit(rules[id])
  BY <1>4 DEF ArmedAfter
<1>5. ASSUME rules[id].field = "last"
      PROVE  /\ ArmedAfter(id) \in BOOLEAN
             /\ ArmedAfter(id) <=> ~(rules[id].enabled /\ Hit(rules[id]))
  BY <1>1, <1>4, <1>5, RuleIs DEF AlertsInv
<1> QED BY <1>2, <1>3, <1>5, AlertsAssumption

\* The effect announces a price rule exactly when it comes to be hit.
LEMMA JudgeRings ==
  ASSUME AlertsInv, Judge
  PROVE  RingsOnCrossing
<1> SUFFICES ASSUME NEW id \in AlertIds, rules[id] # None, rules[id].enabled,
                    rules[id].field = "last"
             PROVE  id \in announced' <=> Hit(rules[id]) /\ ~RangBefore(id)
  BY DEF RingsOnCrossing
<1>1. rules[id] \in RulesOf(Wares) /\ RefsHoldVerdict(id)
  BY DEF AlertsInv, AlertTypes
<1>2. id \in announced' <=> Hit(rules[id]) /\ ArmedOf(id)
  BY DEF Judge, Announces
<1>3. ArmedOf(id) <=> ~RangBefore(id)
  <2>1. CASE seen[id] = None
    <3>1. config[id] # RuleKey(rules[id])
      BY <1>1, <2>1, RuleIs DEF AlertsInv, RefsHoldVerdict
    <3> QED BY <2>1, <3>1 DEF ArmedOf, RangBefore
  <2>2. CASE seen[id] # None /\ seen[id].key # RuleKey(rules[id])
    <3>1. config[id] # RuleKey(rules[id])
      BY <1>1, <2>2 DEF RefsHoldVerdict
    <3> QED BY <2>2, <3>1 DEF ArmedOf, RangBefore
  <2>3. CASE seen[id] # None /\ seen[id].key = RuleKey(rules[id])
    <3>1. config[id] = RuleKey(rules[id]) /\ seen[id].key[2] = "last"
      BY <1>1, <2>3, RuleIs DEF AlertsInv, RefsHoldVerdict
    <3>2. armedRule[id] <=> ~(seen[id].on /\ seen[id].hit)
      BY <1>1, <2>3, <3>1 DEF RefsHoldVerdict
    <3>3. ArmedOf(id) = armedRule[id]
      BY <3>1 DEF ArmedOf
    <3> QED BY <2>3, <3>2, <3>3 DEF RangBefore
  <2> QED BY <2>1, <2>2, <2>3
<1> QED BY <1>2, <1>3

\* A run of the effect.
LEMMA JudgeKeeps ==
  ASSUME AlertsInv, Judge
  PROVE  AlertsInv'
<1>1. \A id \in AlertIds : rules[id] \in RulesOf(Wares) \cup {None}
  BY DEF AlertsInv, AlertTypes
<1>2. ASSUME NEW id \in AlertIds
      PROVE  /\ ArmedAfter(id) \in BOOLEAN \cup {None}
             /\ Judged(id) \in VerdictsOf(RulesOf(Wares)) \cup {None}
  <2>1. ArmedOf(id) \in BOOLEAN \cup {None}
    BY DEF AlertsInv, AlertTypes, ArmedOf
  <2>2. rules[id] # None => Hit(rules[id]) \in BOOLEAN
    BY <1>1, RuleIs DEF AlertsInv
  <2>3. armedRule[id] \in BOOLEAN \cup {None}
    BY DEF AlertsInv, AlertTypes
  <2>4. ArmedAfter(id) \in BOOLEAN \cup {None}
    BY <2>1, <2>2, <2>3 DEF ArmedAfter
  <2>5. Judged(id) \in VerdictsOf(RulesOf(Wares)) \cup {None}
    BY JudgedIs DEF Judged
  <2> QED BY <2>4, <2>5
<1>3. AlertTypes'
  <2>1. armedRule' \in [AlertIds -> BOOLEAN \cup {None}]
    BY <1>2 DEF Judge
  <2>2. seen' \in [AlertIds -> VerdictsOf(RulesOf(Wares)) \cup {None}]
    BY <1>2 DEF Judge
  <2>3. config' \in [AlertIds -> {RuleKey(rule) : rule \in RulesOf(Wares)} \cup {None}]
    BY <1>1 DEF Judge, AlertsInv, AlertTypes
  <2>4. rules' \in [AlertIds -> RulesOf(Wares) \cup {None}] /\ used' \subseteq AlertIds
    BY DEF Judge, AlertsInv, AlertTypes
  <2> QED BY <2>1, <2>2, <2>3, <2>4 DEF AlertTypes, RulesOf, VerdictsOf, RuleKey
<1>4. ASSUME NEW id \in AlertIds PROVE RefsHoldVerdict(id)'
  <2>1. /\ rules'[id] = rules[id] /\ used' = used /\ seen'[id] = Judged(id)
        /\ armedRule'[id] = ArmedAfter(id)
        /\ config'[id] = IF rules[id] = None THEN config[id] ELSE RuleKey(rules[id])
    BY DEF Judge
  <2>2. RefsHoldVerdict(id)
    BY DEF AlertsInv
  <2>3. CASE rules[id] = None
    BY <2>1, <2>2, <2>3 DEF RefsHoldVerdict, Judged
  <2>4. CASE rules[id] # None
    <3>1. rules[id] \in RulesOf(Wares)
      BY <1>1, <2>4
    <3>2. seen'[id] # None /\ config'[id] = seen'[id].key /\ id \in used'
      BY <2>1, <2>2, <2>4, JudgedIs DEF RefsHoldVerdict
    <3>3. ASSUME seen'[id].key[2] = "last"
          PROVE  armedRule'[id] <=> ~(seen'[id].on /\ seen'[id].hit)
      <4>1. rules[id].field = "last"
        BY <2>1, <2>4, <3>1, <3>3, JudgedIs, RuleIs DEF AlertsInv
      <4> QED BY <2>1, <2>4, <4>1, JudgedIs
    <3> QED BY <3>2, <3>3 DEF RefsHoldVerdict
  <2> QED BY <2>3, <2>4
<1> QED BY <1>3, <1>4 DEF AlertsInv

\* The operator's changes of one rule.
LEMMA EditedKeeps ==
  ASSUME AlertsInv, NEW id \in AlertIds, NEW rule \in RulesOf(Wares) \cup {None},
         rules' = [rules EXCEPT ![id] = rule], UNCHANGED Refs,
         \/ used' = used /\ (rule = None \/ rules[id] # None)
         \/ id \notin used /\ used' = used \cup {id}
  PROVE  AlertsInv'
<1>1. AlertTypes'
  BY DEF AlertsInv, AlertTypes, Refs, RulesOf, VerdictsOf, RuleKey
<1>2. ASSUME NEW other \in AlertIds PROVE RefsHoldVerdict(other)'
  <2>1. /\ config' = config /\ seen' = seen /\ armedRule' = armedRule /\ used \subseteq used'
        /\ other # id => rules'[other] = rules[other]
        /\ rules'[id] = rule
    BY DEF AlertsInv, AlertTypes, Refs
  <2>2. RefsHoldVerdict(other)
    BY DEF AlertsInv
  <2>3. CASE other # id
    BY <2>1, <2>2, <2>3 DEF RefsHoldVerdict
  <2>4. CASE other = id
    BY <2>1, <2>2, <2>4 DEF RefsHoldVerdict
  <2> QED BY <2>3, <2>4
<1> QED BY <1>1, <1>2 DEF AlertsInv

\* The window closes or opens, and forgets.
LEMMA ToggleKeeps ==
  ASSUME AlertsInv, ToggleAlerts
  PROVE  AlertsInv'
<1>1. /\ rules' = rules /\ used' = used
      /\ config' = [id \in AlertIds |-> None] /\ seen' = [id \in AlertIds |-> None]
      /\ armedRule' = [id \in AlertIds |-> None]
  BY DEF ToggleAlerts, Unset
<1>2. AlertTypes'
  BY <1>1 DEF AlertsInv, AlertTypes, RulesOf, VerdictsOf, RuleKey
<1>3. \A id \in AlertIds : RefsHoldVerdict(id)'
  BY <1>1 DEF AlertsInv, RefsHoldVerdict
<1> QED BY <1>2, <1>3 DEF AlertsInv

\* What leaves the rules and the refs alone.
LEMMA AlertsStill ==
  ASSUME AlertsInv, UNCHANGED <<rules, used, Refs>>
  PROVE  AlertsInv'
<1>1. rules' = rules /\ used' = used /\ config' = config /\ seen' = seen /\ armedRule' = armedRule
  BY DEF Refs
<1> QED BY <1>1 DEF AlertsInv, AlertTypes, RefsHoldVerdict, RulesOf, VerdictsOf, RuleKey

\* The lowest price, and the rule a new alert starts with.
LEMMA LowestIs == Lowest \in Quotes
BY AlertsAssumption DEF Lowest

\* A new alert starts as a rule of a listed product.
LEMMA NewRuleIs == NewRule \in RulesOf(Wares)
BY LowestIs, AlertsAssumption DEF NewRule, RulesOf

\* Every step keeps what the refs hold.
LEMMA AlertsStep ==
  ASSUME AlertsInv, [AlertsNext]_alertVars
  PROVE  AlertsInv'
<1>1. CASE Judge
  BY <1>1, JudgeKeeps
<1>2. CASE ToggleAlerts
  BY <1>2, ToggleKeeps
<1>3. ASSUME NEW id \in AlertIds, AddAlert(id) PROVE AlertsInv'
  BY <1>3, NewRuleIs, EditedKeeps DEF AddAlert, Edited
<1>4. ASSUME NEW id \in AlertIds, RemoveAlert(id) PROVE AlertsInv'
  BY <1>4, EditedKeeps DEF RemoveAlert, Edited
<1>5. ASSUME NEW id \in AlertIds, NEW rule \in RulesOf(Wares), EditAlert(id, rule)
      PROVE  AlertsInv'
  BY <1>5, EditedKeeps DEF EditAlert, Edited
<1>6. CASE \/ UNCHANGED alertVars
           \/ \E id \in AlertIds : TestAlert(id) \/ DeliveryAnswers(id)
           \/ \E w \in Wares : FillComes(w) \/ Relist(w) \/ \E q \in Quotes : Trade(w, q)
  <2>1. UNCHANGED <<rules, used, Refs>>
    BY <1>6 DEF alertVars, Refs, TestAlert, DeliveryAnswers, FillComes, Relist, Trade
  <2> QED BY <2>1, AlertsStill
<1> QED
  BY <1>1, <1>2, <1>3, <1>4, <1>5, <1>6 DEF AlertsNext

\* The alerts there were when the window opened.
LEMMA AlertsStart == AlertsInit => AlertsInv
<1> SUFFICES ASSUME AlertsInit PROVE AlertsInv
  OBVIOUS
<1>1. /\ config = [id \in AlertIds |-> None] /\ seen = [id \in AlertIds |-> None]
      /\ armedRule = [id \in AlertIds |-> None]
  BY DEF AlertsInit, Unset
<1>2. /\ rules \in [AlertIds -> RulesOf(Wares) \cup {None}] /\ used \subseteq AlertIds
      /\ \A id \in AlertIds : rules[id] # None => id \in used
  BY DEF AlertsInit, Unset
<1>3. \A id \in AlertIds : RefsHoldVerdict(id)
  BY <1>1, <1>2 DEF RefsHoldVerdict
<1> QED BY <1>1, <1>2, <1>3 DEF AlertsInv, AlertTypes

\* A price rule rings exactly when it comes to be hit (AlertsWindow, the effect), for any
\* rules, products and prices, whatever is edited, filled or delisted in between.
THEOREM AlertsRingOnCrossing == AlertsSpec => AnnouncedOnCrossing
<1>1. AlertsInv /\ [AlertsNext]_alertVars => AlertsInv'
  BY AlertsStep
<1>2. AlertsInv /\ [AlertsNext]_alertVars => [RingsOnCrossing]_alertVars
  <2> SUFFICES ASSUME AlertsInv, AlertsNext PROVE RingsOnCrossing
    OBVIOUS
  <2>1. CASE Judge
    BY <2>1, JudgeRings
  <2>2. CASE ~Judge
    <3>1. ~(due /\ ~due')
      BY <2>2 DEF AlertsNext, ToggleAlerts, AddAlert, RemoveAlert, EditAlert, Edited, TestAlert,
             DeliveryAnswers, FillComes, Relist, Trade
    <3> QED BY <3>1 DEF RingsOnCrossing
  <2> QED BY <2>1, <2>2
<1> QED BY <1>1, <1>2, AlertsStart, PTL DEF AlertsSpec, AnnouncedOnCrossing

(***************************************************************************)
(* Markers of an event market.                                             *)
(***************************************************************************)
SameColumn(m, k) == m.key = k.key /\ m.slot = k.slot

\* What a marker of the ladder says is so of its entry: it is one that was made, was not
\* taken away, and is pending while its call is on its way.
MarkerHolds(m, calls, gone, entries) ==
  /\ m.id <= entries /\ m.id \notin gone
  /\ m.status = "pending" <=> \E entry \in calls : entry.id = m.id /\ ~entry.ticket

\* Identities are of entries made so far, each of one call and of one column.
EventInv ==
  /\ market \in EventMarkets /\ counts \in [entries : Nat, toggles : Nat, books : Nat]
  /\ ticket \in {None} \cup [slot : EventSlots, cents : Cents]
  /\ markers \in Seq(EventMarkers) /\ dragged \in EventMarkers \cup {None}
  /\ flying \subseteq [id : Nat, ticket : BOOLEAN]
  /\ \A m \in ToSet(markers) : MarkerHolds(m, flying, cancelled, counts.entries)
  /\ \A m, k \in ToSet(markers) : m.id = k.id => SameColumn(m, k)
  /\ dragged # None =>
       /\ dragged.id <= counts.entries /\ dragged.id \notin cancelled
       /\ \A m \in ToSet(markers) : m.id = dragged.id => SameColumn(m, dragged)
  /\ \A id \in cancelled : id \in Nat /\ id <= counts.entries
  /\ \A e \in flying : e.id <= counts.entries
  /\ \A e, f \in flying : e.id = f.id => e = f

\* The members of a list that is cut short, or of which some are dropped, are its own.
LEMMA FewerMembers ==
  ASSUME NEW S, NEW list \in Seq(S), NEW n \in Nat, NEW gone
  PROVE  /\ FirstOf(list, n) \in Seq(S) /\ ToSet(FirstOf(list, n)) \subseteq ToSet(list)
         /\ Without(list, gone) \in Seq(S) /\ ToSet(Without(list, gone)) \subseteq ToSet(list) \ gone
         /\ ToSet(list) \subseteq S
<1>1. PICK k \in Nat : k = Lesser(n, Len(list)) /\ k <= Len(list)
  BY DEF Lesser
<1>2. /\ SubSeq(list, 1, k) \in Seq(S) /\ DOMAIN SubSeq(list, 1, k) = 1 .. k
      /\ \A i \in 1 .. k : i \in DOMAIN list /\ SubSeq(list, 1, k)[i] = list[i]
  BY <1>1
<1>3. FirstOf(list, n) \in Seq(S) /\ ToSet(FirstOf(list, n)) \subseteq ToSet(list)
  BY <1>1, <1>2 DEF FirstOf, ToSet
<1>4. Without(list, gone) \in Seq(S) /\ ToSet(Without(list, gone)) \subseteq ToSet(list) \ gone
  <2>1. PICK w \in Seq(S) : w = Without(list, gone)
    BY WithoutIs
  <2>2. \A i \in DOMAIN w : w[i] \notin gone /\ \E j \in DOMAIN list : w[i] = list[j]
    BY <2>1, WithoutIs DEF Lists
  <2> QED BY <2>1, <2>2 DEF ToSet
<1>5. ToSet(list) \subseteq S
  BY DEF ToSet
<1> QED BY <1>3, <1>4, <1>5, Zenon

\* A list that gets one more member in front.
LEMMA OneInFront ==
  ASSUME NEW S, NEW list \in Seq(S), NEW x \in S
  PROVE  /\ <<x>> \o list \in Seq(S) /\ ToSet(<<x>> \o list) = ToSet(list) \cup {x}
         /\ Len(<<x>> \o list) = Len(list) + 1 /\ (<<x>> \o list)[1] = x
         /\ \A i \in 2 .. Len(list) + 1 : i - 1 \in DOMAIN list /\ (<<x>> \o list)[i] = list[i - 1]
<1>1. PICK e \in Seq(S) : e = <<x>> \o list
  <2>1. <<x>> \in Seq(S)
    OBVIOUS
  <2> QED BY <2>1, ConcatProperties
<1>2. /\ DOMAIN e = 1 .. 1 + Len(list) /\ e[1] = x /\ Len(list) \in Nat /\ DOMAIN list = 1 .. Len(list)
      /\ \A i \in 2 .. 1 + Len(list) : i - 1 \in DOMAIN list /\ e[i] = list[i - 1]
      /\ \A k \in DOMAIN list : k + 1 \in DOMAIN e /\ e[k + 1] = list[k]
  BY <1>1
<1>3. ToSet(e) \subseteq ToSet(list) \cup {x}
  <2>1. ASSUME NEW i \in DOMAIN e PROVE e[i] \in ToSet(list) \cup {x}
    <3>1. i = 1 \/ i \in 2 .. 1 + Len(list)
      BY <1>2
    <3> QED BY <1>2, <3>1 DEF ToSet
  <2> QED BY <2>1 DEF ToSet
<1>4. ToSet(list) \cup {x} \subseteq ToSet(e)
  <2>1. x \in ToSet(e)
    BY <1>2 DEF ToSet
  <2>2. ASSUME NEW k \in DOMAIN list PROVE list[k] \in ToSet(e)
    BY <1>2 DEF ToSet
  <2> QED BY <2>1, <2>2 DEF ToSet
<1> QED BY <1>1, <1>3, <1>4

\* An entry without a ticket, over markers of which some may have been dropped.
LEMMA SubmitFastKeeps ==
  ASSUME EventInv, NEW list \in Seq(EventMarkers), ToSet(list) \subseteq ToSet(markers),
         NEW slot \in EventSlots, NEW cents \in Cents, SubmitFast(list, Intent(slot, cents)),
         market' = market, cancelled' = cancelled, dragged' \in {dragged, None},
         ticket' \in {None} \cup [slot : EventSlots, cents : Cents]
  PROVE  EventInv'
<1> DEFINE id == counts.entries + 1
           It(status) == [id |-> id, key |-> market, slot |-> slot, cents |-> cents, status |-> status]
<1>1. /\ id \in Nat /\ counts' \in [entries : Nat, toggles : Nat, books : Nat]
      /\ counts'.entries = id
  <2>1. counts' = [counts EXCEPT !["entries"] = @ + 1]
    BY DEF SubmitFast, Counted
  <2> QED BY <2>1 DEF EventInv
<1>2. \A status \in {"pending", "rejected"} :
        /\ WithMarker(list, Intent(slot, cents), status) \in Seq(EventMarkers)
        /\ ToSet(WithMarker(list, Intent(slot, cents), status)) \subseteq ToSet(markers) \cup {It(status)}
  <2> TAKE status \in {"pending", "rejected"}
  <2>1. It(status) \in EventMarkers
    BY <1>1 DEF EventMarkers, EventInv
  <2>2. WithMarker(list, Intent(slot, cents), status) = FirstOf(<<It(status)>> \o list, MarkerLimit)
    BY DEF WithMarker, Marker, Intent, Fresh
  <2>3. MarkerLimit \in Nat
    BY EventMarketAssumption
  <2>4. PICK x \in EventMarkers : x = It(status)
    BY <2>1
  <2>5. <<x>> \o list \in Seq(EventMarkers) /\ ToSet(<<x>> \o list) = ToSet(list) \cup {x}
    BY OneInFront
  <2>6. PICK e \in Seq(EventMarkers) :
          e = <<It(status)>> \o list /\ ToSet(e) = ToSet(list) \cup {It(status)}
    BY <2>4, <2>5, Zenon
  <2>7. FirstOf(e, MarkerLimit) \in Seq(EventMarkers) /\ ToSet(FirstOf(e, MarkerLimit)) \subseteq ToSet(e)
    BY <2>3, FewerMembers
  <2> QED BY <2>2, <2>6, <2>7, Zenon
<1>3. /\ FirstOf(list, MarkerLimit - 1) \in Seq(EventMarkers)
      /\ ToSet(FirstOf(list, MarkerLimit - 1)) \subseteq ToSet(markers)
  <2>1. MarkerLimit - 1 \in Nat
    BY EventMarketAssumption
  <2> QED BY <2>1, FewerMembers
<1>4. PICK status \in {"pending", "rejected"} :
        /\ markers' \in Seq(EventMarkers) /\ ToSet(markers') \subseteq ToSet(markers) \cup {It(status)}
        /\ \/ status = "rejected" /\ flying' = flying
           \/ status = "pending" /\ flying' = flying \cup {[id |-> id, ticket |-> FALSE]}
  <2>1. CASE simulated
    BY <1>3, <2>1 DEF SubmitFast
  <2>2. CASE ~simulated /\ full
    BY <1>2, <2>2 DEF SubmitFast
  <2>3. CASE ~simulated /\ ~full
    BY <1>2, <2>3 DEF SubmitFast, Posts, Fresh
  <2> QED BY <2>1, <2>2, <2>3
<1>5. \A m \in ToSet(markers) : m \in EventMarkers /\ m.id \in Nat /\ m.id < id /\ m.id # id
  <2>1. ToSet(markers) \subseteq EventMarkers
    BY FewerMembers DEF EventInv
  <2> QED BY <2>1 DEF EventInv, MarkerHolds, EventMarkers
<1>6. \A e \in flying : e.id \in Nat /\ e.id < id /\ e.id # id
  BY DEF EventInv
<1>7. flying' \subseteq [id : Nat, ticket : BOOLEAN]
  <2>1. [id |-> id, ticket |-> FALSE] \in [id : Nat, ticket : BOOLEAN]
    BY <1>1
  <2> HIDE DEF id
  <2> QED BY <1>4, <2>1 DEF EventInv
<1>8. \A e \in flying' : e.id <= id
  BY <1>1, <1>4, <1>6
<1>9. \A e, f \in flying' : e.id = f.id => e = f
  <2> DEFINE new == [id |-> id, ticket |-> FALSE]
  <2>1. new.id = id
    OBVIOUS
  <2>2. flying' = flying \/ flying' = flying \cup {new}
    BY <1>4
  <2> HIDE DEF id, new
  <2> QED BY <1>6, <2>1, <2>2 DEF EventInv
<1>10. \A m \in ToSet(markers') : MarkerHolds(m, flying', cancelled', id)
  <2> TAKE m \in ToSet(markers')
  <2>1. CASE m \in ToSet(markers)
    BY <1>4, <1>5, <2>1 DEF EventInv, MarkerHolds
  <2>2. CASE m = It(status)
    <3>1. m.id = id /\ m.status = status
      BY <2>2
    <3>2. id \notin cancelled /\ id <= id
      BY <1>1 DEF EventInv
    <3> HIDE DEF id, It
    <3>3. CASE status = "pending" /\ flying' = flying \cup {[id |-> id, ticket |-> FALSE]}
      <4> DEFINE new == [id |-> id, ticket |-> FALSE]
      <4>1. new.id = id /\ ~new.ticket
        BY DEF id
      <4>2. new \in flying'
        BY <3>3
      <4> HIDE DEF new
      <4> QED BY <3>1, <3>2, <3>3, <4>1, <4>2 DEF MarkerHolds
    <3>4. CASE status = "rejected" /\ flying' = flying
      BY <1>6, <3>1, <3>2, <3>4 DEF MarkerHolds
    <3> QED BY <1>4, <3>3, <3>4
  <2> QED BY <1>4, <2>1, <2>2
<1>11. \A m, k \in ToSet(markers') : m.id = k.id => SameColumn(m, k)
  <2> SUFFICES ASSUME NEW m \in ToSet(markers'), NEW k \in ToSet(markers'), m.id = k.id
               PROVE  SameColumn(m, k)
    OBVIOUS
  <2>1. It(status).id = id
    OBVIOUS
  <2> QED BY <1>4, <1>5, <2>1 DEF EventInv, SameColumn
<1>12. dragged' # None =>
         /\ dragged'.id <= id /\ dragged'.id \notin cancelled'
         /\ \A m \in ToSet(markers') : m.id = dragged'.id => SameColumn(m, dragged')
  <2> SUFFICES ASSUME dragged # None, dragged' = dragged
               PROVE  /\ dragged.id <= id /\ dragged.id \notin cancelled
                      /\ \A m \in ToSet(markers') : m.id = dragged.id => SameColumn(m, dragged)
    OBVIOUS
  <2>1. dragged.id \in Nat /\ dragged.id <= counts.entries /\ dragged.id # id
    BY <1>1 DEF EventInv, EventMarkers
  <2>2. It(status).id = id
    OBVIOUS
  <2> QED BY <1>1, <1>4, <2>1, <2>2 DEF EventInv
<1>13. \A x \in cancelled' : x \in Nat /\ x <= id
  BY <1>1 DEF EventInv
<1>14. market' \in EventMarkets /\ dragged' \in EventMarkers \cup {None}
  BY DEF EventInv
<1> QED BY <1>1, <1>4, <1>7, <1>8, <1>9, <1>10, <1>11, <1>12, <1>13, <1>14 DEF EventInv

\* What at most drops markers or lets go of the one that is dragged.
LEMMA NoMoreMarkers ==
  ASSUME EventInv, market' \in EventMarkets, ticket' \in {None} \cup [slot : EventSlots, cents : Cents],
         counts' \in [entries : Nat, toggles : Nat, books : Nat], counts.entries <= counts'.entries,
         markers' \in Seq(EventMarkers), ToSet(markers') \subseteq ToSet(markers),
         dragged' \in {dragged, None}, flying' = flying, cancelled' = cancelled
  PROVE  EventInv'
<1>1. counts.entries \in Nat /\ counts'.entries \in Nat
  BY DEF EventInv
<1>2. \A m \in ToSet(markers) : m.id \in Nat
  <2>1. ToSet(markers) \subseteq EventMarkers
    BY FewerMembers DEF EventInv
  <2> QED BY <2>1 DEF EventMarkers
<1>3. \A m \in ToSet(markers') : MarkerHolds(m, flying', cancelled', counts'.entries)
  BY <1>1, <1>2 DEF EventInv, MarkerHolds
<1>4. /\ \A e \in flying' : e.id <= counts'.entries
      /\ \A x \in cancelled' : x \in Nat /\ x <= counts'.entries
  BY <1>1 DEF EventInv
<1>5. dragged' # None =>
         /\ dragged'.id <= counts'.entries /\ dragged'.id \notin cancelled'
         /\ \A m \in ToSet(markers') : m.id = dragged'.id => SameColumn(m, dragged')
  <2> SUFFICES ASSUME dragged # None, dragged' = dragged
               PROVE  /\ dragged.id <= counts'.entries /\ dragged.id \notin cancelled
                      /\ \A m \in ToSet(markers') : m.id = dragged.id => SameColumn(m, dragged)
    OBVIOUS
  <2>1. dragged.id \in Nat
    BY DEF EventInv, EventMarkers
  <2> QED BY <1>1, <2>1 DEF EventInv
<1> QED BY <1>3, <1>4, <1>5 DEF EventInv

\* A ticket, by a click or taken away, and its submission.
LEMMA TicketKeeps ==
  ASSUME EventInv, \/ \E slot \in EventSlots, cents \in Cents : Click(slot, cents)
                   \/ ClearTicket \/ SubmitTicket
  PROVE  EventInv'
<1>1. CASE \E slot \in EventSlots, cents \in Cents : Click(slot, cents)
  <2>1. PICK slot \in EventSlots, cents \in Cents : Click(slot, cents)
    BY <1>1
  <2>2. CASE fast
    BY <2>1, <2>2, SubmitFastKeeps DEF Click, EventInv
  <2>3. CASE ~fast
    <3>1. Intent(slot, cents) \in [slot : EventSlots, cents : Cents]
      BY DEF Intent
    <3> QED BY <2>1, <2>3, <3>1, NoMoreMarkers DEF Click, EventInv
  <2> QED BY <2>2, <2>3
<1>2. CASE ClearTicket
  BY <1>2, NoMoreMarkers DEF ClearTicket, EventInv
<1>3. CASE SubmitTicket
  <2>1. /\ counts.entries + 1 \in Nat /\ counts' \in [entries : Nat, toggles : Nat, books : Nat]
        /\ counts'.entries = counts.entries + 1 /\ counts.entries <= counts'.entries
    <3>1. counts' = [counts EXCEPT !["entries"] = @ + 1]
      BY <1>3 DEF SubmitTicket, Counted
    <3> QED BY <3>1 DEF EventInv
  <2>2. CASE markers' = FirstOf(markers, MarkerLimit - 1) /\ ticket' = None /\ flying' = flying
    <3>1. MarkerLimit - 1 \in Nat
      BY EventMarketAssumption
    <3>2. markers' \in Seq(EventMarkers) /\ ToSet(markers') \subseteq ToSet(markers)
      BY <2>2, <3>1, FewerMembers DEF EventInv
    <3> QED BY <1>3, <2>1, <2>2, <3>2, NoMoreMarkers DEF SubmitTicket, EventInv
  <2>3. CASE Posts(TRUE) /\ ticket' = ticket /\ markers' = markers
    <3> DEFINE id == counts.entries + 1
               new == [id |-> id, ticket |-> TRUE]
    <3>1. flying' = flying \cup {new} /\ new.id = id /\ new.ticket /\ new \in [id : Nat, ticket : BOOLEAN]
      BY <2>1, <2>3 DEF Posts, Fresh
    <3>2. /\ market' = market /\ dragged' = dragged /\ cancelled' = cancelled /\ markers' = markers
          /\ ticket' = ticket /\ counts'.entries = id /\ id \in Nat
          /\ counts' \in [entries : Nat, toggles : Nat, books : Nat]
      BY <1>3, <2>1, <2>3 DEF SubmitTicket
    <3>3. \A e \in flying : e.id \in Nat /\ e.id < id
      BY DEF EventInv
    <3>4. \A m \in ToSet(markers) : m.id \in Nat /\ m.id < id
      <4>1. ToSet(markers) \subseteq EventMarkers
        BY FewerMembers DEF EventInv
      <4> QED BY <4>1 DEF EventInv, EventMarkers, MarkerHolds
    <3>5. \A x \in cancelled : x \in Nat /\ x <= id
      BY DEF EventInv
    <3>6. dragged # None => dragged.id <= id
      BY DEF EventInv, EventMarkers
    <3> HIDE DEF id, new
    <3>7. \A m \in ToSet(markers') : MarkerHolds(m, flying', cancelled', counts'.entries)
      BY <3>1, <3>2, <3>4 DEF EventInv, MarkerHolds
    <3>8. /\ flying' \subseteq [id : Nat, ticket : BOOLEAN] /\ \A e \in flying' : e.id <= id
          /\ \A e, f \in flying' : e.id = f.id => e = f
      BY <3>1, <3>2, <3>3 DEF EventInv
    <3> QED BY <3>2, <3>5, <3>6, <3>7, <3>8 DEF EventInv
  <2> QED BY <1>3, <2>2, <2>3 DEF SubmitTicket
<1> QED BY <1>1, <1>2, <1>3

\* The answer of a call settles the markers of its entry.
LEMMA AnswerKeeps ==
  ASSUME EventInv, NEW entry \in flying, NEW taken \in BOOLEAN, Answer(entry, taken)
  PROVE  EventInv'
<1>1. /\ flying' = flying \ {entry} /\ market' = market /\ dragged' = dragged /\ counts' = counts
      /\ cancelled' = cancelled /\ ticket' \in {None, ticket}
  BY DEF Answer
<1>2. CASE entry.ticket
  <2>1. markers' = markers
    BY <1>2 DEF Answer
  <2>2. \A m \in ToSet(markers) : MarkerHolds(m, flying', cancelled, counts.entries)
    BY <1>1, <1>2 DEF EventInv, MarkerHolds
  <2> QED BY <1>1, <2>1, <2>2 DEF EventInv
<1>3. CASE ~entry.ticket
  <2>1. markers' = [n \in DOMAIN markers |->
                      IF markers[n].id = entry.id
                      THEN [markers[n] EXCEPT !.status = IF taken THEN "working" ELSE "rejected"] ELSE markers[n]]
    BY <1>3 DEF Answer, SettledMarkers
  <2>2. ASSUME NEW n \in DOMAIN markers
        PROVE  /\ markers'[n] \in EventMarkers /\ markers[n] \in ToSet(markers)
               /\ markers'[n].id = markers[n].id /\ SameColumn(markers'[n], markers[n])
               /\ markers[n].id = entry.id => markers'[n].status # "pending"
               /\ markers[n].id # entry.id => markers'[n] = markers[n]
    <3>1. markers[n] \in EventMarkers /\ markers[n] \in ToSet(markers)
      BY DEF EventInv, ToSet
    <3> QED BY <2>1, <3>1 DEF EventMarkers, SameColumn
  <2>3. markers' \in Seq(EventMarkers) /\ DOMAIN markers' = DOMAIN markers
    <3>1. DOMAIN markers = 1 .. Len(markers) /\ Len(markers) \in Nat
      BY DEF EventInv
    <3>2. markers' \in [1 .. Len(markers) -> EventMarkers]
      BY <2>1, <2>2, <3>1
    <3> QED BY <3>1, <3>2, SeqDef
  <2>4. ASSUME NEW m \in ToSet(markers')
        PROVE  \E k \in ToSet(markers) : /\ m.id = k.id /\ SameColumn(m, k)
                                         /\ m.id = entry.id => m.status # "pending"
                                         /\ m.id # entry.id => m = k
    <3>1. PICK n \in DOMAIN markers' : m = markers'[n]
      BY DEF ToSet
    <3> QED BY <2>2, <2>3, <3>1
  <2>5. ASSUME NEW m \in ToSet(markers')
        PROVE  MarkerHolds(m, flying', cancelled, counts.entries)
    <3>1. PICK k \in ToSet(markers) : /\ m.id = k.id /\ SameColumn(m, k)
                                      /\ m.id = entry.id => m.status # "pending"
                                      /\ m.id # entry.id => m = k
      BY <2>4
    <3>2. MarkerHolds(k, flying, cancelled, counts.entries)
      BY DEF EventInv
    <3>3. CASE m.id = entry.id
      <4>1. \A e \in flying' : e.id # m.id
        BY <1>1, <3>3 DEF EventInv
      <4> QED BY <3>1, <3>2, <3>3, <4>1 DEF MarkerHolds
    <3>4. CASE m.id # entry.id
      BY <1>1, <3>1, <3>2, <3>4 DEF MarkerHolds
    <3> QED BY <3>3, <3>4
  <2>6. \A m, k \in ToSet(markers') : m.id = k.id => SameColumn(m, k)
    <3> SUFFICES ASSUME NEW m \in ToSet(markers'), NEW k \in ToSet(markers'), m.id = k.id
                 PROVE  SameColumn(m, k)
      OBVIOUS
    <3>1. PICK a \in ToSet(markers) : m.id = a.id /\ SameColumn(m, a)
      BY <2>4
    <3>2. PICK b \in ToSet(markers) : k.id = b.id /\ SameColumn(k, b)
      BY <2>4
    <3> QED BY <3>1, <3>2 DEF EventInv, SameColumn
  <2>7. dragged # None => \A m \in ToSet(markers') : m.id = dragged.id => SameColumn(m, dragged)
    <3> SUFFICES ASSUME dragged # None, NEW m \in ToSet(markers'), m.id = dragged.id
                 PROVE  SameColumn(m, dragged)
      OBVIOUS
    <3>1. PICK a \in ToSet(markers) : m.id = a.id /\ SameColumn(m, a)
      BY <2>4
    <3> QED BY <3>1 DEF EventInv, SameColumn
  <2> QED BY <1>1, <2>3, <2>5, <2>6, <2>7 DEF EventInv
<1> QED BY <1>2, <1>3

\* Markers that are taken away, and a drag of one that goes on only if it stays.
LEMMA RemainsKeeps ==
  ASSUME EventInv, NEW gone \in SUBSET ToSet(markers), Remains(gone), dragged' \in {dragged, None},
         \A m \in ToSet(markers), g \in gone : m.id = g.id => m \in gone,
         dragged' # None => \A g \in gone : g.id # dragged'.id
  PROVE  EventInv'
<1>1. /\ market' = market /\ ticket' = ticket /\ flying' = flying /\ counts' = counts
      /\ markers' = Without(markers, gone) /\ cancelled' = cancelled \cup {m.id : m \in gone}
  BY DEF Remains
<1>2. markers' \in Seq(EventMarkers) /\ ToSet(markers') \subseteq ToSet(markers) \ gone
  BY <1>1, FewerMembers DEF EventInv
<1>3. ToSet(markers) \subseteq EventMarkers
  BY FewerMembers DEF EventInv
<1>4. \A m \in ToSet(markers') : m.id \notin cancelled'
  BY <1>1, <1>2 DEF EventInv, MarkerHolds
<1>5. \A m \in ToSet(markers') : MarkerHolds(m, flying', cancelled', counts'.entries)
  BY <1>1, <1>2, <1>4 DEF EventInv, MarkerHolds
<1>6. \A x \in cancelled' : x \in Nat /\ x <= counts'.entries
  BY <1>1, <1>3 DEF EventInv, MarkerHolds, EventMarkers
<1>7. dragged' # None =>
         /\ dragged'.id <= counts'.entries /\ dragged'.id \notin cancelled'
         /\ \A m \in ToSet(markers') : m.id = dragged'.id => SameColumn(m, dragged')
  BY <1>1, <1>2 DEF EventInv
<1> QED BY <1>1, <1>2, <1>5, <1>6, <1>7 DEF EventInv

\* Markers cancelled, dragged and dropped.
LEMMA MarkerKeeps ==
  ASSUME EventInv, \/ \E n \in DOMAIN markers : CancelMarker(n) \/ Drag(n)
                   \/ \E slot \in EventSlots : CancelColumn(slot)
                   \/ \E cents \in Cents : Drop(cents)
  PROVE  EventInv'
<1>1. ASSUME NEW n \in DOMAIN markers, CancelMarker(n)
      PROVE  EventInv'
  <2> DEFINE gone == {m \in ToSet(markers) : m.id = markers[n].id}
  <2>1. Remains(gone) /\ dragged' \in {dragged, None}
    BY <1>1 DEF CancelMarker
  <2>2. dragged' # None => \A g \in gone : g.id # dragged'.id
    BY <1>1 DEF CancelMarker
  <2> QED BY <2>1, <2>2, RemainsKeeps
<1>2. ASSUME NEW slot \in EventSlots, CancelColumn(slot)
      PROVE  EventInv'
  <2>1. Remains(Column(slot)) /\ dragged' \in {dragged, None} /\ Column(slot) \in SUBSET ToSet(markers)
    BY <1>2 DEF CancelColumn, Column
  <2>2. \A m \in ToSet(markers), g \in Column(slot) : m.id = g.id => m \in Column(slot)
    BY DEF Column, InColumn, EventInv, SameColumn
  <2>3. dragged' # None => \A g \in Column(slot) : g.id # dragged'.id
    <3> SUFFICES ASSUME dragged' # None, NEW g \in Column(slot), g.id = dragged.id
                 PROVE  FALSE
      BY <2>1
    <3>1. dragged # None /\ ~InColumn(dragged, slot)
      BY <1>2 DEF CancelColumn
    <3> QED BY <3>1 DEF Column, InColumn, EventInv, SameColumn
  <2> QED BY <2>1, <2>2, <2>3, RemainsKeeps
<1>3. ASSUME NEW n \in DOMAIN markers, Drag(n)
      PROVE  EventInv'
  <2>1. /\ dragged' = markers[n] /\ markers[n] \in ToSet(markers) /\ markers[n] \in EventMarkers
        /\ UNCHANGED <<market, ticket, markers, flying, counts, cancelled>>
    BY <1>3 DEF Drag, EventInv, ToSet
  <2> QED BY <2>1 DEF EventInv, MarkerHolds
<1>4. ASSUME NEW cents \in Cents, Drop(cents)
      PROVE  EventInv'
  <2> DEFINE itself == {m \in ToSet(markers) : m.id = dragged.id}
  <2>1. /\ SubmitFast(Without(markers, itself), Intent(dragged.slot, cents)) /\ dragged' = None
        /\ dragged # None /\ UNCHANGED <<market, ticket, cancelled>>
    BY <1>4 DEF Drop
  <2>2. Without(markers, itself) \in Seq(EventMarkers) /\ ToSet(Without(markers, itself)) \subseteq ToSet(markers)
    BY FewerMembers DEF EventInv
  <2>3. dragged.slot \in EventSlots /\ ticket \in {None} \cup [slot : EventSlots, cents : Cents]
    BY <2>1 DEF EventInv, EventMarkers
  <2> HIDE DEF itself
  <2> QED BY <2>1, <2>2, <2>3, SubmitFastKeeps
<1> QED BY <1>1, <1>2, <1>3, <1>4

\* Every step of the ladder of an event market.
LEMMA EventStep ==
  ASSUME EventInv, [Ladder2Next]_ladder2Vars
  PROVE  EventInv'
<1>1. CASE MarkersNext
  <2>1. CASE ToggleFast \/ ToggleSimulation \/ Fills
    <3>1. counts' \in [entries : Nat, toggles : Nat, books : Nat] /\ counts'.entries = counts.entries
      <4>1. counts' = [counts EXCEPT !["toggles"] = @ + 1]
        BY <2>1 DEF ToggleFast, ToggleSimulation, Fills, Counted
      <4> QED BY <4>1 DEF EventInv
    <3>2. markers' \in Seq(EventMarkers) /\ ToSet(markers') \subseteq ToSet(markers)
      <4>1. <<>> \in Seq(EventMarkers) /\ ToSet(<<>>) = {}
        BY DEF ToSet
      <4> QED BY <2>1, <4>1 DEF ToggleFast, ToggleSimulation, Fills, EventInv
    <3>3. UNCHANGED <<market, ticket, dragged, flying, cancelled>>
      BY <2>1 DEF ToggleFast, ToggleSimulation, Fills
    <3>4. counts.entries <= counts'.entries
      BY <3>1
    <3> QED BY <3>1, <3>2, <3>3, <3>4, NoMoreMarkers DEF EventInv
  <2> QED BY <1>1, <2>1, TicketKeeps, AnswerKeeps, MarkerKeeps DEF MarkersNext
<1>2. CASE BooksNext \/ Choosing
  <2>1. /\ market' \in EventMarkets /\ UNCHANGED <<ticket, markers, dragged, flying, cancelled>>
        /\ counts' \in {counts, [counts EXCEPT !["books"] = @ + 1], [counts EXCEPT !["toggles"] = @ + 1]}
    <3>1. CASE Choosing
      BY <3>1 DEF Choosing, Choose2, Counted
    <3>2. ASSUME NEW key \in EventMarkets, MarketRotates(key)
          PROVE  counts' = counts /\ UNCHANGED <<market, ticket, markers, dragged, flying, cancelled>>
      BY <3>2 DEF MarketRotates
    <3>3. ASSUME NEW from, NEW key \in EventMarkets, NEW b, BookArrives(from, key, b)
          PROVE  /\ counts' = [counts EXCEPT !["books"] = @ + 1]
                 /\ UNCHANGED <<market, ticket, markers, dragged, flying, cancelled>>
      BY <3>3 DEF BookArrives, Counted
    <3> QED BY <1>2, <3>1, <3>2, <3>3 DEF BooksNext, EventInv
  <2>2. counts' \in [entries : Nat, toggles : Nat, books : Nat] /\ counts'.entries = counts.entries
    BY <2>1 DEF EventInv
  <2>3. counts.entries <= counts'.entries
    BY <2>2
  <2> QED BY <2>1, <2>2, <2>3, NoMoreMarkers DEF EventInv
<1>3. CASE UNCHANGED ladder2Vars
  BY <1>3, NoMoreMarkers DEF ladder2Vars, EventInv
<1> QED BY <1>1, <1>2, <1>3 DEF Ladder2Next

\* An event market's ladder starts with no markers.
LEMMA EventStart ==
  ASSUME Ladder2Init
  PROVE  EventInv
<1>1. markers = <<>> /\ ToSet(markers) = {} /\ markers \in Seq(EventMarkers)
  BY DEF Ladder2Init, ToSet
<1> QED BY <1>1 DEF Ladder2Init, EventInv

(***************************************************************************)
(* The tickets of a depth ladder.                                          *)
(***************************************************************************)
Sends == {"submit", "send", "move"}
States == (SUBSET TicketOrders) \cup {None}
LadderCalls ==
  [kind : Sends, order : TicketOrders, turn : Nat, state : States, ok : BOOLEAN]
  \cup [kind : {"cancel"},
        order : [id : TicketIds, side : LadderSides, priceKey : {None}, size : {None},
                 status : {"pending", "working", "rejected"}],
        turn : Nat, state : States, ok : BOOLEAN]

\* The orders of a store are of tickets sent, one of each.
TicketStore(some) ==
  /\ some \in SUBSET TicketOrders
  /\ \A o \in some : o.id <= sent
  /\ \A o, p \in some : o.id = p.id => o = p

LadderTypes ==
  /\ sent \in 0..MaxTickets /\ moved \in Nat
  /\ ticketVenue \in [TicketIds -> [side : LadderSides, priceKey : PriceKeys, size : 1..TicketSize] \cup {None}]
  /\ activeOrders \in Seq(TicketOrders) /\ sim \in BOOLEAN /\ fastTrade \in BOOLEAN
  /\ dragging \in [order : TicketOrders, target : PriceKeys, sim : BOOLEAN, fast : BOOLEAN] \cup {None}
  /\ ticketCalls \subseteq LadderCalls

\* What goes by a ticket's number is of a ticket that was sent.
TicketsWereSent ==
  /\ \A t \in TicketIds : t > sent => ticketVenue[t] = None
  /\ \A o \in Range(activeOrders) : o.id <= sent
  /\ dragging # None => dragging.order.id <= sent
  /\ \A c \in ticketCalls : c.order.id <= sent /\ (c.state # None => TicketStore(c.state))

\* A call that will enter its ticket, or a move that has taken it out and goes on to.
Entering(c) == (Enters(c) /\ c.state = None) \/ (c.kind = "move" /\ c.ok)

\* A ticket is to be entered by one call at most, and then does not work.
EnteredByOne ==
  /\ \A c \in ticketCalls : c.kind = "move" /\ c.ok => c.state # None
  /\ \A c \in ticketCalls : Entering(c) => ticketVenue[c.order.id] = None
  /\ \A c, d \in ticketCalls : Entering(c) /\ Entering(d) /\ c.order.id = d.order.id => c = d

\* The ladder's own tickets are of different clicks.
OneOfATicket == \A i, j \in DOMAIN activeOrders : activeOrders[i].id = activeOrders[j].id => i = j

LadderInv == LadderTypes /\ TicketsWereSent /\ TicketStore(shared) /\ EnteredByOne /\ OneOfATicket

\* As many values as arguments, if no two arguments have one value.
LEMMA AsManyValues ==
  ASSUME NEW S, NEW T, NEW f \in [S -> T], \A x, y \in S : f[x] = f[y] => x = y,
         \A z \in T : \E x \in S : f[x] = z, IsFiniteSet(S) \/ IsFiniteSet(T)
  PROVE  IsFiniteSet(S) /\ IsFiniteSet(T) /\ Cardinality(S) = Cardinality(T)
<1>1. f \in Injection(S, T) /\ f \in Surjection(S, T) /\ f \in Bijection(S, T)
  BY DEF Injection, IsInjective, Surjection, Bijection
<1>2. CASE IsFiniteSet(S)
  <2>1. ExistsBijection(S, T)
    BY <1>1 DEF ExistsBijection
  <2> QED BY <1>2, <2>1, FS_Bijection
<1>3. CASE IsFiniteSet(T)
  <2>1. IsFiniteSet(S)
    BY <1>1, <1>3, FS_Injection
  <2> QED BY <1>2, <2>1
<1> QED BY <1>2, <1>3

\* What works at the exchange is of tickets sent.
LEMMA WorkingIsStore ==
  ASSUME LadderTypes, \A t \in TicketIds : t > sent => ticketVenue[t] = None
  PROVE  TicketStore(WorkingNow)
<1> DEFINE T == {t \in TicketIds : ticketVenue[t] # None}
           Order(t) == [id |-> t, side |-> ticketVenue[t].side, priceKey |-> ticketVenue[t].priceKey,
                        size |-> ticketVenue[t].size, status |-> "working"]
<1>1. \A o : o \in WorkingNow <=> \E t \in T : o = Order(t)
  BY DEF WorkingNow
<1>2. ASSUME NEW t \in T PROVE Order(t) \in TicketOrders /\ Order(t).id = t /\ t <= sent
  BY LadderAssumption DEF LadderTypes, TicketOrders, TicketIds
<1> HIDE DEF T, Order
<1> QED BY <1>1, <1>2 DEF TicketStore

\* Whoever counts by number counts an order of the ladder or of the store once.
LEMMA OrdersCountedOnce ==
  ASSUME LadderInv
  PROVE  CountedOnce
<1> DEFINE A == {Displayed[i].id : i \in WorkingShown}
           B == {o.id : o \in shared}
<1>1. PICK d \in Seq(TicketOrders) :
        /\ d = Displayed
        /\ \A i, j \in DOMAIN d : d[i].id = d[j].id => i = j
        /\ \A i \in DOMAIN d : \A o \in shared : o.id # d[i].id
  <2>1. CASE sim
    <3>1. <<>> \in Seq(TicketOrders) /\ DOMAIN <<>> = {}
      OBVIOUS
    <3> QED BY <2>1, <3>1, Zenon DEF Displayed
  <2>2. CASE ~sim
    <3>1. PICK w \in Seq(TicketOrders) : w = Without(activeOrders, KnownToTheStore)
      BY WithoutIs DEF LadderInv, LadderTypes
    <3>2. /\ \A i \in DOMAIN w : \E k \in DOMAIN activeOrders : w[i] = activeOrders[k]
          /\ \A i, j \in DOMAIN w : i < j =>
               \E k, l \in DOMAIN activeOrders : k < l /\ w[i] = activeOrders[k] /\ w[j] = activeOrders[l]
          /\ \A i \in DOMAIN w : w[i] \notin KnownToTheStore
      BY <3>1, WithoutIs DEF LadderInv, LadderTypes, Lists
    <3>3. ASSUME NEW i \in DOMAIN w, NEW j \in DOMAIN w, w[i].id = w[j].id PROVE i = j
      <4>1. i \in Int /\ j \in Int /\ DOMAIN activeOrders \subseteq Int
        BY DEF LadderInv, LadderTypes
      <4>2. ~(i < j)
        BY <3>2, <3>3, <4>1 DEF LadderInv, OneOfATicket
      <4>3. ~(j < i)
        BY <3>2, <3>3, <4>1 DEF LadderInv, OneOfATicket
      <4> QED BY <4>1, <4>2, <4>3
    <3>4. ASSUME NEW i \in DOMAIN w, NEW o \in shared PROVE o.id # w[i].id
      <4>1. PICK k \in DOMAIN activeOrders : w[i] = activeOrders[k]
        BY <3>2
      <4>2. w[i] \in Range(activeOrders)
        BY <4>1 DEF Range
      <4> QED BY <3>2, <4>2 DEF KnownToTheStore
    <3> QED BY <2>2, <3>1, <3>3, <3>4, Zenon DEF Displayed
  <2> QED BY <2>1, <2>2
<1>2. IsFiniteSet(WorkingShown) /\ IsFiniteSet(A) /\ Cardinality(WorkingShown) = Cardinality(A)
  <2>1. WorkingShown \subseteq 1 .. Len(d) /\ WorkingShown \subseteq DOMAIN d /\ Len(d) \in Nat
    BY <1>1 DEF WorkingShown
  <2>2. IsFiniteSet(WorkingShown)
    <3>1. IsFiniteSet(1 .. Len(d))
      BY <2>1, FS_Interval
    <3> QED BY <2>1, <3>1, FS_Subset
  <2> DEFINE f == [i \in WorkingShown |-> Displayed[i].id]
  <2>3. f \in [WorkingShown -> A] /\ \A z \in A : \E x \in WorkingShown : f[x] = z
    OBVIOUS
  <2>4. \A x, y \in WorkingShown : f[x] = f[y] => x = y
    BY <1>1, <2>1
  <2> HIDE DEF f, A
  <2> QED BY <2>2, <2>3, <2>4, AsManyValues
<1>3. IsFiniteSet(B) /\ Cardinality(shared) = Cardinality(B)
  <2>1. B \subseteq TicketIds
    BY DEF LadderInv, TicketStore, TicketOrders
  <2>2. IsFiniteSet(B)
    <3>1. IsFiniteSet(TicketIds)
      BY LadderAssumption, FS_Interval DEF TicketIds
    <3> QED BY <2>1, <3>1, FS_Subset
  <2> DEFINE f == [o \in shared |-> o.id]
  <2>3. f \in [shared -> B] /\ \A z \in B : \E x \in shared : f[x] = z
    OBVIOUS
  <2>4. \A x, y \in shared : f[x] = f[y] => x = y
    BY DEF LadderInv, TicketStore
  <2> HIDE DEF f, B
  <2> QED BY <2>2, <2>3, <2>4, AsManyValues
<1>4. A \cap B = {}
  BY <1>1 DEF WorkingShown
<1>5. Cardinality(A \cup B) = Cardinality(A) + Cardinality(B)
  <2> HIDE DEF A, B
  <2>1. Cardinality(A) \in Nat /\ Cardinality(B) \in Nat /\ Cardinality(A \cap B) = 0
    BY <1>2, <1>3, <1>4, FS_CardinalityType, FS_EmptySet
  <2>2. Cardinality(A \cup B) = Cardinality(A) + Cardinality(B) - Cardinality(A \cap B)
    BY <1>2, <1>3, FS_Union
  <2> QED BY <2>1, <2>2
<1> QED BY <1>2, <1>3, <1>5 DEF CountedOnce, TotalTickets

\* A call and its order.
LEMMA CallIs ==
  ASSUME LadderTypes, NEW c \in ticketCalls
  PROVE  /\ c \in LadderCalls /\ c.kind \in Sends \cup {"cancel"} /\ c.order.id \in TicketIds
         /\ c.state \in States /\ c.ok \in BOOLEAN /\ c.turn \in Nat
         /\ c.kind \in Sends => c.order \in TicketOrders
         /\ Entering(c) => c.kind \in Sends
<1>1. c \in LadderCalls
  BY DEF LadderTypes
<1>2. /\ c.kind \in Sends \cup {"cancel"} /\ c.order.id \in TicketIds
      /\ c.state \in States /\ c.ok \in BOOLEAN /\ c.turn \in Nat
      /\ c.kind \in Sends => c.order \in TicketOrders
  BY <1>1 DEF LadderCalls, Sends, TicketOrders
<1> QED BY <1>1, <1>2 DEF Entering, Enters, Sends

\* A new call.
LEMMA CallIsNew ==
  ASSUME LadderTypes, NEW kind \in Sends, NEW order \in TicketOrders
  PROVE  /\ Call(kind, order) \in LadderCalls /\ Call(kind, order).kind = kind
         /\ Call(kind, order).order = order /\ Call(kind, order).state = None
         /\ ~Call(kind, order).ok
<1> DEFINE c == Call(kind, order)
<1>1. c = [kind |-> kind, order |-> order, turn |-> moved, state |-> None, ok |-> FALSE]
  BY DEF Call
<1>2. moved \in Nat /\ None \in States
  BY DEF LadderTypes, States
<1>3. c \in [kind : Sends, order : TicketOrders, turn : Nat, state : States, ok : BOOLEAN]
  BY <1>1, <1>2
<1> QED BY <1>1, <1>3 DEF LadderCalls

\* Calls to cancel enter nothing.
LEMMA CancelsAre ==
  ASSUME LadderTypes, TicketStore(shared), NEW some \in SUBSET shared, NEW c \in Cancels(some)
  PROVE  /\ c \in LadderCalls /\ c.kind = "cancel" /\ c.state = None /\ c.order.id <= sent /\ ~Entering(c)
<1>1. PICK o \in some : c = Call("cancel", [o EXCEPT !.size = None, !.priceKey = None])
  BY DEF Cancels
<1>2. o \in TicketOrders /\ o.id <= sent
  BY DEF TicketStore
<1> DEFINE order == [o EXCEPT !.size = None, !.priceKey = None]
<1>3. /\ order \in [id : TicketIds, side : LadderSides, priceKey : {None}, size : {None},
                    status : {"pending", "working", "rejected"}]
      /\ order.id = o.id
  BY <1>2 DEF TicketOrders
<1> HIDE DEF order
<1>4. /\ c = [kind |-> "cancel", order |-> order, turn |-> moved, state |-> None, ok |-> FALSE]
  BY <1>1 DEF Call, order
<1>5. c \in LadderCalls /\ c.kind = "cancel" /\ c.state = None /\ c.order = order
  <2>1. moved \in Nat /\ None \in States
    BY DEF LadderTypes, States
  <2> QED BY <1>3, <1>4, <2>1 DEF LadderCalls
<1> QED BY <1>2, <1>3, <1>5 DEF Entering, Enters

\* Some of the ladder's own tickets, in their order, are of different clicks too.
LEMMA FewerTickets ==
  ASSUME LadderTypes, TicketsWereSent, OneOfATicket, NEW gone
  PROVE  /\ Without(activeOrders, gone) \in Seq(TicketOrders)
         /\ \A o \in Range(Without(activeOrders, gone)) : o \in Range(activeOrders) /\ o.id <= sent /\ o \notin gone
         /\ \A i, j \in DOMAIN Without(activeOrders, gone) :
              Without(activeOrders, gone)[i].id = Without(activeOrders, gone)[j].id => i = j
<1>1. PICK w \in Seq(TicketOrders) : w = Without(activeOrders, gone)
  BY WithoutIs DEF LadderTypes
<1>2. /\ \A i \in DOMAIN w : \E k \in DOMAIN activeOrders : w[i] = activeOrders[k]
      /\ \A i, j \in DOMAIN w : i < j =>
           \E k, l \in DOMAIN activeOrders : k < l /\ w[i] = activeOrders[k] /\ w[j] = activeOrders[l]
      /\ \A i \in DOMAIN w : w[i] \notin gone
  BY <1>1, WithoutIs DEF LadderTypes, Lists
<1>3. ASSUME NEW i \in DOMAIN w, NEW j \in DOMAIN w, w[i].id = w[j].id PROVE i = j
  <2>1. i \in Int /\ j \in Int /\ DOMAIN activeOrders \subseteq Int
    BY DEF LadderTypes
  <2>2. ~(i < j)
    BY <1>2, <1>3, <2>1 DEF OneOfATicket
  <2>3. ~(j < i)
    BY <1>2, <1>3, <2>1 DEF OneOfATicket
  <2> QED BY <2>1, <2>2, <2>3
<1>4. \A o \in Range(w) : o \in Range(activeOrders) /\ o.id <= sent /\ o \notin gone
  BY <1>2 DEF Range, TicketsWereSent
<1> QED BY <1>1, <1>3, <1>4

\* Tickets that go, with calls to cancel what the store has of them.
LEMMA CancelsKeep ==
  ASSUME LadderInv, NEW gone, NEW some \in SUBSET shared,
         activeOrders' = Without(activeOrders, gone), ticketCalls' = ticketCalls \cup Cancels(some),
         UNCHANGED <<ticketVenue, shared, sim, fastTrade, dragging, sent, moved>>
  PROVE  LadderInv'
<1>1. /\ activeOrders' \in Seq(TicketOrders) /\ \A o \in Range(activeOrders') : o.id <= sent
      /\ \A i, j \in DOMAIN activeOrders' : activeOrders'[i].id = activeOrders'[j].id => i = j
  BY FewerTickets DEF LadderInv
<1>2. \A c \in Cancels(some) : c \in LadderCalls /\ c.kind = "cancel" /\ c.state = None /\ c.order.id <= sent
                               /\ ~Entering(c)
  BY CancelsAre DEF LadderInv
<1>3. LadderTypes'
  BY <1>1, <1>2 DEF LadderInv, LadderTypes
<1>4. TicketsWereSent'
  BY <1>1, <1>2 DEF LadderInv, TicketsWereSent, TicketStore
<1>5. EnteredByOne'
  BY <1>2 DEF LadderInv, EnteredByOne
<1> QED BY <1>1, <1>3, <1>4, <1>5 DEF LadderInv, TicketStore, OneOfATicket

\* Steps of the ladder that only take hold of a ticket, or change nothing of the calls,
\* the exchange and the ladder's own tickets.
LEMMA CallsStandStill ==
  ASSUME LadderInv, UNCHANGED <<ticketVenue, ticketCalls, sent, moved>>, TicketStore(shared'),
         sim' \in BOOLEAN, fastTrade' \in BOOLEAN,
         activeOrders' \in {activeOrders, <<>>},
         dragging' \in [order : TicketOrders, target : PriceKeys, sim : BOOLEAN, fast : BOOLEAN] \cup {None},
         dragging' # None => dragging'.order.id <= sent
  PROVE  LadderInv'
<1>1. activeOrders' \in Seq(TicketOrders) /\ \A o \in Range(activeOrders') : o.id <= sent
  <2>1. <<>> \in Seq(TicketOrders) /\ Range(<<>>) = {}
    BY DEF Range
  <2> QED BY <2>1 DEF LadderInv, LadderTypes, TicketsWereSent
<1>2. LadderTypes' /\ TicketsWereSent'
  BY <1>1 DEF LadderInv, LadderTypes, TicketsWereSent, TicketStore
<1>3. OneOfATicket'
  <2>1. DOMAIN <<>> = {}
    OBVIOUS
  <2> QED BY <2>1 DEF LadderInv, OneOfATicket
<1> QED BY <1>2, <1>3 DEF LadderInv, TicketStore, EnteredByOne

\* A click on a row.
LEMMA ClickKeeps ==
  ASSUME LadderInv, NEW side \in LadderSides, NEW key \in PriceKeys, SubmitDepthOrder(side, key)
  PROVE  LadderInv'
<1> DEFINE id == sent + 1
<1>1. /\ id \in TicketIds /\ id \in Nat /\ sent' = id /\ sent < id /\ sent' \in 0..MaxTickets
      /\ UNCHANGED <<ticketVenue, shared, sim, fastTrade, dragging, moved>>
  BY LadderAssumption DEF SubmitDepthOrder, LadderInv, LadderTypes, TicketIds
<1>2. PICK order \in TicketOrders, kind \in Sends :
        /\ order.id = id
        /\ activeOrders' \in {activeOrders, FirstOf(<<order>> \o activeOrders, MaxLocal)}
        /\ ticketCalls' \in {ticketCalls, ticketCalls \cup {Call(kind, order)}}
  <2> DEFINE o == Apply([id |-> sent + 1, side |-> side, priceKey |-> key,
                         size |-> TicketSize, status |-> "pending"], sim \/ fastTrade)
  <2>1. /\ activeOrders' \in {activeOrders, FirstOf(<<o>> \o activeOrders, MaxLocal)}
        /\ \/ ticketCalls' = ticketCalls
           \/ ticketCalls' = ticketCalls \cup {Call("submit", o)}
           \/ ticketCalls' = ticketCalls \cup {Call("send", o)}
    BY DEF SubmitDepthOrder
  <2>2. o \in TicketOrders /\ o.id = id
    BY <1>1, LadderAssumption DEF Apply, TicketOrders
  <2> HIDE DEF o, id
  <2>3. "submit" \in Sends /\ "send" \in Sends
    BY DEF Sends
  <2> QED BY <2>1, <2>2, <2>3
<1>3. PICK list \in Seq(TicketOrders) :
        /\ list = <<order>> \o activeOrders /\ Len(list) = Len(activeOrders) + 1 /\ list[1] = order
        /\ \A i \in 2 .. Len(list) : i - 1 \in DOMAIN activeOrders /\ list[i] = activeOrders[i - 1]
  <2>1. activeOrders \in Seq(TicketOrders)
    BY DEF LadderInv, LadderTypes
  <2>2. /\ <<order>> \o activeOrders \in Seq(TicketOrders)
        /\ Len(<<order>> \o activeOrders) = Len(activeOrders) + 1
        /\ (<<order>> \o activeOrders)[1] = order
        /\ \A i \in 2 .. Len(activeOrders) + 1 :
             i - 1 \in DOMAIN activeOrders /\ (<<order>> \o activeOrders)[i] = activeOrders[i - 1]
    BY <2>1, OneInFront
  <2>3. PICK e \in Seq(TicketOrders) : e = <<order>> \o activeOrders
    BY <2>2
  <2>4. Len(e) = Len(activeOrders) + 1 /\ e[1] = order
    BY <2>2, <2>3, Zenon
  <2>5. \A i \in 2 .. Len(activeOrders) + 1 : i - 1 \in DOMAIN activeOrders /\ e[i] = activeOrders[i - 1]
    BY <2>2, <2>3, Zenon
  <2>6. \A i \in 2 .. Len(e) : i - 1 \in DOMAIN activeOrders /\ e[i] = activeOrders[i - 1]
    BY <2>4, <2>5, Zenon
  <2> QED BY <2>3, <2>4, <2>6, Zenon
<1>4. \A o \in Range(activeOrders) : o \in TicketOrders /\ o.id \in Nat /\ o.id <= sent /\ o.id # id
  <2>1. ASSUME NEW i \in DOMAIN activeOrders PROVE activeOrders[i] \in TicketOrders
    BY DEF LadderInv, LadderTypes
  <2>2. \A o \in Range(activeOrders) : o \in TicketOrders /\ o.id <= sent
    BY <2>1 DEF Range, LadderInv, TicketsWereSent
  <2>3. \A o \in TicketOrders : o.id \in Nat
    BY DEF TicketOrders, TicketIds
  <2> HIDE DEF id
  <2> QED BY <1>1, <2>2, <2>3 DEF LadderInv, LadderTypes, id
<1>5. ASSUME NEW i \in 1 .. Len(list), NEW j \in 1 .. Len(list), list[i].id = list[j].id
      PROVE  i = j
  <2>1. \A n \in 2 .. Len(list) : list[n].id # id /\ list[n] = activeOrders[n - 1] /\ n - 1 \in DOMAIN activeOrders
    BY <1>3, <1>4 DEF Range
  <2>2. list[1].id = id
    BY <1>2, <1>3
  <2>3. CASE i = 1
    BY <1>5, <2>1, <2>2, <2>3
  <2>4. CASE j = 1
    BY <1>5, <2>1, <2>2, <2>4
  <2>5. CASE i \in 2 .. Len(list) /\ j \in 2 .. Len(list)
    <3>1. i - 1 = j - 1
      BY <1>5, <2>1, <2>5 DEF LadderInv, OneOfATicket
    <3> QED BY <3>1
  <2> QED BY <2>3, <2>4, <2>5
<1>6. /\ activeOrders' \in Seq(TicketOrders) /\ \A o \in Range(activeOrders') : o.id <= sent'
      /\ OneOfATicket'
  <2>1. CASE activeOrders' = activeOrders
    BY <1>1, <1>4, <2>1 DEF LadderInv, LadderTypes, OneOfATicket
  <2>2. CASE activeOrders' = FirstOf(<<order>> \o activeOrders, MaxLocal)
    <3>1. PICK k \in Nat : k = Lesser(MaxLocal, Len(list)) /\ k <= Len(list)
      BY LadderAssumption DEF Lesser
    <3>2. /\ SubSeq(list, 1, k) \in Seq(TicketOrders) /\ DOMAIN SubSeq(list, 1, k) = 1 .. k
          /\ \A i \in 1 .. k : i \in 1 .. Len(list) /\ SubSeq(list, 1, k)[i] = list[i]
      BY <3>1
    <3>3. activeOrders' = SubSeq(list, 1, k)
      BY <1>3, <2>2, <3>1, Zenon DEF FirstOf
    <3>4. ASSUME NEW i \in 1 .. Len(list) PROVE list[i].id <= id
      <4>1. i = 1 \/ i \in 2 .. Len(list)
        OBVIOUS
      <4>2. \A n \in DOMAIN activeOrders : activeOrders[n].id \in Nat /\ activeOrders[n].id <= sent
        BY <1>4 DEF Range
      <4>3. sent \in Nat
        BY DEF LadderInv, LadderTypes
      <4> QED BY <1>2, <1>3, <4>1, <4>2, <4>3
    <3>5. \A i \in DOMAIN activeOrders' : activeOrders'[i].id <= id
      BY <3>2, <3>3, <3>4
    <3> QED BY <1>1, <1>5, <3>2, <3>3, <3>5 DEF OneOfATicket, Range
  <2> QED BY <1>2, <2>1, <2>2
<1>7. PICK new : /\ new = Call(kind, order) /\ new \in LadderCalls /\ new.order = order
                 /\ new.state = None /\ ~new.ok /\ ticketCalls' \in {ticketCalls, ticketCalls \cup {new}}
  BY <1>2, CallIsNew DEF LadderInv
<1>8. ASSUME NEW c \in ticketCalls PROVE c.order.id \in Nat /\ c.order.id <= sent /\ c.order.id # id
  BY <1>1, CallIs DEF LadderInv, TicketsWereSent, TicketIds, LadderTypes
<1> HIDE DEF id
<1>9. LadderTypes'
  BY <1>1, <1>6, <1>7 DEF LadderInv, LadderTypes
<1>10. ASSUME NEW some, TicketStore(some) PROVE TicketStore(some)'
  BY <1>1, <1>10 DEF TicketStore, TicketOrders, TicketIds, LadderInv, LadderTypes
<1>11. TicketsWereSent'
  <2>1. \A t \in TicketIds : t > sent' => ticketVenue'[t] = None
    BY <1>1 DEF LadderInv, TicketsWereSent, TicketIds, LadderTypes
  <2>2. dragging' # None => dragging'.order.id <= sent'
    <3>1. dragging # None => dragging.order.id \in Nat
      BY DEF LadderInv, LadderTypes, TicketOrders, TicketIds
    <3> QED BY <1>1, <3>1 DEF LadderInv, TicketsWereSent, LadderTypes
  <2>3. ASSUME NEW c \in ticketCalls'
        PROVE  c.order.id <= sent' /\ (c.state # None => TicketStore(c.state)')
    <3>1. CASE c \in ticketCalls
      <4>1. c.order.id <= sent'
        BY <1>1, <1>8, <3>1 DEF LadderInv, LadderTypes
      <4>2. c.state # None => TicketStore(c.state)
        BY <3>1 DEF LadderInv, TicketsWereSent
      <4> QED BY <1>10, <4>1, <4>2
    <3>2. CASE c = new
      BY <1>1, <1>2, <1>7, <3>2
    <3> QED BY <1>7, <3>1, <3>2
  <2> QED BY <1>6, <2>1, <2>2, <2>3 DEF TicketsWereSent, TicketStore
<1>12. EnteredByOne'
  <2>1. ticketVenue[id] = None
    BY <1>1 DEF LadderInv, TicketsWereSent, TicketIds, LadderTypes
  <2> QED BY <1>1, <1>2, <1>7, <1>8, <2>1 DEF LadderInv, EnteredByOne
<1>13. TicketStore(shared)'
  BY <1>1, <1>10 DEF LadderInv, TicketStore
<1> QED BY <1>6, <1>9, <1>11, <1>12, <1>13 DEF LadderInv

\* Cancels by a flag, a header or a button, and a double click, whose clicks cancel.
LEMMA SubmitPendingIs ==
  ASSUME LadderInv, NEW side, NEW key, SubmitPending(side, key)
  PROVE  \E gone : \E some \in SUBSET shared :
           /\ activeOrders' = Without(activeOrders, gone)
           /\ ticketCalls' = ticketCalls \cup Cancels(some)
<1> DEFINE gone == {o \in Range(activeOrders) : OnRow(o, side, key)}
           some == {o \in shared : OnRow(o, side, key)}
           stays == AfterTheClicks(side, key)
           pending == {i \in DOMAIN stays : OnRow(stays[i], side, key) /\ stays[i].status = "pending"}
<1>1. stays \in Seq(TicketOrders) /\ \A o \in Range(stays) : o \in Range(activeOrders) /\ o \notin gone
  BY FewerTickets DEF AfterTheClicks, LadderInv
<1>2. pending = {}
  BY <1>1 DEF Range
<1>3. /\ activeOrders' = [i \in DOMAIN stays |->
                            IF i \in pending THEN Apply(stays[i], sim \/ fastTrade) ELSE stays[i]]
      /\ ticketCalls' = (ticketCalls \cup Cancels(some))
                          \cup {Call("send", stays[i]) : i \in IF sim THEN {} ELSE pending}
  BY DEF SubmitPending
<1>4. stays = Without(activeOrders, gone)
  BY DEF AfterTheClicks
<1> HIDE DEF stays, pending, gone, some
<1>5. activeOrders' = stays
  BY <1>1, <1>2, <1>3
<1>6. ticketCalls' = ticketCalls \cup Cancels(some)
  BY <1>2, <1>3
<1>7. some \in SUBSET shared
  BY DEF some
<1> QED BY <1>4, <1>5, <1>6, <1>7

\* A flag, taken hold of, dragged and let go.
LEMMA DragKeeps ==
  ASSUME LadderInv, \/ \E side \in LadderSides, key \in PriceKeys : StartOrderDrag(side, key)
                    \/ \E key \in PriceKeys : DragOver(key)
  PROVE  LadderInv'
<1>1. ASSUME NEW side \in LadderSides, NEW key \in PriceKeys, StartOrderDrag(side, key)
      PROVE  LadderInv'
  <2>1. PICK order \in Grip(side, key) : dragging' = Held(order, key)
    BY <1>1 DEF StartOrderDrag
  <2>2. order \in TicketOrders /\ order.id <= sent
    <3> DEFINE ofTheRow == {o \in Range(Displayed) : ~OnRow(o, side, key)}
               here == Without(Displayed, ofTheRow)
               other(status) == {o \in Range(Displayed) : o.status # status}
    <3>1. PICK d \in Seq(TicketOrders) : d = Displayed /\ Range(d) \subseteq Range(activeOrders)
      <4>1. CASE sim
        <5>1. <<>> \in Seq(TicketOrders) /\ Range(<<>>) = {}
          BY DEF Range
        <5> QED BY <4>1, <5>1, Zenon DEF Displayed
      <4>2. CASE ~sim
        <5>1. /\ Without(activeOrders, KnownToTheStore) \in Seq(TicketOrders)
              /\ Range(Without(activeOrders, KnownToTheStore)) \subseteq Range(activeOrders)
          BY FewerTickets DEF LadderInv
        <5> QED BY <4>2, <5>1, Zenon DEF Displayed
      <4> QED BY <4>1, <4>2
    <3>2. ASSUME NEW list \in Seq(TicketOrders), Range(list) \subseteq Range(activeOrders), NEW gone
          PROVE  /\ Without(list, gone) \in Seq(TicketOrders)
                 /\ Range(Without(list, gone)) \subseteq Range(activeOrders)
      <4>1. PICK g \in Seq(TicketOrders) : g = Without(list, gone)
        BY WithoutIs
      <4>2. \A i \in DOMAIN g : \E k \in DOMAIN list : g[i] = list[k]
        BY <4>1, WithoutIs DEF Lists
      <4>3. Range(g) \subseteq Range(list)
        BY <4>2 DEF Range
      <4> QED BY <3>2, <4>1, <4>3
    <3>3. PICK h \in Seq(TicketOrders) : h = here /\ Range(h) \subseteq Range(activeOrders)
      BY <3>1, <3>2
    <3>4. PICK w \in Seq(TicketOrders) : w = Without(here, other("working")) /\ Range(w) \subseteq Range(activeOrders)
      BY <3>2, <3>3
    <3>5. PICK p \in Seq(TicketOrders) : p = Without(here, other("pending")) /\ Range(p) \subseteq Range(activeOrders)
      BY <3>2, <3>3
    <3>6. Grip(side, key) = IF here # <<>> THEN {(w \o p \o here)[1]}
                            ELSE {o \in shared : OnRow(o, side, key)}
      BY <3>4, <3>5 DEF Grip
    <3> HIDE DEF here
    <3>7. CASE here # <<>>
      <4>1. order = (w \o p \o h)[1] /\ Len(h) > 0
        BY <2>1, <3>3, <3>6, <3>7
      <4>2. order \in Range(w) \cup Range(p) \cup Range(h)
        <5>1. CASE Len(w) > 0
          BY <4>1, <5>1 DEF Range
        <5>2. CASE Len(w) = 0 /\ Len(p) > 0
          BY <4>1, <5>2 DEF Range
        <5>3. CASE Len(w) = 0 /\ Len(p) = 0
          BY <4>1, <5>3 DEF Range
        <5> QED BY <5>1, <5>2, <5>3
      <4>3. order \in Range(activeOrders)
        BY <3>3, <3>4, <3>5, <4>2
      <4> QED BY <4>3 DEF LadderInv, LadderTypes, TicketsWereSent, Range
    <3>8. CASE here = <<>>
      BY <2>1, <3>6, <3>8 DEF LadderInv, TicketStore
    <3> QED BY <3>7, <3>8
  <2>3. Held(order, key).order = order
    BY DEF Held
  <2>4. Held(order, key) \in [order : TicketOrders, target : PriceKeys, sim : BOOLEAN, fast : BOOLEAN]
    BY <2>2 DEF Held, LadderInv, LadderTypes
  <2> QED BY <1>1, <2>1, <2>2, <2>3, <2>4, CallsStandStill DEF StartOrderDrag, LadderInv, LadderTypes
<1>2. ASSUME NEW key \in PriceKeys, DragOver(key)
      PROVE  LadderInv'
  <2>1. dragging # None /\ dragging' = Held(dragging.order, key)
    BY <1>2 DEF DragOver
  <2>2. dragging.order \in TicketOrders /\ dragging.order.id <= sent
    BY <2>1 DEF LadderInv, LadderTypes, TicketsWereSent
  <2>3. /\ Held(dragging.order, key) \in [order : TicketOrders, target : PriceKeys, sim : BOOLEAN, fast : BOOLEAN]
        /\ Held(dragging.order, key).order = dragging.order
    BY <2>2 DEF Held, LadderInv, LadderTypes
  <2> QED BY <1>2, <2>1, <2>2, <2>3, CallsStandStill DEF DragOver, LadderInv, LadderTypes
<1> QED BY <1>1, <1>2

\* The button is let go: the ticket moves in the ladder, and by a call in the store.
LEMMA MoveKeeps ==
  ASSUME LadderInv, MoveOrder
  PROVE  LadderInv'
<1> DEFINE order == [dragging.order EXCEPT !.priceKey = dragging.target]
           still == dragging.target = dragging.order.priceKey
<1>1. /\ dragging # None /\ dragging' = None /\ moved' \in {moved, moved + 1}
      /\ UNCHANGED <<ticketVenue, shared, sim, fastTrade, sent>>
  BY DEF MoveOrder, LadderInv, LadderTypes
<1>2. /\ dragging.order \in TicketOrders /\ dragging.target \in PriceKeys /\ dragging.order.id <= sent
      /\ order \in TicketOrders /\ order.id = dragging.order.id
  BY <1>1 DEF LadderInv, LadderTypes, TicketsWereSent, TicketOrders
<1>3. ASSUME NEW i \in DOMAIN activeOrders
      PROVE  /\ activeOrders'[i] \in TicketOrders /\ activeOrders'[i].id = activeOrders[i].id
             /\ activeOrders[i].id <= sent
  <2>1. activeOrders[i] \in TicketOrders /\ activeOrders[i].id <= sent
    BY DEF LadderInv, LadderTypes, TicketsWereSent, Range
  <2>2. PICK key \in PriceKeys : key = order.priceKey
    BY <1>2 DEF TicketOrders
  <2>3. activeOrders'[i] = IF ~still /\ activeOrders[i].id = order.id
               THEN Apply([activeOrders[i] EXCEPT !.priceKey = key], dragging.sim \/ dragging.fast)
               ELSE activeOrders[i]
    BY <2>2 DEF MoveOrder
  <2>4. [activeOrders[i] EXCEPT !.priceKey = key] \in TicketOrders
        /\ [activeOrders[i] EXCEPT !.priceKey = key].id = activeOrders[i].id
    BY <2>1, <2>2 DEF TicketOrders
  <2>5. ASSUME NEW o \in TicketOrders, NEW b PROVE Apply(o, b) \in TicketOrders /\ Apply(o, b).id = o.id
    <3>1. PICK v \in {"pending", "working", "rejected"} : v = IF b THEN "working" ELSE "pending"
      BY Zenon
    <3>2. Apply(o, b) = [o EXCEPT !.status = v]
      BY <3>1, Zenon DEF Apply
    <3> QED BY <3>2 DEF TicketOrders
  <2>6. CASE ~still /\ activeOrders[i].id = order.id
    <3>1. PICK o \in TicketOrders : o = [activeOrders[i] EXCEPT !.priceKey = key] /\ o.id = activeOrders[i].id
      BY <2>4, Zenon
    <3>2. activeOrders'[i] = Apply(o, dragging.sim \/ dragging.fast)
      BY <2>3, <2>6, <3>1, Zenon
    <3>3. PICK b : b = (dragging.sim \/ dragging.fast)
      OBVIOUS
    <3>4. activeOrders'[i] = Apply(o, b)
      BY <3>2, <3>3, Zenon
    <3>5. Apply(o, b) \in TicketOrders /\ Apply(o, b).id = o.id
      BY <2>5
    <3> QED BY <2>1, <3>1, <3>4, <3>5
  <2>7. CASE ~(~still /\ activeOrders[i].id = order.id)
    <3>1. activeOrders'[i] = activeOrders[i]
      BY <2>3, <2>7, Zenon
    <3> QED BY <2>1, <3>1, Zenon
  <2> QED BY <2>6, <2>7
<1>4. activeOrders' \in Seq(TicketOrders) /\ DOMAIN activeOrders' = DOMAIN activeOrders
  <2>1. DOMAIN activeOrders = 1 .. Len(activeOrders) /\ Len(activeOrders) \in Nat
    BY DEF LadderInv, LadderTypes
  <2>2. activeOrders' \in [1 .. Len(activeOrders) -> TicketOrders]
    <3>1. activeOrders' = [i \in DOMAIN activeOrders |-> activeOrders'[i]]
      BY DEF MoveOrder
    <3> QED BY <1>3, <2>1, <3>1
  <2> QED BY <2>1, <2>2, SeqDef
<1>5. \A o \in Range(activeOrders') : o.id <= sent
  BY <1>3, <1>4 DEF Range
<1>6. OneOfATicket'
  BY <1>3, <1>4 DEF LadderInv, OneOfATicket
<1>7. ticketCalls' = ticketCalls \/ ticketCalls' = ticketCalls \cup {Call("move", order)}
  BY DEF MoveOrder
<1> HIDE DEF order, still
<1>8. "move" \in Sends /\ "move" \notin {"submit", "send"}
  BY DEF Sends
<1>9. PICK new : /\ new = Call("move", order) /\ new \in LadderCalls /\ new.order = order
                 /\ new.state = None /\ ~new.ok /\ new.kind = "move"
  BY <1>2, <1>8, CallIsNew DEF LadderInv
<1>10. ~Entering(new)
  BY <1>8, <1>9 DEF Entering, Enters
<1>11. LadderTypes'
  BY <1>1, <1>4, <1>7, <1>9 DEF LadderInv, LadderTypes
<1>12. TicketsWereSent'
  BY <1>1, <1>2, <1>5, <1>7, <1>9 DEF LadderInv, TicketsWereSent, TicketStore
<1>13. EnteredByOne'
  BY <1>1, <1>7, <1>9, <1>10 DEF LadderInv, EnteredByOne
<1> QED BY <1>1, <1>6, <1>11, <1>12, <1>13 DEF LadderInv, TicketStore

\* A call reaches the exchange, which takes it or not.
LEMMA ServerKeeps ==
  ASSUME LadderInv, NEW call \in ticketCalls, ServerTakes(call)
  PROVE  LadderInv' /\ (\A c \in ticketCalls' \ ticketCalls : c.state # None)
<1> DEFINE t == call.order.id
           ok == IF Enters(call) THEN ticketVenue[t] = None ELSE ticketVenue[t] # None
           new == [call EXCEPT !.state = WorkingNow', !.ok = ok]
<1>1. /\ call.state = None /\ ticketCalls' = (ticketCalls \ {call}) \cup {new}
      /\ UNCHANGED <<shared, activeOrders, sim, fastTrade, dragging, sent, moved>>
  BY DEF ServerTakes
<1>2. /\ call \in LadderCalls /\ t \in TicketIds /\ t <= sent /\ call.kind \in Sends \cup {"cancel"}
      /\ call.kind \in Sends => call.order \in TicketOrders
      /\ Enters(call) => call.kind \in Sends
  BY CallIs DEF LadderInv, TicketsWereSent, Enters, Sends
<1>3. /\ ticketVenue' \in [TicketIds -> [side : LadderSides, priceKey : PriceKeys, size : 1..TicketSize] \cup {None}]
      /\ \A u \in TicketIds : u # t => ticketVenue'[u] = ticketVenue[u]
      /\ ~ok => ticketVenue' = ticketVenue
      /\ ok /\ ~Enters(call) => ticketVenue'[t] = None
  <2>1. CASE ~ok
    BY <2>1 DEF ServerTakes, LadderInv, LadderTypes
  <2>2. CASE ok /\ Enters(call)
    <3>1. ticketVenue' = [ticketVenue EXCEPT ![t] = [side |-> call.order.side, priceKey |-> call.order.priceKey,
                                                    size |-> call.order.size]]
      BY <2>2 DEF ServerTakes
    <3>2. [side |-> call.order.side, priceKey |-> call.order.priceKey, size |-> call.order.size]
            \in [side : LadderSides, priceKey : PriceKeys, size : 1..TicketSize]
      BY <1>2, <2>2 DEF TicketOrders
    <3> QED BY <1>2, <2>2, <3>1, <3>2 DEF LadderInv, LadderTypes
  <2>3. CASE ok /\ ~Enters(call)
    <3>1. ticketVenue' = [ticketVenue EXCEPT ![t] = None]
      BY <2>3 DEF ServerTakes
    <3> QED BY <1>2, <2>3, <3>1 DEF LadderInv, LadderTypes
  <2> QED BY <2>1, <2>2, <2>3
<1>4. \A u \in TicketIds : u > sent' => ticketVenue'[u] = None
  BY <1>1, <1>2, <1>3 DEF LadderInv, TicketsWereSent, TicketIds, LadderTypes
<1>5. PICK some \in SUBSET TicketOrders : some = WorkingNow' /\ TicketStore(some) /\ some # None
  <2>1. PICK some : some = WorkingNow'
    OBVIOUS
  <2>2. TicketStore(some)
    <3> DEFINE T == {u \in TicketIds : ticketVenue'[u] # None}
               Order(u) == [id |-> u, side |-> ticketVenue'[u].side, priceKey |-> ticketVenue'[u].priceKey,
                            size |-> ticketVenue'[u].size, status |-> "working"]
    <3>1. \A o : o \in some <=> \E u \in T : o = Order(u)
      BY <2>1 DEF WorkingNow
    <3>2. ASSUME NEW u \in T PROVE Order(u) \in TicketOrders /\ Order(u).id = u /\ u <= sent
      BY <1>1, <1>3, <1>4, LadderAssumption DEF LadderInv, LadderTypes, TicketOrders, TicketIds
    <3> HIDE DEF T, Order
    <3> QED BY <3>1, <3>2 DEF TicketStore
  <2> QED BY <2>1, <2>2, LadderAssumption DEF TicketStore
<1>6. /\ new \in LadderCalls /\ new.state = some /\ new.kind = call.kind /\ new.order = call.order
      /\ new.ok = ok
  <2>1. new = [call EXCEPT !.state = some, !.ok = ok] /\ ok \in BOOLEAN /\ some \in States
    BY <1>5 DEF States
  <2> HIDE DEF new, ok
  <2>2. CASE call.kind = "cancel"
    <3> HIDE DEF t
    <3> QED BY <1>2, <2>1, <2>2 DEF LadderCalls, Sends
  <2>3. CASE call.kind \in Sends
    <3> HIDE DEF t
    <3> QED BY <1>2, <2>1, <2>3 DEF LadderCalls, Sends
  <2> QED BY <1>2, <2>2, <2>3
<1>7. LadderTypes'
  BY <1>1, <1>3, <1>6 DEF LadderInv, LadderTypes
<1>8. ASSUME NEW s, TicketStore(s) PROVE TicketStore(s)'
  BY <1>1, <1>8 DEF TicketStore
<1>9. TicketsWereSent'
  BY <1>1, <1>2, <1>4, <1>5, <1>6, <1>8 DEF LadderInv, TicketsWereSent
<1>10. EnteredByOne'
  <2>1. ASSUME Entering(new) PROVE new.kind = "move" /\ ok /\ ~Enters(call) /\ ticketVenue[t] # None
    <3>1. new.state # None
      BY <1>5, <1>6
    <3>2. new.kind = "move" /\ ok
      BY <1>6, <2>1, <3>1 DEF Entering
    <3>3. ~Enters(call)
      BY <1>6, <3>2 DEF Enters
    <3> QED BY <3>2, <3>3
  <2>2. ASSUME NEW c \in ticketCalls \ {call}, Entering(c)
        PROVE  /\ ticketVenue'[c.order.id] = None
               /\ Entering(new) => c.order.id # t
    <3>1. c.order.id \in TicketIds /\ ticketVenue[c.order.id] = None
      BY <2>2, CallIs DEF LadderInv, EnteredByOne
    <3>2. CASE c.order.id = t
      <4>1. ~Enters(call)
        <5> SUFFICES ASSUME Enters(call) PROVE FALSE
          OBVIOUS
        <5>1. Entering(call)
          BY <1>1 DEF Entering
        <5> QED BY <2>2, <3>2, <5>1 DEF LadderInv, EnteredByOne
      <4>2. ~ok
        BY <3>1, <3>2, <4>1
      <4> QED BY <1>3, <2>1, <3>1, <3>2, <4>2
    <3> QED BY <1>3, <3>1, <3>2
  <2>3. Entering(new) => ticketVenue'[new.order.id] = None
    BY <1>3, <1>6, <2>1
  <2>4. new.state # None
    BY <1>5, <1>6
  <2> HIDE DEF new, ok
  <2>5. \A c \in ticketCalls' : c = new \/ c \in ticketCalls \ {call}
    BY <1>1
  <2>6. \A c \in ticketCalls' : c.kind = "move" /\ c.ok => c.state # None
    BY <2>4, <2>5 DEF LadderInv, EnteredByOne
  <2>7. \A c \in ticketCalls' : Entering(c) => ticketVenue'[c.order.id] = None
    BY <2>2, <2>3, <2>5
  <2>8. \A c, d \in ticketCalls' : Entering(c) /\ Entering(d) /\ c.order.id = d.order.id => c = d
    BY <1>6, <2>2, <2>5 DEF LadderInv, EnteredByOne
  <2> QED BY <2>6, <2>7, <2>8 DEF EnteredByOne
<1>11. \A c \in ticketCalls' \ ticketCalls : c.state # None
  BY <1>1, <1>5, <1>6
<1> QED BY <1>1, <1>7, <1>8, <1>9, <1>10, <1>11 DEF LadderInv, OneOfATicket

\* A call fails: a plain send marks its ticket.
LEMMA FailureKeeps ==
  ASSUME LadderInv, NEW call \in ticketCalls, CallFails(call)
  PROVE  LadderInv'
<1>1. /\ ticketCalls' = ticketCalls \ {call}
      /\ UNCHANGED <<ticketVenue, shared, sim, fastTrade, dragging, sent, moved>>
      /\ activeOrders' = [i \in DOMAIN activeOrders |->
           IF call.kind = "send" /\ activeOrders[i].id = call.order.id
           THEN [activeOrders[i] EXCEPT !.status = "rejected"] ELSE activeOrders[i]]
  BY DEF CallFails
<1>2. ASSUME NEW i \in DOMAIN activeOrders
      PROVE  /\ activeOrders'[i] \in TicketOrders /\ activeOrders'[i].id = activeOrders[i].id
             /\ activeOrders[i].id <= sent
  <2>1. activeOrders[i] \in TicketOrders /\ activeOrders[i].id <= sent
    BY DEF LadderInv, LadderTypes, TicketsWereSent, Range
  <2> QED BY <1>1, <2>1 DEF TicketOrders
<1>3. activeOrders' \in Seq(TicketOrders) /\ DOMAIN activeOrders' = DOMAIN activeOrders
  <2>1. DOMAIN activeOrders = 1 .. Len(activeOrders) /\ Len(activeOrders) \in Nat
    BY DEF LadderInv, LadderTypes
  <2>2. activeOrders' \in [1 .. Len(activeOrders) -> TicketOrders]
    BY <1>1, <1>2, <2>1
  <2> QED BY <2>1, <2>2, SeqDef
<1>4. \A o \in Range(activeOrders') : o.id <= sent
  BY <1>2, <1>3 DEF Range
<1>5. OneOfATicket'
  BY <1>2, <1>3 DEF LadderInv, OneOfATicket
<1>6. LadderTypes'
  BY <1>1, <1>3 DEF LadderInv, LadderTypes
<1>7. TicketsWereSent'
  BY <1>1, <1>4 DEF LadderInv, TicketsWereSent, TicketStore
<1>8. EnteredByOne'
  BY <1>1 DEF LadderInv, EnteredByOne
<1> QED BY <1>1, <1>5, <1>6, <1>7, <1>8 DEF LadderInv, TicketStore

\* The answer of a call: the store takes what worked then, and a move goes on.
LEMMA CallAnswerKeeps ==
  ASSUME LadderInv, NEW call \in ticketCalls, CallAnswer(call)
  PROVE  LadderInv'
<1> DEFINE new == [call EXCEPT !.kind = "submit", !.state = None, !.ok = FALSE]
<1>1. /\ call.state # None /\ shared' \in {shared, call.state}
      /\ UNCHANGED <<ticketVenue, activeOrders, sim, fastTrade, dragging, sent, moved>>
      /\ \/ ticketCalls' = ticketCalls \ {call}
         \/ GoesOn(call) /\ ticketCalls' = (ticketCalls \ {call}) \cup {new}
  BY DEF CallAnswer
<1>2. TicketStore(shared') /\ \A s : TicketStore(s) => TicketStore(s)'
  BY <1>1 DEF LadderInv, TicketsWereSent, TicketStore
<1>3. CASE ticketCalls' = ticketCalls \ {call}
  <2>1. LadderTypes' /\ TicketsWereSent'
    BY <1>1, <1>2, <1>3 DEF LadderInv, LadderTypes, TicketsWereSent
  <2> QED BY <1>1, <1>2, <1>3, <2>1 DEF LadderInv, EnteredByOne, OneOfATicket, TicketStore
<1>4. CASE GoesOn(call) /\ ticketCalls' = (ticketCalls \ {call}) \cup {new}
  <2>1. /\ call.kind = "move" /\ call.ok /\ Entering(call) /\ call \in LadderCalls
        /\ call.order \in TicketOrders /\ call.order.id <= sent
    BY <1>4, CallIs DEF GoesOn, Entering, LadderInv, Sends, TicketsWereSent
  <2>2. /\ new \in LadderCalls /\ new.kind = "submit" /\ new.order = call.order /\ new.state = None
        /\ ~new.ok
    <3>1. call \in [kind : Sends, order : TicketOrders, turn : Nat, state : States, ok : BOOLEAN]
      BY <2>1 DEF LadderCalls
    <3>2. None \in States /\ "submit" \in Sends
      BY DEF States, Sends
    <3>3. new \in [kind : Sends, order : TicketOrders, turn : Nat, state : States, ok : BOOLEAN]
      BY <3>1, <3>2
    <3> QED BY <3>1, <3>3 DEF LadderCalls
  <2> HIDE DEF new
  <2>3. LadderTypes'
    BY <1>1, <1>4, <2>2 DEF LadderInv, LadderTypes
  <2>4. TicketsWereSent'
    BY <1>1, <1>2, <1>4, <2>1, <2>2 DEF LadderInv, TicketsWereSent
  <2>5. EnteredByOne'
    BY <1>1, <1>4, <2>1, <2>2 DEF LadderInv, EnteredByOne
  <2> QED BY <1>1, <1>2, <2>3, <2>4, <2>5 DEF LadderInv, OneOfATicket, TicketStore
<1> QED BY <1>1, <1>3, <1>4

\* A working ticket is filled, in part or for the rest.
LEMMA TicketFillKeeps ==
  ASSUME LadderInv, NEW t \in TicketIds, Fill(t)
  PROVE  LadderInv'
<1>1. /\ ticketVenue[t] # None /\ UNCHANGED <<shared, activeOrders, sim, fastTrade, dragging, ticketCalls, sent, moved>>
      /\ ticketVenue' = [ticketVenue EXCEPT ![t] = IF ticketVenue[t].size - 1 = 0 THEN None
                           ELSE [ticketVenue[t] EXCEPT !.size = ticketVenue[t].size - 1]]
  BY DEF Fill
<1>2. ticketVenue[t] \in [side : LadderSides, priceKey : PriceKeys, size : 1..TicketSize]
  BY <1>1 DEF LadderInv, LadderTypes
<1>3. /\ ticketVenue' \in [TicketIds -> [side : LadderSides, priceKey : PriceKeys, size : 1..TicketSize] \cup {None}]
      /\ \A u \in TicketIds : u # t => ticketVenue'[u] = ticketVenue[u]
  <2>1. ticketVenue[t].size - 1 # 0 => [ticketVenue[t] EXCEPT !.size = ticketVenue[t].size - 1]
                                     \in [side : LadderSides, priceKey : PriceKeys, size : 1..TicketSize]
    BY <1>2, LadderAssumption
  <2> QED BY <1>1, <2>1 DEF LadderInv, LadderTypes
<1>4. LadderTypes'
  BY <1>1, <1>3 DEF LadderInv, LadderTypes
<1>5. TicketsWereSent'
  BY <1>1, <1>3 DEF LadderInv, TicketsWereSent, TicketStore
<1>6. EnteredByOne'
  <2>1. \A c \in ticketCalls : c.order.id \in TicketIds /\ (Entering(c) => c.order.id # t)
    BY <1>1, CallIs DEF LadderInv, EnteredByOne
  <2> QED BY <1>1, <1>3, <2>1 DEF LadderInv, EnteredByOne
<1> QED BY <1>1, <1>4, <1>5, <1>6 DEF LadderInv, OneOfATicket, TicketStore

\* Every step of a depth ladder.
LEMMA LadderStep ==
  ASSUME LadderInv, [LadderNext]_ladderVars
  PROVE  LadderInv'
<1>1. ASSUME NEW side \in LadderSides, NEW key \in PriceKeys,
             \/ SubmitDepthOrder(side, key) \/ SubmitPending(side, key)
             \/ CancelOrderGroup(side, key) \/ StartOrderDrag(side, key)
      PROVE  LadderInv'
  <2>1. CASE SubmitPending(side, key)
    <3>1. UNCHANGED <<ticketVenue, shared, sim, fastTrade, dragging, sent, moved>>
      BY <2>1 DEF SubmitPending
    <3> QED BY <2>1, <3>1, SubmitPendingIs, CancelsKeep
  <2>2. CASE CancelOrderGroup(side, key)
    <3> DEFINE gone == {o \in LadderTickets : OnRow(o, side, key)}
    <3>1. CancelWhere(gone)
      BY <2>2 DEF CancelOrderGroup
    <3> HIDE DEF gone
    <3> QED BY <3>1, CancelsKeep DEF CancelWhere
  <2> QED BY <1>1, <2>1, <2>2, ClickKeeps, DragKeeps
<1>2. ASSUME NEW sides, ClearSide(sides) PROVE LadderInv'
  <2> DEFINE gone == {o \in LadderTickets : o.side \in sides}
  <2>1. CancelWhere(gone)
    BY <1>2 DEF ClearSide
  <2> HIDE DEF gone
  <2> QED BY <2>1, CancelsKeep DEF CancelWhere
<1>3. CASE RefreshOrders
  <2>1. TicketStore(WorkingNow)
    BY WorkingIsStore DEF LadderInv, TicketsWereSent
  <2> QED BY <1>3, <2>1, CallsStandStill DEF RefreshOrders, LadderInv, LadderTypes, TicketsWereSent
<1>4. CASE ToggleSim \/ ToggleFastTicket \/ LeaveMarket \/ UNCHANGED ladderVars
  <2>1. sim' \in BOOLEAN /\ fastTrade' \in BOOLEAN /\ activeOrders' \in {activeOrders, <<>>}
        /\ dragging' \in {dragging, None} /\ UNCHANGED <<ticketVenue, shared, ticketCalls, sent, moved>>
    BY <1>4 DEF ToggleSim, ToggleFastTicket, LeaveMarket, ladderVars, LadderInv, LadderTypes
  <2> QED BY <2>1, CallsStandStill DEF LadderInv, LadderTypes, TicketsWereSent
<1> QED BY <1>1, <1>2, <1>3, <1>4, DragKeeps, MoveKeeps, ServerKeeps, FailureKeeps, CallAnswerKeeps,
           TicketFillKeeps DEF LadderNext

\* A depth ladder starts with no tickets.
LEMMA LadderStart ==
  ASSUME LadderInit
  PROVE  LadderInv
<1>1. /\ ticketVenue = [t \in TicketIds |-> None] /\ shared = {} /\ activeOrders = <<>> /\ sim \in BOOLEAN
      /\ fastTrade \in BOOLEAN /\ dragging = None /\ ticketCalls = {} /\ sent = 0 /\ moved = 0
  BY DEF LadderInit
<1>2. <<>> \in Seq(TicketOrders) /\ DOMAIN <<>> = {} /\ Range(<<>>) = {}
  BY DEF Range
<1>3. LadderTypes
  BY <1>1, <1>2, LadderAssumption DEF LadderTypes
<1> QED BY <1>1, <1>2, <1>3 DEF LadderInv, TicketsWereSent, TicketStore, EnteredByOne, OneOfATicket

\* A move enters only what it has taken out, and alone.
LEMMA MovesEnterAlone ==
  ASSUME LadderInv
  PROVE  MoveEntersWhatItTook
BY DEF MoveEntersWhatItTook, LadderInv, EnteredByOne, Entering, Enters

(***************************************************************************)
(* The order panel of an event market.                                     *)
(***************************************************************************)
RequestHolds(r) ==
  /\ r.button = placing
  /\ r.button.type = "limit" => 0 < r.price /\ r.price < 100
  /\ r.button.type = "exit" => \E h \in Holdings : r.size <= h[r.button.outcome]

\* There is one request, of the button that is being placed, or none.
PanelInv ==
  /\ shares \in Holdings \/ shares = [o \in Outcomes |-> 0]
  /\ limitTyped \in [Outcomes -> Int \cup {None}]
  /\ placing = None => requests = {}
  /\ \A r, q \in requests : r = q
  /\ \A r \in requests : RequestHolds(r)

\* A part of what is held is no more than that.
LEMMA PartOfTheHolding ==
  ASSUME NEW owned \in Nat, owned > 0, NEW percent \in {25, 50, 75, 100}
  PROVE  ExitSize(owned, percent) <= owned
<1>1. CASE percent = 25
  BY <1>1 DEF ExitSize
<1>2. CASE percent = 50
  BY <1>2 DEF ExitSize
<1>3. CASE percent = 75
  BY <1>3 DEF ExitSize
<1>4. CASE percent = 100
  BY <1>4 DEF ExitSize
<1> QED BY <1>1, <1>2, <1>3, <1>4

\* A button that is pressed while nothing is being placed.
LEMMA SentIsAlone ==
  ASSUME PanelInv, placing = None, NEW button, NEW size, NEW price, Sent(button, size, price),
         button # None, button.type = "limit" => 0 < price /\ price < 100,
         button.type = "exit" => \E h \in Holdings : size <= h[button.outcome]
  PROVE  PanelInv'
<1>1. PICK r : r = [button |-> button, size |-> size, price |-> price]
  OBVIOUS
<1>2. r.button = button /\ r.size = size /\ r.price = price
  BY <1>1
<1>3. placing' = button /\ requests' = {r} /\ UNCHANGED <<shares, limitTyped>>
  BY <1>1 DEF Sent, PanelInv, storeVars
<1> QED BY <1>2, <1>3 DEF PanelInv, RequestHolds

\* The buttons of the panel.
LEMMA PlacingKeeps ==
  ASSUME PanelInv, NEW outcome \in Outcomes,
         \/ \E side \in {"buy", "sell"}, type \in {"market", "limit"} : PlaceOrder(side, type, outcome)
         \/ \E percent \in {25, 50, 75, 100} : QuickExit(outcome, percent)
  PROVE  PanelInv'
<1>1. ASSUME NEW side \in {"buy", "sell"}, NEW type \in {"market", "limit", "exit"}
      PROVE  /\ Button(side, type, outcome) # None /\ Button(side, type, outcome).type = type
             /\ Button(side, type, outcome).outcome = outcome
  BY TicketAssumption DEF Button
<1>2. ASSUME NEW side \in {"buy", "sell"}, NEW type \in {"market", "limit"}, PlaceOrder(side, type, outcome)
      PROVE  PanelInv'
  <2>1. PICK price : /\ placing = None /\ Sent(Button(side, type, outcome), 100, price) /\ price # None
                     /\ type = "limit" => price = LimitPrice(outcome)
    BY <1>2 DEF PlaceOrder
  <2>2. type = "limit" => 0 < price /\ price < 100
    BY <2>1 DEF LimitPrice, PanelInv
  <2>3. Button(side, type, outcome) # None /\ Button(side, type, outcome).type = type
    BY <1>1
  <2> QED BY <2>1, <2>2, <2>3, SentIsAlone
<1>3. ASSUME NEW percent \in {25, 50, 75, 100}, QuickExit(outcome, percent)
      PROVE  PanelInv'
  <2>1. /\ placing = None /\ shares[outcome] > 0
        /\ Sent(Button("sell", "exit", outcome), ExitSize(shares[outcome], percent), MarketPrice("sell", outcome))
    BY <1>3 DEF QuickExit
  <2>2. shares \in Holdings /\ shares[outcome] \in Nat
    BY <2>1, TicketAssumption DEF PanelInv
  <2>3. ExitSize(shares[outcome], percent) <= shares[outcome]
    BY <2>1, <2>2, PartOfTheHolding
  <2>4. /\ Button("sell", "exit", outcome) # None /\ Button("sell", "exit", outcome).type = "exit"
        /\ Button("sell", "exit", outcome).outcome = outcome
    BY <1>1
  <2> QED BY <2>1, <2>2, <2>3, <2>4, SentIsAlone
<1> QED BY <1>2, <1>3

\* Every step of the panel.
LEMMA PanelStep ==
  ASSUME PanelInv, [TicketNext]_ticketVars
  PROVE  PanelInv'
<1>1. ASSUME UNCHANGED panelVars, shares' \in Holdings \cup {shares} PROVE PanelInv'
  BY <1>1 DEF PanelInv, RequestHolds, panelVars
<1>2. CASE \/ ClockTicks \/ (\E m \in MarketsAt(clock) : MarketArrives(m))
           \/ (\E b \in BestPrices : BookOfTheMarket(b))
           \/ (\E n \in 0..1, stop \in BOOLEAN : MetricsArrive(n, stop))
           \/ (\E h \in Holdings : PositionsArrive(h)) \/ UNCHANGED ticketVars
  <2>1. UNCHANGED panelVars /\ shares' \in Holdings \cup {shares}
    BY <1>2 DEF ClockTicks, MarketArrives, BookOfTheMarket, MetricsArrive, PositionsArrive, ticketVars, storeVars,
                panelVars
  <2> QED BY <1>1, <2>1
<1>3. ASSUME NEW outcome \in Outcomes, NEW typed \in LimitTexts,
             TypeLimitOf(outcome, typed) \/ BookClick(outcome, typed)
      PROVE  PanelInv'
  <2>1. /\ limitTyped' = [limitTyped EXCEPT ![outcome] = typed] /\ typed \in Int \cup {None}
        /\ UNCHANGED <<shares, placing, requests>>
    BY <1>3, TicketAssumption DEF TypeLimitOf, BookClick, storeVars
  <2> QED BY <2>1 DEF PanelInv, RequestHolds
<1>4. ASSUME NEW request \in requests, RequestEnds(request) PROVE PanelInv'
  <2>1. placing' = None /\ requests' = {} /\ UNCHANGED <<shares, limitTyped>>
    BY <1>4 DEF RequestEnds, PanelInv, storeVars
  <2> QED BY <2>1 DEF PanelInv
<1> QED BY <1>2, <1>3, <1>4, PlacingKeeps DEF TicketNext

\* Nothing is being placed when the panel opens.
LEMMA PanelStart ==
  ASSUME TicketInit
  PROVE  PanelInv
BY DEF TicketInit, PanelInv

\* One request at a time.
LEMMA OneAtATime ==
  ASSUME PanelInv
  PROVE  OneRequestAtATime
<1>1. CASE requests = {}
  <2>1. Cardinality(requests) = 0
    BY <1>1, FS_EmptySet
  <2> QED BY <1>1, <2>1 DEF OneRequestAtATime
<1>2. CASE requests # {}
  <2>1. PICK r \in requests : requests = {r}
    BY <1>2 DEF PanelInv
  <2>2. Cardinality(requests) = 1
    BY <2>1, FS_Singleton
  <2> QED BY <2>2 DEF OneRequestAtATime, PanelInv, RequestHolds
<1> QED BY <1>1, <1>2

(***************************************************************************)
(* The rows of the order book window.                                      *)
(***************************************************************************)
BlotterInv ==
  orders \subseteq [id : OrderIds, good : Goods, side : {"bid", "offer"}, size : Nat, left : Nat,
                    source : {"manual", "algo"}]

\* Orders rest, fill and leave.
LEMMA BlotterStep ==
  ASSUME BlotterInv, [BlotterNext]_blotterVars
  PROVE  BlotterInv'
<1>1. CASE \/ \E id \in OrderIds : CancelRow(id) \/ SelectOrder(id)
           \/ \E v \in {"all", "sim", "cme"} : PickVenue(v)
           \/ \E g \in Goods \cup {"all"} : PickGood(g)
           \/ \E src \in {"all", "manual", "algo"} : PickSource(src)
           \/ \E st \in {"working", "all", "closed"} : PickStatus(st)
           \/ UNCHANGED blotterVars
  <2>1. UNCHANGED orders
    BY <1>1 DEF CancelRow, SelectOrder, PickVenue, PickGood, PickSource, PickStatus, blotterVars, Book
  <2> QED BY <2>1 DEF BlotterInv
<1>2. ASSUME NEW id \in OrderIds, NEW g \in Goods,
             OrderRests([id |-> id, good |-> g, side |-> OrderOf[id].side, size |-> 2, left |-> 2,
                         source |-> OrderOf[id].source])
      PROVE  BlotterInv'
  <2>1. OrderOf[id].side \in {"bid", "offer"} /\ OrderOf[id].source \in {"manual", "algo"}
    BY BlotterAssumption
  <2> QED BY <1>2, <2>1 DEF OrderRests, BlotterInv
<1>3. ASSUME NEW o \in orders, NEW n \in 1 .. 2, OrderFills(o, n)
      PROVE  BlotterInv'
  <2>1. /\ orders' = (orders \ {o}) \cup {p \in {[o EXCEPT !.left = o.left - n]} : p.left > 0}
        /\ n \in 1 .. o.left
    BY <1>3 DEF OrderFills
  <2>2. [o EXCEPT !.left = o.left - n] \in [id : OrderIds, good : Goods, side : {"bid", "offer"}, size : Nat,
                                            left : Nat, source : {"manual", "algo"}]
    BY <2>1 DEF BlotterInv
  <2> QED BY <2>1, <2>2 DEF BlotterInv
<1>4. CASE (\E n \in DOMAIN cancels : CancelAnswered(n)) \/ CancelAllOrders
  <2>1. orders' \subseteq orders
    BY <1>4 DEF CancelAnswered, CancelAllOrders
  <2> QED BY <2>1 DEF BlotterInv
<1> QED BY <1>1, <1>2, <1>3, <1>4 DEF BlotterNext

\* The row whose details are shown is in view, and there is one if any is.
LEMMA DetailsInView ==
  ASSUME BlotterInv
  PROVE  DetailsOfTheView
<1>1. \A r \in VisibleOrders : r # None /\ r.id \in Shown
  <2>1. VisibleOrders \subseteq OrderRows
    BY DEF VisibleOrders, Filtered
  <2>2. ASSUME NEW o \in orders
        PROVE  OrderRow(o) \in [id : OrderIds, good : Goods, venue : {"sim"}, status : {"working"},
                                source : {"manual", "algo"}, left : Nat]
    BY DEF BlotterInv, OrderRow
  <2>3. \A r \in OrderRows : r # None
    BY <2>2, BlotterAssumption DEF OrderRows
  <2> QED BY <2>1, <2>3 DEF Shown
<1>2. CASE selectedId \in Shown
  <2>1. \E r \in VisibleOrders : r.id = selectedId
    BY <1>2 DEF Shown
  <2>2. SelectedOrder = CHOOSE r \in VisibleOrders : r.id = selectedId
    BY <1>2 DEF SelectedOrder
  <2>3. SelectedOrder \in VisibleOrders
    BY <2>1, <2>2
  <2> QED BY <1>1, <2>3 DEF DetailsOfTheView
<1>3. CASE selectedId \notin Shown /\ Shown = {}
  BY <1>3 DEF DetailsOfTheView, SelectedOrder
<1>4. CASE selectedId \notin Shown /\ Shown # {}
  <2>1. SelectedOrder = CHOOSE r \in VisibleOrders : TRUE
    BY <1>4 DEF SelectedOrder
  <2>2. SelectedOrder \in VisibleOrders
    BY <1>4, <2>1 DEF Shown
  <2> QED BY <1>1, <2>2 DEF DetailsOfTheView
<1> QED BY <1>2, <1>3, <1>4

\* Orders and the calls about them keep in step, whatever is clicked, dragged or
\* cancelled while calls are on their way: a depth ladder counts a ticket once and a
\* move enters only what it has itself taken out; an event market's marker is pending
\* exactly while its call is on its way, and what is dragged was not taken away; the
\* order panel has one request at a time, with a price inside the scale and for no more
\* than was held; and the order book's details are of a row in view.
THEOREM CallsStaySettled ==
  LadderSpec /\ Ladder2Spec /\ TicketSpec /\ BlotterSpec => []CallsAreSettled
<1>1. LadderInit => LadderInv
  BY LadderStart
<1>2. LadderInv /\ [LadderNext]_ladderVars => LadderInv'
  BY LadderStep
<1>3. Ladder2Init => EventInv
  BY EventStart
<1>4. EventInv /\ [Ladder2Next]_ladder2Vars => EventInv'
  BY EventStep
<1>5. TicketInit => PanelInv
  BY PanelStart
<1>6. PanelInv /\ [TicketNext]_ticketVars => PanelInv'
  BY PanelStep
<1>7. BlotterInit => BlotterInv
  BY DEF BlotterInit, BlotterInv
<1>8. BlotterInv /\ [BlotterNext]_blotterVars => BlotterInv'
  BY BlotterStep
<1>9. LadderInv /\ EventInv /\ PanelInv /\ BlotterInv => CallsAreSettled
  <2>1. EventInv => PendingIsOnItsWay /\ DragIsNotCancelled
    <3>1. \A n \in DOMAIN markers : markers[n] \in ToSet(markers)
      BY DEF ToSet
    <3> QED BY <3>1 DEF EventInv, PendingIsOnItsWay, DragIsNotCancelled, MarkerHolds
  <2> QED BY <2>1, OrdersCountedOnce, MovesEnterAlone, OneAtATime, DetailsInView DEF CallsAreSettled
<1> QED BY <1>1, <1>2, <1>3, <1>4, <1>5, <1>6, <1>7, <1>8, <1>9, PTL
        DEF LadderSpec, Ladder2Spec, TicketSpec, BlotterSpec

(***************************************************************************)
(* The settings of a depth ladder's window.                                *)
(***************************************************************************)
\* Nothing to drop, nothing dropped.
LEMMA WithoutNothing ==
  ASSUME NEW S, NEW list \in Seq(S), NEW gone, \A i \in DOMAIN list : list[i] \notin gone
  PROVE  Without(list, gone) = list
<1>1. PICK h : /\ \A n \in 0 .. Len(list) : h[n] = Longer(list, gone, h, n)
               /\ Without(list, gone) = h[Len(list)]
  BY WithoutByOne
<1> DEFINE N == {n \in Nat : n <= Len(list) => h[n] = SubSeq(list, 1, n)}
<1>2. 0 \in N
  <2>1. h[0] = <<>> /\ SubSeq(list, 1, 0) = <<>>
    BY <1>1 DEF Longer
  <2> QED BY <2>1
<1>3. ASSUME NEW n \in Nat, n \in N PROVE n + 1 \in N
  <2> SUFFICES ASSUME n + 1 <= Len(list) PROVE h[n + 1] = SubSeq(list, 1, n + 1)
    OBVIOUS
  <2>1. h[n] = SubSeq(list, 1, n) /\ n + 1 \in DOMAIN list
    BY <1>3
  <2>2. h[n + 1] = Append(SubSeq(list, 1, n), list[n + 1])
    <3>1. h[n + 1] = Longer(list, gone, h, n + 1) /\ n + 1 # 0 /\ (n + 1) - 1 = n
      BY <1>1
    <3>2. list[n + 1] \notin gone
      BY <2>1
    <3> QED BY <2>1, <3>1, <3>2 DEF Longer
  <2>3. Append(SubSeq(list, 1, n), list[n + 1]) = SubSeq(list, 1, n + 1)
    OBVIOUS
  <2> QED BY <2>2, <2>3
<1>4. Nat \subseteq N
  <2> HIDE DEF N
  <2> QED BY <1>2, <1>3, Ascends
<1>5. h[Len(list)] = SubSeq(list, 1, Len(list))
  BY <1>4
<1>6. SubSeq(list, 1, Len(list)) = list
  OBVIOUS
<1> QED BY <1>1, <1>5, <1>6

\* The columns of a ladder, and what a list without repetitions of them is.
ColumnsShown == {"orders", "bid", "price", "ask"}
\* The four columns of a ladder.
LEMMA ColumnsAre ==
  /\ Range(Columns) = ColumnsShown /\ Columns \in Seq(ColumnsShown) /\ Len(Columns) = 4
  /\ \A i, j \in 1 .. 4 : Columns[i] = Columns[j] => i = j
  /\ IsFiniteSet(ColumnsShown) /\ Cardinality(ColumnsShown) = 4
<1>1. Range(Columns) = ColumnsShown
  <2>1. DOMAIN Columns = {1, 2, 3, 4}
    BY DEF Columns
  <2> QED BY <2>1 DEF Range, Columns, ColumnsShown
<1>2. /\ Columns \in Seq(ColumnsShown) /\ Len(Columns) = 4
      /\ \A i, j \in 1 .. 4 : Columns[i] = Columns[j] => i = j
  BY DEF Columns, ColumnsShown
<1>3. IsFiniteSet(ColumnsShown) /\ Cardinality(ColumnsShown) = 4
  <2> DEFINE f == [i \in 1 .. 4 |-> Columns[i]]
  <2>1. f \in [1 .. 4 -> ColumnsShown] /\ (\A x, y \in 1 .. 4 : f[x] = f[y] => x = y)
        /\ (\A z \in ColumnsShown : \E x \in 1 .. 4 : f[x] = z)
    BY DEF Columns, ColumnsShown
  <2>2. IsFiniteSet(1 .. 4) /\ Cardinality(1 .. 4) = 4 - 1 + 1
    <3>1. 1 \in Int /\ 4 \in Int /\ ~(1 > 4)
      OBVIOUS
    <3> QED BY <3>1, FS_Interval
  <2> HIDE DEF f
  <2> QED BY <2>1, <2>2, AsManyValues
<1> QED BY <1>1, <1>2, <1>3

\* A list in which each member of a finite set is once is as long as the set is large.
LEMMA OnceEach ==
  ASSUME NEW S, IsFiniteSet(S), NEW list \in Seq(S), S \subseteq Range(list),
         \A i, j \in DOMAIN list : list[i] = list[j] => i = j
  PROVE  Len(list) = Cardinality(S)
<1>1. list \in [1 .. Len(list) -> S] /\ Len(list) \in Nat /\ DOMAIN list = 1 .. Len(list)
  OBVIOUS
<1>2. \A z \in S : \E x \in 1 .. Len(list) : list[x] = z
  BY <1>1 DEF Range
<1>3. IsFiniteSet(1 .. Len(list)) /\ Cardinality(1 .. Len(list)) = Len(list)
  <2>1. 1 \in Int /\ Len(list) \in Int /\ (1 > Len(list) => Len(list) = 0)
    BY <1>1
  <2> QED BY <1>1, <2>1, FS_Interval
<1> QED BY <1>1, <1>2, <1>3, AsManyValues

\* The places of the first occurrences of the members of a list, and the members there.
FirstPlaces(list, f, first) ==
  /\ Len(first) = Len(f) /\ DOMAIN first = DOMAIN f
  /\ \A i, j \in DOMAIN first : i < j => first[i] < first[j]
  /\ \A n \in DOMAIN first : f[n] = list[first[n]] /\ \A j \in 1 .. (first[n] - 1) : list[j] # list[first[n]]

\* The first occurrences of the members of a list, in their order.
LEMMA FirstsAre ==
  ASSUME NEW S, NEW list \in Seq(S)
  PROVE  /\ Firsts(list) \in Seq(S) /\ Range(Firsts(list)) = Range(list)
         /\ \A i, j \in DOMAIN Firsts(list) : Firsts(list)[i] = Firsts(list)[j] => i = j
         /\ \E first \in Seq(DOMAIN list) : FirstPlaces(list, Firsts(list), first)
<1> DEFINE places == [i \in DOMAIN list |-> i]
           again == {i \in DOMAIN list : \E j \in 1..(i - 1) : list[j] = list[i]}
<1>1. places \in Seq(DOMAIN list) /\ DOMAIN places = DOMAIN list /\ \A i \in DOMAIN list : places[i] = i
  OBVIOUS
<1>2. PICK first \in Seq(DOMAIN list) : first = Without(places, again)
  <2> HIDE DEF places, again
  <2> QED BY <1>1, WithoutIs
<1>3. /\ \A i, j \in DOMAIN first : i < j => first[i] < first[j]
      /\ \A i \in DOMAIN first : first[i] \notin again
      /\ \A k \in DOMAIN list : k \notin again => \E n \in DOMAIN first : first[n] = k
  <2> HIDE DEF places, again
  <2> QED BY <1>1, <1>2, WithoutIs DEF Lists
<1>4. DOMAIN first = 1 .. Len(first) /\ Len(first) \in Nat /\ \A n \in DOMAIN first : first[n] \in DOMAIN list
  OBVIOUS
<1>5. PICK f : f = [n \in DOMAIN first |-> list[first[n]]]
  OBVIOUS
<1>6. Firsts(list) = f
  BY <1>2, <1>5 DEF Firsts
<1>7. f \in Seq(S) /\ Len(f) = Len(first) /\ DOMAIN f = DOMAIN first
  BY <1>4, <1>5
<1>8. \A n \in DOMAIN first : /\ f[n] = list[first[n]]
                              /\ \A j \in 1 .. (first[n] - 1) : list[j] # list[first[n]]
  BY <1>3, <1>4, <1>5
<1>9. \A i, j \in DOMAIN f : f[i] = f[j] => i = j
  <2> SUFFICES ASSUME NEW i \in DOMAIN first, NEW j \in DOMAIN first, f[i] = f[j], i < j PROVE FALSE
    BY <1>4, <1>7
  <2>1. first[i] < first[j] /\ first[i] \in Nat \ {0} /\ first[j] \in Nat
    BY <1>3, <1>4
  <2>2. first[i] \in 1 .. (first[j] - 1)
    BY <2>1
  <2> QED BY <1>8, <2>2
<1>10. Range(f) = Range(list)
  <2>1. \A z \in Range(f) : z \in Range(list)
    BY <1>4, <1>7, <1>8 DEF Range
  <2>2. ASSUME NEW k \in DOMAIN list PROVE list[k] \in Range(f)
    <3> DEFINE N == {n \in Nat : n \in DOMAIN list => \E m \in DOMAIN first : list[first[m]] = list[n]}
               Below == {n \in Nat : \A m \in 1 .. n : m \in N}
    <3>1. 0 \in Below
      OBVIOUS
    <3>2. ASSUME NEW n \in Nat, n \in Below PROVE n + 1 \in Below
      <4>1. n + 1 \in N
        <5> SUFFICES ASSUME n + 1 \in DOMAIN list PROVE \E m \in DOMAIN first : list[first[m]] = list[n + 1]
          OBVIOUS
        <5>1. CASE \E j \in 1 .. n : list[j] = list[n + 1]
          <6>1. PICK j \in 1 .. n : list[j] = list[n + 1]
            BY <5>1
          <6>2. j \in DOMAIN list /\ j \in N
            BY <3>2
          <6> QED BY <6>1, <6>2
        <5>2. CASE ~ \E j \in 1 .. n : list[j] = list[n + 1]
          <6>1. n + 1 \notin again
            BY <5>2
          <6> QED BY <1>3, <6>1
        <5> QED BY <5>1, <5>2
      <4>2. \A m \in 1 .. n + 1 : m = n + 1 \/ m \in 1 .. n
        OBVIOUS
      <4> QED BY <3>2, <4>1, <4>2
    <3>3. k \in Nat /\ k \in 1 .. k
      OBVIOUS
    <3>4. k \in Below
      <4>1. Nat \subseteq Below
        <5> HIDE DEF Below
        <5> QED BY <3>1, <3>2, Ascends
      <4> QED BY <3>3, <4>1
    <3>5. \E m \in DOMAIN first : list[first[m]] = list[k]
      BY <3>3, <3>4
    <3> QED BY <1>7, <1>8, <3>5 DEF Range
  <2> QED BY <2>1, <2>2 DEF Range
<1> HIDE DEF again, places
<1>11. FirstPlaces(list, f, first)
  BY <1>3, <1>7, <1>8 DEF FirstPlaces
<1> QED BY <1>6, <1>7, <1>9, <1>10, <1>11, Zenon

\* An order of columns that has each column once.
EveryOnce(order) ==
  /\ order \in Seq(ColumnsShown) /\ Len(order) = 4 /\ Range(order) = ColumnsShown
  /\ \A i, j \in 1 .. 4 : order[i] = order[j] => i = j

\* Lists without repetitions of the columns have each once.
LEMMA ColumnsOnce ==
  ASSUME NEW order \in Seq(ColumnsShown), ColumnsShown \subseteq Range(order),
         \A i, j \in DOMAIN order : order[i] = order[j] => i = j
  PROVE  EveryOnce(order)
<1>1. Len(order) = 4
  BY OnceEach, ColumnsAre
<1>2. DOMAIN order = 1 .. 4 /\ \A i \in 1 .. 4 : order[i] \in ColumnsShown
  BY <1>1
<1>3. Range(order) \subseteq ColumnsShown
  BY <1>2 DEF Range
<1> QED BY <1>1, <1>2, <1>3 DEF EveryOnce

\* A list behind another one, and a part of a list, as lists of members.
Together(e, a, b) ==
  /\ e = a \o b /\ Len(e) = Len(a) + Len(b) /\ DOMAIN e = 1 .. Len(e)
  /\ \A i \in 1 .. Len(a) : e[i] = a[i]
  /\ \A i \in 1 .. Len(b) : e[Len(a) + i] = b[i]
\* Two lists one after the other.
LEMMA JoinedLists ==
  ASSUME NEW S, NEW a \in Seq(S), NEW b \in Seq(S)
  PROVE  \E e \in Seq(S) : Together(e, a, b)
<1>1. PICK e \in Seq(S) : e = a \o b
  BY ConcatProperties
<1>2. Len(e) = Len(a) + Len(b) /\ \A i \in 1 .. Len(a) + Len(b) : e[i] = IF i <= Len(a) THEN a[i] ELSE b[i - Len(a)]
  BY <1>1, ConcatProperties
<1>3. Len(a) \in Nat /\ Len(b) \in Nat /\ DOMAIN e = 1 .. Len(e)
  OBVIOUS
<1>4. \A i \in 1 .. Len(b) : e[Len(a) + i] = b[i]
  BY <1>2, <1>3
<1>5. \A i \in 1 .. Len(a) : e[i] = a[i]
  BY <1>2, <1>3
<1>6. Together(e, a, b)
  BY <1>1, <1>2, <1>3, <1>4, <1>5, Zenon DEF Together
<1> QED BY <1>6, Zenon

Part(a, w, m, n) ==
  /\ a = SubSeq(w, m, n) /\ Len(a) = n - m + 1
  /\ \A i \in 1 .. Len(a) : a[i] = w[m + i - 1]
\* A part of a list.
LEMMA PartOf ==
  ASSUME NEW S, NEW w \in Seq(S), NEW m, NEW n, m \in 1 .. Len(w) + 1, n \in m - 1 .. Len(w)
  PROVE  \E a \in Seq(S) : Part(a, w, m, n)
<1>1. m \in Int /\ n \in Int /\ (\A i \in m .. n : w[i] \in S) /\ (~(m <= n) => n - m + 1 = 0)
  OBVIOUS
<1>2. PICK a \in Seq(S) : a = SubSeq(w, m, n)
  BY <1>1, SubSeqProperties
<1>3. Len(a) = n - m + 1 /\ \A i \in 1 .. n - m + 1 : a[i] = w[m + i - 1]
  BY <1>1, <1>2, SubSeqProperties
<1>4. Part(a, w, m, n)
  BY <1>2, <1>3 DEF Part
<1> QED BY <1>4, Zenon

\* Columns that are all there are followed by nothing new.
LEMMA NothingNew ==
  ASSUME NEW order, EveryOnce(order)
  PROVE  Firsts(order \o Columns) = order
<1>1. order \in Seq(ColumnsShown) /\ Columns \in Seq(ColumnsShown) /\ Len(order) = 4 /\ Len(Columns) = 4
  BY ColumnsAre DEF EveryOnce
<1>2. PICK list \in Seq(ColumnsShown) : Together(list, order, Columns)
  BY <1>1, JoinedLists, Zenon
<1>3. list = order \o Columns /\ Len(list) = 8 /\ DOMAIN list = 1 .. 8 /\ \A i \in 1 .. 4 : list[i] = order[i]
  BY <1>1, <1>2 DEF Together
<1>4. PICK f \in Seq(ColumnsShown), first \in Seq(1 .. 8) :
        /\ f = Firsts(list) /\ Len(first) = Len(f)
        /\ \A i, j \in DOMAIN f : f[i] = f[j] => i = j
        /\ \A i, j \in DOMAIN first : i < j => first[i] < first[j]
        /\ \A n \in DOMAIN first : f[n] = list[first[n]] /\ \A j \in 1 .. (first[n] - 1) : list[j] # list[first[n]]
        /\ Range(f) = Range(list)
  <2>1. PICK f : f = Firsts(list)
    OBVIOUS
  <2>2. /\ f \in Seq(ColumnsShown) /\ Range(f) = Range(list)
        /\ \A i, j \in DOMAIN f : f[i] = f[j] => i = j
    BY <2>1, FirstsAre
  <2>3. PICK first \in Seq(DOMAIN list) : FirstPlaces(list, f, first)
    BY <2>1, FirstsAre, Zenon
  <2>4. first \in Seq(1 .. 8)
    BY <1>3
  <2> QED BY <2>1, <2>2, <2>3, <2>4 DEF FirstPlaces
<1>5. \A c \in ColumnsShown : \E j \in 1 .. 4 : list[j] = c
  <2>1. DOMAIN order = 1 .. 4
    BY <1>1
  <2>2. \A c \in ColumnsShown : \E j \in 1 .. 4 : order[j] = c
    BY <2>1 DEF EveryOnce, Range
  <2> QED BY <1>3, <2>2
<1>6. DOMAIN first = DOMAIN f /\ DOMAIN f = 1 .. Len(f) /\ Len(f) \in Nat
  BY <1>4
<1>14. first \in [DOMAIN first -> 1 .. 8]
  OBVIOUS
<1>7. ASSUME NEW n \in DOMAIN first PROVE first[n] \in 1 .. 4
  <2>1. PICK k \in 1 .. 8 : k = first[n]
    BY <1>14
  <2>2. \A j \in 1 .. (k - 1) : list[j] # list[k]
    BY <1>4, <2>1, Zenon
  <2>3. list[k] \in ColumnsShown
    BY <1>3
  <2>4. PICK j \in 1 .. 4 : list[j] = list[k]
    BY <1>5, <2>3
  <2>5. ~(j < k)
    BY <2>2, <2>4
  <2> QED BY <2>1, <2>5
<1>8. ColumnsShown \subseteq Range(f)
  <2>1. ColumnsShown \subseteq Range(list)
    <3> SUFFICES ASSUME NEW c \in ColumnsShown PROVE c \in Range(list)
      OBVIOUS
    <3>1. PICK j \in 1 .. 4 : list[j] = c
      BY <1>5
    <3>2. j \in DOMAIN list
      BY <1>3
    <3> QED BY <3>1, <3>2 DEF Range
  <2> QED BY <1>4, <2>1
<1>9. EveryOnce(f)
  BY <1>4, <1>8, ColumnsOnce
<1>10. Len(f) = 4 /\ DOMAIN first = 1 .. 4
  BY <1>6, <1>9 DEF EveryOnce
<1>11. first[1] = 1 /\ first[2] = 2 /\ first[3] = 3 /\ first[4] = 4
  BY <1>4, <1>7, <1>10
<1>12. \A n \in 1 .. 4 : f[n] = order[n]
  <2>1. \A n \in 1 .. 4 : f[n] = list[first[n]] /\ first[n] = n
    <3>1. \A n \in 1 .. 4 : n \in {1, 2, 3, 4}
      OBVIOUS
    <3>2. \A n \in 1 .. 4 : f[n] = list[first[n]]
      BY <1>4, <1>10, Zenon
    <3>3. \A n \in 1 .. 4 : first[n] = n
      BY <1>11, <3>1
    <3> QED BY <3>2, <3>3, Zenon
  <2>2. \A n \in 1 .. 4 : f[n] = list[n]
    BY <2>1, Zenon
  <2> QED BY <1>3, <2>2, Zenon
<1>13. f = order
  BY <1>1, <1>10, <1>12
<1> QED BY <1>3, <1>4, <1>13, Zenon

\* A column that is dropped before another one.
LEMMA MovedKeeps ==
  ASSUME NEW order, EveryOnce(order), NEW item \in ColumnsShown, NEW target \in ColumnsShown
  PROVE  EveryOnce(MovedColumn(order, item, target))
<1> SUFFICES ASSUME item # target PROVE EveryOnce(MovedColumn(order, item, target))
  BY DEF MovedColumn
<1>1. order \in Seq(ColumnsShown) /\ Len(order) = 4 /\ DOMAIN order = 1 .. 4
  BY DEF EveryOnce
<1>2. PICK w \in Seq(ColumnsShown) : w = Without(order, {item})
  BY <1>1, WithoutIs
<1>20. Lists(order, w) /\ (\A i \in DOMAIN w : w[i] \notin {item})
       /\ \A k \in DOMAIN order : order[k] \notin {item} => \E i \in DOMAIN w : w[i] = order[k]
  <2> DEFINE gone == {item}
  <2>1. order \in Seq(ColumnsShown) /\ w = Without(order, gone)
    BY <1>1, <1>2
  <2> HIDE DEF gone
  <2>2. Lists(order, w) /\ (\A i \in DOMAIN w : w[i] \notin gone)
        /\ \A k \in DOMAIN order : order[k] \notin gone => \E i \in DOMAIN w : w[i] = order[k]
    BY <2>1, WithoutIs
  <2> QED BY <2>2, Zenon DEF gone
<1>3. /\ \A i, j \in DOMAIN w : i < j => \E k, l \in 1 .. 4 : k < l /\ w[i] = order[k] /\ w[j] = order[l]
      /\ \A i \in DOMAIN w : w[i] # item
      /\ \A k \in 1 .. 4 : order[k] # item => \E i \in DOMAIN w : w[i] = order[k]
  BY <1>1, <1>20 DEF Lists
<1>4. \A i, j \in DOMAIN w : w[i] = w[j] => i = j
  <2> SUFFICES ASSUME NEW i \in DOMAIN w, NEW j \in DOMAIN w, i < j, w[i] = w[j] PROVE FALSE
    OBVIOUS
  <2> QED BY <1>3 DEF EveryOnce
<1>5. \A c \in ColumnsShown \ {item} : \E i \in DOMAIN w : w[i] = c
  BY <1>1, <1>3 DEF EveryOnce, Range
<1> DEFINE place == CHOOSE i \in DOMAIN w : w[i] = target
<1>6. place \in DOMAIN w /\ w[place] = target
  BY <1>5
<1> HIDE DEF place
<1>7. PICK n \in Nat : n = Len(w) /\ DOMAIN w = 1 .. n /\ place \in 1 .. n
  BY <1>6
<1> DEFINE m == [i \in 1 .. n + 1 |-> IF i < place THEN w[i] ELSE IF i = place THEN item ELSE w[i - 1]]
<1>8. MovedColumn(order, item, target) = m
  <2>1. MovedColumn(order, item, target) = SubSeq(w, 1, place - 1) \o <<item>> \o SubSeq(w, place, Len(w))
    BY <1>2 DEF MovedColumn, place
  <2>2. PICK a \in Seq(ColumnsShown) : Part(a, w, 1, place - 1)
    <3>1. 1 \in 1 .. Len(w) + 1 /\ place - 1 \in 1 - 1 .. Len(w)
      BY <1>7
    <3> QED BY <3>1, PartOf, Zenon
  <2>3. PICK b \in Seq(ColumnsShown) : Part(b, w, place, Len(w))
    <3>1. place \in 1 .. Len(w) + 1 /\ Len(w) \in place - 1 .. Len(w)
      BY <1>7
    <3> QED BY <3>1, PartOf, Zenon
  <2>4. a \o <<item>> \o b = m
    <3>1. <<item>> \in Seq(ColumnsShown) /\ Len(<<item>>) = 1 /\ <<item>>[1] = item
      OBVIOUS
    <3>2. PICK o \in Seq(ColumnsShown) : o = <<item>> /\ Len(o) = 1 /\ o[1] = item
      BY <3>1, Zenon
    <3>3. PICK d \in Seq(ColumnsShown) : Together(d, a, o)
      BY JoinedLists, Zenon
    <3>4. PICK e \in Seq(ColumnsShown) : Together(e, d, b)
      BY JoinedLists, Zenon
    <3>10. /\ Len(a) = (place - 1) - 1 + 1 /\ Len(b) = Len(w) - place + 1
           /\ \A i \in 1 .. Len(a) : a[i] = w[1 + i - 1]
           /\ \A i \in 1 .. Len(b) : b[i] = w[place + i - 1]
           /\ Len(d) = Len(a) + Len(o) /\ Len(e) = Len(d) + Len(b) /\ DOMAIN e = 1 .. Len(e)
           /\ \A i \in 1 .. Len(a) : d[i] = a[i]
           /\ \A i \in 1 .. Len(o) : d[Len(a) + i] = o[i]
           /\ \A i \in 1 .. Len(d) : e[i] = d[i]
           /\ \A i \in 1 .. Len(b) : e[Len(d) + i] = b[i]
      BY <2>2, <2>3, <3>3, <3>4, Zenon DEF Part, Together
    <3>11. d = a \o o /\ e = d \o b /\ a = SubSeq(w, 1, place - 1) /\ b = SubSeq(w, place, Len(w))
      BY <2>2, <2>3, <3>3, <3>4, Zenon DEF Part, Together
    <3>5. place \in Nat /\ Len(a) = place - 1 /\ Len(d) = place /\ Len(b) = n - place + 1 /\ DOMAIN e = 1 .. n + 1
      <4>1. place \in Nat /\ n \in Nat /\ Len(w) = n
        BY <1>7
      <4>2. Len(a) = place - 1 /\ Len(b) = n - place + 1
        BY <3>10, <4>1
      <4>3. Len(d) = place
        BY <3>2, <3>10, <4>1, <4>2
      <4>4. Len(e) = n + 1
        <5>1. Len(e) = Len(d) + Len(b)
          BY <3>10, Zenon
        <5> QED BY <4>1, <4>2, <4>3, <5>1
      <4> QED BY <3>10, <4>1, <4>2, <4>3, <4>4
    <3>6. ASSUME NEW i \in 1 .. n + 1 PROVE e[i] = m[i]
      <4>1. CASE i < place
        <5>1. i \in 1 .. Len(a) /\ i \in 1 .. Len(d) /\ 1 + i - 1 = i
          BY <3>5, <4>1
        <5>2. e[i] = d[i] /\ d[i] = a[i] /\ a[i] = w[i]
          BY <3>10, <5>1
        <5> QED BY <4>1, <5>2
      <4>2. CASE i = place
        <5>1. 1 \in 1 .. Len(o) /\ Len(a) + 1 = place /\ place \in 1 .. Len(d)
          BY <3>2, <3>5
        <5>2. d[place] = o[1] /\ e[place] = d[place]
          BY <3>10, <5>1
        <5> QED BY <3>2, <4>2, <5>2
      <4>3. CASE i > place
        <5>1. i - place \in 1 .. Len(b) /\ Len(d) + (i - place) = i /\ place + (i - place) - 1 = i - 1
          BY <3>5, <4>3
        <5>2. e[i] = b[i - place] /\ b[i - place] = w[i - 1]
          BY <3>10, <5>1
        <5> QED BY <3>5, <4>3, <5>2
      <4> QED BY <3>5, <4>1, <4>2, <4>3
    <3>7. e = m
      BY <3>5, <3>6
    <3>8. a \o <<item>> = d /\ d \o b = e
      BY <3>2, <3>11
    <3> HIDE DEF m
    <3> QED BY <3>7, <3>8
  <2>5. a = SubSeq(w, 1, place - 1) /\ b = SubSeq(w, place, Len(w))
    BY <2>2, <2>3, Zenon DEF Part
  <2> HIDE DEF m
  <2> QED BY <2>1, <2>4, <2>5
<1>9. m \in Seq(ColumnsShown) /\ DOMAIN m = 1 .. n + 1
  BY <1>7
<1>10. \A i, j \in 1 .. n + 1 : m[i] = m[j] => i = j
  BY <1>3, <1>4, <1>7
<1>11. ColumnsShown \subseteq Range(m)
  <2>1. m[place] = item /\ place \in DOMAIN m
    BY <1>7
  <2>2. \A i \in 1 .. n : \E k \in DOMAIN m : m[k] = w[i]
    <3> SUFFICES ASSUME NEW i \in 1 .. n PROVE \E k \in DOMAIN m : m[k] = w[i]
      OBVIOUS
    <3>1. CASE i < place
      BY <1>7, <3>1
    <3>2. CASE i >= place
      <4>1. i + 1 \in 1 .. n + 1 /\ m[i + 1] = w[i]
        BY <1>7, <3>2
      <4> QED BY <4>1
    <3> QED BY <1>7, <3>1, <3>2
  <2> HIDE DEF m
  <2> QED BY <1>5, <1>7, <2>1, <2>2 DEF Range
<1> HIDE DEF m
<1> QED BY <1>8, <1>9, <1>10, <1>11, ColumnsOnce

\* The settings of a ladder as a window has them: every column once, the multiplier one of
\* those offered, and widths no older build can have made smaller or larger.
IsShape(shape) ==
  /\ shape \in LadderShapes /\ EveryOnce(shape.columnOrder)
  /\ shape.priceMultiplier \in LadderMultipliers
  /\ \A c \in ColumnsShown : shape.columnWidths[c] \in 48 .. 260

\* What is read was stored whole, or by an older build.
SettingsInv ==
  /\ DOMAIN mounted = {Ladder, SingleChart} /\ DOMAIN deskWindows = {Ladder, SingleChart}
  /\ mounted = [id \in {Ladder, SingleChart} |-> mounted[id]]
  /\ deskWindows = [id \in {Ladder, SingleChart} |-> deskWindows[id]]
  /\ IsShape(ladderDefault)
  /\ mounted[Ladder] # None => IsShape(mounted[Ladder]) /\ deskWindows[Ladder] = mounted[Ladder]
  /\ deskWindows[Ladder] # None => IsShape(deskWindows[Ladder])
  /\ stored[Ladder] # None => IsShape(stored[Ladder]) \/ stored[Ladder] \in OldSettings

\* A record of settings is made of its three fields.
LEMMA ShapeIs ==
  ASSUME NEW order \in Seq(ColumnsShown), NEW m \in Int, NEW widths \in [ColumnsShown -> Int]
  PROVE  /\ [columnOrder |-> order, priceMultiplier |-> m, columnWidths |-> widths] \in LadderShapes
         /\ [columnOrder |-> order, priceMultiplier |-> m, columnWidths |-> widths].columnOrder = order
         /\ [columnOrder |-> order, priceMultiplier |-> m, columnWidths |-> widths].priceMultiplier = m
         /\ [columnOrder |-> order, priceMultiplier |-> m, columnWidths |-> widths].columnWidths = widths
BY ColumnsAre DEF LadderShapes

\* Settings are their three fields.
LEMMA ShapeHas ==
  ASSUME NEW shape, IsShape(shape)
  PROVE  /\ shape = [columnOrder |-> shape.columnOrder, priceMultiplier |-> shape.priceMultiplier,
                     columnWidths |-> shape.columnWidths]
         /\ shape.columnOrder \in Seq(ColumnsShown) /\ shape.priceMultiplier \in Int
         /\ shape.columnWidths \in [ColumnsShown -> Int]
BY ColumnsAre DEF LadderShapes, IsShape

\* The default of the code, and the limits of a width.
LEMMA DefaultIsRaw ==
  /\ LadderDefault.columnOrder \in Seq(Range(LadderDefault.columnOrder)) /\ LadderDefault.columnWidths \in [ColumnsShown -> Int \cup {None}]
  /\ \A c \in ColumnsShown : LadderDefault.columnWidths[c] \in 48 .. 260
<1>1. PICK w : w = LadderDefault.columnWidths
  OBVIOUS
<1>2. w = [orders |-> 72, bid |-> 112, price |-> 96, ask |-> 112]
  BY <1>1 DEF LadderDefault
<1>3. DOMAIN w = ColumnsShown
  BY <1>2 DEF ColumnsShown
<1>4. \A c \in ColumnsShown : w[c] \in 48 .. 260
  BY <1>2 DEF ColumnsShown
<1>5. w = [c \in ColumnsShown |-> w[c]]
  BY <1>2, <1>3
<1>6. w \in [ColumnsShown -> Int \cup {None}]
  BY <1>4, <1>5
<1>7. Columns \in Seq(Range(Columns))
  BY ColumnsAre, Zenon
<1>8. LadderDefault.columnOrder = Columns
  BY DEF LadderDefault
<1> QED BY <1>1, <1>4, <1>6, <1>7, <1>8
\* Widths are numbers.
LEMMA WidthsAreInts == 48 .. 260 \subseteq Int
OBVIOUS
\* What is clamped lies between the limits.
LEMMA Clamped ==
  ASSUME NEW x \in Int
  PROVE  /\ ClampLow(x, 48, 260) \in 48 .. 260
         /\ x \in 48 .. 260 => ClampLow(x, 48, 260) = x
BY DEF ClampLow, Greater, Lesser

\* Whatever was stored comes out whole, and what is whole comes out as it was.
LEMMA NormalIsShape ==
  ASSUME NEW raw, raw.columnOrder \in Seq(Range(raw.columnOrder)), raw.columnWidths \in [ColumnsShown -> Int \cup {None}]
  PROVE  IsShape(Normal(raw))
<1>1. PICK m : m = MultiplierOf(raw.priceMultiplier) /\ m \in LadderMultipliers /\ m \in Int
  BY DEF MultiplierOf, LadderMultipliers
<1>2. PICK widths \in [ColumnsShown -> Int] :
        /\ widths = [c \in Range(Columns) |->
             IF raw.columnWidths[c] = None THEN LadderDefault.columnWidths[c]
             ELSE ClampLow(raw.columnWidths[c], 48, 260)]
        /\ \A c \in ColumnsShown : widths[c] \in 48 .. 260
  <2> DEFINE width(c) == IF raw.columnWidths[c] = None THEN LadderDefault.columnWidths[c]
                         ELSE ClampLow(raw.columnWidths[c], 48, 260)
  <2>1. ASSUME NEW c \in ColumnsShown PROVE width(c) \in 48 .. 260
    <3>1. LadderDefault.columnWidths[c] \in 48 .. 260
      BY DefaultIsRaw, Zenon
    <3>2. raw.columnWidths[c] = None \/ raw.columnWidths[c] \in Int
      OBVIOUS
    <3>3. CASE raw.columnWidths[c] = None
      BY <3>1, <3>3, Zenon
    <3>4. CASE raw.columnWidths[c] \in Int /\ raw.columnWidths[c] # None
      BY <3>4, Clamped, Zenon
    <3> QED BY <3>2, <3>3, <3>4, Zenon
  <2> HIDE DEF width
  <2>2. [c \in ColumnsShown |-> width(c)] \in [ColumnsShown -> Int]
        /\ \A c \in ColumnsShown : [d \in ColumnsShown |-> width(d)][c] \in 48 .. 260
    <3>2. \A c \in ColumnsShown : width(c) \in Int
      BY <2>1, WidthsAreInts, Zenon
    <3> QED BY <2>1, <3>2
  <2>3. PICK widths \in [ColumnsShown -> Int] : widths = [c \in ColumnsShown |-> width(c)]
                                               /\ \A c \in ColumnsShown : widths[c] \in 48 .. 260
    BY <2>2
  <2> QED BY <2>3, ColumnsAre DEF width
<1> DEFINE gone == Range(raw.columnOrder) \ Range(Columns)
<1>3. PICK known \in Seq(ColumnsShown) : known = Without(raw.columnOrder, gone)
  <2>1. PICK w \in Seq(Range(raw.columnOrder)) : w = Without(raw.columnOrder, gone)
    <3> HIDE DEF gone
    <3> QED BY WithoutIs
  <2>2. Lists(raw.columnOrder, w) /\ \A i \in DOMAIN w : w[i] \notin gone
    <3> HIDE DEF gone
    <3> QED BY <2>1, WithoutIs
  <2>3. \A i \in DOMAIN w : w[i] \in ColumnsShown
    <3>1. \A i \in DOMAIN w : w[i] \in Range(raw.columnOrder)
      BY <2>2 DEF Lists, Range
    <3> QED BY <2>2, <3>1, ColumnsAre
  <2>4. DOMAIN w = 1 .. Len(w) /\ Len(w) \in Nat
    OBVIOUS
  <2>5. w \in Seq(ColumnsShown)
    BY <2>3, <2>4
  <2> QED BY <2>1, <2>5
<1> HIDE DEF gone
<1>4. PICK list \in Seq(ColumnsShown) : Together(list, known, Columns)
  BY ColumnsAre, JoinedLists, Zenon
<1>5. PICK f : f = Firsts(list)
  OBVIOUS
<1>6. /\ f \in Seq(ColumnsShown) /\ Range(f) = Range(list)
      /\ \A i, j \in DOMAIN f : f[i] = f[j] => i = j
  BY <1>5, FirstsAre
<1>7. ColumnsShown \subseteq Range(list)
  <2> SUFFICES ASSUME NEW c \in ColumnsShown PROVE c \in Range(list)
    OBVIOUS
  <2>1. PICK j \in 1 .. 4 : Columns[j] = c
    <3>1. DOMAIN Columns = 1 .. 4
      BY ColumnsAre
    <3> QED BY <3>1, ColumnsAre DEF Range
  <2>2. Len(known) \in Nat /\ Len(Columns) = 4
    BY ColumnsAre
  <2>3. list[Len(known) + j] = c /\ Len(known) + j \in DOMAIN list
    BY <1>4, <2>1, <2>2 DEF Together
  <2> QED BY <2>3 DEF Range
<1>8. EveryOnce(f)
  BY <1>6, <1>7, ColumnsOnce
<1>9. f = Firsts(known \o Columns)
  BY <1>4, <1>5 DEF Together
<1>10. Normal(raw) = [columnOrder |-> f, priceMultiplier |-> m, columnWidths |-> widths]
  BY <1>1, <1>2, <1>3, <1>9 DEF Normal, gone
<1> QED BY <1>1, <1>2, <1>6, <1>8, <1>10, ShapeIs DEF IsShape

\* What is whole is not changed by being read again.
LEMMA NormalKeeps ==
  ASSUME NEW shape, IsShape(shape)
  PROVE  Normal(shape) = shape
<1>1. PICK order \in Seq(ColumnsShown), m \in LadderMultipliers, widths \in [ColumnsShown -> Int] :
        /\ order = shape.columnOrder /\ m = shape.priceMultiplier /\ widths = shape.columnWidths
        /\ EveryOnce(order) /\ \A c \in ColumnsShown : widths[c] \in 48 .. 260
  BY ShapeHas DEF IsShape
<1>2. Without(order, Range(order) \ Range(Columns)) = order
  <2>1. Range(order) \ Range(Columns) = {}
    BY <1>1, ColumnsAre DEF EveryOnce
  <2> QED BY <2>1, WithoutNothing
<1>3. Firsts(order \o Columns) = order
  BY <1>1, NothingNew
<1>4. [c \in Range(Columns) |-> IF widths[c] = None THEN LadderDefault.columnWidths[c]
                                ELSE ClampLow(widths[c], 48, 260)] = widths
  <2>1. ASSUME NEW c \in ColumnsShown PROVE widths[c] # None /\ ClampLow(widths[c], 48, 260) = widths[c]
    <3>1. widths[c] \in Int /\ widths[c] \in 48 .. 260
      BY <1>1
    <3>2. ClampLow(widths[c], 48, 260) = widths[c]
      BY <3>1, Clamped, Zenon
    <3>3. None \notin Int
      BY SettingsAssumption, Zenon
    <3> QED BY <3>1, <3>2, <3>3
  <2>2. [c \in ColumnsShown |-> IF widths[c] = None THEN LadderDefault.columnWidths[c]
                                ELSE ClampLow(widths[c], 48, 260)] = [c \in ColumnsShown |-> widths[c]]
    BY <2>1
  <2> QED BY <2>2, ColumnsAre
<1>5. MultiplierOf(m) = m
  BY <1>1 DEF MultiplierOf
<1>6. Normal(shape) = [columnOrder |-> order, priceMultiplier |-> m, columnWidths |-> widths]
  BY <1>1, <1>2, <1>3, <1>4, <1>5 DEF Normal
<1> QED BY <1>1, <1>6, ShapeHas


\* A gesture in a ladder whose settings are whole leaves them whole, and the workspace is
\* told of them as they are.
LEMMA ChangedKeeps ==
  ASSUME SettingsInv, NEW id \in {Ladder, SingleChart}, NEW shape, Changed(id, shape),
         id = Ladder => IsShape(shape)
  PROVE  SettingsInv'
<1>1. /\ mounted' = [mounted EXCEPT ![id] = shape]
      /\ deskWindows' = [deskWindows EXCEPT ![id] = Reported(id, shape)]
      /\ UNCHANGED <<ladderDefault, stored>>
  BY DEF Changed
<1>2. Ladder # SingleChart
  BY SettingsAssumption
<1>3. id = Ladder => Reported(id, shape) = shape
  BY NormalKeeps DEF Reported
<1> QED BY <1>1, <1>2, <1>3 DEF SettingsInv

\* A resize keeps both columns within the limits of the ladder.
LEMMA LimitsAre ==
  /\ ColumnLimits["orders"] = <<48, 150>> /\ ColumnLimits["bid"] = <<64, 260>>
  /\ ColumnLimits["price"] = <<68, 180>> /\ ColumnLimits["ask"] = <<64, 260>>
  /\ \A c \in ColumnsShown : /\ ColumnLimits[c][1] \in 48 .. 260 /\ ColumnLimits[c][2] \in 48 .. 260
                             /\ ColumnLimits[c][1] <= ColumnLimits[c][2]
<1>1. /\ ColumnLimits["orders"] = <<48, 150>> /\ ColumnLimits["bid"] = <<64, 260>>
      /\ ColumnLimits["price"] = <<68, 180>> /\ ColumnLimits["ask"] = <<64, 260>>
  BY DEF ColumnLimits
<1> QED BY <1>1 DEF ColumnsShown

\* What is clamped by a column's limits lies within them.
LEMMA ClampedWithin ==
  ASSUME NEW x \in Int, NEW low \in Int, NEW high \in Int, NEW top \in Int, low <= top
  PROVE  /\ ClampLow(x, low, Lesser(top, high)) \in low .. top
         /\ ClampLow(x, low, top) \in low .. top
BY DEF ClampLow, Greater, Lesser

\* No limits of a column are wider than those of a width that is read.
LEMMA WithinTheWidest ==
  ASSUME NEW low, NEW high, low \in 48 .. 260, high \in 48 .. 260, NEW x, x \in low .. high
  PROVE  x >= low /\ x <= high /\ x \in 48 .. 260
OBVIOUS

\* After a resize a column has the width it had or one within its limits.
LEMMA ResizedIs ==
  ASSUME NEW shape, IsShape(shape), NEW column \in ColumnsShown, NEW by \in Int
  PROVE  /\ IsShape(ResizedColumn(shape, column, by))
         /\ \A c \in ColumnsShown : LET w == ResizedColumn(shape, column, by).columnWidths[c] IN
              w = shape.columnWidths[c] \/ (w >= ColumnLimits[c][1] /\ w <= ColumnLimits[c][2])
<1>1. PICK order \in Seq(ColumnsShown), m \in LadderMultipliers, widths \in [ColumnsShown -> Int] :
        /\ order = shape.columnOrder /\ m = shape.priceMultiplier /\ widths = shape.columnWidths
        /\ EveryOnce(order) /\ \A c \in ColumnsShown : widths[c] \in 48 .. 260
  BY ShapeHas DEF IsShape
<1> DEFINE place == CHOOSE i \in DOMAIN order : order[i] = column
           last == place = Len(order)
           partner == IF last THEN order[place - 1] ELSE order[place + 1]
           total == widths[column] + widths[partner]
           own == ClampLow(widths[column] + IF last THEN -by ELSE by, ColumnLimits[column][1],
                           Lesser(ColumnLimits[column][2], total - ColumnLimits[partner][1]))
           other == ClampLow(total - own, ColumnLimits[partner][1], ColumnLimits[partner][2])
<1>2. place \in 1 .. 4 /\ Len(order) = 4 /\ DOMAIN order = 1 .. 4
  <2>1. Len(order) = 4 /\ DOMAIN order = 1 .. 4
    BY <1>1 DEF EveryOnce
  <2>2. \E i \in DOMAIN order : order[i] = column
    BY <1>1 DEF EveryOnce, Range
  <2> QED BY <2>1, <2>2
<1>20. \A i \in 1 .. 4 : order[i] \in ColumnsShown
  <2>1. \A i \in DOMAIN order : order[i] \in ColumnsShown
    OBVIOUS
  <2> QED BY <1>2, <2>1, Zenon
<1>3. partner \in ColumnsShown
  <2> HIDE DEF place
  <2>1. place = 4 => place - 1 \in 1 .. 4
    OBVIOUS
  <2>2. place # 4 => place + 1 \in 1 .. 4
    BY <1>2
  <2> QED BY <1>2, <1>20, <2>1, <2>2
<1> HIDE DEF partner, place, last
<1>4. total \in Int /\ widths[column] + (IF last THEN -by ELSE by) \in Int
  BY <1>1, <1>3
<1>5. /\ ColumnLimits[column][1] \in Int /\ ColumnLimits[column][2] \in Int
      /\ ColumnLimits[partner][1] \in Int /\ ColumnLimits[partner][2] \in Int
      /\ ColumnLimits[column][1] <= ColumnLimits[column][2]
      /\ ColumnLimits[partner][1] <= ColumnLimits[partner][2]
  <2>1. \A c \in ColumnsShown : /\ ColumnLimits[c][1] \in Int /\ ColumnLimits[c][2] \in Int
                                /\ ColumnLimits[c][1] <= ColumnLimits[c][2]
    <3>1. \A x : x \in 48 .. 260 => x \in Int
      BY WidthsAreInts, Zenon
    <3>2. \A c \in ColumnsShown : /\ ColumnLimits[c][1] \in 48 .. 260 /\ ColumnLimits[c][2] \in 48 .. 260
                                  /\ ColumnLimits[c][1] <= ColumnLimits[c][2]
      BY LimitsAre
    <3> QED BY <3>1, <3>2, Zenon
  <2> QED BY <1>3, <2>1, Zenon
<1> HIDE DEF total
<1>6. own \in ColumnLimits[column][1] .. ColumnLimits[column][2]
  <2>1. total - ColumnLimits[partner][1] \in Int
    BY <1>4, <1>5
  <2> QED BY <1>4, <1>5, <2>1, ClampedWithin
<1>7. own \in Int
  BY <1>5, <1>6
<1> HIDE DEF own
<1>8. other \in ColumnLimits[partner][1] .. ColumnLimits[partner][2]
  <2>1. total - own \in Int
    BY <1>4, <1>7
  <2> QED BY <1>5, <2>1, ClampedWithin
<1>9. other \in Int
  BY <1>5, <1>8
<1> HIDE DEF other
<1>10. PICK w : w = [widths EXCEPT ![column] = own, ![partner] = other]
  OBVIOUS
<1>11. w \in [ColumnsShown -> Int] /\ \A c \in ColumnsShown :
         w[c] = IF c = partner THEN other ELSE IF c = column THEN own ELSE widths[c]
  BY <1>1, <1>3, <1>7, <1>9, <1>10
<1>12. ResizedColumn(shape, column, by) = [shape EXCEPT !.columnWidths = w]
  BY <1>1, <1>10 DEF ResizedColumn, own, other, partner, total, place, last
<1>13. [shape EXCEPT !.columnWidths = w] = [columnOrder |-> order, priceMultiplier |-> m, columnWidths |-> w]
  BY <1>1, ShapeHas
<1>14. ASSUME NEW c \in ColumnsShown
       PROVE  /\ w[c] = widths[c] \/ (w[c] >= ColumnLimits[c][1] /\ w[c] <= ColumnLimits[c][2])
              /\ w[c] \in 48 .. 260
  <2>1. w[c] = widths[c] \/ w[c] \in ColumnLimits[c][1] .. ColumnLimits[c][2]
    BY <1>6, <1>8, <1>11
  <2>2. /\ ColumnLimits[c][1] \in 48 .. 260 /\ ColumnLimits[c][2] \in 48 .. 260 /\ widths[c] \in 48 .. 260
    BY <1>1, LimitsAre, Zenon
  <2>3. CASE w[c] = widths[c]
    BY <2>2, <2>3, Zenon
  <2>4. CASE w[c] \in ColumnLimits[c][1] .. ColumnLimits[c][2]
    BY <2>2, <2>4, WithinTheWidest, Zenon
  <2> QED BY <2>1, <2>3, <2>4, Zenon
<1>15. m \in Int
  BY <1>1 DEF LadderMultipliers
<1> QED BY <1>1, <1>11, <1>12, <1>13, <1>14, <1>15, ShapeIs DEF IsShape

\* No column that was within the limits leaves them while its ladder stays open.
WithinLimits(width, c) == width >= ColumnLimits[c][1] /\ width <= ColumnLimits[c][2]
LimitsHold ==
  mounted[Ladder] # None /\ mounted'[Ladder] # None =>
    \A c \in Range(Columns) : WithinLimits(mounted[Ladder].columnWidths[c], c)
                               => WithinLimits(mounted'[Ladder].columnWidths[c], c)

\* What every step of the settings keeps.
LEMMA SettingsStep ==
  ASSUME SettingsInv, [SettingsNext]_settingsVars
  PROVE  SettingsInv' /\ LimitsHold
<1>1. Ladder # SingleChart
  BY SettingsAssumption
<1>2. ASSUME NEW d \in Drags, MoveColumn(d[1], d[2]) PROVE SettingsInv' /\ LimitsHold
  <2>1. d[1] \in ColumnsShown /\ d[2] \in ColumnsShown
    BY SettingsAssumption, ColumnsAre
  <2>2. PICK shape : shape = mounted[Ladder]
    OBVIOUS
  <2>3. IsShape(shape) /\ shape # None
    BY <1>2, <2>2 DEF MoveColumn, SettingsInv
  <2>4. PICK order : order = MovedColumn(shape.columnOrder, d[1], d[2])
    OBVIOUS
  <2>5. EveryOnce(order)
    BY <2>1, <2>3, <2>4, MovedKeeps DEF IsShape
  <2>6. PICK moved2 : moved2 = [shape EXCEPT !.columnOrder = order]
    OBVIOUS
  <2>7. moved2 = [columnOrder |-> order, priceMultiplier |-> shape.priceMultiplier, columnWidths |-> shape.columnWidths]
    BY <2>3, <2>6, ShapeHas
  <2>8. IsShape(moved2) /\ moved2.columnWidths = shape.columnWidths
    BY <2>3, <2>5, <2>7, ShapeHas, ShapeIs DEF IsShape, EveryOnce
  <2>9. Changed(Ladder, moved2)
    BY <1>2, <2>2, <2>4, <2>6 DEF MoveColumn
  <2>10. SettingsInv'
    BY <2>8, <2>9, ChangedKeeps
  <2>11. mounted'[Ladder] = moved2
    BY <2>9 DEF Changed, SettingsInv
  <2> QED BY <2>2, <2>8, <2>10, <2>11 DEF LimitsHold
<1>3. ASSUME NEW p \in Pulls, ResizeColumn(p[1], p[2]) PROVE SettingsInv' /\ LimitsHold
  <2>1. p[1] \in ColumnsShown /\ p[2] \in Int
    BY SettingsAssumption, ColumnsAre
  <2>2. PICK shape : shape = mounted[Ladder]
    OBVIOUS
  <2>3. IsShape(shape) /\ shape # None
    BY <1>3, <2>2 DEF ResizeColumn, SettingsInv
  <2>4. PICK resized : resized = ResizedColumn(shape, p[1], p[2])
    OBVIOUS
  <2>5. IsShape(resized) /\ \A c \in ColumnsShown :
          resized.columnWidths[c] = shape.columnWidths[c] \/ WithinLimits(resized.columnWidths[c], c)
    BY <2>1, <2>3, <2>4, ResizedIs DEF WithinLimits
  <2>6. Changed(Ladder, resized)
    BY <1>3, <2>2, <2>4 DEF ResizeColumn
  <2>7. SettingsInv'
    BY <2>5, <2>6, ChangedKeeps
  <2>8. mounted'[Ladder] = resized
    BY <2>6 DEF Changed, SettingsInv
  <2> QED BY <2>2, <2>5, <2>7, <2>8, ColumnsAre DEF LimitsHold
<1>4. ASSUME NEW m \in Multiples, PickMultiplier(m) PROVE SettingsInv' /\ LimitsHold
  <2>1. m \in LadderMultipliers /\ m \in Int
    BY SettingsAssumption DEF LadderMultipliers
  <2>2. PICK shape : shape = mounted[Ladder]
    OBVIOUS
  <2>3. IsShape(shape) /\ shape # None
    BY <1>4, <2>2 DEF PickMultiplier, SettingsInv
  <2>6. PICK picked : picked = [shape EXCEPT !.priceMultiplier = m]
    OBVIOUS
  <2>7. picked = [columnOrder |-> shape.columnOrder, priceMultiplier |-> m, columnWidths |-> shape.columnWidths]
    BY <2>3, <2>6, ShapeHas
  <2>8. IsShape(picked) /\ picked.columnWidths = shape.columnWidths
    BY <2>1, <2>3, <2>7, ShapeHas, ShapeIs DEF IsShape, EveryOnce
  <2>9. Changed(Ladder, picked)
    BY <1>4, <2>2, <2>6 DEF PickMultiplier
  <2>10. SettingsInv'
    BY <2>8, <2>9, ChangedKeeps
  <2>11. mounted'[Ladder] = picked
    BY <2>9 DEF Changed, SettingsInv
  <2> QED BY <2>2, <2>8, <2>10, <2>11 DEF LimitsHold
<1>5. ASSUME NEW shape, Changed(SingleChart, shape) PROVE SettingsInv' /\ LimitsHold
  <2>1. SettingsInv'
    BY <1>1, <1>5, ChangedKeeps
  <2>2. mounted'[Ladder] = mounted[Ladder]
    BY <1>1, <1>5 DEF Changed, SettingsInv
  <2> QED BY <2>1, <2>2 DEF LimitsHold
<1>6. ASSUME SaveLadderDefault PROVE SettingsInv' /\ LimitsHold
  <2>1. Normal(mounted[Ladder]) = mounted[Ladder] /\ IsShape(mounted[Ladder])
    BY <1>6, NormalKeeps DEF SaveLadderDefault, SettingsInv
  <2> QED BY <1>1, <1>6, <2>1 DEF SaveLadderDefault, SettingsInv, LimitsHold
<1>7. ASSUME NEW id \in {Ladder, SingleChart}, OpenSettings(id) PROVE SettingsInv' /\ LimitsHold
  <2>1. PICK shape : shape = Mount(id, None)
    OBVIOUS
  <2>2. id = Ladder => IsShape(shape) /\ Reported(id, shape) = shape
    <3>1. IsShape(ladderDefault) /\ Normal(ladderDefault) = ladderDefault
      BY NormalKeeps DEF SettingsInv
    <3> QED BY <2>1, <3>1 DEF Mount, MountLadder, Reported
  <2>3. /\ mounted[id] = None /\ mounted' = [mounted EXCEPT ![id] = shape]
        /\ deskWindows' = [deskWindows EXCEPT ![id] = Reported(id, shape)]
        /\ UNCHANGED <<ladderDefault, stored>>
    BY <1>7, <2>1 DEF OpenSettings, OpenWith
  <2>4. SettingsInv'
    BY <1>1, <2>2, <2>3 DEF SettingsInv
  <2>5. mounted[Ladder] # None => mounted'[Ladder] = mounted[Ladder]
    BY <1>1, <2>3 DEF SettingsInv
  <2> QED BY <2>4, <2>5 DEF LimitsHold
<1>8. ASSUME NEW id \in {Ladder, SingleChart}, CloseSettings(id) PROVE SettingsInv' /\ LimitsHold
  <2>3. /\ mounted' = [mounted EXCEPT ![id] = None] /\ deskWindows' = [deskWindows EXCEPT ![id] = None]
        /\ UNCHANGED <<ladderDefault, stored>>
    BY <1>8 DEF CloseSettings
  <2>4. SettingsInv'
    BY <1>1, <2>3 DEF SettingsInv
  <2>5. mounted'[Ladder] # None => mounted'[Ladder] = mounted[Ladder]
    BY <1>1, <2>3 DEF SettingsInv
  <2> QED BY <2>4, <2>5 DEF LimitsHold
<1>9. ASSUME SaveDesk PROVE SettingsInv' /\ LimitsHold
  BY <1>9 DEF SaveDesk, SettingsInv, LimitsHold
<1>10. ASSUME LoadDesk PROVE SettingsInv' /\ LimitsHold
  <2>1. PICK shape : shape = LoadedShape(Ladder, stored[Ladder])
    OBVIOUS
  <2>2. shape # None => IsShape(shape) /\ Reported(Ladder, shape) = shape
    <3>1. CASE mounted[Ladder] # None
      <4>1. stored[Ladder] = None \/ shape = mounted[Ladder]
        BY <2>1, <3>1 DEF LoadedShape
      <4>2. IsShape(mounted[Ladder])
        BY <3>1 DEF SettingsInv
      <4> QED BY <2>1, <4>1, <4>2, NormalKeeps DEF LoadedShape, Reported
    <3>2. CASE mounted[Ladder] = None /\ stored[Ladder] # None
      <4>1. shape = Normal(stored[Ladder])
        BY <2>1, <3>2 DEF LoadedShape, Mount, MountLadder
      <4>2. IsShape(Normal(stored[Ladder]))
        <5>1. CASE IsShape(stored[Ladder])
          BY <5>1, NormalKeeps
        <5>2. CASE stored[Ladder] \in OldSettings
          <6>1. PICK raw \in OldSettings : raw = stored[Ladder]
            BY <5>2
          <6>2. raw.columnOrder \in Seq(Range(raw.columnOrder)) /\ raw.columnWidths \in [ColumnsShown -> Int \cup {None}]
            BY SettingsAssumption, ColumnsAre
          <6> QED BY <6>1, <6>2, NormalIsShape
        <5> QED BY <3>2, <5>1, <5>2 DEF SettingsInv
      <4> QED BY <4>1, <4>2, NormalKeeps DEF Reported
    <3>3. CASE stored[Ladder] = None
      BY <2>1, <3>3 DEF LoadedShape
    <3> QED BY <3>1, <3>2, <3>3
  <2>3. /\ mounted' = [id \in {Ladder, SingleChart} |-> LoadedShape(id, stored[id])]
        /\ deskWindows' = [id \in {Ladder, SingleChart} |->
             IF mounted'[id] = None THEN None
             ELSE IF id = SingleChart /\ mounted[id] # None THEN stored[id]
             ELSE Reported(id, mounted'[id])]
        /\ UNCHANGED <<ladderDefault, stored, changes>>
    BY <1>10 DEF LoadDesk, SettingsInv
  <2>4. mounted'[Ladder] = shape
    BY <2>1, <2>3
  <2>5. deskWindows'[Ladder] = IF shape = None THEN None ELSE Reported(Ladder, shape)
    BY <1>1, <2>3, <2>4
  <2>6. DOMAIN mounted' = {Ladder, SingleChart} /\ DOMAIN deskWindows' = {Ladder, SingleChart}
        /\ mounted' = [id \in {Ladder, SingleChart} |-> mounted'[id]]
        /\ deskWindows' = [id \in {Ladder, SingleChart} |-> deskWindows'[id]]
    BY <2>3
  <2>7. SettingsInv'
    BY <2>2, <2>3, <2>4, <2>5, <2>6 DEF SettingsInv
  <2>8. mounted[Ladder] # None /\ shape # None => shape = mounted[Ladder]
    BY <2>1 DEF LoadedShape
  <2> QED BY <2>4, <2>7, <2>8 DEF LimitsHold
<1>11. CASE UNCHANGED settingsVars
  BY <1>11 DEF settingsVars, SettingsInv, LimitsHold
<1>12. ASSUME \/ \E p \in {"clean", "grid", "calendar", "outline"} : ApplyPreset(p)
              \/ AddStudy \/ RemoveStudy \/ ClearStudies
       PROVE  \E shape : Changed(SingleChart, shape)
  BY <1>12 DEF ApplyPreset, AddStudy, RemoveStudy, ClearStudies
<1> QED BY <1>2, <1>3, <1>4, <1>5, <1>6, <1>7, <1>8, <1>9, <1>10, <1>11, <1>12 DEF SettingsNext

\* The settings start whole.
LEMMA SettingsStart ==
  ASSUME SettingsInit
  PROVE  SettingsInv
<1>1. Ladder # SingleChart
  BY SettingsAssumption
<1>2. PICK raw \in OldSettings \cup {LadderDefault} : ladderDefault = Normal(raw)
  BY DEF SettingsInit
<1>3. IsShape(ladderDefault)
  <2>1. raw.columnOrder \in Seq(Range(raw.columnOrder)) /\ raw.columnWidths \in [ColumnsShown -> Int \cup {None}]
    BY SettingsAssumption, ColumnsAre, DefaultIsRaw
  <2> QED BY <1>2, <2>1, NormalIsShape
<1>4. stored[Ladder] # None => stored[Ladder] \in OldSettings
  BY <1>1 DEF SettingsInit
<1> QED BY <1>1, <1>3, <1>4 DEF SettingsInit, SettingsInv

(***************************************************************************)
(* The account, and the settings page.                                     *)
(***************************************************************************)
AccountInv == exchange = [orders |-> exchange.orders, positions |-> exchange.positions]

\* The exchange has orders and positions.
LEMMA AccountStep ==
  ASSUME AccountInv, [AccountNext]_accountVars
  PROVE  AccountInv' /\ (CancelAllDone => exchange'.orders = {})
<1>1. CASE ExchangeMoves \/ (\E r \in AccountOrders : CancelOrder(r)) \/ CancelAllDone
  <2>1. \E some : \/ exchange' = [exchange EXCEPT !.orders = some]
                  \/ exchange' = [exchange EXCEPT !.positions = some]
    BY <1>1 DEF ExchangeMoves, CancelOrder, CancelAllDone
  <2>2. CancelAllDone => exchange' = [exchange EXCEPT !.orders = {}]
    BY DEF CancelAllDone, Cleared
  <2> QED BY <2>1, <2>2 DEF AccountInv
<1>2. CASE UNCHANGED exchange /\ ~CancelAllDone
  BY <1>2 DEF AccountInv
<1>3. Pull \/ CancelAll \/ SetQuery \/ UNCHANGED accountVars => UNCHANGED exchange
  BY DEF Pull, CancelAll, SetQuery, accountVars
<1> QED BY <1>1, <1>2, <1>3 DEF AccountNext

\* A form that is open has every field.
PreferencesInv ==
  /\ DOMAIN forms = SettingsTabs
  /\ forms = [tab \in SettingsTabs |-> forms[tab]]
  /\ DOMAIN themes = SettingsTabs
  /\ themes = [tab \in SettingsTabs |-> themes[tab]]
  /\ \A tab \in SettingsTabs : forms[tab] # None => /\ DOMAIN forms[tab] = Fields
                                                    /\ forms[tab] = [f \in Fields |-> forms[tab][f]]
  /\ keptSettings # None => \/ DOMAIN keptSettings = Fields
                            \/ settingChanges = 0 /\ keptSettings \in OldPreferences
  /\ settingChanges \in Nat

\* The fields of the page.
LEMMA FieldsAre == Fields = {"theme", "mode", "limit", "detail"}
BY DEF Fields, Defaults

\* What is loaded has every field.
LEMMA LoadedIsWhole ==
  ASSUME PreferencesInv
  PROVE  DOMAIN LoadedSettings = Fields /\ LoadedSettings = [f \in Fields |-> LoadedSettings[f]]
<1>1. CASE keptSettings = None
  BY <1>1, FieldsAre DEF LoadedSettings, Defaults
<1>2. CASE keptSettings # None
  <2>1. DOMAIN keptSettings \subseteq Fields
    BY <1>2, PreferencesAssumption DEF PreferencesInv
  <2>2. LoadedSettings = [x \in (DOMAIN keptSettings) \cup Fields |->
                            IF x \in DOMAIN keptSettings THEN keptSettings[x] ELSE Defaults[x]]
    BY <1>2 DEF LoadedSettings
  <2>3. (DOMAIN keptSettings) \cup Fields = Fields
    BY <2>1
  <2> QED BY <2>2, <2>3
<1> QED BY <1>1, <1>2

\* A change of the page stores it whole.
LEMMA StoredKeeps ==
  ASSUME PreferencesInv, NEW tab \in SettingsTabs, NEW form, DOMAIN form = Fields,
         form = [f \in Fields |-> form[f]], Stored(tab, form), DOMAIN themes' = SettingsTabs,
         themes' = [t \in SettingsTabs |-> themes'[t]]
  PROVE  PreferencesInv'
<1>1. /\ keptSettings' = form /\ forms' = [forms EXCEPT ![tab] = form] /\ settingChanges' = settingChanges + 1
  BY DEF Stored
<1> QED BY <1>1 DEF PreferencesInv

\* A tab that loads has no page open.
LEMMA ReloadedKeeps ==
  ASSUME PreferencesInv, NEW tab \in SettingsTabs, NEW theme, Reloaded(tab, theme)
  PROVE  /\ DOMAIN forms' = SettingsTabs /\ forms' = [t \in SettingsTabs |-> forms'[t]]
         /\ DOMAIN themes' = SettingsTabs /\ themes' = [t \in SettingsTabs |-> themes'[t]]
         /\ \A t \in SettingsTabs : forms'[t] # None => forms'[t] = forms[t]
BY DEF PreferencesInv, Reloaded

ThemesFollow == \A tab \in SettingsTabs :
    forms[tab] # None /\ forms'[tab] # None /\ forms[tab].theme # forms'[tab].theme
        => themes'[tab] = forms'[tab].theme

\* A field of the page is set; only the theme's reaches the document.
LEMMA SetFieldKeeps ==
  ASSUME PreferencesInv, NEW tab \in SettingsTabs, NEW field, NEW value, SetField(tab, field, value),
         \/ field = "theme" /\ themes' = [themes EXCEPT ![tab] = value]
         \/ field # "theme" /\ UNCHANGED themes
  PROVE  PreferencesInv' /\ ThemesFollow
<1> DEFINE form == [forms[tab] EXCEPT ![field] = value]
<1>1. forms[tab] # None /\ Stored(tab, form)
  BY DEF SetField
<1>2. DOMAIN form = Fields /\ form = [f \in Fields |-> form[f]]
  BY <1>1 DEF PreferencesInv
<1>3. field = "theme" => form["theme"] = value
  BY <1>1, FieldsAre DEF PreferencesInv
<1>4. field # "theme" => form["theme"] = forms[tab]["theme"]
  BY <1>1 DEF PreferencesInv
<1>5. \A t \in SettingsTabs : forms'[t] = IF t = tab THEN form ELSE forms[t]
  BY <1>1 DEF Stored, PreferencesInv
<1>6. themes' = [t \in SettingsTabs |-> themes'[t]] /\ DOMAIN themes' = SettingsTabs
  BY DEF PreferencesInv
<1>7. field = "theme" => themes'[tab] = value
  BY DEF PreferencesInv
<1> HIDE DEF form
<1>8. PreferencesInv'
  BY <1>1, <1>2, <1>6, StoredKeeps
<1> QED BY <1>3, <1>4, <1>5, <1>7, <1>8 DEF ThemesFollow

\* Every step of the settings page.
LEMMA PreferencesStep ==
  ASSUME PreferencesInv, [PreferencesNext]_preferenceVars
  PROVE  PreferencesInv' /\ ThemesFollow
<1>1. ASSUME NEW tab \in SettingsTabs, OpenPage(tab) PROVE PreferencesInv' /\ ThemesFollow
  <2>1. forms[tab] = None /\ Stored(tab, LoadedSettings) /\ UNCHANGED themes
    BY <1>1 DEF OpenPage
  <2>2. DOMAIN themes' = SettingsTabs /\ themes' = [t \in SettingsTabs |-> themes'[t]]
    BY <2>1 DEF PreferencesInv
  <2>3. PreferencesInv'
    BY <2>1, <2>2, LoadedIsWhole, StoredKeeps
  <2>4. \A t \in SettingsTabs : t # tab => forms'[t] = forms[t]
    BY <2>1 DEF Stored, PreferencesInv
  <2> QED BY <2>1, <2>3, <2>4 DEF ThemesFollow
<1>2. ASSUME NEW tab \in SettingsTabs, ClosePage(tab) PROVE PreferencesInv' /\ ThemesFollow
  <2>1. /\ forms' = [forms EXCEPT ![tab] = None] /\ UNCHANGED <<keptSettings, themes, settingChanges>>
    BY <1>2 DEF ClosePage
  <2>2. \A t \in SettingsTabs : forms'[t] = IF t = tab THEN None ELSE forms[t]
    BY <2>1 DEF PreferencesInv
  <2> QED BY <2>1, <2>2 DEF PreferencesInv, ThemesFollow
<1>3. ASSUME NEW tab \in SettingsTabs, ResetAll(tab) \/ Reload(tab) PROVE PreferencesInv' /\ ThemesFollow
  <2>1. PICK theme : Reloaded(tab, theme)
    BY <1>3 DEF ResetAll, Reload
  <2>2. \/ keptSettings' = None /\ settingChanges' = settingChanges + 1
        \/ UNCHANGED <<keptSettings, settingChanges>>
    BY <1>3 DEF ResetAll, Reload
  <2>3. settingChanges' \in Nat
    BY <2>2 DEF PreferencesInv
  <2> QED BY <2>1, <2>2, <2>3, ReloadedKeeps DEF PreferencesInv, ThemesFollow
<1>4. ASSUME NEW tab \in SettingsTabs, NEW value,
             PickMode(tab, value) \/ TypeLimit(tab, value) \/ SetDetail(tab, value)
      PROVE  PreferencesInv' /\ ThemesFollow
  <2>1. PICK field \in {"mode", "limit", "detail"} : SetField(tab, field, value) /\ UNCHANGED themes
    BY <1>4 DEF PickMode, TypeLimit, SetDetail
  <2> QED BY <2>1, SetFieldKeeps
<1>5. ASSUME NEW tab \in SettingsTabs, NEW theme, PickTheme(tab, theme) PROVE PreferencesInv' /\ ThemesFollow
  BY <1>5, SetFieldKeeps DEF PickTheme
<1>6. CASE (\E n \in posts : PostArrives(n) \/ PostIsLost(n)) \/ UNCHANGED preferenceVars
  <2>1. UNCHANGED <<keptSettings, forms, themes, settingChanges>>
    BY <1>6 DEF PostArrives, PostIsLost, preferenceVars
  <2> QED BY <2>1 DEF PreferencesInv, ThemesFollow
<1> QED BY <1>1, <1>2, <1>3, <1>4, <1>5, <1>6 DEF PreferencesNext

\* The page is not open at first.
LEMMA PreferencesStart ==
  ASSUME PreferencesInit
  PROVE  PreferencesInv
BY DEF PreferencesInit, PreferencesInv

(***************************************************************************)
(* What enters an order at the exchange.                                   *)
(***************************************************************************)
EntriesAreClicked ==
  \A call \in ticketCalls' \ ticketCalls : (Enters(call) /\ call.state = None)
     => \/ sent' = sent + 1 /\ call.order.id = sent'
        \/ \E move \in ticketCalls : move.kind = "move" /\ move.ok /\ move.order = call.order

\* A click enters its own ticket.
LEMMA ClickEnters ==
  ASSUME LadderInv, NEW side \in LadderSides, NEW key \in PriceKeys, SubmitDepthOrder(side, key)
  PROVE  EntriesAreClicked
<1> DEFINE order == Apply([id |-> sent + 1, side |-> side, priceKey |-> key,
                           size |-> TicketSize, status |-> "pending"], sim \/ fastTrade)
<1>1. order.id = sent + 1 /\ sent' = sent + 1
  BY DEF Apply, SubmitDepthOrder
<1>2. ticketCalls' \subseteq ticketCalls \cup {Call("submit", order), Call("send", order)}
  BY DEF SubmitDepthOrder
<1> HIDE DEF order
<1>3. Call("submit", order).order = order /\ Call("send", order).order = order
  BY DEF Call
<1> QED BY <1>1, <1>2, <1>3 DEF EntriesAreClicked

\* A cancel enters nothing.
LEMMA CancelsEnterNothing ==
  ASSUME LadderInv, NEW some \in SUBSET shared, ticketCalls' = ticketCalls \cup Cancels(some)
  PROVE  EntriesAreClicked
<1>1. \A c \in Cancels(some) : ~Enters(c)
  BY CancelsAre DEF LadderInv, Enters
<1> QED BY <1>1 DEF EntriesAreClicked

\* An answer enters the ticket of a move that was taken.
LEMMA AnswerEnters ==
  ASSUME LadderInv, NEW call \in ticketCalls, CallAnswer(call)
  PROVE  EntriesAreClicked
<1> DEFINE next == [call EXCEPT !.kind = "submit", !.state = None, !.ok = FALSE]
<1>1. ticketCalls' = (ticketCalls \ {call}) \cup (IF GoesOn(call) THEN {next} ELSE {})
  BY DEF CallAnswer
<1>2. next.order = call.order
  <2>1. call \in LadderCalls
    BY CallIs DEF LadderInv
  <2> QED BY <2>1 DEF LadderCalls
<1> HIDE DEF next
<1>3. ASSUME NEW c \in ticketCalls' \ ticketCalls
      PROVE  c = next /\ call.kind = "move" /\ call.ok
  BY <1>1 DEF GoesOn
<1> QED BY <1>2, <1>3 DEF EntriesAreClicked

\* What leaves for the exchange was clicked, or is what a move goes on with.
LEMMA EntriesHaveClicks ==
  ASSUME LadderInv, [LadderNext]_ladderVars
  PROVE  EntriesAreClicked
<1>1. ASSUME NEW side \in LadderSides, NEW key \in PriceKeys,
             \/ SubmitPending(side, key) \/ CancelOrderGroup(side, key)
      PROVE  EntriesAreClicked
  <2>1. CASE SubmitPending(side, key)
    BY <2>1, SubmitPendingIs, CancelsEnterNothing
  <2>2. CASE CancelOrderGroup(side, key)
    <3>1. ticketCalls' = ticketCalls \cup Cancels(shared \cap {o \in LadderTickets : OnRow(o, side, key)})
      BY <2>2 DEF CancelOrderGroup, CancelWhere
    <3> QED BY <3>1, CancelsEnterNothing
  <2> QED BY <1>1, <2>1, <2>2
<1>2. ASSUME NEW sides, ClearSide(sides) PROVE EntriesAreClicked
  <2>1. ticketCalls' = ticketCalls \cup Cancels(shared \cap {o \in LadderTickets : o.side \in sides})
    BY <1>2 DEF ClearSide, CancelWhere
  <2> QED BY <2>1, CancelsEnterNothing
<1>3. CASE MoveOrder
  <2>1. PICK order : ticketCalls' \subseteq ticketCalls \cup {Call("move", order)}
    BY <1>3 DEF MoveOrder
  <2>2. ~Enters(Call("move", order))
    BY DEF Enters, Call
  <2> QED BY <2>1, <2>2 DEF EntriesAreClicked
<1>4. ASSUME NEW call \in ticketCalls, ServerTakes(call) PROVE EntriesAreClicked
  BY <1>4, ServerKeeps DEF EntriesAreClicked
<1>5. ASSUME \/ \E side \in LadderSides, key \in PriceKeys : StartOrderDrag(side, key)
             \/ \E key \in PriceKeys : DragOver(key)
             \/ \E call \in ticketCalls : CallFails(call)
             \/ \E t \in TicketIds : Fill(t)
             \/ RefreshOrders \/ ToggleSim \/ ToggleFastTicket \/ LeaveMarket \/ UNCHANGED ladderVars
      PROVE  EntriesAreClicked
  <2>1. ticketCalls' \subseteq ticketCalls
    BY <1>5 DEF StartOrderDrag, DragOver, CallFails, Fill, RefreshOrders, ToggleSim, ToggleFastTicket,
                LeaveMarket, ladderVars
  <2> QED BY <2>1 DEF EntriesAreClicked
<1> QED BY <1>1, <1>2, <1>3, <1>4, <1>5, ClickEnters, AnswerEnters DEF LadderNext

\* A gesture does what it says and no more, for any account, tickets, settings and tabs:
\* a cancel-all leaves the exchange no order to fill, those the filter hides included; an
\* order enters once for each click or taken move; a resize keeps a column and its
\* neighbour within their limits; and a tab wears the theme picked in it.
THEOREM GesturesAreKept ==
  AccountSpec /\ LadderSpec /\ SettingsSpec /\ PreferencesSpec => GesturesDoAsAsked
<1>1. AccountInit => AccountInv
  BY DEF AccountInit, AccountInv
<1>2. AccountInv /\ [AccountNext]_accountVars => AccountInv' /\ (CancelAllDone => exchange'.orders = {})
  BY AccountStep
<1>3. (CancelAllDone => exchange'.orders = {}) => (CancelAllDone => \A o \in exchange'.orders : ~Unfinished(o))
  OBVIOUS
<1>4. LadderInit => LadderInv
  BY LadderStart
<1>5. LadderInv /\ [LadderNext]_ladderVars => LadderInv'
  BY LadderStep
<1>6. LadderInv /\ [LadderNext]_ladderVars => EntriesAreClicked
  BY EntriesHaveClicks
<1>7. SettingsInit => SettingsInv
  BY SettingsStart
<1>8. SettingsInv /\ [SettingsNext]_settingsVars => SettingsInv' /\ LimitsHold
  BY SettingsStep
<1>9. PreferencesInit => PreferencesInv
  BY PreferencesStart
<1>10. PreferencesInv /\ [PreferencesNext]_preferenceVars => PreferencesInv' /\ ThemesFollow
  BY PreferencesStep
<1>11. AccountSpec => CancelAllLeavesNothing
  BY <1>1, <1>2, <1>3, PTL DEF AccountSpec, CancelAllLeavesNothing
<1>12. LadderSpec => EveryEntryHasItsClick
  <2>1. LadderSpec => [][EntriesAreClicked]_ladderVars
    BY <1>4, <1>5, <1>6, PTL DEF LadderSpec
  <2> QED BY <2>1 DEF EveryEntryHasItsClick, EntriesAreClicked
<1>13. SettingsSpec => LimitsKept
  <2>1. SettingsSpec => [][LimitsHold]_settingsVars
    BY <1>7, <1>8, PTL DEF SettingsSpec
  <2> QED BY <2>1 DEF LimitsKept, LimitsHold, WithinLimits
<1>14. PreferencesSpec => ThemeOfTheTab
  <2>1. PreferencesSpec => [][ThemesFollow]_preferenceVars
    BY <1>9, <1>10, PTL DEF PreferencesSpec
  <2> QED BY <2>1 DEF ThemeOfTheTab, ThemesFollow
<1> QED BY <1>11, <1>12, <1>13, <1>14 DEF GesturesDoAsAsked

(***************************************************************************)
(* The library of model variants.                                          *)
(***************************************************************************)
OnePerKey(list) ==
  /\ list \in Seq(Variants)
  /\ \A i, j \in DOMAIN list : VKey(list[i]) = VKey(list[j]) => i = j

\* What is left of a library without some of its variants.
LEMMA PartOfLibrary ==
  ASSUME NEW list, OnePerKey(list), NEW gone
  PROVE  OnePerKey(Without(list, gone)) /\ Range(Without(list, gone)) = Range(list) \ gone
<1>1. PICK w \in Seq(Variants) :
        /\ w = Without(list, gone) /\ Lists(list, w) /\ \A i \in DOMAIN w : w[i] \notin gone
        /\ \A k \in DOMAIN list : list[k] \notin gone => \E i \in DOMAIN w : w[i] = list[k]
  <2>1. list \in Seq(Variants)
    BY DEF OnePerKey
  <2>2. /\ Without(list, gone) \in Seq(Variants) /\ Lists(list, Without(list, gone))
        /\ \A i \in DOMAIN Without(list, gone) : Without(list, gone)[i] \notin gone
        /\ \A k \in DOMAIN list : list[k] \notin gone =>
             \E i \in DOMAIN Without(list, gone) : Without(list, gone)[i] = list[k]
    BY <2>1, WithoutIs
  <2> QED BY <2>2
<1>2. Range(w) = Range(list) \ gone
  BY <1>1 DEF Lists, Range
<1>3. DOMAIN w \subseteq Int
  OBVIOUS
<1>4. ASSUME NEW i \in DOMAIN w, NEW j \in DOMAIN w, i < j
      PROVE  VKey(w[i]) # VKey(w[j])
  <2>1. PICK k \in DOMAIN list, l \in DOMAIN list : k < l /\ w[i] = list[k] /\ w[j] = list[l]
    BY <1>1, <1>4 DEF Lists
  <2>2. k # l
    <3>1. DOMAIN list \subseteq Int
      BY DEF OnePerKey
    <3> QED BY <2>1, <3>1
  <2> QED BY <2>1, <2>2 DEF OnePerKey
<1>5. \A i, j \in DOMAIN w : i # j => i < j \/ j < i
  BY <1>3
<1>6. \A i, j \in DOMAIN w : VKey(w[i]) = VKey(w[j]) => i = j
  BY <1>4, <1>5
<1> QED BY <1>1, <1>2, <1>6 DEF OnePerKey

\* Two parts of a library that share no key.
LEMMA JoinedLibraries ==
  ASSUME NEW a, OnePerKey(a), NEW b, OnePerKey(b),
         \A v \in Range(a), w \in Range(b) : VKey(v) # VKey(w)
  PROVE  OnePerKey(a \o b) /\ Range(a \o b) = Range(a) \cup Range(b)
<1>1. PICK e \in Seq(Variants) : Together(e, a, b)
  BY JoinedLists DEF OnePerKey
<1>2. PICK m \in Nat, n \in Nat : /\ m = Len(a) /\ n = Len(b) /\ DOMAIN a = 1 .. m /\ DOMAIN b = 1 .. n
                                  /\ DOMAIN e = 1 .. m + n /\ e = a \o b
                                  /\ \A i \in 1 .. m : e[i] = a[i]
                                  /\ \A i \in 1 .. n : e[m + i] = b[i]
  <2>1. Len(a) \in Nat /\ Len(b) \in Nat /\ DOMAIN a = 1 .. Len(a) /\ DOMAIN b = 1 .. Len(b)
    BY DEF OnePerKey
  <2> QED BY <1>1, <2>1 DEF Together
<1>3. ASSUME NEW i \in 1 .. m + n
      PROVE  \/ i \in 1 .. m /\ e[i] = a[i]
             \/ i - m \in 1 .. n /\ e[i] = b[i - m] /\ i \notin 1 .. m
  BY <1>2
<1>4. Range(e) = Range(a) \cup Range(b)
  <2>1. ASSUME NEW i \in 1 .. n PROVE m + i \in 1 .. m + n /\ b[i] = e[m + i]
    BY <1>2
  <2>2. 1 .. m \subseteq 1 .. m + n
    OBVIOUS
  <2>3. Range(a) \subseteq Range(e)
    BY <1>2, <2>2 DEF Range
  <2>4. Range(b) \subseteq Range(e)
    <3>1. ASSUME NEW v \in Range(b) PROVE v \in Range(e)
      <4>1. PICK i \in 1 .. n : v = b[i]
        BY <1>2, <3>1 DEF Range
      <4>2. m + i \in DOMAIN e /\ v = e[m + i]
        BY <1>2, <2>1, <4>1
      <4> QED BY <4>2 DEF Range
    <3> QED BY <3>1
  <2>5. Range(e) \subseteq Range(a) \cup Range(b)
    BY <1>2, <1>3 DEF Range
  <2> QED BY <2>3, <2>4, <2>5
<1>5. ASSUME NEW i \in 1 .. m + n, NEW j \in 1 .. m + n, VKey(e[i]) = VKey(e[j])
      PROVE  i = j
  <2>1. CASE i \in 1 .. m /\ j \in 1 .. m
    BY <1>2, <1>5, <2>1 DEF OnePerKey
  <2>2. CASE i - m \in 1 .. n /\ j - m \in 1 .. n /\ e[i] = b[i - m] /\ e[j] = b[j - m]
    <3>1. i - m = j - m
      BY <1>2, <1>5, <2>2 DEF OnePerKey
    <3> QED BY <3>1
  <2>3. ASSUME NEW x \in 1 .. m, NEW y \in 1 .. n PROVE VKey(a[x]) # VKey(b[y])
    BY <1>2 DEF Range
  <2> QED BY <1>3, <1>5, <2>1, <2>2, <2>3
<1> QED BY <1>1, <1>2, <1>4, <1>5 DEF OnePerKey

\* A list of one variant.
LEMMA OneVariant ==
  ASSUME NEW v \in Variants
  PROVE  OnePerKey(<<v>>) /\ Range(<<v>>) = {v}
BY DEF OnePerKey, Range

\* A variant is put in the place of the one of its key.
LEMMA UpsertedIs ==
  ASSUME NEW list, OnePerKey(list), NEW next \in Variants
  PROVE  /\ OnePerKey(Upserted(list, next))
         /\ Range(Upserted(list, next)) = {next} \cup {v \in Range(list) : VKey(v) # VKey(next)}
<1> DEFINE rest == DropKey(list, VKey(next))
           newer == {v \in Range(rest) : v.at > next.at}
           older == Range(rest) \ newer
<1>1. OnePerKey(rest) /\ Range(rest) = {v \in Range(list) : VKey(v) # VKey(next)}
  BY PartOfLibrary DEF DropKey, OfKey
<1>2. Upserted(list, next) = (Without(rest, older) \o <<next>>) \o Without(rest, newer)
  <2>1. Upserted(list, next) = Without(rest, older) \o <<next>> \o Without(rest, newer)
    BY DEF Upserted
  <2> QED BY <2>1
<1> HIDE DEF rest
<1>3. newer \cup older = Range(rest) /\ newer \cap older = {}
  OBVIOUS
<1> HIDE DEF newer, older
<1>4. /\ OnePerKey(Without(rest, older)) /\ Range(Without(rest, older)) = newer
      /\ OnePerKey(Without(rest, newer)) /\ Range(Without(rest, newer)) = older
  BY <1>1, <1>3, PartOfLibrary
<1>5. \A v, w \in Range(rest) : VKey(v) = VKey(w) => v = w
  BY <1>1 DEF OnePerKey, Range
<1>6. OnePerKey(Without(rest, older) \o <<next>>) /\ Range(Without(rest, older) \o <<next>>) = newer \cup {next}
  BY <1>1, <1>3, <1>4, OneVariant, JoinedLibraries
<1>7. \A v \in newer \cup {next}, w \in older : VKey(v) # VKey(w)
  BY <1>1, <1>3, <1>5
<1> QED BY <1>1, <1>2, <1>3, <1>4, <1>6, <1>7, JoinedLibraries

\* The variant of a key is found, or there is none.
LEMMA FoundIs ==
  ASSUME NEW list, OnePerKey(list), NEW key
  PROVE  /\ At(list, key) \in Seq(Variants)
         /\ At(list, key) = <<>> <=> \A v \in Range(list) : VKey(v) # key
         /\ At(list, key) # <<>> => At(list, key)[1] \in Range(list) /\ VKey(At(list, key)[1]) = key
         /\ \A v \in Range(list) : VKey(v) = key => Len(At(list, key)) = 1 /\ At(list, key)[1] = v
<1>1. PICK f : f = At(list, key)
  OBVIOUS
<1>2. OnePerKey(f) /\ Range(f) = {v \in Range(list) : VKey(v) = key}
  BY <1>1, PartOfLibrary DEF At, OfKey
<1>3. f \in Seq(Variants) /\ DOMAIN f = 1 .. Len(f) /\ Len(f) \in Nat /\ Range(f) = {f[i] : i \in 1 .. Len(f)}
  BY <1>2 DEF OnePerKey, Range
<1>4. f = <<>> <=> Range(f) = {}
  BY <1>3
<1>5. f # <<>> => 1 \in DOMAIN f /\ f[1] \in Range(f)
  BY <1>3
<1>6. ASSUME NEW v \in Range(f) PROVE Len(f) = 1 /\ f[1] = v
  <2>1. 1 \in DOMAIN f /\ \A i \in DOMAIN f : VKey(f[i]) = VKey(f[1])
    BY <1>2, <1>3, <1>6
  <2>2. \A i \in DOMAIN f : i = 1
    BY <1>2, <2>1 DEF OnePerKey
  <2>3. Len(f) = 1
    BY <1>3, <2>1, <2>2
  <2> QED BY <1>3, <1>6, <2>3
<1> QED BY <1>1, <1>2, <1>3, <1>4, <1>5, <1>6

\* What a variant put into a set leaves of it.
Plus(S, v) == IF v = None THEN S ELSE {v} \cup {w \in S : VKey(w) # VKey(v)}

\* What a window reads of the three places.
LEMMA LibraryIs ==
  ASSUME NEW st, OnePerKey(st.library), st.current \in Variants \cup {None},
         st.legacy \in Variants \cup {None}
  PROVE  /\ OnePerKey(LibraryOf(st))
         /\ Range(LibraryOf(st)) = Plus(Plus(Range(st.library), st.current), st.legacy)
<1>1. ASSUME NEW list, OnePerKey(list), NEW v \in Variants \cup {None}
      PROVE  OnePerKey(With(list, v)) /\ Range(With(list, v)) = Plus(Range(list), v)
  <2>1. CASE v = None
    BY <1>1, <2>1 DEF With, Plus
  <2>2. CASE v # None
    BY <1>1, <2>2, UpsertedIs DEF With, Plus
  <2> QED BY <2>1, <2>2
<1>2. OnePerKey(With(st.library, st.current))
      /\ Range(With(st.library, st.current)) = Plus(Range(st.library), st.current)
  BY <1>1
<1>3. LibraryOf(st) = With(With(st.library, st.current), st.legacy)
  BY DEF LibraryOf
<1> QED BY <1>1, <1>2, <1>3

OldKeys == {VKey(v) : v \in OldLegacies \ {None}}
HoldsText(list, key, some) == \E v \in Range(list) : VKey(v) = key /\ v.text = some
HoldsKey(list, key) == \E v \in Range(list) : VKey(v) = key

VariantTypes ==
  /\ stores = [library |-> stores.library, current |-> stores.current, legacy |-> stores.legacy]
  /\ desk = [draft |-> desk.draft, library |-> desk.library, selected |-> desk.selected]
  /\ OnePerKey(stores.library) /\ OnePerKey(desk.library)
  /\ stores.current \in Variants \cup {None} /\ stores.legacy \in OldLegacies \cup {None}
  /\ desk.draft \in Variants /\ desk.selected \in VariantKeys \cup {None}
  /\ variantSaves \in Nat /\ lastSaved \in [VariantKeys -> Texts \cup {None}]

\* A variant that was saved is in the storage and in the window with its text, and what
\* was last worked on is not another text of it.
SavedIsHeld ==
  \A k \in VariantKeys \ OldKeys : lastSaved[k] # None =>
    /\ HoldsText(stores.library, k, lastSaved[k]) /\ HoldsText(desk.library, k, lastSaved[k])
    /\ stores.current # None /\ VKey(stores.current) = k => stores.current.text = lastSaved[k]

\* A key that was deleted is in none of the places, nor in the window.
DeletedIsGone ==
  \A k \in deleted : /\ ~HoldsKey(stores.library, k) /\ ~HoldsKey(desk.library, k)
                     /\ stores.current # None => VKey(stores.current) # k
                     /\ stores.legacy # None => VKey(stores.legacy) # k

\* What the oldest version left is in the window's library, so it goes when it is deleted.
LegacyIsShown == stores.legacy # None => HoldsKey(desk.library, VKey(stores.legacy))

VariantsInv == VariantTypes /\ SavedIsHeld /\ DeletedIsGone /\ LegacyIsShown

\* The variant a window starts with.
LEMMA DefaultIsVariant == DefaultVariant \in Variants
BY VariantAssumption DEF DefaultVariant, Variants

\* The key of a variant.
LEMMA KeyIs == ASSUME NEW v \in Variants PROVE VKey(v) \in VariantKeys
BY DEF VKey, VariantKeys, Variants

\* What an opened window has.
LEMMA OpenedIs ==
  ASSUME NEW st, OnePerKey(st.library), st.current \in Variants \cup {None},
         st.legacy \in OldLegacies \cup {None}
  PROVE  /\ OnePerKey(Opened(st).library)
         /\ Opened(st) = [draft |-> Opened(st).draft, library |-> Opened(st).library,
                             selected |-> Opened(st).selected]
         /\ Opened(st).draft \in Variants /\ Opened(st).selected \in VariantKeys \cup {None}
         /\ Opened(st).library = LibraryOf(st)
         /\ st.legacy # None => HoldsKey(LibraryOf(st), VKey(st.legacy))
         /\ \A k : /\ ~HoldsKey(st.library, k)
                   /\ st.current # None => VKey(st.current) # k
                   /\ st.legacy # None => VKey(st.legacy) # k
                   => ~HoldsKey(LibraryOf(st), k)
         /\ \A k, some : /\ HoldsText(st.library, k, some) /\ k \notin OldKeys
                         /\ st.current # None /\ VKey(st.current) = k => st.current.text = some
                         => HoldsText(LibraryOf(st), k, some)
<1>1. st.legacy \in Variants \cup {None} /\ (st.legacy # None => VKey(st.legacy) \in OldKeys)
  BY VariantAssumption DEF OldKeys
<1>2. /\ OnePerKey(LibraryOf(st))
      /\ Range(LibraryOf(st)) = Plus(Plus(Range(st.library), st.current), st.legacy)
  BY <1>1, LibraryIs
<1>3. /\ Opened(st).library = LibraryOf(st) /\ Opened(st).draft = DraftOf(st)
      /\ Opened(st).selected \in {VKey(DraftOf(st)), None}
      /\ Opened(st) = [draft |-> Opened(st).draft, library |-> Opened(st).library,
                        selected |-> Opened(st).selected]
  <2>1. PICK draft, list, choice : draft = DraftOf(st) /\ list = LibraryOf(st)
                                   /\ choice = IF DraftOf(st).at > 0 THEN VKey(DraftOf(st)) ELSE None
    OBVIOUS
  <2>2. Opened(st) = [draft |-> draft, library |-> list, selected |-> choice]
    BY <2>1 DEF Opened
  <2>3. choice \in {VKey(DraftOf(st)), None}
    BY <2>1
  <2>4. PICK opened : opened = Opened(st)
    OBVIOUS
  <2>5. /\ opened.library = list /\ opened.draft = draft /\ opened.selected = choice
        /\ opened = [draft |-> opened.draft, library |-> opened.library, selected |-> opened.selected]
    BY <2>2, <2>4
  <2> QED BY <2>1, <2>3, <2>4, <2>5
<1>4. DraftOf(st) \in Variants
  <2>1. CASE st.current # None
    BY <2>1 DEF DraftOf
  <2>2. CASE st.current = None
    <3>1. PICK list \in Seq(Variants) : list = LibraryOf(st)
      BY <1>2 DEF OnePerKey
    <3>2. PICK last \in Seq(Variants) : last = <<DefaultVariant>> /\ Len(last) = 1
      <4>1. PICK d \in Variants : d = DefaultVariant
        BY DefaultIsVariant
      <4>2. <<d>> \in Seq(Variants) /\ Len(<<d>>) = 1
        OBVIOUS
      <4> QED BY <4>1, <4>2
    <3>3. PICK e \in Seq(Variants) : Together(e, list, last)
      BY JoinedLists
    <3>4. Len(e) \in Nat /\ Len(e) >= 1
      BY <3>2, <3>3 DEF Together
    <3>5. FirstOf(e, 1)[1] = e[1] /\ e[1] \in Variants
      BY <3>4 DEF FirstOf, Lesser
    <3>6. DraftOf(st) = FirstOf(e, 1)[1]
      BY <2>2, <3>1, <3>2, <3>3 DEF DraftOf, Together
    <3> QED BY <3>5, <3>6
  <2> QED BY <2>1, <2>2
<1>5. st.legacy # None => HoldsKey(LibraryOf(st), VKey(st.legacy))
  BY <1>2 DEF HoldsKey, Plus
<1>6. ASSUME NEW k, ~HoldsKey(st.library, k), st.current # None => VKey(st.current) # k,
             st.legacy # None => VKey(st.legacy) # k
      PROVE  ~HoldsKey(LibraryOf(st), k)
  BY <1>2, <1>6 DEF HoldsKey, Plus
<1>7. ASSUME NEW k, NEW some, HoldsText(st.library, k, some), k \notin OldKeys,
             st.current # None /\ VKey(st.current) = k => st.current.text = some
      PROVE  HoldsText(LibraryOf(st), k, some)
  <2>1. \E v \in Plus(Range(st.library), st.current) : VKey(v) = k /\ v.text = some
    BY <1>7 DEF HoldsText, Plus
  <2>2. \E v \in Range(LibraryOf(st)) : VKey(v) = k /\ v.text = some
    BY <1>1, <1>2, <1>7, <2>1 DEF Plus
  <2> QED BY <2>2 DEF HoldsText
<1>8. Opened(st).selected \in VariantKeys \cup {None}
  <2>1. PICK d \in Variants : d = DraftOf(st)
    BY <1>4
  <2>2. VKey(d) \in VariantKeys
    BY KeyIs
  <2> QED BY <1>3, <2>1, <2>2
<1>9. OnePerKey(Opened(st).library) /\ Opened(st).draft \in Variants
  BY <1>2, <1>3, <1>4
<1>10. \A k : /\ ~HoldsKey(st.library, k)
              /\ st.current # None => VKey(st.current) # k
              /\ st.legacy # None => VKey(st.legacy) # k
              => ~HoldsKey(LibraryOf(st), k)
  BY <1>6
<1>11. \A k, some : /\ HoldsText(st.library, k, some) /\ k \notin OldKeys
                    /\ st.current # None /\ VKey(st.current) = k => st.current.text = some
                    => HoldsText(LibraryOf(st), k, some)
  BY <1>7
<1> QED BY <1>3, <1>5, <1>8, <1>9, <1>10, <1>11, Zenon

\* The window is opened again.
LEMMA ReopenKeeps ==
  ASSUME VariantsInv, Reopen
  PROVE  VariantsInv'
<1>1. desk' = Opened(stores) /\ UNCHANGED <<stores, variantSaves, lastSaved, deleted>>
  BY DEF Reopen
<1>2. OnePerKey(stores.library) /\ stores.current \in Variants \cup {None} /\ stores.legacy \in OldLegacies \cup {None}
  BY DEF VariantsInv, VariantTypes
<1>3. VariantTypes'
  BY <1>1, <1>2, OpenedIs DEF VariantsInv, VariantTypes
<1>4. SavedIsHeld'
  BY <1>1, <1>2, OpenedIs DEF VariantsInv, SavedIsHeld
<1>5. DeletedIsGone'
  BY <1>1, <1>2, OpenedIs DEF VariantsInv, DeletedIsGone
<1>6. LegacyIsShown'
  BY <1>1, <1>2, OpenedIs DEF VariantsInv, LegacyIsShown
<1> QED BY <1>3, <1>4, <1>5, <1>6 DEF VariantsInv

\* The draft is another, the library is not.
LEMMA DraftKeeps ==
  ASSUME VariantsInv, UNCHANGED <<variantSaves, lastSaved, deleted>>, NEW draft \in Variants,
         NEW choice \in VariantKeys \cup {None},
         desk' = [draft |-> draft, library |-> desk.library, selected |-> choice],
         NEW current, current \in {stores.current, None} \/ current \in Range(desk.library),
         stores' = [library |-> stores.library, current |-> current, legacy |-> stores.legacy]
  PROVE  VariantsInv'
<1>1. /\ desk'.library = desk.library /\ desk'.draft = draft /\ desk'.selected = choice
      /\ stores'.library = stores.library /\ stores'.current = current /\ stores'.legacy = stores.legacy
  OBVIOUS
<1>2. Range(desk.library) \subseteq Variants
  BY DEF VariantsInv, VariantTypes, OnePerKey, Range
<1>3. VariantTypes'
  BY <1>1, <1>2 DEF VariantsInv, VariantTypes
<1>4. ASSUME current \in Range(desk.library), NEW k, NEW some, HoldsText(desk.library, k, some), VKey(current) = k
      PROVE  current.text = some
  <2>1. \A v, w \in Range(desk.library) : VKey(v) = VKey(w) => v = w
    BY DEF VariantsInv, VariantTypes, OnePerKey, Range
  <2> QED BY <1>4, <2>1 DEF HoldsText
<1>5. SavedIsHeld'
  BY <1>1, <1>4 DEF VariantsInv, SavedIsHeld
<1>6. DeletedIsGone'
  BY <1>1 DEF VariantsInv, DeletedIsGone, HoldsKey
<1> QED BY <1>1, <1>3, <1>5, <1>6 DEF VariantsInv, LegacyIsShown

\* A variant is saved.
LEMMA SaveKeeps ==
  ASSUME VariantsInv, SaveVariant
  PROVE  VariantsInv'
<1> DEFINE next == [desk.draft EXCEPT !.at = variantSaves + 1]
           list == Upserted(desk.library, next)
<1>1. next \in Variants /\ next.text = desk.draft.text
  BY DEF VariantsInv, VariantTypes, Variants
<1>2. /\ variantSaves' = variantSaves + 1
      /\ desk' = [draft |-> next, library |-> list, selected |-> VKey(next)]
      /\ stores' = [stores EXCEPT !.library = list, !.current = next]
      /\ lastSaved' = [lastSaved EXCEPT ![VKey(next)] = next.text]
      /\ deleted' = deleted \ {VKey(next)}
  BY DEF SaveVariant
<1>3. OnePerKey(list) /\ Range(list) = {next} \cup {v \in Range(desk.library) : VKey(v) # VKey(next)}
  BY <1>1, UpsertedIs DEF VariantsInv, VariantTypes
<1>4. VKey(next) \in VariantKeys /\ next.text \in Texts \cup {None}
  BY <1>1, KeyIs DEF Variants
<1> HIDE DEF next, list
<1>5. stores' = [library |-> list, current |-> next, legacy |-> stores.legacy]
  BY <1>2 DEF VariantsInv, VariantTypes
<1>6. VariantTypes'
  <2>1. /\ stores'.library = list /\ stores'.current = next /\ stores'.legacy = stores.legacy
        /\ stores' = [library |-> stores'.library, current |-> stores'.current, legacy |-> stores'.legacy]
    BY <1>5
  <2>2. /\ desk'.library = list /\ desk'.draft = next /\ desk'.selected = VKey(next)
        /\ desk' = [draft |-> desk'.draft, library |-> desk'.library, selected |-> desk'.selected]
    BY <1>2
  <2>3. lastSaved' \in [VariantKeys -> Texts \cup {None}] /\ variantSaves' \in Nat
    BY <1>2, <1>4 DEF VariantsInv, VariantTypes
  <2>4. stores.legacy \in OldLegacies \cup {None}
    BY DEF VariantsInv, VariantTypes
  <2> QED BY <1>1, <1>3, <1>4, <2>1, <2>2, <2>3, <2>4 DEF VariantTypes
<1>7. next # None
  BY <1>1, VariantAssumption
<1>8. ASSUME NEW k \in VariantKeys \ OldKeys, lastSaved'[k] # None
      PROVE  HoldsText(list, k, lastSaved'[k]) /\ (VKey(next) = k => next.text = lastSaved'[k])
  <2>1. CASE k = VKey(next)
    <3>1. lastSaved'[k] = next.text
      BY <1>2, <1>4, <2>1 DEF VariantsInv, VariantTypes
    <3> QED BY <1>3, <2>1, <3>1 DEF HoldsText
  <2>2. CASE k # VKey(next)
    <3>1. lastSaved'[k] = lastSaved[k]
      BY <1>2, <1>4, <2>2 DEF VariantsInv, VariantTypes
    <3>2. HoldsText(desk.library, k, lastSaved[k])
      BY <1>8, <3>1 DEF VariantsInv, SavedIsHeld
    <3> QED BY <1>3, <2>2, <3>1, <3>2 DEF HoldsText
  <2> QED BY <2>1, <2>2
<1>9. SavedIsHeld'
  BY <1>2, <1>5, <1>8 DEF SavedIsHeld
<1>10. ASSUME NEW k \in deleted' PROVE ~HoldsKey(list, k) /\ VKey(next) # k /\ (stores.legacy # None => VKey(stores.legacy) # k)
  BY <1>2, <1>3, <1>10 DEF VariantsInv, DeletedIsGone, HoldsKey
<1>11. DeletedIsGone'
  BY <1>2, <1>5, <1>10 DEF DeletedIsGone
<1>12. LegacyIsShown'
  BY <1>2, <1>3, <1>5 DEF VariantsInv, LegacyIsShown, HoldsKey
<1> QED BY <1>6, <1>9, <1>11, <1>12 DEF VariantsInv

\* The variant selected is deleted.
LEMMA DeleteKeeps ==
  ASSUME VariantsInv, DeleteVariant
  PROVE  VariantsInv'
<1> DEFINE key == desk.selected
           rest == DropKey(desk.library, key)
<1>1. PICK legacy, draft :
        /\ stores' = [library |-> rest, current |-> None, legacy |-> legacy]
        /\ desk' = [library |-> rest, selected |-> None, draft |-> draft]
        /\ draft \in {DefaultVariant, desk.draft}
        /\ legacy = IF At(desk.library, key) # <<>> THEN None ELSE stores.legacy
  BY DEF DeleteVariant
<1>2. key \in VariantKeys /\ lastSaved' = [lastSaved EXCEPT ![key] = None] /\ deleted' = deleted \cup {key}
      /\ variantSaves' = variantSaves
  BY DEF DeleteVariant, VariantsInv, VariantTypes
<1>3. OnePerKey(desk.library)
  BY DEF VariantsInv, VariantTypes
<1>4. OnePerKey(rest) /\ Range(rest) = {v \in Range(desk.library) : VKey(v) # key}
  BY <1>3, PartOfLibrary DEF DropKey, OfKey
<1>5. legacy # None => legacy = stores.legacy /\ \A v \in Range(desk.library) : VKey(v) # key
  BY <1>1, <1>3, FoundIs
<1>6. legacy # None => HoldsKey(rest, VKey(legacy)) /\ VKey(legacy) # key
  BY <1>4, <1>5 DEF VariantsInv, LegacyIsShown, HoldsKey
<1> HIDE DEF key, rest
<1>7. /\ desk' = [draft |-> draft, library |-> rest, selected |-> None]
      /\ stores'.library = rest /\ stores'.current = None /\ stores'.legacy = legacy /\ desk'.library = rest
      /\ desk'.draft = draft /\ desk'.selected = None
  BY <1>1
<1>8. legacy \in OldLegacies \cup {None} /\ draft \in Variants
  BY <1>1, DefaultIsVariant DEF VariantsInv, VariantTypes
<1>9. lastSaved' \in [VariantKeys -> Texts \cup {None}] /\ variantSaves' \in Nat
  BY <1>2 DEF VariantsInv, VariantTypes
<1>10. VariantTypes'
  BY <1>1, <1>4, <1>7, <1>8, <1>9 DEF VariantTypes
<1>11. ASSUME NEW k \in VariantKeys \ OldKeys, lastSaved'[k] # None
       PROVE  HoldsText(rest, k, lastSaved'[k])
  <2>1. k # key /\ lastSaved'[k] = lastSaved[k]
    BY <1>2, <1>11 DEF VariantsInv, VariantTypes
  <2>2. HoldsText(desk.library, k, lastSaved[k])
    BY <1>11, <2>1 DEF VariantsInv, SavedIsHeld
  <2> QED BY <1>4, <2>1, <2>2 DEF HoldsText
<1>12. SavedIsHeld'
  BY <1>7, <1>11 DEF SavedIsHeld
<1>13. ASSUME NEW k \in deleted' PROVE ~HoldsKey(rest, k) /\ (legacy # None => VKey(legacy) # k)
  BY <1>2, <1>4, <1>5, <1>6, <1>13 DEF VariantsInv, DeletedIsGone, HoldsKey
<1>14. DeletedIsGone'
  BY <1>7, <1>13 DEF DeletedIsGone
<1>15. LegacyIsShown'
  BY <1>6, <1>7 DEF LegacyIsShown
<1> QED BY <1>10, <1>12, <1>14, <1>15 DEF VariantsInv

\* Every step of the registry.
LEMMA VariantsStep ==
  ASSUME VariantsInv, [VariantsNext]_variantVars
  PROVE  VariantsInv'
<1>1. /\ stores = [library |-> stores.library, current |-> stores.current, legacy |-> stores.legacy]
      /\ desk = [draft |-> desk.draft, library |-> desk.library, selected |-> desk.selected]
      /\ desk.draft \in Variants /\ OnePerKey(desk.library) /\ desk.selected \in VariantKeys \cup {None}
  BY DEF VariantsInv, VariantTypes
<1>2. CASE UpdateDraft
  <2>1. PICK draft : /\ desk' = [desk EXCEPT !.draft = draft, !.selected = None]
                     /\ \/ \E n \in Spellings : draft = [desk.draft EXCEPT !.name = n]
                        \/ \E t \in Texts : draft = [desk.draft EXCEPT !.text = t]
    BY <1>1, <1>2 DEF UpdateDraft
  <2>2. draft \in Variants
    BY <1>1, <2>1 DEF Variants
  <2>3. desk' = [draft |-> draft, library |-> desk.library, selected |-> None]
    BY <1>1, <2>1
  <2> QED BY <1>1, <1>2, <2>2, <2>3, DraftKeeps DEF UpdateDraft
<1>3. CASE ClearDraft
  <2>1. /\ stores' = [library |-> stores.library, current |-> None, legacy |-> stores.legacy]
        /\ desk' = [draft |-> DefaultVariant, library |-> desk.library, selected |-> None]
        /\ UNCHANGED <<variantSaves, lastSaved, deleted>>
    BY <1>1, <1>3 DEF ClearDraft
  <2> QED BY <2>1, DefaultIsVariant, DraftKeeps
<1>4. ASSUME NEW k \in VariantKeys, LoadVariant(k) PROVE VariantsInv'
  <2>1. PICK found : found = At(desk.library, k)
    OBVIOUS
  <2>2. CASE found = <<>>
    <3>1. /\ stores' = [library |-> stores.library, current |-> stores.current, legacy |-> stores.legacy]
          /\ desk' = [draft |-> desk.draft, library |-> desk.library, selected |-> k]
          /\ UNCHANGED <<variantSaves, lastSaved, deleted>>
      BY <1>1, <1>4, <2>1, <2>2 DEF LoadVariant
    <3> QED BY <1>1, <3>1, DraftKeeps
  <2>3. CASE found # <<>>
    <3>1. PICK v : v = found[1]
      OBVIOUS
    <3>2. /\ stores' = [library |-> stores.library, current |-> v, legacy |-> stores.legacy]
          /\ desk' = [draft |-> v, library |-> desk.library, selected |-> k]
          /\ UNCHANGED <<variantSaves, lastSaved, deleted>>
      BY <1>1, <1>4, <2>1, <2>3, <3>1 DEF LoadVariant
    <3>3. v \in Range(desk.library)
      BY <1>1, <2>1, <2>3, <3>1, FoundIs
    <3>4. v \in Variants
      BY <1>1, <3>3 DEF OnePerKey, Range
    <3> QED BY <3>2, <3>3, <3>4, DraftKeeps
  <2> QED BY <2>2, <2>3
<1>5. CASE UNCHANGED variantVars
  BY <1>5 DEF variantVars, VariantsInv, VariantTypes, SavedIsHeld, DeletedIsGone, LegacyIsShown
<1> QED BY <1>2, <1>3, <1>4, <1>5, ReopenKeeps, SaveKeeps, DeleteKeeps DEF VariantsNext

\* Nothing is saved or deleted at first.
LEMMA VariantsStart ==
  ASSUME VariantsInit
  PROVE  VariantsInv
<1>1. PICK v \in OldCurrents, w \in OldLegacies : stores = [library |-> <<>>, current |-> v, legacy |-> w]
  BY DEF VariantsInit
<1>2. OnePerKey(<<>>)
  BY DEF OnePerKey
<1>3. v \in Variants \cup {None} /\ stores.library = <<>> /\ stores.current = v /\ stores.legacy = w
  BY <1>1, VariantAssumption
<1>4. /\ desk = Opened(stores) /\ variantSaves = 0 /\ lastSaved = [k \in VariantKeys |-> None] /\ deleted = {}
  BY DEF VariantsInit
<1>5. VariantTypes
  BY <1>1, <1>2, <1>3, <1>4, OpenedIs DEF VariantTypes
<1>6. LegacyIsShown
  BY <1>2, <1>3, <1>4, OpenedIs DEF LegacyIsShown
<1> QED BY <1>4, <1>5, <1>6 DEF VariantsInv, SavedIsHeld, DeletedIsGone

\* What a window opened now would find.
LEMMA VariantsHold ==
  ASSUME VariantsInv
  PROVE  SavedVariantStays /\ DeletedStaysDeleted
<1>1. OnePerKey(stores.library) /\ stores.current \in Variants \cup {None} /\ stores.legacy \in OldLegacies \cup {None}
  BY DEF VariantsInv, VariantTypes
<1>2. PICK list : list = LibraryOf(stores) /\ OnePerKey(list)
  BY <1>1, OpenedIs
<1>3. ASSUME NEW k \in VariantKeys \ OldKeys, lastSaved[k] # None PROVE IsFound(k)
  <2>1. HoldsText(list, k, lastSaved[k])
    BY <1>1, <1>2, <1>3, OpenedIs DEF VariantsInv, SavedIsHeld
  <2>2. PICK v \in Range(list) : VKey(v) = k /\ v.text = lastSaved[k]
    BY <2>1 DEF HoldsText
  <2>3. Len(At(list, k)) = 1 /\ At(list, k)[1] = v
    BY <1>2, <2>2, FoundIs
  <2> QED BY <1>2, <2>2, <2>3 DEF IsFound
<1>4. ASSUME NEW k \in deleted PROVE At(list, k) = <<>>
  <2>1. ~HoldsKey(list, k)
    BY <1>1, <1>2, <1>4, OpenedIs DEF VariantsInv, DeletedIsGone
  <2> QED BY <1>2, <2>1, FoundIs DEF HoldsKey
<1> QED BY <1>2, <1>3, <1>4 DEF SavedVariantStays, DeletedStaysDeleted, OldKeys

\* The result of a report is stored as it is shown.
LEMMA ReportStep ==
  ASSUME ShownIsStored, [ReportNext]_reportVars
  PROVE  ShownIsStored'
<1>1. UNCHANGED <<imported, storedImport>> \/ imported' = storedImport'
  <2>1. CASE Scan \/ EndOfText \/ Analyze \/ (\E f \in FillFiles : PickFile(f)) \/ UNCHANGED reportVars
    <3>1. UNCHANGED importVars \/ UNCHANGED <<imported, storedImport>>
      BY <2>1 DEF Scan, EndOfText, Analyze, PickFile, reportVars
    <3> QED BY <3>1 DEF importVars
  <2>2. CASE (\E n \in DOMAIN reading : FileRead(n)) \/ ClearImport \/ ReopenReport
    BY <2>2 DEF FileRead, ClearImport, ReopenReport, Kept
  <2> QED BY <2>1, <2>2 DEF ReportNext
<1> QED BY <1>1 DEF ShownIsStored

\* What a window or a page shows is what it keeps, whole, for any columns and widths an
\* older build stored, any tabs, spellings and files: the ladder's settings reach the
\* workspace as they are shown, with every column once; the settings page has every field
\* in each tab; a saved variant is found with its last text, and a deleted one is not,
\* in any of the three places; and the report shown is the one in the storage.
THEOREM StoredStaysShown ==
  SettingsSpec /\ PreferencesSpec /\ VariantsSpec /\ ReportSpec => []StoredIsShown
<1>1. SettingsInit => SettingsInv
  BY SettingsStart
<1>2. SettingsInv /\ [SettingsNext]_settingsVars => SettingsInv'
  BY SettingsStep
<1>3. PreferencesInit => PreferencesInv
  BY PreferencesStart
<1>4. PreferencesInv /\ [PreferencesNext]_preferenceVars => PreferencesInv'
  BY PreferencesStep
<1>5. VariantsInit => VariantsInv
  BY VariantsStart
<1>6. VariantsInv /\ [VariantsNext]_variantVars => VariantsInv'
  BY VariantsStep
<1>7. ReportInit => ShownIsStored
  BY DEF ReportInit, ShownIsStored
<1>8. ShownIsStored /\ [ReportNext]_reportVars => ShownIsStored'
  BY ReportStep
<1>9. SettingsInv /\ PreferencesInv /\ VariantsInv /\ ShownIsStored => StoredIsShown
  <2>1. ASSUME SettingsInv, mounted[Ladder] # None
        PROVE  HeldIsShown /\ EveryColumnOnce
    <3>1. EveryOnce(mounted[Ladder].columnOrder) /\ deskWindows[Ladder] = mounted[Ladder]
      BY <2>1 DEF SettingsInv, IsShape
    <3> QED BY <2>1, <3>1, ColumnsAre, ColumnsOnce DEF HeldIsShown, EveryColumnOnce, EveryOnce
  <2>2. SettingsInv => HeldIsShown /\ EveryColumnOnce
    BY <2>1 DEF HeldIsShown, EveryColumnOnce
  <2>3. PreferencesInv => SettingsAreWhole
    BY DEF PreferencesInv, SettingsAreWhole
  <2> QED BY <2>2, <2>3, VariantsHold DEF StoredIsShown
<1> QED BY <1>1, <1>2, <1>3, <1>4, <1>5, <1>6, <1>7, <1>8, <1>9, PTL
        DEF SettingsSpec, PreferencesSpec, VariantsSpec, ReportSpec

(***************************************************************************)
(* What is shown of a market.                                              *)
(***************************************************************************)
\* What is kept of a list are members of it, in their order.
LEMMA KeptIs ==
  ASSUME NEW S, NEW list \in Seq(S), NEW gone
  PROVE  /\ Without(list, gone) \in Seq(S)
         /\ \A i \in DOMAIN Without(list, gone) :
              \E k \in DOMAIN list : Without(list, gone)[i] = list[k] /\ list[k] \notin gone
         /\ Without(list, gone) = <<>> => \A k \in DOMAIN list : list[k] \in gone
         /\ Without(list, gone) # <<>> => 1 \in DOMAIN Without(list, gone)
<1>1. PICK g \in Seq(S) : g = Without(list, gone)
  BY WithoutIs
<1>2. /\ Lists(list, g)
      /\ \A i \in DOMAIN g : g[i] \notin gone
      /\ \A k \in DOMAIN list : list[k] \notin gone => \E i \in DOMAIN g : g[i] = list[k]
  <2>1. /\ Lists(list, Without(list, gone))
        /\ \A i \in DOMAIN Without(list, gone) : Without(list, gone)[i] \notin gone
        /\ \A k \in DOMAIN list : list[k] \notin gone =>
             \E i \in DOMAIN Without(list, gone) : Without(list, gone)[i] = list[k]
    BY WithoutIs
  <2> QED BY <1>1, <2>1
<1>3. g = <<>> => DOMAIN g = {}
  OBVIOUS
<1>4. g # <<>> => 1 \in DOMAIN g
  OBVIOUS
<1>5. \A i \in DOMAIN g : \E k \in DOMAIN list : g[i] = list[k] /\ list[k] \notin gone
  BY <1>2 DEF Lists
<1> QED BY <1>1, <1>2, <1>3, <1>4, <1>5

\* The rows of a key.
LEMMA FindIs ==
  ASSUME NEW S, NEW list \in Seq(S), NEW key
  PROVE  /\ Find(list, key) \in Seq(S)
         /\ Find(list, key) = <<>> => \A k \in DOMAIN list : list[k].key # key
         /\ Find(list, key) # <<>> => \E k \in DOMAIN list : Find(list, key)[1] = list[k] /\ list[k].key = key
<1> DEFINE gone == {m \in ToSet(list) : m.key # key}
<1>1. Find(list, key) = Without(list, gone)
  BY DEF Find
<1>2. \A k \in DOMAIN list : list[k] \notin gone <=> list[k].key = key
  BY DEF ToSet
<1> HIDE DEF gone
<1>3. /\ Without(list, gone) \in Seq(S)
      /\ \A i \in DOMAIN Without(list, gone) :
           \E k \in DOMAIN list : Without(list, gone)[i] = list[k] /\ list[k] \notin gone
      /\ Without(list, gone) = <<>> => \A k \in DOMAIN list : list[k] \in gone
      /\ Without(list, gone) # <<>> => 1 \in DOMAIN Without(list, gone)
  BY KeptIs
<1> QED BY <1>1, <1>2, <1>3

\* The rows that are live.
LEMMA AllLiveIs ==
  ASSUME NEW S, NEW list \in Seq(S)
  PROVE  /\ AllLive(list) \in Seq(S)
         /\ AllLive(list) = <<>> => \A k \in DOMAIN list : ~list[k].live
         /\ AllLive(list) # <<>> => \E k \in DOMAIN list : AllLive(list)[1] = list[k] /\ list[k].live
<1> DEFINE gone == {m \in ToSet(list) : ~m.live}
<1>1. AllLive(list) = Without(list, gone)
  BY DEF AllLive
<1>2. \A k \in DOMAIN list : list[k] \notin gone <=> list[k].live
  BY Zenon DEF ToSet
<1> HIDE DEF gone
<1>3. /\ Without(list, gone) \in Seq(S)
      /\ \A i \in DOMAIN Without(list, gone) :
           \E k \in DOMAIN list : Without(list, gone)[i] = list[k] /\ list[k] \notin gone
      /\ Without(list, gone) = <<>> => \A k \in DOMAIN list : list[k] \in gone
      /\ Without(list, gone) # <<>> => 1 \in DOMAIN Without(list, gone)
  BY KeptIs
<1> QED BY <1>1, <1>2, <1>3

\* The rows of an asset that are live.
LEMMA LiveOfIs ==
  ASSUME NEW S, NEW list \in Seq(S), NEW asset
  PROVE  /\ LiveOf(list, asset) \in Seq(S)
         /\ \A i \in DOMAIN LiveOf(list, asset) : \E k \in DOMAIN list :
              LiveOf(list, asset)[i] = list[k] /\ list[k].asset = asset /\ list[k].live
         /\ LiveOf(list, asset) # <<>> => 1 \in DOMAIN LiveOf(list, asset)
<1> DEFINE gone == {m \in ToSet(list) : m.asset # asset \/ ~m.live}
<1>1. LiveOf(list, asset) = Without(list, gone)
  BY DEF LiveOf
<1>2. \A k \in DOMAIN list : list[k] \notin gone => list[k].asset = asset /\ list[k].live
  BY Zenon DEF ToSet
<1> HIDE DEF gone
<1>3. /\ Without(list, gone) \in Seq(S)
      /\ \A i \in DOMAIN Without(list, gone) :
           \E k \in DOMAIN list : Without(list, gone)[i] = list[k] /\ list[k] \notin gone
      /\ Without(list, gone) = <<>> => \A k \in DOMAIN list : list[k] \in gone
      /\ Without(list, gone) # <<>> => 1 \in DOMAIN Without(list, gone)
  BY KeptIs
<1> QED BY <1>1, <1>2, <1>3

(* The depth of a ladder.                                                  *)
\* An answer that is taken was asked for of the product that is shown.
ViewInv == \A pull \in pulling :
  /\ pull = [symbol |-> pull.symbol, bid |-> pull.bid, alive |-> pull.alive]
  /\ pull.alive => pull.symbol = shownSymbol

\* Requests start, are answered, and are left.
LEMMA ViewStep ==
  ASSUME ViewInv, [ViewNext]_viewVars
  PROVE  ViewInv' /\ (depth' # depth => depth'.symbol = shownSymbol')
<1>1. CASE \E s \in LadderSymbols : SelectLadder(s)
  <2>1. /\ depth' = depth
        /\ pulling' = {[pull EXCEPT !.alive = FALSE] : pull \in pulling}
    BY <1>1 DEF SelectLadder
  <2>2. ASSUME NEW pull \in pulling'
        PROVE  /\ pull = [symbol |-> pull.symbol, bid |-> pull.bid, alive |-> pull.alive]
               /\ ~pull.alive
    <3>1. PICK old \in pulling : pull = [old EXCEPT !.alive = FALSE]
      BY <2>1
    <3>2. old = [symbol |-> old.symbol, bid |-> old.bid, alive |-> old.alive]
      BY DEF ViewInv
    <3>3. pull = [symbol |-> old.symbol, bid |-> old.bid, alive |-> FALSE]
      BY <3>1, <3>2
    <3> QED BY <3>3
  <2> QED BY <2>1, <2>2 DEF ViewInv
<1>2. CASE PullBook
  BY <1>2 DEF ViewInv, PullBook
<1>3. ASSUME NEW pull \in pulling, DepthArrives(pull)
      PROVE  ViewInv' /\ (depth' # depth => depth'.symbol = shownSymbol')
  <2>1. pulling' \subseteq pulling /\ shownSymbol' = shownSymbol
    BY <1>3 DEF DepthArrives
  <2>2. depth' # depth => pull.alive /\ depth' = [symbol |-> pull.symbol, bid |-> pull.bid]
    BY <1>3 DEF DepthArrives, Accepted
  <2>3. depth' # depth => depth'.symbol = pull.symbol /\ pull.symbol = shownSymbol
    BY <2>2 DEF ViewInv
  <2> QED BY <2>1, <2>3 DEF ViewInv
<1>4. CASE UNCHANGED <<shownSymbol, pulling, depth>>
  BY <1>4 DEF ViewInv
<1>5. \/ \E s \in LadderSymbols : QuoteMoves(s)
      \/ Recenter \/ \E by \in {-10, -3, -1, 1, 3, 10} : ShiftRows(by)
      \/ \E m \in Multipliers : SetMultiplier(m)
      \/ \E h \in BodyHeights : MeasureBody(h)
      \/ UNCHANGED viewVars
      => UNCHANGED <<shownSymbol, pulling, depth>>
  BY DEF QuoteMoves, Recenter, ShiftRows, SetMultiplier, MeasureBody, viewVars
<1> QED BY <1>1, <1>2, <1>3, <1>4, <1>5 DEF ViewNext

(* The selection of a window popped out of another.                        *)
\* A selection is made of its three parts.
Shaped(c) == c = [asset |-> c.asset, key |-> c.key, provider |-> c.provider]

\* A key that is listed is of the asset that is selected.
KeyFits(list, c) ==
  c.key # None => \A n \in DOMAIN list : list[n].key = c.key => list[n].asset = c.asset

\* One who has selected c and hears all that was told comes to select d.
Reaches(list, c, told, d) ==
  \E S, f : /\ told \in Seq(S)
            /\ f[0] = c /\ f[Len(told)] = d
            /\ \A n \in DOMAIN told : f[n] = Heard(list, f[n - 1], told[n])

SyncInv ==
  /\ lists = [w \in Windows |-> lists[w]] /\ \A w \in Windows : lists[w] \in {<<>>, SyncSlots}
  /\ chosen = [w \in Windows |-> chosen[w]] /\ \A w \in Windows : Shaped(chosen[w])
  /\ sideOpen /\ ~apart => /\ lists["side"] = lists["main"]
                           /\ KeyFits(lists["main"], chosen["main"])
                           /\ Reaches(lists["side"], chosen["side"], messages, chosen["main"])

\* Nothing told, nothing heard.
LEMMA HearsNothing ==
  ASSUME NEW list, NEW c
  PROVE  Reaches(list, c, <<>>, c)
<1> DEFINE f == [i \in {0} |-> c]
<1>1. <<>> \in Seq({}) /\ f[0] = c /\ f[Len(<<>>)] = c /\ DOMAIN <<>> = {}
  OBVIOUS
<1> HIDE DEF f
<1> QED BY <1>1, Zenon DEF Reaches

\* And the other way round.
LEMMA NothingToHear ==
  ASSUME NEW list, NEW c, NEW d, Reaches(list, c, <<>>, d)
  PROVE  c = d
BY DEF Reaches

\* The first of what is told is heard.
LEMMA HearsFirst ==
  ASSUME NEW list, NEW c, NEW told, NEW d, Reaches(list, c, told, d), told # <<>>
  PROVE  Reaches(list, Heard(list, c, told[1]), Tail(told), d)
<1>1. PICK S, f : /\ told \in Seq(S)
                  /\ f[0] = c /\ f[Len(told)] = d
                  /\ \A n \in DOMAIN told : f[n] = Heard(list, f[n - 1], told[n])
  BY Zenon DEF Reaches
<1>2. /\ Tail(told) \in Seq(S) /\ Len(told) \in Nat /\ Len(told) > 0
      /\ Len(Tail(told)) = Len(told) - 1 /\ DOMAIN Tail(told) = 1 .. Len(told) - 1
      /\ DOMAIN told = 1 .. Len(told)
      /\ \A n \in 1 .. Len(told) - 1 : Tail(told)[n] = told[n + 1]
  BY <1>1
<1> DEFINE g == [i \in 0 .. Len(told) - 1 |-> f[i + 1]]
<1>3. g[0] = Heard(list, c, told[1])
  <2>1. f[1] = Heard(list, f[0], told[1])
    <3>1. 1 \in DOMAIN told /\ 1 - 1 = 0
      BY <1>2
    <3> QED BY <1>1, <3>1
  <2>2. 0 \in 0 .. Len(told) - 1 /\ 0 + 1 = 1
    BY <1>2
  <2> QED BY <1>1, <2>1, <2>2
<1>4. g[Len(Tail(told))] = d
  <2>1. Len(told) - 1 \in 0 .. Len(told) - 1 /\ (Len(told) - 1) + 1 = Len(told)
    BY <1>2
  <2> QED BY <1>1, <1>2, <2>1
<1>5. ASSUME NEW n \in DOMAIN Tail(told)
      PROVE  g[n] = Heard(list, g[n - 1], Tail(told)[n])
  <2>1. /\ n \in 1 .. Len(told) - 1 /\ n \in 0 .. Len(told) - 1 /\ n - 1 \in 0 .. Len(told) - 1
        /\ n + 1 \in DOMAIN told /\ (n - 1) + 1 = n /\ (n + 1) - 1 = n
    BY <1>2
  <2>2. g[n] = f[n + 1] /\ g[n - 1] = f[n]
    BY <2>1
  <2>3. f[n + 1] = Heard(list, f[n], told[n + 1])
    BY <1>1, <2>1
  <2>4. Tail(told)[n] = told[n + 1]
    BY <1>2, <2>1
  <2> HIDE DEF g
  <2> QED BY <2>2, <2>3, <2>4
<1> HIDE DEF g
<1>6. /\ Tail(told) \in Seq(S)
      /\ g[0] = Heard(list, c, told[1]) /\ g[Len(Tail(told))] = d
      /\ \A n \in DOMAIN Tail(told) : g[n] = Heard(list, g[n - 1], Tail(told)[n])
  BY <1>2, <1>3, <1>4, <1>5
<1> QED BY <1>6 DEF Reaches

\* One thing more is told.
LEMMA HearsOne ==
  ASSUME NEW list, NEW c, NEW told, NEW d, Reaches(list, c, told, d), NEW m
  PROVE  Reaches(list, c, told \o <<m>>, Heard(list, d, m))
<1>1. PICK S, f : /\ told \in Seq(S)
                  /\ f[0] = c /\ f[Len(told)] = d
                  /\ \A n \in DOMAIN told : f[n] = Heard(list, f[n - 1], told[n])
  BY Zenon DEF Reaches
<1> DEFINE T == S \cup {m}
           more == told \o <<m>>
           k == Len(told) + 1
           e == Heard(list, d, m)
           g == [i \in 0 .. k |-> IF i = k THEN e ELSE f[i]]
<1>2. told \in Seq(T) /\ <<m>> \in Seq(T) /\ Len(told) \in Nat /\ DOMAIN told = 1 .. Len(told)
  BY <1>1
<1>3. /\ more \in Seq(T) /\ Len(more) = k /\ DOMAIN more = 1 .. k
      /\ more[k] = m /\ \A n \in 1 .. Len(told) : more[n] = told[n]
  BY <1>2
<1> HIDE DEF more, e, T
<1>4. g[0] = c /\ g[k] = e
  BY <1>1, <1>2
<1>5. ASSUME NEW n \in DOMAIN more
      PROVE  g[n] = Heard(list, g[n - 1], more[n])
  <2>1. CASE n = k
    <3>1. k \in 0 .. k /\ k - 1 \in 0 .. k /\ k - 1 # k /\ k - 1 = Len(told)
      <4>1. Len(told) \in Nat
        BY <1>2
      <4> HIDE DEF g
      <4> QED BY <4>1
    <3>2. g[k] = e /\ g[k - 1] = d
      BY <1>1, <3>1
    <3> QED BY <1>3, <2>1, <3>2 DEF e
  <2>2. CASE n \in 1 .. Len(told)
    <3>1. n \in 0 .. k /\ n - 1 \in 0 .. k /\ n # k /\ n - 1 # k
      BY <1>2, <2>2
    <3>2. g[n] = f[n] /\ g[n - 1] = f[n - 1]
      BY <3>1
    <3>3. f[n] = Heard(list, f[n - 1], told[n])
      BY <1>1, <1>2, <2>2
    <3>4. more[n] = told[n]
      BY <1>3, <2>2
    <3> HIDE DEF g, k
    <3> QED BY <3>2, <3>3, <3>4
  <2> QED BY <1>2, <1>3, <2>1, <2>2
<1>6. g[Len(more)] = e
  BY <1>3, <1>4
<1>7. Reaches(list, c, more, e)
  <2> HIDE DEF g, k
  <2> QED BY <1>3, <1>4, <1>5, <1>6, Zenon DEF Reaches
<1> QED BY <1>7 DEF more, e

\* What is told is a list.
LEMMA ToldIsList ==
  ASSUME NEW list, NEW c, NEW told, NEW d, Reaches(list, c, told, d)
  PROVE  \E S : told \in Seq(S)
BY Zenon DEF Reaches

\* What becomes of the parts of a selection.
LEMMA Changes ==
  ASSUME NEW c, Shaped(c), NEW k, NEW p
  PROVE  /\ [c EXCEPT !.key = k] = [asset |-> c.asset, key |-> k, provider |-> c.provider]
         /\ [c EXCEPT !.provider = p] = [asset |-> c.asset, key |-> c.key, provider |-> p]
<1> DEFINE x == c.asset
           y == c.key
           z == c.provider
           r == [asset |-> x, key |-> y, provider |-> z]
<1>1. c = r
  BY Zenon DEF Shaped
<1> HIDE DEF x, y, z
<1>2. /\ [r EXCEPT !.key = k] = [asset |-> x, key |-> k, provider |-> z]
      /\ [r EXCEPT !.provider = p] = [asset |-> x, key |-> y, provider |-> p]
  OBVIOUS
<1> HIDE DEF r
<1>3. /\ [c EXCEPT !.key = k] = [asset |-> x, key |-> k, provider |-> z]
      /\ [c EXCEPT !.provider = p] = [asset |-> x, key |-> y, provider |-> p]
  BY ONLY <1>1, <1>2, Zenon
<1> QED BY ONLY <1>3, Zenon DEF x, y, z

\* An asset, and a key, that is selected.
LEMMA WithAssetIs ==
  ASSUME NEW list, NEW c, NEW asset
  PROVE  WithAsset(list, c, asset) = [asset |-> asset, key |-> BestOf(list, asset), provider |-> c.provider]
BY Zenon DEF WithAsset

\* The asset goes with the key where the key is listed.
LEMMA WithKeyIs ==
  ASSUME NEW list, NEW c, NEW key
  PROVE  WithKey(list, c, key) =
           [asset |-> IF Find(list, key) = <<>> THEN c.asset ELSE Find(list, key)[1].asset,
            key |-> key, provider |-> c.provider]
BY Zenon DEF WithKey

\* What is heard: an asset,
LEMMA HeardAsset ==
  ASSUME NEW list, NEW c, NEW m, m.type = "asset"
  PROVE  Heard(list, c, m) = WithAsset(list, c, m.value)
BY Zenon DEF Heard

\* that no market is followed,
LEMMA HeardNone ==
  ASSUME NEW list, NEW c, NEW m, m.type = "market", m.value = None
  PROVE  Heard(list, c, m) = [c EXCEPT !.key = None]
BY DEF Heard

\* a market,
LEMMA HeardMarket ==
  ASSUME NEW list, NEW c, NEW m, m.type = "market", m.value # None
  PROVE  Heard(list, c, m) = WithKey(list, c, m.value)
BY DEF Heard

\* or a provider.
LEMMA HeardProvider ==
  ASSUME NEW list, NEW c, NEW m, m.type \notin {"asset", "market"}
  PROVE  Heard(list, c, m) = [c EXCEPT !.provider = m.value]
BY DEF Heard

\* And a selection it is again.
LEMMA HeardIs ==
  ASSUME NEW list, NEW c, Shaped(c), NEW m
  PROVE  Shaped(Heard(list, c, m))
<1>1. CASE m.type = "asset"
  <2>1. Heard(list, c, m) = WithAsset(list, c, m.value)
    BY <1>1, HeardAsset
  <2>2. Shaped(WithAsset(list, c, m.value))
    BY WithAssetIs DEF Shaped
  <2> QED BY <2>1, <2>2
<1>2. CASE m.type = "market" /\ m.value = None
  <2>1. Heard(list, c, m) = [c EXCEPT !.key = None]
    BY <1>2, HeardNone
  <2>2. Shaped([c EXCEPT !.key = None])
    BY Changes DEF Shaped
  <2> QED BY <2>1, <2>2
<1>3. CASE m.type = "market" /\ m.value # None
  <2>1. Heard(list, c, m) = WithKey(list, c, m.value)
    BY <1>3, HeardMarket
  <2>2. Shaped(WithKey(list, c, m.value))
    BY WithKeyIs DEF Shaped
  <2> QED BY <2>1, <2>2
<1>4. CASE m.type \notin {"asset", "market"}
  <2>1. Heard(list, c, m) = [c EXCEPT !.provider = m.value]
    BY <1>4, HeardProvider
  <2>2. Shaped([c EXCEPT !.provider = m.value])
    BY Changes DEF Shaped
  <2> QED BY <2>1, <2>2
<1> QED BY <1>1, <1>2, <1>3, <1>4

\* What is told of a change.
News(new) == {[type |-> "asset", value |-> new.asset], [type |-> "market", value |-> new.key],
              [type |-> "provider", value |-> new.provider]}

\* A message for each part that changed.
LEMMA ToldIn ==
  ASSUME NEW old, NEW new
  PROVE  Told(old, new) \in Seq(News(new))
<1> DEFINE ma == [type |-> "asset", value |-> new.asset]
           mk == [type |-> "market", value |-> new.key]
           mp == [type |-> "provider", value |-> new.provider]
           t1 == IF old.asset = new.asset THEN <<>> ELSE <<ma>>
           t2 == IF old.key = new.key THEN <<>> ELSE <<mk>>
           t3 == IF old.provider = new.provider THEN <<>> ELSE <<mp>>
<1>1. ma \in News(new) /\ mk \in News(new) /\ mp \in News(new)
  BY DEF News
<1>2. Told(old, new) = (t1 \o t2) \o t3
  BY Zenon DEF Told
<1> HIDE DEF ma, mk, mp
<1>3. t1 \in Seq(News(new)) /\ t2 \in Seq(News(new)) /\ t3 \in Seq(News(new))
  BY <1>1
<1> HIDE DEF t1, t2, t3
<1> QED BY <1>2, <1>3, ConcatProperties

\* What a selection tells of itself, the asset first, makes one who had selected what
\* was selected before select it.
Tellable(list, old, new) ==
  /\ Shaped(new) /\ KeyFits(list, new)
  /\ old.asset # new.asset /\ old.key = new.key => new.key = BestOf(list, new.asset)

\* So one who hears it comes to select the same.
LEMMA HearsTold ==
  ASSUME NEW S, NEW list \in Seq(S), NEW c, NEW told, NEW old, NEW new,
         Reaches(list, c, told, old), Shaped(old), Tellable(list, old, new)
  PROVE  Reaches(list, c, told \o Told(old, new), new)
<1> DEFINE t1 == IF old.asset = new.asset THEN <<>> ELSE <<[type |-> "asset", value |-> new.asset]>>
           t2 == IF old.key = new.key THEN <<>> ELSE <<[type |-> "market", value |-> new.key]>>
           t3 == IF old.provider = new.provider THEN <<>> ELSE <<[type |-> "provider", value |-> new.provider]>>
           key1 == IF old.asset = new.asset THEN old.key ELSE BestOf(list, new.asset)
           mid1 == [asset |-> new.asset, key |-> key1, provider |-> old.provider]
           mid2 == [asset |-> new.asset, key |-> new.key, provider |-> old.provider]
<1>1. PICK M : told \in Seq(M)
  BY ToldIsList
<1> DEFINE T == M \cup News(new)
<1>2. told \in Seq(T) /\ t1 \in Seq(T) /\ t2 \in Seq(T) /\ t3 \in Seq(T)
  <2>1. M \subseteq T /\ News(new) \subseteq T
    OBVIOUS
  <2>2. t1 \in Seq(News(new)) /\ t2 \in Seq(News(new)) /\ t3 \in Seq(News(new))
    <3> DEFINE ma == [type |-> "asset", value |-> new.asset]
               mk == [type |-> "market", value |-> new.key]
               mp == [type |-> "provider", value |-> new.provider]
    <3>1. ma \in News(new) /\ mk \in News(new) /\ mp \in News(new)
      BY DEF News
    <3> HIDE DEF ma, mk, mp
    <3>2. \A m \in News(new) : <<m>> \in Seq(News(new)) /\ <<>> \in Seq(News(new))
      OBVIOUS
    <3>3. <<ma>> \in Seq(News(new)) /\ <<mk>> \in Seq(News(new)) /\ <<mp>> \in Seq(News(new)) /\ <<>> \in Seq(News(new))
      BY <3>1, <3>2
    <3> QED BY <3>3, Zenon DEF ma, mk, mp
  <2> HIDE DEF t1, t2, t3, T
  <2> QED BY <1>1, <2>1, <2>2
<1>3. Told(old, new) = (t1 \o t2) \o t3
  BY DEF Told
<1>4. Reaches(list, c, told \o t1, mid1)
  <2>1. CASE old.asset = new.asset
    <3>1. told \o t1 = told /\ mid1 = old
      BY <1>1, <2>1 DEF Shaped
    <3> QED BY <3>1
  <2>2. CASE old.asset # new.asset
    <3> DEFINE m == [type |-> "asset", value |-> new.asset]
    <3>1. Heard(list, old, m) = WithAsset(list, old, new.asset)
      <4>1. m.type = "asset" /\ m.value = new.asset
        OBVIOUS
      <4> HIDE DEF m
      <4>2. Heard(list, old, m) = WithAsset(list, old, m.value)
        BY <4>1, HeardAsset
      <4> QED BY <4>1, <4>2
    <3>2. WithAsset(list, old, new.asset) = mid1
      BY <2>2, WithAssetIs
    <3>3. t1 = <<m>>
      BY <2>2
    <3>4. Reaches(list, c, told \o <<m>>, Heard(list, old, m))
      BY HearsOne
    <3> HIDE DEF m, mid1, t1
    <3> QED BY <3>1, <3>2, <3>3, <3>4
  <2> QED BY <2>1, <2>2
<1>5. Reaches(list, c, (told \o t1) \o t2, mid2)
  <2>1. CASE old.key = new.key
    <3>1. t2 = <<>> /\ (told \o t1) \o <<>> = told \o t1
      <4>1. told \o t1 \in Seq(T)
        BY <1>2, ConcatProperties
      <4> QED BY <2>1, <4>1, ConcatEmptySeq
    <3>2. mid1 = mid2
      BY <2>1 DEF Tellable
    <3> HIDE DEF mid1, mid2, t1, t2
    <3> QED BY <1>4, <3>1, <3>2
  <2>2. CASE old.key # new.key
    <3> DEFINE m == [type |-> "market", value |-> new.key]
    <3>1. Heard(list, mid1, m) = mid2
      <4>0. Shaped(mid1) /\ mid1.asset = new.asset /\ mid1.provider = old.provider
        BY DEF Shaped
      <4>m. m.type = "market" /\ m.value = new.key
        OBVIOUS
      <4>1. CASE new.key = None
        <5> HIDE DEF m, mid1
        <5>1. Heard(list, mid1, m) = [mid1 EXCEPT !.key = None]
          BY <4>m, <4>1, HeardNone
        <5>2. [mid1 EXCEPT !.key = None] = mid2
          BY <4>0, <4>1, Changes
        <5> HIDE DEF mid2
        <5> QED BY <5>1, <5>2
      <4>2. CASE new.key # None
        <5> HIDE DEF m, mid1
        <5>1. Heard(list, mid1, m) = WithKey(list, mid1, new.key)
          <6>1. Heard(list, mid1, m) = WithKey(list, mid1, m.value)
            BY <4>m, <4>2, HeardMarket
          <6> QED BY <4>m, <6>1
        <5>2. Find(list, new.key) # <<>> => Find(list, new.key)[1].asset = new.asset
          <6>1. \A n \in DOMAIN list : list[n].key = new.key => list[n].asset = new.asset
            BY <4>2 DEF Tellable, KeyFits
          <6> QED BY <6>1, FindIs
        <5>3. WithKey(list, mid1, new.key) = mid2
          BY <4>0, <5>2, WithKeyIs
        <5> HIDE DEF mid2
        <5> QED BY <5>1, <5>3
      <4> QED BY <4>1, <4>2
    <3>2. t2 = <<m>>
      BY <2>2
    <3> HIDE DEF m, mid1, mid2, t1, t2
    <3>3. Reaches(list, c, (told \o t1) \o <<m>>, Heard(list, mid1, m))
      BY <1>4, HearsOne
    <3> QED BY <3>1, <3>2, <3>3
  <2> QED BY <2>1, <2>2
<1>6. Reaches(list, c, ((told \o t1) \o t2) \o t3, new)
  <2>1. CASE old.provider = new.provider
    <3>1. t3 = <<>> /\ ((told \o t1) \o t2) \o <<>> = (told \o t1) \o t2
      <4>1. (told \o t1) \o t2 \in Seq(T)
        BY <1>2, ConcatProperties
      <4> QED BY <2>1, <4>1, ConcatEmptySeq
    <3>2. mid2 = new
      BY <2>1 DEF Tellable, Shaped
    <3> HIDE DEF mid2, t1, t2, t3
    <3> QED BY <1>5, <3>1, <3>2
  <2>2. CASE old.provider # new.provider
    <3> DEFINE m == [type |-> "provider", value |-> new.provider]
    <3>1. Heard(list, mid2, m) = new
      <4>0. Shaped(mid2)
        BY DEF Shaped
      <4>m. m.type = "provider" /\ m.value = new.provider
        OBVIOUS
      <4>k. mid2.asset = new.asset /\ mid2.key = new.key
        OBVIOUS
      <4> HIDE DEF m, mid2
      <4>1. Heard(list, mid2, m) = [mid2 EXCEPT !.provider = m.value]
        BY <4>m, HeardProvider
      <4>2. [mid2 EXCEPT !.provider = m.value] = [asset |-> new.asset, key |-> new.key, provider |-> new.provider]
        <5>1. [mid2 EXCEPT !.provider = m.value] = [asset |-> mid2.asset, key |-> mid2.key, provider |-> m.value]
          BY ONLY <4>0, Changes, Zenon
        <5> QED BY ONLY <5>1, <4>m, <4>k, Zenon
      <4>3. new = [asset |-> new.asset, key |-> new.key, provider |-> new.provider]
        BY Zenon DEF Tellable, Shaped
      <4> QED BY ONLY <4>1, <4>2, <4>3, Zenon
    <3>2. t3 = <<m>>
      BY <2>2
    <3> HIDE DEF m, mid2, t1, t2, t3
    <3>3. Reaches(list, c, ((told \o t1) \o t2) \o <<m>>, Heard(list, mid2, m))
      BY <1>5, HearsOne
    <3> QED BY <3>1, <3>2, <3>3
  <2> QED BY <2>1, <2>2
<1>7. told \o ((t1 \o t2) \o t3) = ((told \o t1) \o t2) \o t3
  <2> HIDE DEF t1, t2, t3, T
  <2>1. t1 \o t2 \in Seq(T) /\ told \o t1 \in Seq(T)
    BY <1>2, ConcatProperties
  <2>2. told \o ((t1 \o t2) \o t3) = (told \o (t1 \o t2)) \o t3
    BY <1>2, <2>1, ConcatAssociative
  <2>3. told \o (t1 \o t2) = (told \o t1) \o t2
    BY <1>2, ConcatAssociative
  <2> QED BY <2>2, <2>3
<1> HIDE DEF t1, t2, t3
<1> QED BY <1>3, <1>6, <1>7

\* What is posted of one change.
LEMMA PostedOfOne ==
  ASSUME NEW old, NEW a
  PROVE  Posted(old, <<a>>) = Told(old, a)
<1> DEFINE All(h) == [n \in 0 .. Len(<<a>>) |->
                        IF n = 0 THEN <<>>
                        ELSE h[n - 1] \o Told(IF n = 1 THEN old ELSE <<a>>[n - 1], <<a>>[n])]
           h == CHOOSE h : h = All(h)
           g == [n \in 0 .. 1 |-> IF n = 0 THEN <<>> ELSE Told(old, a)]
<1>1. Told(old, a) \in Seq(News(a))
  BY ToldIn
<1>2. <<>> \o Told(old, a) = Told(old, a)
  BY <1>1, ConcatEmptySeq
<1>3. Len(<<a>>) = 1 /\ <<a>>[1] = a
  OBVIOUS
<1>4. g = All(g)
  <2>1. \A n \in 0 .. 1 : n = 0 \/ n = 1
    OBVIOUS
  <2>2. g[0] = <<>> /\ g[1] = Told(old, a)
    OBVIOUS
  <2>3. \A n \in 0 .. 1 : g[n] = All(g)[n]
    BY <1>2, <1>3, <2>1, <2>2
  <2> QED BY <1>3, <2>3
<1>5. h = All(h)
  BY <1>4
<1>6. Posted(old, <<a>>) = h[Len(<<a>>)]
  BY DEF Posted
<1>7. h[0] = <<>> /\ h[1] = h[0] \o Told(old, a)
  <2>1. h[0] = All(h)[0] /\ h[1] = All(h)[1]
    BY <1>5
  <2> HIDE DEF h
  <2> QED BY <1>3, <2>1
<1> HIDE DEF h
<1> QED BY <1>2, <1>3, <1>6, <1>7

ThreeTold(old, a, b, d) == (Told(old, a) \o Told(a, b)) \o Told(b, d)

\* And of three.
LEMMA PostedOfThree ==
  ASSUME NEW old, NEW a, NEW b, NEW d
  PROVE  Posted(old, <<a, b, d>>) = ThreeTold(old, a, b, d)
<1> DEFINE list == <<a, b, d>>
           All(h) == [n \in 0 .. Len(list) |->
                        IF n = 0 THEN <<>>
                        ELSE h[n - 1] \o Told(IF n = 1 THEN old ELSE list[n - 1], list[n])]
           h == CHOOSE h : h = All(h)
           t1 == <<>> \o Told(old, a)
           t2 == t1 \o Told(a, b)
           t3 == t2 \o Told(b, d)
           g == [n \in 0 .. 3 |-> IF n = 0 THEN <<>> ELSE IF n = 1 THEN t1 ELSE IF n = 2 THEN t2 ELSE t3]
<1>1. Told(old, a) \in Seq(News(a))
  BY ToldIn
<1>2. t1 = Told(old, a)
  BY <1>1, ConcatEmptySeq
<1>3. Len(list) = 3 /\ list[1] = a /\ list[2] = b /\ list[3] = d
  OBVIOUS
<1>4. g = All(g)
  <2>1. \A n \in 0 .. 3 : n = 0 \/ n = 1 \/ n = 2 \/ n = 3
    OBVIOUS
  <2>2. g[0] = <<>> /\ g[1] = t1 /\ g[2] = t2 /\ g[3] = t3
    OBVIOUS
  <2> HIDE DEF g, list
  <2>3. /\ All(g)[0] = <<>> /\ All(g)[1] = g[0] \o Told(old, list[1])
        /\ All(g)[2] = g[1] \o Told(list[1], list[2]) /\ All(g)[3] = g[2] \o Told(list[2], list[3])
    BY <1>3
  <2>4. \A n \in 0 .. 3 : g[n] = All(g)[n]
    BY <1>3, <2>1, <2>2, <2>3
  <2>5. g = [n \in 0 .. 3 |-> g[n]]
    BY DEF g
  <2> QED BY <1>3, <2>4, <2>5
<1>5. h = All(h)
  BY <1>4
<1>6. Posted(old, list) = h[Len(list)]
  BY DEF Posted
<1> HIDE DEF h, list
<1>7. /\ h[0] = <<>> /\ h[1] = h[0] \o Told(old, a)
      /\ h[2] = h[1] \o Told(a, b) /\ h[3] = h[2] \o Told(b, d)
  <2>1. /\ h[0] = All(h)[0] /\ h[1] = All(h)[1]
        /\ h[2] = All(h)[2] /\ h[3] = All(h)[3]
    BY <1>5
  <2>2. /\ All(h)[0] = <<>> /\ All(h)[1] = h[0] \o Told(old, list[1])
        /\ All(h)[2] = h[1] \o Told(list[1], list[2]) /\ All(h)[3] = h[2] \o Told(list[2], list[3])
    BY <1>3
  <2> HIDE DEF All
  <2> QED BY <1>3, <2>1, <2>2
<1>8. Posted(old, list) = t3
  BY <1>3, <1>6, <1>7
<1>9. t3 = ThreeTold(old, a, b, d)
  BY <1>2 DEF ThreeTold
<1> QED BY <1>8, <1>9 DEF list

\* One who hears what is posted of three changes selects the last of them.
LEMMA HearsThree ==
  ASSUME NEW S, NEW list \in Seq(S), NEW c, NEW told, NEW old, NEW a, NEW b, NEW d,
         Reaches(list, c, told, old), Shaped(old),
         Tellable(list, old, a), Tellable(list, a, b), Tellable(list, b, d)
  PROVE  Reaches(list, c, told \o Posted(old, <<a, b, d>>), d)
<1> DEFINE t1 == Told(old, a)
           t2 == Told(a, b)
           t3 == Told(b, d)
<1>1. Shaped(a) /\ Shaped(b)
  BY DEF Tellable
<1>2. Reaches(list, c, told \o t1, a)
  BY HearsTold
<1>3. Reaches(list, c, (told \o t1) \o t2, b)
  BY <1>1, <1>2, HearsTold
<1>4. Reaches(list, c, ((told \o t1) \o t2) \o t3, d)
  BY <1>1, <1>3, HearsTold
<1>5. PICK M : told \in Seq(M)
  BY ToldIsList
<1>6. PICK T : told \in Seq(T) /\ t1 \in Seq(T) /\ t2 \in Seq(T) /\ t3 \in Seq(T)
  <2> DEFINE T == M \cup (News(a) \cup (News(b) \cup News(d)))
  <2>1. t1 \in Seq(News(a)) /\ t2 \in Seq(News(b)) /\ t3 \in Seq(News(d))
    BY ToldIn
  <2>2. M \subseteq T /\ News(a) \subseteq T /\ News(b) \subseteq T /\ News(d) \subseteq T
    OBVIOUS
  <2> HIDE DEF T, t1, t2, t3
  <2>3. told \in Seq(T) /\ t1 \in Seq(T) /\ t2 \in Seq(T) /\ t3 \in Seq(T)
    BY <1>5, <2>1, <2>2
  <2> QED BY <2>3
<1>7. Posted(old, <<a, b, d>>) = (t1 \o t2) \o t3
  <2>1. Posted(old, <<a, b, d>>) = ThreeTold(old, a, b, d)
    BY ONLY PostedOfThree, Zenon
  <2> QED BY ONLY <2>1, Zenon DEF ThreeTold, t1, t2, t3
<1> HIDE DEF t1, t2, t3
<1>8. t1 \o t2 \in Seq(T)
  BY <1>6, ConcatProperties
<1>9. told \o ((t1 \o t2) \o t3) = (told \o (t1 \o t2)) \o t3
  BY <1>6, <1>8, ConcatAssociative
<1>10. told \o (t1 \o t2) = (told \o t1) \o t2
  BY <1>6, ConcatAssociative
<1> QED BY <1>4, <1>7, <1>9, <1>10

\* The lists of a window.
LEMMA SlotListIs ==
  ASSUME NEW list \in {<<>>, SyncSlots}
  PROVE  /\ list \in Seq(ToSet(SyncSlots))
         /\ \A n, k \in DOMAIN list : list[n].key = list[k].key => list[n].asset = list[k].asset
<1>1. <<>> \in Seq(ToSet(SyncSlots)) /\ DOMAIN <<>> = {}
  OBVIOUS
<1>2. SyncSlots \in Seq(ToSet(SyncSlots)) /\ \A n \in DOMAIN SyncSlots : SyncSlots[n] \in ToSet(SyncSlots)
  BY SyncAssumption DEF ToSet
<1>3. \A n, k \in DOMAIN SyncSlots :
        SyncSlots[n].key = SyncSlots[k].key => SyncSlots[n].asset = SyncSlots[k].asset
  BY <1>2, SyncAssumption
<1> QED BY <1>1, <1>2, <1>3, Zenon

\* An asset that is selected takes its market along.
LEMMA AssetTells ==
  ASSUME NEW list \in {<<>>, SyncSlots}, NEW c, Shaped(c), NEW asset
  PROVE  Tellable(list, c, WithAsset(list, c, asset))
<1> DEFINE new == WithAsset(list, c, asset)
<1>1. new = [asset |-> asset, key |-> BestOf(list, asset), provider |-> c.provider]
  BY WithAssetIs
<1>2. BestOf(list, asset) # None =>
        \A n \in DOMAIN list : list[n].key = BestOf(list, asset) => list[n].asset = asset
  <2> SUFFICES ASSUME BestOf(list, asset) # None, NEW n \in DOMAIN list, list[n].key = BestOf(list, asset)
               PROVE  list[n].asset = asset
    OBVIOUS
  <2>1. LiveOf(list, asset) # <<>> /\ BestOf(list, asset) = LiveOf(list, asset)[1].key
    BY DEF BestOf
  <2>2. PICK k \in DOMAIN list : LiveOf(list, asset)[1] = list[k] /\ list[k].asset = asset
    BY <2>1, SlotListIs, LiveOfIs
  <2> QED BY <2>1, <2>2, SlotListIs
<1> HIDE DEF new
<1>3. new.asset = asset /\ new.key = BestOf(list, asset) /\ Shaped(new)
  BY <1>1 DEF Shaped
<1>4. Tellable(list, c, new)
  BY <1>2, <1>3 DEF Tellable, KeyFits
<1> QED BY <1>4 DEF new

\* A market that is selected takes its asset along.
LEMMA KeyTells ==
  ASSUME NEW list \in {<<>>, SyncSlots}, NEW c, Shaped(c), NEW key, key # None
  PROVE  /\ Shaped(WithKey(list, c, key))
         /\ KeyFits(list, c) => Tellable(list, c, WithKey(list, c, key))
<1> DEFINE new == WithKey(list, c, key)
           asset == IF Find(list, key) = <<>> THEN c.asset ELSE Find(list, key)[1].asset
<1>1. new = [asset |-> asset, key |-> key, provider |-> c.provider]
  BY WithKeyIs
<1>0. list \in Seq(ToSet(SyncSlots))
  BY SlotListIs
<1>2. \A n \in DOMAIN list : list[n].key = key => list[n].asset = asset
  <2>1. CASE Find(list, key) = <<>>
    BY <2>1, SlotListIs, FindIs
  <2>2. CASE Find(list, key) # <<>>
    <3>1. PICK k \in DOMAIN list : Find(list, key)[1] = list[k] /\ list[k].key = key
      BY <1>0, <2>2, FindIs
    <3> QED BY <2>2, <3>1, SlotListIs
  <2> QED BY <2>1, <2>2
<1>3. KeyFits(list, c) /\ c.key = key => c.asset = asset
  <2> SUFFICES ASSUME KeyFits(list, c), c.key = key, Find(list, key) # <<>>
               PROVE  c.asset = asset
    OBVIOUS
  <2>1. PICK k \in DOMAIN list : Find(list, key)[1] = list[k] /\ list[k].key = key
    BY <1>0, FindIs
  <2> QED BY <2>1 DEF KeyFits
<1> HIDE DEF new, asset
<1>4. new.asset = asset /\ new.key = key /\ Shaped(new)
  BY <1>1 DEF Shaped
<1>5. KeyFits(list, c) => Tellable(list, c, new)
  BY <1>2, <1>3, <1>4 DEF Tellable, KeyFits
<1> QED BY <1>4, <1>5 DEF new

\* So does a provider, which leaves both.
LEMMA ProviderTells ==
  ASSUME NEW list, NEW c, Shaped(c), NEW provider
  PROVE  /\ Shaped([c EXCEPT !.provider = provider])
         /\ KeyFits(list, c) => Tellable(list, c, [c EXCEPT !.provider = provider])
<1> DEFINE new == [c EXCEPT !.provider = provider]
<1>1. new = [asset |-> c.asset, key |-> c.key, provider |-> provider]
  BY DEF Shaped
<1> HIDE DEF new
<1>2. new.asset = c.asset /\ new.key = c.key /\ Shaped(new)
  BY <1>1 DEF Shaped
<1>3. KeyFits(list, c) => Tellable(list, c, new)
  BY <1>2 DEF Tellable, KeyFits
<1> QED BY <1>2, <1>3 DEF new

\* A window selects, and what the main one selects reaches the other.
LEMMA SelectsThree ==
  ASSUME SyncInv, NEW w \in Windows, NEW a, NEW b, NEW d, Selects(w, <<a, b, d>>), Shaped(d),
         KeyFits(lists[w], chosen[w]) =>
           /\ Tellable(lists[w], chosen[w], a) /\ Tellable(lists[w], a, b) /\ Tellable(lists[w], b, d)
  PROVE  SyncInv'
<1>1. <<a, b, d>>[Len(<<a, b, d>>)] = d
  OBVIOUS
<1> DEFINE posted == Posted(chosen[w], <<a, b, d>>)
<1>2. /\ chosen' = [chosen EXCEPT ![w] = d] /\ UNCHANGED <<sideOpen, lists>>
      /\ apart' = (apart \/ w = "side")
      /\ messages' = IF w = "main" /\ sideOpen THEN messages \o posted ELSE messages
  BY <1>1, Zenon DEF Selects
<1> HIDE DEF posted
<1>3. /\ chosen' = [v \in Windows |-> chosen'[v]] /\ \A v \in Windows : Shaped(chosen'[v])
      /\ \A v \in Windows : chosen'[v] = IF v = w THEN d ELSE chosen[v]
  BY <1>2 DEF SyncInv
<1>4. ASSUME sideOpen', ~apart'
      PROVE  /\ KeyFits(lists["main"], chosen'["main"])
             /\ Reaches(lists["side"], chosen'["side"], messages', chosen'["main"])
  <2>1. w = "main" /\ sideOpen /\ ~apart /\ "main" \in Windows /\ "side" \in Windows
    BY <1>2, <1>4 DEF Windows
  <2>2. /\ lists["side"] = lists["main"] /\ KeyFits(lists["main"], chosen["main"])
        /\ Reaches(lists["main"], chosen["side"], messages, chosen["main"])
        /\ lists["main"] \in {<<>>, SyncSlots} /\ Shaped(chosen["main"])
    BY <2>1 DEF SyncInv
  <2>3. chosen'["main"] = d /\ chosen'["side"] = chosen["side"] /\ messages' = messages \o posted
    BY <1>2, <1>3, <2>1
  <2>4. /\ Tellable(lists["main"], chosen["main"], a) /\ Tellable(lists["main"], a, b)
        /\ Tellable(lists["main"], b, d)
    BY <2>1, <2>2
  <2>5. Reaches(lists["main"], chosen["side"], messages \o Posted(chosen["main"], <<a, b, d>>), d)
    BY <2>2, <2>4, SlotListIs, HearsThree
  <2>6. posted = Posted(chosen["main"], <<a, b, d>>)
    BY <2>1 DEF posted
  <2>7. KeyFits(lists["main"], d)
    BY <2>4 DEF Tellable
  <2> QED BY <2>2, <2>3, <2>5, <2>6, <2>7
<1>5. /\ lists' = [v \in Windows |-> lists'[v]] /\ \A v \in Windows : lists'[v] \in {<<>>, SyncSlots}
      /\ sideOpen' /\ ~apart' => lists'["side"] = lists'["main"]
  BY <1>2 DEF SyncInv
<1> QED BY <1>2, <1>3, <1>4, <1>5, Zenon DEF SyncInv

\* The same of one change.
LEMMA SelectsOne ==
  ASSUME SyncInv, NEW d, Selects("main", <<d>>), Tellable(lists["main"], chosen["main"], d)
  PROVE  SyncInv'
<1>1. <<d>>[Len(<<d>>)] = d
  OBVIOUS
<1> DEFINE posted == Told(chosen["main"], d)
<1>2. /\ chosen' = [chosen EXCEPT !["main"] = d] /\ UNCHANGED <<sideOpen, lists>>
      /\ ~apart' => ~apart
      /\ sideOpen => messages' = messages \o posted
  <2>1. Posted(chosen["main"], <<d>>) = posted
    BY PostedOfOne
  <2>2. ~apart' => ~apart
    BY Zenon DEF Selects
  <2>3. /\ chosen' = [chosen EXCEPT !["main"] = <<d>>[Len(<<d>>)]]
        /\ messages' = IF "main" = "main" /\ sideOpen THEN messages \o Posted(chosen["main"], <<d>>) ELSE messages
        /\ UNCHANGED <<sideOpen, lists>>
    BY Zenon DEF Selects
  <2> QED BY <1>1, <2>1, <2>2, <2>3
<1> HIDE DEF posted
<1>3. /\ chosen' = [v \in Windows |-> chosen'[v]] /\ \A v \in Windows : Shaped(chosen'[v])
      /\ \A v \in Windows : chosen'[v] = IF v = "main" THEN d ELSE chosen[v]
  BY <1>2 DEF SyncInv, Tellable
<1>4. ASSUME sideOpen', ~apart'
      PROVE  /\ KeyFits(lists["main"], chosen'["main"])
             /\ Reaches(lists["side"], chosen'["side"], messages', chosen'["main"])
  <2>1. sideOpen /\ ~apart /\ "main" \in Windows /\ "side" \in Windows
    BY <1>2, <1>4 DEF Windows
  <2>2. /\ lists["side"] = lists["main"]
        /\ Reaches(lists["main"], chosen["side"], messages, chosen["main"])
        /\ lists["main"] \in {<<>>, SyncSlots} /\ Shaped(chosen["main"])
    BY <2>1 DEF SyncInv
  <2>3. chosen'["main"] = d /\ chosen'["side"] = chosen["side"] /\ messages' = messages \o posted
    BY <1>2, <1>3, <2>1
  <2>4. Reaches(lists["main"], chosen["side"], messages \o posted, d)
    BY <2>2, SlotListIs, HearsTold DEF posted
  <2>5. KeyFits(lists["main"], d)
    BY DEF Tellable
  <2> QED BY <2>2, <2>3, <2>4, <2>5
<1>5. /\ lists' = [v \in Windows |-> lists'[v]] /\ \A v \in Windows : lists'[v] \in {<<>>, SyncSlots}
      /\ sideOpen' /\ ~apart' => lists'["side"] = lists'["main"]
  BY <1>2 DEF SyncInv
<1> QED BY <1>2, <1>3, <1>4, <1>5, Zenon DEF SyncInv

\* Rows and products are picked, assets rotate, lists arrive, the other window hears.
LEMMA SyncStep ==
  ASSUME SyncInv, [SyncNext]_syncVars
  PROVE  SyncInv'
<1>0. /\ \A w \in Windows : lists[w] \in {<<>>, SyncSlots} /\ Shaped(chosen[w])
      /\ "main" \in Windows /\ "side" \in Windows
  BY DEF SyncInv, Windows
<1>1. ASSUME NEW w \in Windows, NEW n \in DOMAIN SyncSlots, NEW provider \in Providers,
             PickRow(w, SyncSlots[n], provider)
      PROVE  SyncInv'
  <2> DEFINE slot == SyncSlots[n]
             c0 == [chosen[w] EXCEPT !.provider = provider]
             c1 == WithAsset(lists[w], c0, slot.asset)
             c2 == WithKey(lists[w], c1, slot.key)
  <2>1. slot.key # None
    BY SyncAssumption DEF ToSet
  <2>2. Shaped(c0) /\ (KeyFits(lists[w], chosen[w]) => Tellable(lists[w], chosen[w], c0))
    BY <1>0, ProviderTells
  <2>3. Selects(w, <<c0, c1, c2>>)
    BY <1>1 DEF PickRow
  <2> HIDE DEF c0, slot
  <2>4. Tellable(lists[w], c0, c1)
    BY <1>0, <2>2, AssetTells
  <2>5. Shaped(c1) /\ KeyFits(lists[w], c1)
    BY <2>4 DEF Tellable
  <2> HIDE DEF c1
  <2>6. Shaped(c2) /\ Tellable(lists[w], c1, c2)
    BY <1>0, <2>1, <2>5, KeyTells
  <2> HIDE DEF c2
  <2> QED BY <2>2, <2>3, <2>4, <2>6, SelectsThree
<1>2. ASSUME NEW w \in Windows, NEW n \in DOMAIN SyncSlots, NEW provider \in Providers,
             PickProduct(w, SyncSlots[n], provider)
      PROVE  SyncInv'
  <2> DEFINE slot == SyncSlots[n]
             c0 == [chosen[w] EXCEPT !.provider = provider]
             c1 == WithKey(lists[w], c0, slot.key)
             c2 == WithAsset(lists[w], c1, slot.asset)
  <2>1. slot.key # None
    BY SyncAssumption DEF ToSet
  <2>2. Shaped(c0) /\ (KeyFits(lists[w], chosen[w]) => Tellable(lists[w], chosen[w], c0))
    BY <1>0, ProviderTells
  <2>3. Selects(w, <<c0, c1, c2>>)
    BY <1>2 DEF PickProduct
  <2> HIDE DEF c0, slot
  <2>4. Shaped(c1) /\ (KeyFits(lists[w], c0) => Tellable(lists[w], c0, c1))
    BY <1>0, <2>1, <2>2, KeyTells
  <2> HIDE DEF c1
  <2>5. Tellable(lists[w], c1, c2)
    BY <1>0, <2>4, AssetTells
  <2> HIDE DEF c2
  <2>6. KeyFits(lists[w], chosen[w]) => KeyFits(lists[w], c0)
    BY <2>2 DEF Tellable
  <2>7. Shaped(c2)
    BY <2>5 DEF Tellable
  <2> QED BY <2>2, <2>3, <2>4, <2>5, <2>6, <2>7, SelectsThree
<1>3. CASE Rotate
  <2>1. PICK asset : Selects("main", <<WithAsset(lists["main"], chosen["main"], asset)>>)
    BY <1>3 DEF Rotate
  <2> QED BY <1>0, <2>1, AssetTells, SelectsOne
<1>4. ASSUME NEW w \in Windows, MarketsArrive(w, SyncSlots)
      PROVE  SyncInv'
  <2>1. PICK next : /\ \/ next = chosen[w] \/ \E key : next = [chosen[w] EXCEPT !.key = key]
                    /\ chosen' = [chosen EXCEPT ![w] = next]
    BY <1>4 DEF MarketsArrive
  <2>2. Shaped(next)
    BY <1>0, <2>1 DEF Shaped
  <2>3. lists' = [lists EXCEPT ![w] = SyncSlots] /\ apart' = TRUE
    BY <1>4 DEF MarketsArrive
  <2>4. /\ chosen' = [v \in Windows |-> chosen'[v]] /\ \A v \in Windows : Shaped(chosen'[v])
    BY <2>1, <2>2 DEF SyncInv
  <2>5. /\ lists' = [v \in Windows |-> lists'[v]] /\ \A v \in Windows : lists'[v] \in {<<>>, SyncSlots}
    BY <2>3 DEF SyncInv
  <2> QED BY <2>3, <2>4, <2>5, Zenon DEF SyncInv
<1>5. CASE OpenSide
  <2>1. /\ chosen' = [chosen EXCEPT !["side"] = Start] /\ messages' = <<>>
        /\ lists' = [lists EXCEPT !["side"] = lists["main"]]
        /\ apart' = (chosen["main"] # Start)
    BY <1>5 DEF OpenSide
  <2>2. /\ Shaped(Start) /\ Start.key = None
    BY DEF Shaped, Start
  <2>3. /\ chosen' = [v \in Windows |-> chosen'[v]] /\ \A v \in Windows : Shaped(chosen'[v])
        /\ chosen'["main"] = chosen["main"] /\ chosen'["side"] = Start
    BY <1>0, <2>1, <2>2 DEF SyncInv
  <2>4. /\ lists' = [v \in Windows |-> lists'[v]] /\ \A v \in Windows : lists'[v] \in {<<>>, SyncSlots}
        /\ lists'["side"] = lists'["main"]
    BY <1>0, <2>1 DEF SyncInv
  <2>5. ~apart' => chosen'["main"] = Start
    BY <2>1, <2>3
  <2>6. KeyFits(lists'["main"], Start) /\ Reaches(lists'["side"], Start, <<>>, Start)
    BY <2>2, HearsNothing DEF KeyFits
  <2> QED BY <2>1, <2>3, <2>4, <2>5, <2>6 DEF SyncInv
<1>6. CASE CloseSide
  BY <1>6 DEF SyncInv, CloseSide
<1>7. CASE Hear
  <2> DEFINE heard == Heard(lists["side"], chosen["side"], messages[1])
  <2>1. /\ messages # <<>> /\ messages' = Tail(messages)
        /\ chosen' = [chosen EXCEPT !["side"] = heard]
        /\ UNCHANGED <<sideOpen, lists, apart>>
    BY <1>7 DEF Hear
  <2>2. Shaped(heard)
    <3>1. Shaped(chosen["side"])
      BY <1>0
    <3> QED BY <3>1, HeardIs
  <2>3. sideOpen /\ ~apart => Reaches(lists["side"], heard, Tail(messages), chosen["main"])
    BY <2>1, HearsFirst DEF SyncInv
  <2> HIDE DEF heard
  <2>4. /\ chosen' = [v \in Windows |-> chosen'[v]] /\ \A v \in Windows : Shaped(chosen'[v])
        /\ chosen'["main"] = chosen["main"] /\ chosen'["side"] = heard
    BY <1>0, <2>1, <2>2 DEF SyncInv
  <2> QED BY <2>1, <2>3, <2>4 DEF SyncInv
<1>8. CASE UNCHANGED syncVars
  BY <1>8 DEF SyncInv, syncVars
<1> QED BY <1>1, <1>2, <1>3, <1>4, <1>5, <1>6, <1>7, <1>8 DEF SyncNext

\* Both windows start alike, and none is popped out.
LEMMA SyncStart == ASSUME SyncInit PROVE SyncInv
BY DEF SyncInit, SyncInv, Shaped, Start

\* When everything is heard both select the same.
LEMMA SideFollows == ASSUME SyncInv PROVE SideFollowsMain
BY NothingToHear DEF SyncInv, SideFollowsMain

(* The store's markets.                                                    *)
VenueSlots == [listed : BOOLEAN, live : BOOLEAN, period : Nat]
HistoryPoints == [ts : Int, period : Nat]
MarketRows == [key : SlotKeys, asset : MarketAssets, rank : Nat, live : BOOLEAN, condition : Nat,
               points : Seq(HistoryPoints)]

\* A list of markets has a row of a slot at most, with the points of its period.
IsMarketList(list) ==
  /\ list \in Seq(MarketRows)
  /\ \A i, j \in DOMAIN list : list[i].key = list[j].key => i = j
  /\ \A i \in DOMAIN list : list[i].points = PointsOf([period |-> list[i].condition])

InTime(list) == \A i, j \in DOMAIN list : i < j => list[i].ts < list[j].ts

HasFocus(c) == c = [asset |-> c.asset, key |-> c.key, live |-> c.live]

MarketInv ==
  /\ HasFocus(focusOn)
  /\ venue \in [SlotKeys -> VenueSlots]
  /\ arriving # None => IsMarketList(arriving)
  /\ histories \in [Watched -> Seq(HistoryPoints)]
  /\ \A key \in Watched : InTime(histories[key])

\* Points of different times have as many before them as their place says.
LEMMA ByTimeIs ==
  ASSUME NEW P \in SUBSET HistoryPoints, IsFiniteSet(P), \A p, q \in P : p.ts = q.ts => p = q
  PROVE  ByTime(P) \in Seq(P) /\ InTime(ByTime(P))
<1> DEFINE Earlier(p) == {q \in P : q.ts < p.ts}
           N == Cardinality(P)
           f == [p \in P |-> Cardinality(Earlier(p)) + 1]
<1>1. N \in Nat /\ IsFiniteSet(1 .. N) /\ Cardinality(1 .. N) = N
  <2>1. N \in Nat
    BY FS_CardinalityType
  <2> QED BY <2>1, FS_Interval
<1>2. \A p \in P : p.ts \in Int
  BY DEF HistoryPoints
<1>3. ASSUME NEW p \in P
      PROVE  /\ IsFiniteSet(Earlier(p)) /\ Cardinality(Earlier(p)) \in Nat
             /\ Cardinality(Earlier(p)) < N
  <2>1. Earlier(p) \in SUBSET P /\ p \notin Earlier(p)
    BY <1>2
  <2> HIDE DEF Earlier
  <2>2. /\ IsFiniteSet(Earlier(p)) /\ Cardinality(Earlier(p)) <= Cardinality(P)
        /\ Cardinality(P) = Cardinality(Earlier(p)) => P = Earlier(p)
    BY <2>1, FS_Subset
  <2>3. Cardinality(Earlier(p)) \in Nat
    BY <2>2, FS_CardinalityType
  <2> QED BY <1>1, <2>1, <2>2, <2>3
<1>4. ASSUME NEW p \in P, NEW q \in P, p.ts < q.ts
      PROVE  Cardinality(Earlier(p)) < Cardinality(Earlier(q))
  <2>1. Earlier(p) \in SUBSET Earlier(q) /\ p \in Earlier(q) /\ p \notin Earlier(p)
    BY <1>2, <1>4
  <2> HIDE DEF Earlier
  <2>2. /\ Cardinality(Earlier(p)) <= Cardinality(Earlier(q))
        /\ Cardinality(Earlier(q)) = Cardinality(Earlier(p)) => Earlier(q) = Earlier(p)
    BY <1>3, <2>1, FS_Subset
  <2>3. Cardinality(Earlier(p)) \in Nat /\ Cardinality(Earlier(q)) \in Nat
    BY <1>3
  <2> QED BY <2>1, <2>2, <2>3
<1> HIDE DEF Earlier
<1>5. f \in Injection(P, 1 .. N)
  <2>1. f \in [P -> 1 .. N]
    BY <1>1, <1>3
  <2>2. ASSUME NEW p \in P, NEW q \in P, f[p] = f[q] PROVE p = q
    <3>1. Cardinality(Earlier(p)) = Cardinality(Earlier(q))
      BY <1>3, <2>2
    <3>2. ~(p.ts < q.ts) /\ ~(q.ts < p.ts)
      BY <1>3, <1>4, <3>1
    <3>3. p.ts = q.ts
      BY <1>2, <3>2
    <3> QED BY <3>3
  <2> HIDE DEF f
  <2> QED BY <2>1, <2>2, Zenon DEF Injection, IsInjective
<1>6. f \in Surjection(P, 1 .. N)
  BY <1>1, <1>5, FS_Injection
<1>7. \A n \in 1 .. N : \E p \in P : Cardinality(Earlier(p)) = n - 1
  <2>1. \A n \in 1 .. N : \E p \in P : f[p] = n
    BY <1>6, Zenon DEF Surjection
  <2> QED BY <1>1, <1>3, <2>1
<1>8. ByTime(P) = [n \in 1 .. N |-> CHOOSE p \in P : Cardinality(Earlier(p)) = n - 1]
  BY DEF ByTime, Earlier
<1>9. \A n \in 1 .. N : ByTime(P)[n] \in P /\ Cardinality(Earlier(ByTime(P)[n])) = n - 1
  BY <1>7, <1>8
<1>10. ByTime(P) \in Seq(P) /\ DOMAIN ByTime(P) = 1 .. N
  BY <1>1, <1>8, <1>9
<1>11. ASSUME NEW i \in 1 .. N, NEW j \in 1 .. N, i < j
       PROVE  ByTime(P)[i].ts < ByTime(P)[j].ts
  <2> DEFINE p == ByTime(P)[i]
             q == ByTime(P)[j]
  <2>1. p \in P /\ q \in P /\ Cardinality(Earlier(p)) = i - 1 /\ Cardinality(Earlier(q)) = j - 1
    BY <1>9
  <2> HIDE DEF p, q
  <2>2. p # q /\ ~(q.ts < p.ts)
    BY <1>1, <1>4, <1>11, <2>1
  <2>3. p.ts < q.ts
    BY <1>2, <2>1, <2>2
  <2> QED BY <2>3 DEF p, q
<1> QED BY <1>10, <1>11 DEF InTime

\* The last so many of a list.
LEMMA LastOnes ==
  ASSUME NEW S, NEW list \in Seq(S), NEW n \in Nat
  PROVE  /\ LastOf(list, n) \in Seq(S)
         /\ \E k \in Nat : \A i \in DOMAIN LastOf(list, n) : i + k \in DOMAIN list /\ LastOf(list, n)[i] = list[i + k]
<1> DEFINE k == Greater(1, Len(list) - n + 1)
<1>1. k \in Nat /\ k >= 1 /\ Len(list) \in Nat
  BY DEF Greater
<1> HIDE DEF k
<1>2. LastOf(list, n) = SubSeq(list, k, Len(list))
  BY DEF LastOf, k
<1>3. /\ SubSeq(list, k, Len(list)) \in Seq(S)
      /\ \A i \in DOMAIN SubSeq(list, k, Len(list)) :
           i + (k - 1) \in DOMAIN list /\ SubSeq(list, k, Len(list))[i] = list[i + (k - 1)]
  BY <1>1
<1>4. k - 1 \in Nat
  BY <1>1
<1> QED BY <1>2, <1>3, <1>4

\* Merged histories are in the order of time, and made of the points of both.
LEMMA MergedIs ==
  ASSUME NEW older \in Seq(HistoryPoints), NEW newer \in Seq(HistoryPoints)
  PROVE  /\ Merged(older, newer) \in Seq(HistoryPoints) /\ InTime(Merged(older, newer))
         /\ \A n \in DOMAIN Merged(older, newer) :
              \/ \E i \in DOMAIN older : Merged(older, newer)[n] = older[i]
              \/ \E i \in DOMAIN newer : Merged(older, newer)[n] = newer[i]
<1> DEFINE all == older \o newer
           First(i) == \A j \in 1 .. (i - 1) : all[j].ts # all[i].ts
           I == {i \in DOMAIN all : First(i)}
           firsts == {all[i] : i \in I}
<1>1. /\ all \in Seq(HistoryPoints) /\ DOMAIN all = 1 .. Len(all) /\ Len(all) \in Nat
      /\ \A i \in DOMAIN all : \/ \E k \in DOMAIN older : all[i] = older[k]
                               \/ \E k \in DOMAIN newer : all[i] = newer[k]
  <2>1. /\ all \in Seq(HistoryPoints) /\ Len(all) = Len(older) + Len(newer)
        /\ \A i \in 1 .. Len(older) + Len(newer) :
             all[i] = IF i <= Len(older) THEN older[i] ELSE newer[i - Len(older)]
    BY ConcatProperties
  <2> HIDE DEF all
  <2>2. /\ DOMAIN all = 1 .. Len(all) /\ DOMAIN older = 1 .. Len(older) /\ DOMAIN newer = 1 .. Len(newer)
        /\ Len(all) \in Nat /\ Len(older) \in Nat /\ Len(newer) \in Nat
    BY <2>1
  <2>3. ASSUME NEW i \in DOMAIN all
        PROVE  \/ \E k \in DOMAIN older : all[i] = older[k]
               \/ \E k \in DOMAIN newer : all[i] = newer[k]
    <3>1. CASE i <= Len(older)
      BY <2>1, <2>2, <3>1
    <3>2. CASE i > Len(older)
      <4>1. i - Len(older) \in DOMAIN newer /\ all[i] = newer[i - Len(older)]
        BY <2>1, <2>2, <3>2
      <4> QED BY <4>1
    <3> QED BY <2>2, <3>1, <3>2
  <2> QED BY <2>1, <2>2, <2>3
<1>2. Merged(older, newer) = LastOf(ByTime(firsts), MaxPoints)
  BY DEF Merged
<1> HIDE DEF all
<1>3. IsFiniteSet(firsts)
  <2>1. IsFiniteSet(I)
    <3>1. IsFiniteSet(1 .. Len(all)) /\ I \in SUBSET (1 .. Len(all))
      BY <1>1, FS_Interval
    <3> HIDE DEF I
    <3> QED BY <3>1, FS_Subset
  <2> DEFINE g == [i \in I |-> all[i]]
  <2>2. g \in Surjection(I, firsts)
    BY DEF Surjection
  <2> HIDE DEF g, firsts, I
  <2> QED BY <2>1, <2>2, FS_Surjection
<1>4. firsts \in SUBSET HistoryPoints
  BY <1>1
<1>5. ASSUME NEW p \in firsts, NEW q \in firsts, p.ts = q.ts PROVE p = q
  <2>1. PICK i \in DOMAIN all : p = all[i] /\ First(i)
    OBVIOUS
  <2>2. PICK j \in DOMAIN all : q = all[j] /\ First(j)
    OBVIOUS
  <2>3. ~(i < j) /\ ~(j < i)
    <3>1. i < j => i \in 1 .. (j - 1)
      BY <1>1
    <3>2. j < i => j \in 1 .. (i - 1)
      BY <1>1
    <3> QED BY <1>5, <2>1, <2>2, <3>1, <3>2
  <2>4. i = j
    BY <1>1, <2>3
  <2> QED BY <2>1, <2>2, <2>4
<1>6. \A p \in firsts : \E i \in DOMAIN all : p = all[i]
  OBVIOUS
<1> HIDE DEF firsts, I, First
<1>7. ByTime(firsts) \in Seq(firsts) /\ InTime(ByTime(firsts))
  BY <1>3, <1>4, <1>5, ByTimeIs
<1> DEFINE sorted == ByTime(firsts)
           m == LastOf(sorted, MaxPoints)
<1> HIDE DEF sorted
<1>s. MaxPoints \in Nat /\ sorted \in Seq(firsts)
  BY <1>7, MarketAssumption DEF sorted
<1>8. m \in Seq(firsts)
  BY <1>s, LastOnes
<1>9. PICK k \in Nat : \A i \in DOMAIN m : i + k \in DOMAIN ByTime(firsts) /\ m[i] = ByTime(firsts)[i + k]
  <2>1. \E k \in Nat : \A i \in DOMAIN m : i + k \in DOMAIN sorted /\ m[i] = sorted[i + k]
    BY ONLY <1>s, LastOnes, Zenon DEF m
  <2> QED BY ONLY <2>1, Zenon DEF sorted
<1> HIDE DEF m
<1>10. m \in Seq(HistoryPoints) /\ DOMAIN m \subseteq Nat /\ \A n \in DOMAIN m : m[n] \in firsts
  BY <1>4, <1>8
<1>11. InTime(m)
  <2> SUFFICES ASSUME NEW i \in DOMAIN m, NEW j \in DOMAIN m, i < j PROVE m[i].ts < m[j].ts
    BY DEF InTime
  <2>1. i + k < j + k
    BY <1>10
  <2>2. /\ i + k \in DOMAIN ByTime(firsts) /\ j + k \in DOMAIN ByTime(firsts)
        /\ m[i] = ByTime(firsts)[i + k] /\ m[j] = ByTime(firsts)[j + k]
    BY <1>9
  <2> QED BY <1>7, <2>1, <2>2 DEF InTime
<1>12. \A n \in DOMAIN m : \/ \E i \in DOMAIN older : m[n] = older[i]
                           \/ \E i \in DOMAIN newer : m[n] = newer[i]
  <2> SUFFICES ASSUME NEW n \in DOMAIN m
               PROVE  \/ \E i \in DOMAIN older : m[n] = older[i]
                      \/ \E i \in DOMAIN newer : m[n] = newer[i]
    OBVIOUS
  <2>1. PICK i \in DOMAIN all : m[n] = all[i]
    BY <1>6, <1>10
  <2> QED BY <1>1, <2>1
<1> QED BY <1>2, <1>10, <1>11, <1>12 DEF m, sorted

\* What a list carries for a slot's period.
LEMMA PointsAre ==
  ASSUME NEW slot, slot.period \in Nat
  PROVE  /\ PointsOf(slot) \in Seq(HistoryPoints) /\ PointsOf(slot) # <<>>
         /\ \A n \in DOMAIN PointsOf(slot) : PointsOf(slot)[n].period = slot.period
<1>1. /\ PointsOf(slot) = [n \in 1 .. 2 |-> [ts |-> 2 * slot.period + n, period |-> slot.period]]
      /\ \A n \in 1 .. 2 : [ts |-> 2 * slot.period + n, period |-> slot.period] \in HistoryPoints
  BY DEF PointsOf, HistoryPoints
<1>2. PointsOf(slot) \in Seq(HistoryPoints) /\ Len(PointsOf(slot)) = 2
  BY <1>1
<1> QED BY <1>1, <1>2

\* What the venue lists is such a list.
LEMMA ListNowIs ==
  ASSUME venue \in [SlotKeys -> VenueSlots]
  PROVE  IsMarketList(ListNow)
<1> DEFINE gone == {m \in ToSet(Listing) : ~venue[m.key].listed}
           carried == Without(Listing, gone)
           RowOf(m) == [key |-> m.key, asset |-> m.asset, rank |-> m.rank,
                      live |-> venue[m.key].live, condition |-> venue[m.key].period,
                      points |-> PointsOf(venue[m.key])]
<1>1. ListNow = [i \in DOMAIN carried |-> RowOf(carried[i])]
  BY DEF ListNow
<1>2. Listing \in Seq(ToSet(Listing))
  BY MarketAssumption
<1> HIDE DEF gone
<1>3. carried \in Seq(ToSet(Listing)) /\ Lists(Listing, carried)
  BY <1>2, WithoutIs
<1> HIDE DEF carried
<1>4. ASSUME NEW k \in DOMAIN Listing
      PROVE  /\ RowOf(Listing[k]) \in MarketRows /\ RowOf(Listing[k]).key = Listing[k].key
             /\ RowOf(Listing[k]).points = PointsOf([period |-> RowOf(Listing[k]).condition])
  <2> DEFINE m == Listing[k]
  <2>1. m.key \in SlotKeys /\ m.asset \in MarketAssets /\ m.rank \in Nat
    BY MarketAssumption DEF SlotKeys, MarketAssets
  <2>2. venue[m.key] \in VenueSlots
    BY <2>1
  <2>3. venue[m.key].live \in BOOLEAN /\ venue[m.key].period \in Nat
    BY <2>2 DEF VenueSlots
  <2> HIDE DEF m
  <2>4. PointsOf(venue[m.key]) \in Seq(HistoryPoints)
    BY <2>3, PointsAre
  <2>5. PointsOf([period |-> venue[m.key].period]) = PointsOf(venue[m.key])
    BY DEF PointsOf
  <2>6. /\ RowOf(m) \in MarketRows /\ RowOf(m).key = m.key
        /\ RowOf(m).points = PointsOf([period |-> RowOf(m).condition])
    BY <2>1, <2>3, <2>4, <2>5 DEF MarketRows
  <2> QED BY <2>6 DEF m
<1> HIDE DEF RowOf
<1>5. \A i \in DOMAIN carried : \E k \in DOMAIN Listing : carried[i] = Listing[k]
  BY <1>3 DEF Lists
<1>6. DOMAIN ListNow = DOMAIN carried /\ \A i \in DOMAIN carried : ListNow[i] = RowOf(carried[i])
  BY <1>1
<1>7. \A i \in DOMAIN ListNow : /\ ListNow[i] \in MarketRows /\ ListNow[i].key = carried[i].key
                                /\ ListNow[i].points = PointsOf([period |-> ListNow[i].condition])
  BY <1>4, <1>5, <1>6
<1>8. ListNow \in Seq(MarketRows)
  <2>1. DOMAIN carried = 1 .. Len(carried) /\ Len(carried) \in Nat
    BY <1>3
  <2>2. \A i \in 1 .. Len(carried) : RowOf(carried[i]) \in MarketRows
    BY <1>6, <1>7, <2>1
  <2> QED BY <1>1, <2>1, <2>2
<1>9. ASSUME NEW i \in DOMAIN ListNow, NEW j \in DOMAIN ListNow, i < j
      PROVE  ListNow[i].key # ListNow[j].key
  <2>1. PICK k \in DOMAIN Listing, l \in DOMAIN Listing : k < l /\ carried[i] = Listing[k] /\ carried[j] = Listing[l]
    BY <1>3, <1>6, <1>9 DEF Lists
  <2>2. k # l
    BY <1>2, <2>1
  <2>3. Listing[k].key # Listing[l].key
    BY <2>1, <2>2, MarketAssumption
  <2> QED BY <1>7, <2>1, <2>3
<1>10. \A i, j \in DOMAIN ListNow : i = j \/ i < j \/ j < i
  BY <1>8
<1>11. \A i, j \in DOMAIN ListNow : ListNow[i].key = ListNow[j].key => i = j
  BY <1>9, <1>10
<1> QED BY <1>7, <1>8, <1>11 DEF IsMarketList

\* A history goes on, or starts again with what the list carries.
LEMMA HistoryGoesOn ==
  ASSUME MarketInv, NEW list, IsMarketList(list), NEW wiped
  PROVE  /\ HistoryAfter(list, wiped) \in [Watched -> Seq(HistoryPoints)]
         /\ \A key \in Watched : InTime(HistoryAfter(list, wiped)[key])
         /\ \A key \in Watched, j \in DOMAIN list : key \in wiped /\ list[j].key = key =>
              \A n \in DOMAIN HistoryAfter(list, wiped)[key] :
                HistoryAfter(list, wiped)[key][n].period = list[j].condition
<1> DEFINE Older(key) == IF key \in wiped THEN <<>> ELSE histories[key]
           After(key) == IF Find(list, key) = <<>> \/ Find(list, key)[1].points = <<>> THEN Older(key)
                         ELSE Merged(Older(key), Find(list, key)[1].points)
<1>1. HistoryAfter(list, wiped) = [key \in Watched |-> After(key)]
  BY DEF HistoryAfter
<1>2. list \in Seq(MarketRows)
  BY DEF IsMarketList
<1>3. ASSUME NEW key \in Watched
      PROVE  Older(key) \in Seq(HistoryPoints) /\ InTime(Older(key))
  <2>1. histories[key] \in Seq(HistoryPoints) /\ InTime(histories[key])
    BY DEF MarketInv
  <2>2. <<>> \in Seq(HistoryPoints) /\ InTime(<<>>)
    BY DEF InTime
  <2> QED BY <2>1, <2>2
<1>4. ASSUME NEW key, Find(list, key) # <<>>
      PROVE  \E k \in DOMAIN list : /\ Find(list, key)[1] = list[k] /\ list[k].key = key
                                    /\ list[k].points \in Seq(HistoryPoints) /\ list[k].points # <<>>
                                    /\ \A n \in DOMAIN list[k].points : list[k].points[n].period = list[k].condition
  <2>1. PICK k \in DOMAIN list : Find(list, key)[1] = list[k] /\ list[k].key = key
    BY <1>2, <1>4, FindIs
  <2>2. list[k] \in MarketRows /\ list[k].points = PointsOf([period |-> list[k].condition])
    BY <1>2 DEF IsMarketList
  <2>3. list[k].condition \in Nat
    BY <2>2 DEF MarketRows
  <2> DEFINE slot == [period |-> list[k].condition]
  <2>4. slot.period = list[k].condition
    OBVIOUS
  <2> HIDE DEF slot
  <2>5. /\ PointsOf(slot) \in Seq(HistoryPoints) /\ PointsOf(slot) # <<>>
        /\ \A n \in DOMAIN PointsOf(slot) : PointsOf(slot)[n].period = slot.period
    BY <2>3, <2>4, PointsAre
  <2>6. list[k].points = PointsOf(slot)
    BY <2>2 DEF slot
  <2> QED BY <2>1, <2>4, <2>5, <2>6
<1> HIDE DEF Older
<1>5. ASSUME NEW key \in Watched
      PROVE  After(key) \in Seq(HistoryPoints) /\ InTime(After(key))
  <2>1. CASE Find(list, key) = <<>> \/ Find(list, key)[1].points = <<>>
    BY <1>3, <2>1
  <2>2. CASE Find(list, key) # <<>> /\ Find(list, key)[1].points # <<>>
    <3>1. Find(list, key)[1].points \in Seq(HistoryPoints)
      BY <1>4, <2>2
    <3>2. After(key) = Merged(Older(key), Find(list, key)[1].points)
      BY <2>2
    <3> HIDE DEF After
    <3> QED BY <1>3, <3>1, <3>2, MergedIs
  <2> QED BY <2>1, <2>2
<1>6. ASSUME NEW key \in Watched, NEW j \in DOMAIN list, key \in wiped, list[j].key = key,
             NEW n \in DOMAIN After(key)
      PROVE  After(key)[n].period = list[j].condition
  <2>1. Find(list, key) # <<>>
    BY <1>2, <1>6, FindIs
  <2>2. PICK k \in DOMAIN list : /\ Find(list, key)[1] = list[k] /\ list[k].key = key
                                /\ list[k].points \in Seq(HistoryPoints) /\ list[k].points # <<>>
                                /\ \A i \in DOMAIN list[k].points : list[k].points[i].period = list[k].condition
    BY <1>4, <2>1
  <2>3. k = j
    BY <1>6, <2>2 DEF IsMarketList
  <2>4. Older(key) = <<>> /\ <<>> \in Seq(HistoryPoints) /\ DOMAIN <<>> = {}
    BY <1>6 DEF Older
  <2>5. After(key) = Merged(<<>>, list[k].points)
    BY <2>1, <2>2, <2>4
  <2>6. PICK i \in DOMAIN list[k].points : After(key)[n] = list[k].points[i]
    <3> HIDE DEF After
    <3>1. n \in DOMAIN Merged(<<>>, list[k].points)
      BY <1>6, <2>5
    <3> DEFINE none == <<>>
               newer == list[k].points
               merged == Merged(none, newer)
    <3>2. /\ none \in Seq(HistoryPoints) /\ newer \in Seq(HistoryPoints) /\ DOMAIN none = {}
          /\ n \in DOMAIN merged /\ After(key) = merged
      BY <2>2, <2>4, <2>5, <3>1
    <3> HIDE DEF none, newer
    <3>3. \/ \E i \in DOMAIN none : merged[n] = none[i]
          \/ \E i \in DOMAIN newer : merged[n] = newer[i]
      <4>1. none \in Seq(HistoryPoints) /\ newer \in Seq(HistoryPoints)
        BY <3>2
      <4>2. \A l \in DOMAIN Merged(none, newer) :
              \/ \E i \in DOMAIN none : Merged(none, newer)[l] = none[i]
              \/ \E i \in DOMAIN newer : Merged(none, newer)[l] = newer[i]
        BY ONLY <4>1, MergedIs
      <4>3. n \in DOMAIN merged
        BY <3>2
      <4> QED BY ONLY <4>2, <4>3, Zenon
    <3> HIDE DEF merged
    <3>4. \E i \in DOMAIN newer : After(key)[n] = newer[i]
      BY <3>2, <3>3
    <3> QED BY <3>4 DEF newer
  <2> HIDE DEF After
  <2> QED BY <2>2, <2>3, <2>6
<1> HIDE DEF After
<1> QED BY <1>1, <1>5, <1>6

\* The venue moves, lists and snapshots arrive, books and ticks come in.
LEMMA MarketStep ==
  ASSUME MarketInv, [MarketNext]_marketVars
  PROVE  MarketInv'
<1>1. CASE ListArrives
  <2>1. arriving # None /\ arriving' = None /\ venue' = venue
        /\ histories' = HistoryAfter(arriving, Rotated(arriving))
    BY <1>1 DEF ListArrives, SetMarkets
  <2>2. focusOn' = [focusOn EXCEPT !.key = Followed(arriving), !.live = TRUE]
    BY <1>1 DEF ListArrives, SetMarkets
  <2>3. HasFocus(focusOn')
    BY <2>2 DEF MarketInv, HasFocus
  <2> QED BY <2>1, <2>3, HistoryGoesOn DEF MarketInv
<1>2. CASE LoadSnapshot
  <2>1. UNCHANGED <<venue, arriving>> /\ histories' = HistoryAfter(ListNow, {})
    BY <1>2 DEF LoadSnapshot
  <2>2. IsMarketList(ListNow)
    BY ListNowIs DEF MarketInv
  <2>3. \E live : focusOn' = [focusOn EXCEPT !.live = live]
    BY <1>2 DEF LoadSnapshot
  <2>4. HasFocus(focusOn')
    BY <2>3 DEF MarketInv, HasFocus
  <2> QED BY <2>1, <2>2, <2>4, HistoryGoesOn DEF MarketInv
<1>3. CASE AskMarkets
  <2>1. UNCHANGED <<venue, histories, focusOn>> /\ arriving' = ListNow
    BY <1>3 DEF AskMarkets
  <2>2. IsMarketList(ListNow)
    BY ListNowIs DEF MarketInv
  <2> QED BY <2>1, <2>2 DEF MarketInv
<1>4. ASSUME NEW key, \/ NextPeriod(key) \/ (key \in SlotKeys /\ (GoesQuiet(key) \/ Unlists(key)))
      PROVE  MarketInv'
  <2>1. UNCHANGED <<histories, arriving, focusOn>>
    BY <1>4 DEF NextPeriod, GoesQuiet, Unlists, VenueMoves
  <2> DEFINE slot == venue[key]
  <2>2. \/ venue' = [venue EXCEPT ![key] = [slot EXCEPT !.period = slot.period + 1]]
        \/ venue' = [venue EXCEPT ![key] = [slot EXCEPT !.live = FALSE]]
        \/ venue' = [venue EXCEPT ![key] = [listed |-> FALSE, live |-> FALSE, period |-> slot.period]]
    BY <1>4, Zenon DEF NextPeriod, GoesQuiet, Unlists, VenueMoves
  <2>3. venue' \in [SlotKeys -> VenueSlots]
    <3>1. CASE key \in SlotKeys
      <4>1. slot \in VenueSlots
        BY <3>1 DEF MarketInv
      <4> HIDE DEF slot
      <4>2. /\ [slot EXCEPT !.period = slot.period + 1] \in VenueSlots
            /\ [slot EXCEPT !.live = FALSE] \in VenueSlots
            /\ [listed |-> FALSE, live |-> FALSE, period |-> slot.period] \in VenueSlots
        <5>1. [slot EXCEPT !.period = slot.period + 1] \in VenueSlots
          BY <4>1 DEF VenueSlots
        <5>2. [slot EXCEPT !.live = FALSE] \in VenueSlots
          BY <4>1 DEF VenueSlots
        <5>3. [listed |-> FALSE, live |-> FALSE, period |-> slot.period] \in VenueSlots
          BY <4>1 DEF VenueSlots
        <5> QED BY <5>1, <5>2, <5>3, Zenon
      <4>3. PICK new \in VenueSlots : venue' = [venue EXCEPT ![key] = new]
        BY <2>2, <4>2
      <4> QED BY <4>3 DEF MarketInv
    <3>2. CASE key \notin SlotKeys
      <4> HIDE DEF slot
      <4>1. PICK new : venue' = [venue EXCEPT ![key] = new]
        BY <2>2
      <4> QED BY <3>2, <4>1 DEF MarketInv
    <3> QED BY <3>1, <3>2
  <2> QED BY <2>1, <2>3 DEF MarketInv
<1>5. ASSUME \/ RotateAsset \/ \E key \in SlotKeys : SelectKey(key) \/ SelectSymbol(key) \/ SelectRow(key)
             \/ \E asset \in MarketAssets : SelectAsset(asset)
      PROVE  MarketInv'
  <2>1. UNCHANGED <<venue, histories, arriving>>
    BY <1>5 DEF RotateAsset, SelectKey, SelectSymbol, SelectRow, SelectAsset, Unmoved
  <2> DEFINE Moved == \E asset, key : focusOn' = [focusOn EXCEPT !.asset = asset, !.key = key]
  <2>2. Moved
    <3>1. RotateAsset => \E asset : SetActiveAsset(asset)
      BY Zenon DEF RotateAsset
    <3>2. (\E asset : SetActiveAsset(asset)) => Moved
      BY Zenon DEF SetActiveAsset
    <3>3. \A key : SelectKey(key) => Moved
      <4> SUFFICES ASSUME NEW key, SelectKey(key) PROVE Moved
        OBVIOUS
      <4>1. focusOn' = [focusOn EXCEPT !.key = key,
                  !.asset = IF Find(markets, key) # <<>> THEN Find(markets, key)[1].asset ELSE @]
        BY DEF SelectKey, SetActiveMarketKey
      <4>2. PICK asset : asset = IF Find(markets, key) # <<>> THEN Find(markets, key)[1].asset ELSE focusOn.asset
        OBVIOUS
      <4>3. focusOn' = [focusOn EXCEPT !.asset = asset, !.key = key]
        BY <4>1, <4>2 DEF MarketInv, HasFocus
      <4> QED BY <4>3, Zenon
    <3>4. \A key : SelectSymbol(key) => \E asset : SetActiveAsset(asset)
      BY Zenon DEF SelectSymbol
    <3>5. \A asset : SelectAsset(asset) => SetActiveAsset(asset)
      BY Zenon DEF SelectAsset
    <3>6. \A key : SelectRow(key) => Moved
      BY Zenon DEF SelectRow
    <3> QED BY <1>5, <3>1, <3>2, <3>3, <3>4, <3>5, <3>6, Zenon
  <2>3. HasFocus(focusOn')
    BY <2>2 DEF MarketInv, HasFocus
  <2> QED BY <2>1, <2>3 DEF MarketInv
<1>6. CASE UNCHANGED <<venue, histories, arriving, focusOn>>
  BY <1>6 DEF MarketInv
<1>7. (\E key \in Watched : SetPolyBook(key) \/ PushPolyTick(key)) \/ UNCHANGED marketVars
      => UNCHANGED <<venue, histories, arriving, focusOn>>
  BY DEF SetPolyBook, PushPolyTick, marketVars
<1> QED BY <1>1, <1>2, <1>3, <1>4, <1>5, <1>6, <1>7, Zenon DEF MarketNext

\* Only the arrival of a list takes one off the way.
LEMMA OnlyListsApply ==
  ASSUME [MarketNext]_marketVars, ListApplied
  PROVE  ListArrives
<1>1. \/ LoadSnapshot \/ AskMarkets
      \/ RotateAsset \/ \E key \in SlotKeys : SelectKey(key) \/ SelectSymbol(key) \/ SelectRow(key)
      \/ \E key \in SlotKeys : GoesQuiet(key) \/ Unlists(key)
      \/ \E key \in Watched : NextPeriod(key) \/ SetPolyBook(key) \/ PushPolyTick(key)
      \/ \E asset \in MarketAssets : SelectAsset(asset)
      \/ UNCHANGED marketVars
      => arriving' = arriving \/ arriving = None
  BY DEF LoadSnapshot, AskMarkets, RotateAsset, SelectKey, SelectSymbol, SelectRow, GoesQuiet, Unlists, NextPeriod,
         VenueMoves, SetPolyBook, PushPolyTick, SelectAsset, Unmoved, marketVars
<1>2. arriving' # arriving /\ arriving # None
  BY DEF ListApplied
<1> QED BY <1>1, <1>2, Zenon DEF MarketNext

\* What a list leaves of a slot it shows in a new contract.
LEMMA RotationIsClean ==
  ASSUME MarketInv, ListArrives,
         NEW key \in Watched, NEW i \in DOMAIN markets, NEW j \in DOMAIN markets',
         markets[i].key = key, markets'[j].key = key, markets[i].condition # markets'[j].condition
  PROVE  /\ ticks'[key] = <<>> /\ marketBooks'[key] = None
         /\ \A n \in DOMAIN histories'[key] : histories'[key][n].period = markets'[j].condition
<1> DEFINE wiped == Rotated(arriving)
<1>1. /\ IsMarketList(arriving) /\ markets' = Bare(arriving) /\ histories' = HistoryAfter(arriving, wiped)
      /\ ticks' = [k \in Watched |-> IF k \in wiped THEN <<>> ELSE ticks[k]]
      /\ marketBooks' = [k \in Watched |-> IF k \in wiped THEN None ELSE marketBooks[k]]
  BY DEF ListArrives, SetMarkets, MarketInv
<1>2. /\ j \in DOMAIN arriving /\ arriving[j].key = key /\ arriving[j].condition = markets'[j].condition
      /\ key \in SlotKeys
  <2>1. j \in DOMAIN arriving /\ markets'[j] = [arriving[j] EXCEPT !.points = <<>>]
    BY <1>1 DEF Bare
  <2>2. arriving[j] \in MarketRows
    BY <1>1, <2>1 DEF IsMarketList
  <2>3. /\ markets'[j].key = arriving[j].key /\ markets'[j].condition = arriving[j].condition
        /\ arriving[j].key \in SlotKeys
    BY <2>1, <2>2 DEF MarketRows
  <2> QED BY <2>1, <2>3
<1>3. key \in wiped
  BY <1>2 DEF Rotated
<1> HIDE DEF wiped
<1> QED BY <1>1, <1>2, <1>3, HistoryGoesOn

\* The least of a set of numbers.
LEMMA LeastOf ==
  ASSUME NEW U \in SUBSET Nat, U # {}
  PROVE  \E x \in U : \A y \in U : x <= y
<1>1. PICK x \in U : \A y \in U : ~ (<<y, x>> \in OpToRel(<, Nat))
  BY NatLessThanWellFounded, WFMin
<1>2. \A y \in U : ~ (y < x)
  BY <1>1 DEF OpToRel
<1> QED BY <1>2

\* The best of some markets is one of them.
LEMMA BestIsOne ==
  ASSUME NEW S, NEW live \in Seq(S), live # <<>>, \A i \in DOMAIN live : live[i].rank \in Nat
  PROVE  \E i \in DOMAIN live : Best(live) = live[i].key
<1> DEFINE ranked == {i \in DOMAIN live : live[i].rank > 0}
           IsFirst(i) == \A j \in ranked \ {i} :
                           live[i].rank < live[j].rank \/ (live[i].rank = live[j].rank /\ i < j)
           place == IF ranked = {} THEN 1 ELSE CHOOSE i \in ranked : IsFirst(i)
<1>1. Best(live) = live[place].key
  BY DEF Best
<1>2. 1 \in DOMAIN live /\ DOMAIN live \subseteq Nat
  OBVIOUS
<1>3. ASSUME ranked # {} PROVE \E i \in ranked : IsFirst(i)
  <2> DEFINE ranks == {live[i].rank : i \in ranked}
  <2>1. ranks \in SUBSET Nat /\ ranks # {}
    BY <1>3
  <2>2. PICK r \in ranks : \A q \in ranks : r <= q
    <3> HIDE DEF ranks
    <3> QED BY <2>1, LeastOf
  <2> DEFINE U == {i \in ranked : live[i].rank = r}
  <2>3. U \in SUBSET Nat /\ U # {}
    BY <1>2, <2>2
  <2>4. PICK i \in U : \A j \in U : i <= j
    <3> HIDE DEF U
    <3> QED BY <2>3, LeastOf
  <2>5. i \in ranked /\ live[i].rank = r
    OBVIOUS
  <2>6. ASSUME NEW j \in ranked, j # i
        PROVE  live[i].rank < live[j].rank \/ (live[i].rank = live[j].rank /\ i < j)
    <3>1. r <= live[j].rank /\ live[j].rank \in Nat /\ r \in Nat /\ i \in Nat /\ j \in Nat
      BY <1>2, <2>1, <2>2
    <3>2. live[j].rank = r => i <= j
      BY <2>4
    <3> QED BY <2>5, <2>6, <3>1, <3>2
  <2> QED BY <2>5, <2>6
<1>4. place \in DOMAIN live
  <2>1. CASE ranked = {}
    BY <1>2, <2>1
  <2>2. CASE ranked # {}
    <3>1. (CHOOSE i \in ranked : IsFirst(i)) \in ranked
      BY <1>3, <2>2
    <3> QED BY <2>2, <3>1
  <2> QED BY <2>1, <2>2
<1> HIDE DEF place
<1> QED BY <1>1, <1>4

\* After a list with something live what is followed is live.
LEMMA FollowsTheLive ==
  ASSUME MarketInv, ListArrives, NEW n \in DOMAIN markets', markets'[n].live
  PROVE  \E i \in DOMAIN markets' : markets'[i].key = focusOn'.key /\ markets'[i].live
<1> DEFINE list == arriving
           key == focusOn.key
           current == IF key = None THEN <<>> ELSE Find(list, key)
<1>1. IsMarketList(list) /\ markets' = Bare(list) /\ focusOn' = [focusOn EXCEPT !.key = Followed(list), !.live = TRUE]
  BY DEF ListArrives, SetMarkets, MarketInv
<1>2. list \in Seq(MarketRows) /\ DOMAIN markets' = DOMAIN list
  BY <1>1 DEF IsMarketList, Bare
<1>3. \A i \in DOMAIN list : /\ markets'[i].key = list[i].key /\ markets'[i].live = list[i].live
                              /\ list[i].key # None /\ list[i].rank \in Nat
  <2> SUFFICES ASSUME NEW i \in DOMAIN list
               PROVE  /\ markets'[i].key = list[i].key /\ markets'[i].live = list[i].live
                      /\ list[i].key # None /\ list[i].rank \in Nat
    OBVIOUS
  <2>1. list[i] \in MarketRows /\ markets'[i] = [list[i] EXCEPT !.points = <<>>]
    BY <1>1, <1>2 DEF Bare
  <2>2. list[i].key \in SlotKeys
    BY <2>1 DEF MarketRows
  <2> HIDE DEF list
  <2> QED BY <2>1, <2>2, MarketAssumption DEF MarketRows, SlotKeys
<1>4. focusOn'.key = Followed(list)
  BY <1>1 DEF MarketInv, HasFocus
<1> HIDE DEF list
<1>5. \E i \in DOMAIN list : list[i].key = Followed(list) /\ list[i].live
  <2> DEFINE liveOnes == AllLive(list)
             asset == IF key # None THEN Slot(key).head
                      ELSE IF liveOnes # <<>> THEN liveOnes[1].asset ELSE "ES"
             pick == IF LiveOf(list, asset) # <<>> THEN Best(LiveOf(list, asset))
                     ELSE IF liveOnes # <<>> THEN liveOnes[1].key ELSE None
  <2>1. Followed(list) = IF (current = <<>> \/ ~current[1].live) /\ pick # None THEN pick ELSE key
    BY DEF Followed
  <2>2. PICK k \in DOMAIN list : liveOnes # <<>> /\ liveOnes[1] = list[k] /\ list[k].live
    BY <1>2, <1>3, AllLiveIs
  <2> HIDE DEF asset, current
  <2>3. \E i \in DOMAIN list : list[i].key = pick /\ list[i].live
    <3>1. CASE LiveOf(list, asset) # <<>>
      <4> DEFINE some == LiveOf(list, asset)
      <4>1. /\ some \in Seq(MarketRows)
            /\ \A i \in DOMAIN some : \E l \in DOMAIN list : some[i] = list[l] /\ list[l].live
        BY <1>2, LiveOfIs
      <4>2. pick = Best(some)
        BY <3>1
      <4> HIDE DEF some, pick
      <4>3. \A i \in DOMAIN some : some[i].rank \in Nat
        BY <1>3, <4>1
      <4>4. PICK i \in DOMAIN some : Best(some) = some[i].key
        BY <3>1, <4>1, <4>3, BestIsOne DEF some
      <4> QED BY <4>1, <4>2, <4>4
    <3>2. CASE LiveOf(list, asset) = <<>>
      BY <2>2, <3>2
    <3> QED BY <3>1, <3>2
  <2> HIDE DEF pick
  <2>4. CASE current = <<>> \/ ~current[1].live
    <3>1. pick # None
      BY <1>3, <2>3
    <3> QED BY <2>1, <2>3, <2>4, <3>1
  <2>5. CASE current # <<>> /\ current[1].live
    <3>1. Followed(list) = key
      BY <2>1, <2>5
    <3>2. current = Find(list, key) /\ Find(list, key) # <<>>
      BY <2>5 DEF current
    <3>3. PICK i \in DOMAIN list : Find(list, key)[1] = list[i] /\ list[i].key = key
      BY <1>2, <3>2, FindIs
    <3> QED BY <2>5, <3>1, <3>2, <3>3
  <2> QED BY <2>4, <2>5
<1> QED BY <1>2, <1>3, <1>4, <1>5

\* Nothing was listed yet.
LEMMA MarketStart == ASSUME MarketInit PROVE MarketInv
<1>1. <<>> \in Seq(HistoryPoints) /\ InTime(<<>>)
  BY DEF InTime
<1> QED BY <1>1 DEF MarketInit, MarketInv, HasFocus, VenueSlots

\* What is shown of a market is of that market: a ladder's book is of its product whatever
\* answers are on their way; a contract that rotates leaves no history, tape or book of the
\* last one, and is not followed when it is over; and a window popped out of another shows
\* the market selected there once it has heard everything.
THEOREM ShownStaysOfTheMarket == ViewSpec /\ MarketSpec /\ SyncSpec => ShownIsOfTheMarket
<1>1. ViewInit => ViewInv
  BY DEF ViewInit, ViewInv
<1>2. ViewInv /\ [ViewNext]_viewVars => ViewInv' /\ [depth' # depth => depth'.symbol = shownSymbol']_viewVars
  BY ViewStep
<1>3. MarketInit => MarketInv
  BY MarketStart
<1>4. MarketInv /\ [MarketNext]_marketVars => MarketInv'
  BY MarketStep
<1>5. MarketInv /\ [MarketNext]_marketVars =>
        [ListApplied => \A key \in Watched, i \in DOMAIN markets, j \in DOMAIN markets' :
         (markets[i].key = key /\ markets'[j].key = key
            /\ markets[i].condition # markets'[j].condition)
         => /\ ticks'[key] = <<>> /\ marketBooks'[key] = None
            /\ \A n \in DOMAIN histories'[key] :
                 histories'[key][n].period = markets'[j].condition]_marketVars
  BY OnlyListsApply, RotationIsClean
<1>6. MarketInv /\ [MarketNext]_marketVars =>
        [(ListApplied /\ \E i \in DOMAIN markets' : markets'[i].live)
         => \E i \in DOMAIN markets' :
              markets'[i].key = focusOn'.key /\ markets'[i].live]_marketVars
  BY OnlyListsApply, FollowsTheLive
<1>7. SyncInit => SyncInv
  BY SyncStart
<1>8. SyncInv /\ [SyncNext]_syncVars => SyncInv'
  BY SyncStep
<1>9. SyncInv => SideFollowsMain
  BY SideFollows
<1> QED BY <1>1, <1>2, <1>3, <1>4, <1>5, <1>6, <1>7, <1>8, <1>9, PTL
        DEF ViewSpec, MarketSpec, SyncSpec, ShownIsOfTheMarket, BookOfItsProduct, RotationStartsClean, FollowedIsLive

\* A history is in the order of time, whatever lists and snapshots were merged.
THEOREM HistoriesStayInOrder == MarketSpec => []HistoryInOrder
<1>1. MarketInit => MarketInv
  BY MarketStart
<1>2. MarketInv /\ [MarketNext]_marketVars => MarketInv'
  BY MarketStep
<1>3. MarketInv => HistoryInOrder
  BY DEF MarketInv, HistoryInOrder, InTime
<1> QED BY <1>1, <1>2, <1>3, PTL DEF MarketSpec
=============================================================================
