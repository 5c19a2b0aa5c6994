------------------------------ MODULE AlgoDesk -------------------------------
(***************************************************************************)
(* The algo library of the terminal, the builder and the manager windows   *)
(* (WorkspaceDesktop.tsx).  Every window of a tab keeps a copy of the      *)
(* library; a change is written to localStorage and sent to the windows of *)
(* the tab by an event, while another tab reads the stored library again   *)
(* whenever the browser tells it that anything was stored.  A window that  *)
(* is opened takes the stored library and asks the gateway for its         *)
(* definitions.  Deploys and Kill All are calls to the gateway whose       *)
(* answers come when they come.                                            *)
(***************************************************************************)
EXTENDS Terminal, FiniteSets

CONSTANTS
  Algos,
  Managers, Builders,  \* windows: instances of AlgoManagerWindow and AlgoBuilderWindow
  Tabs,
  Seatings,            \* in which tabs the windows may be opened
  SavedAs,             \* statuses the builder saves, of "draft" and "held"
  MaxWaiting           \* bound on the answers of the gateway awaited at once

Hooks == Managers \cup Builders          \* each uses useAlgoLibrary
Statuses == {"draft", "held", "quoting", "paused"}

ASSUME AlgoDeskAssumption ==
  /\ Managers \cap Builders = {} /\ Seatings \subseteq [Hooks -> Tabs]
  /\ SavedAs \subseteq {"draft", "held"} /\ MaxWaiting \in Nat
  /\ None \notin Statuses

Library == [Algos -> Statuses \cup {None}]         \* None: not in the list
NoAlgos == [a \in Algos |-> None]

VARIABLES
  tabOf,             \* the tab of each window
  defs,              \* external: the gateway's definitions
  algoOrders,        \* external: the algos that have working orders at the gateway
  store,             \* ALGO_LIBRARY_KEY
  lib,               \* algos of each window
  fetch,             \* each window: [at, defs]: "closed", "answered" with them, "idle"
  staged, selected,  \* stagedAlgoIds, selectedDeployIds of each manager
  deploy,            \* the deploy of each manager: None, or [ids, at]
  kill,              \* the Kill All under way: None, or [by, seen, at, alone]
  armed,             \* history: the algos whose deploy a tab has seen acknowledged
  killed             \* history: the last Kill All, [tab, alone, seen], until a deploy is pressed, or None

algoVars == <<tabOf, defs, algoOrders, store, lib, fetch, staged, selected, deploy, kill, armed, killed>>

Fetching(at, l) == [at |-> at, defs |-> l]
Mounted(h) == fetch[h].at # "closed"
Beside(h) == {g \in Hooks : tabOf[g] = tabOf[h] /\ Mounted(g)}

\* The answers awaited: of fetches, deploys and the Kill All.
Waiting == Cardinality({h \in Hooks : fetch[h].at = "answered"})
           + Cardinality({h \in Managers : deploy[h] # None}) + (IF kill = None THEN 0 ELSE 1)

\* Mutant: the library is stored as it is shown.
StoredAsShown(l) == l

\* algoDefinitionForStorage
ForStorage(l) == [a \in Algos |-> IF l[a] = "quoting" THEN "held" ELSE l[a]]

\* ceriousDefinitionToAlgo: of the gateway's statuses only draft and paused are taken.
FromDefinition(l) ==
  [a \in Algos |-> IF l[a] \in {None, "draft", "paused"} THEN l[a] ELSE "held"]

AlgoDeskInit ==
  /\ tabOf \in Seatings
  /\ defs \in [Algos -> {None, "held"}]
  /\ algoOrders = {} /\ store = NoAlgos
  /\ lib = [h \in Hooks |-> NoAlgos] /\ fetch = [h \in Hooks |-> Fetching("closed", NoAlgos)]
  /\ staged = [h \in Managers |-> {}] /\ selected = [h \in Managers |-> {}]
  /\ deploy = [h \in Managers |-> None] /\ kill = None
  /\ armed = [t \in Tabs |-> {}] /\ killed = None

\* publishAlgoLibrary, and the event that gives every window of the tab the list.
Publish(h, l) ==
  /\ store' = ForStorage(l)
  /\ lib' = [g \in Hooks |-> IF g \in Beside(h) THEN l ELSE lib[g]]

\* A window is opened: loadAlgoLibrary, then the effect asks the gateway, whose
\* answer is that of the moment and comes when it comes.  (A tab whose windows are all
\* closed and opened again stands for one that is reloaded.)
OpenWindow(h) ==
  /\ ~Mounted(h) /\ Waiting < MaxWaiting
  /\ lib' = [lib EXCEPT ![h] = store]
  /\ fetch' = [fetch EXCEPT ![h] = Fetching("answered", defs)]
  /\ armed' = IF Beside(h) = {} THEN [armed EXCEPT ![tabOf[h]] = {}] ELSE armed
  /\ UNCHANGED <<defs, algoOrders, store, staged, selected, deploy, kill, killed>>

\* What a manager has selected goes with it; an answer that is outstanding changes
\* nothing any more.
ShutWindow(h) ==
  /\ Mounted(h)
  /\ lib' = [lib EXCEPT ![h] = NoAlgos]
  /\ fetch' = [fetch EXCEPT ![h] = Fetching("closed", NoAlgos)]
  /\ IF h \in Managers
     THEN /\ staged' = [staged EXCEPT ![h] = {}] /\ selected' = [selected EXCEPT ![h] = {}]
          /\ deploy' = [deploy EXCEPT ![h] = IF @ = None \/ @.at # "sent" THEN None ELSE @]
          /\ kill' = IF kill # None /\ kill.by = h /\ kill.at # "sent" THEN None ELSE kill
     ELSE UNCHANGED <<staged, selected, deploy, kill>>
  /\ UNCHANGED <<defs, algoOrders, store, armed, killed>>

\* The definitions replace the library of the whole tab; an empty list, or an error,
\* leaves it.
FetchApplied(h) ==
  /\ fetch[h].at = "answered"
  /\ fetch' = [fetch EXCEPT ![h] = Fetching("idle", NoAlgos)]
  /\ IF fetch[h].defs = NoAlgos THEN UNCHANGED <<store, lib>>
     ELSE Publish(h, FromDefinition(fetch[h].defs))
  /\ UNCHANGED <<defs, algoOrders, staged, selected, deploy, kill, armed, killed>>

\* sync on 'storage', which no listener filters: another tab has stored something.
StorageEvent(t) ==
  /\ \E h \in Hooks : Mounted(h) /\ tabOf[h] # t
  /\ lib' = [h \in Hooks |-> IF tabOf[h] = t /\ Mounted(h) THEN store ELSE lib[h]]
  /\ staged' = [h \in Managers |-> IF tabOf[h] = t THEN {} ELSE staged[h]]
  /\ selected' = [h \in Managers |-> IF tabOf[h] = t THEN {} ELSE selected[h]]
  /\ UNCHANGED <<defs, algoOrders, store, fetch, deploy, kill, armed, killed>>

\* saveDraft of the builder: an algo is saved as a draft or held, never running; the
\* gateway's copy is written if the call reaches it.
SaveDraft(h, a, status) ==
  /\ Mounted(h)
  /\ Publish(h, [lib[h] EXCEPT ![a] = status])
  /\ defs' \in {defs, [defs EXCEPT ![a] = status]}
  /\ UNCHANGED <<algoOrders, fetch, staged, selected, deploy, kill, armed, killed>>

\* updateAlgo: an algo that is not in the list stays out of it.
Updated(l, as, status) == [a \in Algos |-> IF a \in as /\ l[a] # None THEN status ELSE l[a]]

HoldAlgo(h, a) ==
  /\ Mounted(h) /\ lib[h][a] # None
  /\ Publish(h, Updated(lib[h], {a}, "held"))
  /\ UNCHANGED <<defs, algoOrders, fetch, staged, selected, deploy, kill, armed, killed>>

\* removeAlgo: the gateway is not told.
RemoveAlgo(h, a) ==
  /\ Mounted(h) /\ lib[h][a] # None
  /\ Publish(h, [lib[h] EXCEPT ![a] = None])
  /\ UNCHANGED <<defs, algoOrders, fetch, staged, selected, deploy, kill, armed, killed>>

LoadRow(h, a) ==
  /\ Mounted(h) /\ lib[h][a] # None /\ a \notin staged[h]
  /\ staged' = [staged EXCEPT ![h] = @ \cup {a}]
  /\ selected' = [selected EXCEPT ![h] = @ \cup {a}]
  /\ UNCHANGED <<defs, algoOrders, store, lib, fetch, deploy, kill, armed, killed>>

ToggleRow(h, a) ==
  /\ Mounted(h) /\ a \in staged[h] /\ lib[h][a] # None
  /\ selected' = [selected EXCEPT ![h] = IF a \in @ THEN @ \ {a} ELSE @ \cup {a}]
  /\ UNCHANGED <<defs, algoOrders, store, lib, fetch, staged, deploy, kill, armed, killed>>

\* deployAlgoDefinitions: the buttons are disabled while one is under way.
Deploy(h, ids) ==
  /\ Mounted(h) /\ deploy[h] = None /\ ids # {} /\ Waiting < MaxWaiting
  /\ deploy' = [deploy EXCEPT ![h] = [ids |-> ids, at |-> "sent"]]
  /\ kill' = IF kill = None THEN None ELSE [kill EXCEPT !.alone = FALSE]
  /\ killed' = None
  /\ UNCHANGED <<defs, algoOrders, store, lib, fetch, staged, selected, armed>>

DeployRow(h, a) == lib[h][a] # None /\ Deploy(h, {a})
DeploySelected(h) == Deploy(h, {a \in staged[h] \cap selected[h] : lib[h][a] # None})

\* The gateway places the orders of all of them, or refuses.  An answer for a window
\* that is gone is dropped.
ServerDeploys(h) ==
  /\ deploy[h] # None /\ deploy[h].at = "sent"
  /\ \E ok \in BOOLEAN :
       /\ algoOrders' = IF ok THEN algoOrders \cup deploy[h].ids ELSE algoOrders
       /\ deploy' = [deploy EXCEPT ![h] =
                       IF Mounted(h) THEN [@ EXCEPT !.at = IF ok THEN "ok" ELSE "error"] ELSE None]
  /\ UNCHANGED <<defs, store, lib, fetch, staged, selected, kill, armed, killed>>

DeployAnswered(h) ==
  /\ Mounted(h) /\ deploy[h] # None /\ deploy[h].at # "sent"
  /\ deploy' = [deploy EXCEPT ![h] = None]
  /\ IF deploy[h].at = "ok"
     THEN /\ Publish(h, Updated(lib[h], deploy[h].ids, "quoting"))
          /\ armed' = [armed EXCEPT ![tabOf[h]] = @ \cup deploy[h].ids]
     ELSE UNCHANGED <<store, lib, armed>>
  /\ UNCHANGED <<defs, algoOrders, fetch, staged, selected, kill, killed>>

\* killAllAlgos, which no deploy under way disables; the algos are those of the
\* render in which it was pressed.
KillAll(h) ==
  /\ Mounted(h) /\ kill = None /\ Waiting < MaxWaiting
  /\ kill' = [by |-> h, seen |-> {a \in Algos : lib[h][a] \in Statuses \ {"draft"}}, at |-> "sent",
              alone |-> \A m \in Managers : deploy[m] = None]
  /\ UNCHANGED <<defs, algoOrders, store, lib, fetch, staged, selected, deploy, armed, killed>>

\* /api/cerious/orders/cancel-all with source algo
ServerKills ==
  /\ kill # None /\ kill.at = "sent"
  /\ \E ok \in BOOLEAN :
       /\ algoOrders' = IF ok THEN {} ELSE algoOrders
       /\ kill' = IF Mounted(kill.by) THEN [kill EXCEPT !.at = IF ok THEN "ok" ELSE "error"] ELSE None
  /\ UNCHANGED <<defs, store, lib, fetch, staged, selected, deploy, armed, killed>>

Paused(l, seen) == Updated(l, seen, "paused")

KillAnswered ==
  /\ kill # None /\ kill.at # "sent" /\ Mounted(kill.by)
  /\ kill' = None
  /\ IF kill.at = "ok"
     THEN /\ Publish(kill.by, Paused(lib[kill.by], kill.seen))
          /\ staged' = [staged EXCEPT ![kill.by] = {}]
          /\ selected' = [selected EXCEPT ![kill.by] = {}]
          /\ killed' = [tab |-> tabOf[kill.by], alone |-> kill.alone, seen |-> kill.seen]
     ELSE UNCHANGED <<store, lib, staged, selected, killed>>
  /\ UNCHANGED <<defs, algoOrders, fetch, deploy, armed>>

AlgoDeskStep ==
  \/ \E h \in Hooks : OpenWindow(h) \/ ShutWindow(h) \/ FetchApplied(h)
  \/ \E h \in Builders, a \in Algos : \E status \in SavedAs : SaveDraft(h, a, status)
  \/ \E h \in Managers, a \in Algos : \/ HoldAlgo(h, a) \/ RemoveAlgo(h, a) \/ DeployRow(h, a)
                                      \/ LoadRow(h, a) \/ ToggleRow(h, a)
  \/ \E h \in Managers : \/ DeploySelected(h) \/ ServerDeploys(h) \/ DeployAnswered(h) \/ KillAll(h)
  \/ \E t \in Tabs : StorageEvent(t)
  \/ ServerKills \/ KillAnswered

AlgoDeskNext == AlgoDeskStep /\ UNCHANGED tabOf

AlgoDeskSpec == AlgoDeskInit /\ [][AlgoDeskNext]_algoVars

(***************************************************************************)
(* Properties.                                                             *)
(***************************************************************************)

\* Types: libraries are of normalized definitions, and only staged rows are selected.
AlgoDeskTypeOK ==
  /\ store \in Library /\ defs \in Library /\ \A h \in Hooks : lib[h] \in Library
  /\ \A h \in Managers : selected[h] \subseteq staged[h]

\* No algo is shown as running in a tab that has not seen its deploy acknowledged
\* since the tab was loaded: not from localStorage, not from the other tab, not
\* from the gateway's definitions, and whatever answer comes late.
NeverReArmed ==
  \A h \in Hooks, a \in Algos : lib[h][a] = "quoting" => a \in armed[tabOf[h]]

\* After a Kill All pressed while no deploy was under way, and until the next is
\* pressed, no algo has a working order and none that the manager listed when it was
\* pressed is shown as running in that tab.  (One that another tab had taken out of the
\* stored list may be listed by another window of the tab alone, and stays.)
KillAllHolds ==
  killed # None /\ killed.alone =>
    /\ algoOrders = {}
    /\ \A h \in Hooks, a \in killed.seen : tabOf[h] = killed.tab => lib[h][a] # "quoting"

\* An algo that was stopped does not run again by itself: neither a window that opens,
\* another tab, the gateway's list, a saved draft nor a late answer shows it running
\* where no deploy was acknowledged, and a Kill All leaves nothing working.
StoppedStaysStopped == AlgoDeskTypeOK /\ NeverReArmed /\ KillAllHolds
=============================================================================
