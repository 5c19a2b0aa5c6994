----------------------------- MODULE Workspaces ------------------------------
(***************************************************************************)
(* The saved workspaces of the terminal (WorkspaceDesktop.tsx): what is    *)
(* shown, the four entries it keeps in localStorage, the list it offers to *)
(* load, and the snapshots it sends to and recovers from the gateway.      *)
(*                                                                         *)
(* A workspace is its name, the kinds of its windows and the time it was   *)
(* saved; its rows, alerts and algo rows travel with the windows.  A write *)
(* to localStorage may fail (its quota), a fetch may be answered late or   *)
(* not at all, and the page may be closed and launched again at any time.  *)
(***************************************************************************)
EXTENDS Terminal, FiniteSets

CONSTANTS
  Names,       \* what may be typed as a name
  KeyOf,       \* [Names -> keys]: names that differ only in case share a key
  DeskName, TedName, TedSName, \* 'Cerious CME Desk', 'Ted', 'Ted S'
  Typed,       \* the names the operator types
  Toggled,     \* the kinds of window the operator adds and closes
  MaxSaves,    \* bound: manual saves
  Latest,      \* workspaces the gateway may have in latest.json, or None
  MaxBackups,  \* MAX_WORKSPACE_BACKUPS
  MaxTime      \* bound: the clock

Kinds == {"charts", "alerts", "ladder"}
Retired == {"ladder"}                    \* REMOVED_WINDOW_PATTERNS
Required == {"charts"}                   \* and the depth ladder
DefaultWindows == Kinds \ Retired

Workspace == [name : Names, windows : SUBSET Kinds, at : Nat]

ASSUME WorkspacesAssumption ==
  /\ {DeskName, TedName, TedSName} \subseteq Names
  /\ KeyOf \in [Names -> Names] /\ Typed \subseteq Names
  /\ Toggled \subseteq Kinds \ Retired /\ MaxSaves \in Nat
  /\ Latest \subseteq Workspace \cup {None}
  /\ MaxBackups \in Nat \ {0} /\ MaxTime \in Nat

VARIABLES
  now,      \* Date.now()
  disk,     \* localStorage: active, default, names, backups
  shown,    \* the name and windows of the desktop
  saved,    \* the list in the Load menu
  launch,   \* initialWorkspace, as the effects that run once remember it
  page,     \* "closed", "recovering" while the launch fetches, "open"
  sending,  \* the snapshots on their way to /api/workspaces/save
  latest,   \* external: latest.json, which the gateway serves
  lastSave, \* native-last-save.json, which the gateway writes
  saves,    \* bound: the manual saves made
  kept      \* history: the default that a save wrote, or None

workspaceVars == <<now, disk, shown, saved, launch, page, sending, latest, lastSave, saves, kept>>

(***************************************************************************)
(* Workspaces and lists of them.                                           *)
(***************************************************************************)
Key(w) == KeyOf[w.name]

\* normalizeWorkspace: retired windows go, and a desktop without a chart or a
\* ladder, closed or never had, is given one.
Normalized(w) == [w EXCEPT !.windows = (@ \ Retired) \cup Required]

Upsert(list, w) == {x \in list : Key(x) # Key(w)} \cup {w}

UpsertAll(list, ws) == {x \in list : \A w \in ws : Key(x) # Key(w)} \cup ws

\* loadActiveWorkspace: the default wins over what was last shown.
ActiveOf(d) ==
  IF d.default # None THEN Normalized(d.default)
  ELSE IF d.active # None THEN Normalized(d.active) ELSE None

\* Mutant: with a default there is no need to read the list.
SavedOfDefault(d) ==
  IF d.default # None THEN {ActiveOf(d)} ELSE {Normalized(w) : w \in d.names}

\* loadSavedWorkspaces: whatever its age, the active workspace replaces its entry.
SavedOf(d) ==
  LET indexed == {Normalized(w) : w \in d.names}
  IN IF ActiveOf(d) = None THEN indexed ELSE Upsert(indexed, ActiveOf(d))

\* The backups without those that have the id of a backup of w made now: an id is a
\* key and a time.
Others(list, w) ==
  Without(list, {list[n] : n \in {k \in DOMAIN list : Key(list[k]) = Key(w) /\ list[k].at = now}})

\* backupWorkspace
Backups(list, w) == FirstOf(<<[w EXCEPT !.at = now]>> \o Others(list, w), MaxBackups)

\* persistWorkspaceSnapshot(w, list, true), of whose four writes the first n succeed.
Persisted(d, w, list, n) ==
  [d EXCEPT !.names = list, !.active = w,
            !.default = IF n >= 3 THEN w ELSE @,
            !.backups = IF n >= 4 THEN Backups(@, w) ELSE @]

AllWrites == 4

\* The workspace the desktop would save now.
Snapshot == [name |-> shown.name, windows |-> shown.windows, at |-> now]

\* The effects of a render: the list and the desktop are written as they are shown.
Autosaved(d, s, list) ==
  [d EXCEPT !.names = list, !.active = [name |-> s.name, windows |-> s.windows, at |-> now]]

ShownOf(w) == [name |-> w.name, windows |-> w.windows]

(***************************************************************************)
(* Actions.                                                                *)
(***************************************************************************)
EmptyDisk == [active |-> None, default |-> None, names |-> {}, backups |-> <<>>]

WorkspacesInit ==
  /\ now = 0 /\ page = "closed" /\ sending = {} /\ saves = 0 /\ kept = None /\ launch = None
  /\ disk \in {EmptyDisk} \cup
       {[EmptyDisk EXCEPT !.default = w, !.names = {w}] :
          w \in {[name |-> TedName, windows |-> {"ladder", "alerts"}, at |-> 0]}}
  /\ saved = {} /\ shown = [name |-> DeskName, windows |-> DefaultWindows]
  /\ latest \in Latest /\ lastSave = None

\* The page is opened: the state of the first render, then the effects of the
\* mount.  A missing default is seeded from the desktop.
Launch ==
  /\ page = "closed"
  /\ LET initial == ActiveOf(disk)
         desk == IF initial = None THEN [name |-> DeskName, windows |-> DefaultWindows]
                 ELSE ShownOf(initial)
         list == SavedOf(disk)
         d == Autosaved(disk, desk, list)
         seed == [name |-> desk.name, windows |-> desk.windows, at |-> now]
     IN /\ shown' = desk
        /\ launch' = [name |-> desk.name, at |-> IF initial = None THEN 0 ELSE initial.at]
        /\ saved' = IF disk.default = None THEN Upsert(list, seed) ELSE list
        /\ disk' = IF disk.default = None THEN Persisted(d, seed, Upsert(list, seed), AllWrites) ELSE d
  /\ page' = "recovering"
  /\ UNCHANGED <<now, sending, latest, lastSave, saves, kept>>

\* Both fetches have come back; one that fails counts as an empty list, and the
\* gateway's /api/workspaces/recovered is always empty.
Offered == {{}} \cup IF latest = None THEN {} ELSE {{Normalized(latest)}}

\* Whether the recovered Ted S takes over, judged by the workspace of the launch.
Activates(w) ==
  \/ KeyOf[launch.name] \in {KeyOf[TedName], KeyOf[DeskName]}
  \/ w.at > launch.at

\* restoreRecoveredWorkspace.  The list takes the workspaces that were offered in
\* place of its own; a Ted S among them may replace the desktop and the default.
Restore ==
  /\ page = "recovering"
  /\ page' = "open"
  /\ \E available \in Offered :
       LET tedS == {w \in available : Key(w) = KeyOf[TedSName]}
           base == IF tedS = {} THEN saved ELSE {w \in saved : Key(w) # KeyOf[TedName]}
           merged == UpsertAll(base, available)
           active == CHOOSE w \in tedS : TRUE
           activated == [active EXCEPT !.at = now]
       IN /\ saved' = IF available = {} THEN saved ELSE merged
          /\ IF tedS # {} /\ Activates(active)
             THEN /\ shown' = ShownOf(activated)
                  /\ disk' = [Autosaved(disk, shown', saved') EXCEPT !.default = activated]
                  /\ kept' = None
             ELSE /\ disk' = [disk EXCEPT !.names = saved']
                  /\ UNCHANGED <<shown, kept>>
  /\ UNCHANGED <<now, launch, sending, latest, lastSave, saves>>

Open == page \in {"recovering", "open"}

\* A window is added or closed, or the name is edited: the autosave follows.
Edit(desk) ==
  /\ Open /\ desk # shown
  /\ shown' = desk
  /\ disk' = Autosaved(disk, desk, saved)
  /\ UNCHANGED <<now, saved, launch, page, sending, latest, lastSave, saves, kept>>

AddWindow(k) == Edit([shown EXCEPT !.windows = @ \cup {k}])
CloseWindow(k) == Edit([shown EXCEPT !.windows = @ \ {k}])
Rename(n) == Edit([shown EXCEPT !.name = n])

\* saveWorkspace, of whose writes n succeed.  One that fails throws: the server is
\* not asked.  (A list or a desktop too large to write fails every autosave as well,
\* so the write that fails here is the third or the fourth.)
SaveWorkspace(n) ==
  /\ Open /\ saves < MaxSaves /\ saves' = saves + 1
  /\ LET list == Upsert(saved, Snapshot)
     IN /\ saved' = list
        /\ disk' = Persisted(disk, Snapshot, list, n)
        /\ sending' = IF n = AllWrites THEN sending \cup {Snapshot} ELSE sending
        /\ kept' = IF n >= 3 THEN Snapshot ELSE kept
  /\ UNCHANGED <<now, shown, launch, page, latest, lastSave>>

\* The gateway's POST /api/workspaces/save, and what it answers; the page may be
\* gone by then.
ServerSaves ==
  \E w \in sending :
    /\ sending' = sending \ {w}
    /\ lastSave' \in {lastSave, w}
    /\ UNCHANGED <<now, disk, shown, saved, launch, page, latest, saves, kept>>

\* Mutant: a loaded workspace becomes the default.
LoadedAsDefault(d, w) == [Autosaved(d, ShownOf(w), saved) EXCEPT !.default = w]

Loaded(d, w) == Autosaved(d, ShownOf(w), saved)

\* loadWorkspace: the desktop is replaced, the default is not.
LoadWorkspace(found) ==
  /\ Open /\ found \in saved
  /\ shown' = ShownOf(Normalized(found))
  /\ disk' = Loaded(disk, Normalized(found))
  /\ UNCHANGED <<now, saved, launch, page, sending, latest, lastSave, saves, kept>>

Close ==
  /\ Open
  /\ page' = "closed"
  /\ UNCHANGED <<now, disk, shown, saved, launch, sending, latest, lastSave, saves, kept>>

Tick ==
  /\ now < MaxTime
  /\ now' = now + 1
  /\ UNCHANGED <<disk, shown, saved, launch, page, sending, latest, lastSave, saves, kept>>

WorkspacesNext ==
  \/ Launch \/ Restore \/ Close \/ Tick \/ ServerSaves
  \/ \E k \in Toggled : AddWindow(k) \/ CloseWindow(k)
  \/ \E n \in Typed : Rename(n)
  \/ \E n \in 2..AllWrites : SaveWorkspace(n)
  \/ \E w \in saved : LoadWorkspace(w)

WorkspacesSpec == WorkspacesInit /\ [][WorkspacesNext]_workspaceVars

(***************************************************************************)
(* Properties.                                                             *)
(***************************************************************************)

\* The default that the operator saved is what the next launch shows, whatever is
\* edited, loaded, closed, seeded or recovered in between, unless the recovered
\* Ted S is activated (which clears kept).
SavedDefaultStays == kept # None => disk.default = kept

\* Backups are kept newest first, and no two of them have one id.
BackupsNewestFirst ==
  \A i, j \in DOMAIN disk.backups : i < j =>
    LET a == disk.backups[i] b == disk.backups[j]
    IN a.at >= b.at /\ ~(Key(a) = Key(b) /\ a.at = b.at)

\* The Load menu offers one workspace for a name, so that what is loaded is what
\* was picked.
OneEntryPerName == \A v, w \in saved : Key(v) = Key(w) => v = w

\* A page that is closed at any moment has left on disk the list it offers and
\* the desktop it shows.
AutosaveIsCurrent == Open => disk.names = saved /\ ShownOf(disk.active) = shown

\* No window of a kind the desktop has no component for any more is ever shown,
\* from whichever of the local entries or the gateway it comes.
NoRetiredWindow == shown.windows \cap Retired = {}

\* Every name of the list but Ted is in the next one.
NamesGoOn ==
  \A w \in saved : Key(w) = KeyOf[TedName] \/ \E v \in saved' : Key(v) = Key(w)

\* A name once in the list stays in it, across launches, saves and what the gateway
\* offers; only Ted gives way to Ted S.
NamesAreNotLost == [][NamesGoOn]_workspaceVars

\* What the operator has saved or left open is what the next launch finds: the saved
\* default, the list of the Load menu with one workspace for a name, the desktop as it
\* was closed, and the backups, although a save is several writes to a storage that
\* may be full, the page may be closed after any of them, and the answers of the
\* recovery come late.
WorkspacesAreKept ==
  SavedDefaultStays /\ OneEntryPerName /\ AutosaveIsCurrent /\ BackupsNewestFirst /\ NoRetiredWindow
=============================================================================
