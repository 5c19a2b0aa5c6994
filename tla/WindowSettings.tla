--------------------------- MODULE WindowSettings ---------------------------
(* The settings windows keep for themselves and report to the workspace: the   *)
(* columns and switches of a depth ladder, the display and the studies of a    *)
(* chart. A window reads its settings when it mounts and never again; a ladder *)
(* reports after every render, a chart when its own settings change.           *)
EXTENDS Terminal, FiniteSets, SequencesExt, TLC

CONSTANTS Ladder, SingleChart, \* the ids of a ladder's and of a chart's window
          OldSettings,         \* ladder settings an older build may have stored
          Drags, Pulls,        \* columns dragged on others, resizes [column, by]
          Multiples,           \* multipliers the tick offers
          MaxChanges           \* bound on the gestures

Columns == <<"orders", "bid", "price", "ask">>
ColumnLimits == [orders |-> <<48, 150>>, bid |-> <<64, 260>>, price |-> <<68, 180>>, ask |-> <<64, 260>>]
LadderDefault == [columnOrder |-> Columns, priceMultiplier |-> 1,
                  columnWidths |-> [orders |-> 72, bid |-> 112, price |-> 96, ask |-> 112]]

LadderShapes == [columnOrder : Seq(Range(Columns)), priceMultiplier : Int, columnWidths : [Range(Columns) -> Int]]
ASSUME SettingsAssumption ==
    /\ Ladder # SingleChart /\ None \notin Int
    /\ Drags \subseteq Range(Columns) \X Range(Columns) /\ Pulls \subseteq Range(Columns) \X Int
    /\ Multiples \subseteq {1, 2, 4, 5, 8, 10, 16}
    /\ \A raw \in OldSettings : /\ raw.columnOrder \in Seq(Range(raw.columnOrder))
                               /\ raw.columnWidths \in [Range(Columns) -> Int \cup {None}]

VARIABLES deskWindows,    \* per window, what the workspace holds of its settings
          mounted,        \* per window, the settings it shows, or None when closed
          ladderDefault,  \* the default in the browser's storage
          stored,         \* the saved workspace, as deskWindows or None
          changes         \* gestures so far (bound)
settingsVars == <<deskWindows, mounted, ladderDefault, stored, changes>>

\* Mutant: a column stays as often as it is listed.
FirstsKept(list) == list

(* normalizeDepthLadderSettings: whatever was stored, every column once.     *)
Firsts(list) ==
    LET again == {i \in DOMAIN list : \E j \in 1..(i - 1) : list[j] = list[i]}
        first == Without([i \in DOMAIN list |-> i], again)
    IN [n \in DOMAIN first |-> list[first[n]]]

LadderMultipliers == {1, 2, 4, 5, 8, 10, 16}
MultiplierOf(m) == IF m \in LadderMultipliers THEN m ELSE 1
Normal(raw) ==
    LET known == Without(raw.columnOrder, Range(raw.columnOrder) \ Range(Columns))
    IN [columnOrder |-> Firsts(known \o Columns),
        priceMultiplier |-> MultiplierOf(raw.priceMultiplier),
        columnWidths |-> [c \in Range(Columns) |->
            IF raw.columnWidths[c] = None THEN LadderDefault.columnWidths[c]
            ELSE ClampLow(raw.columnWidths[c], 48, 260)]]

(* moveDepthColumn, and the resize of a column against its neighbour.        *)
MovedColumn(order, dragged, target) ==
    LET without == Without(order, {dragged})
        at == CHOOSE i \in DOMAIN without : without[i] = target
    IN IF dragged = target THEN order
       ELSE SubSeq(without, 1, at - 1) \o <<dragged>> \o SubSeq(without, at, Len(without))

ResizedColumn(shape, column, by) ==
    LET order == shape.columnOrder
        at == CHOOSE i \in DOMAIN order : order[i] = column
        last == at = Len(order)
        partner == IF last THEN order[at - 1] ELSE order[at + 1]
        total == shape.columnWidths[column] + shape.columnWidths[partner]
        own == ClampLow(shape.columnWidths[column] + IF last THEN -by ELSE by, ColumnLimits[column][1],
                   Lesser(ColumnLimits[column][2], total - ColumnLimits[partner][1]))
    IN [shape EXCEPT !.columnWidths = [@ EXCEPT ![column] = own, ![partner] =
           ClampLow(total - own, ColumnLimits[partner][1], ColumnLimits[partner][2])]]

(* A chart: its preset sets the three switches, its studies start with the    *)
(* default regression.                                                        *)
ChartDefault == [displayPreset |-> "clean", compress |-> TRUE, grid |-> FALSE, solid |-> TRUE,
                 studies |-> <<>>]
PresetOf(p) == [compress |-> p # "calendar", grid |-> p = "grid", solid |-> p # "outline"]

(* What a window mounts with.                                                *)
MountLadder(held) == Normal(IF held = None THEN ladderDefault ELSE held)
MountChart(held) == IF held = None THEN ChartDefault
                    ELSE held
Mount(id, held) == IF id = Ladder THEN MountLadder(held) ELSE MountChart(held)
(* The effect that reports.                                                  *)
Reported(id, shape) == IF id = Ladder THEN Normal(shape) ELSE shape

SettingsInit ==
    /\ \E raw \in OldSettings \cup {LadderDefault} : ladderDefault = Normal(raw)
    /\ \E raw \in OldSettings \cup {None} :
         stored = [id \in {Ladder, SingleChart} |-> IF id = Ladder THEN raw ELSE None]
    /\ deskWindows = [id \in {Ladder, SingleChart} |-> None]
    /\ mounted = [id \in {Ladder, SingleChart} |-> None]
    /\ changes = 0

Changed(id, shape) ==
    /\ changes < MaxChanges
    /\ changes' = changes + 1
    /\ mounted' = [mounted EXCEPT ![id] = shape]
    /\ deskWindows' = [deskWindows EXCEPT ![id] = Reported(id, shape)]
    /\ UNCHANGED <<ladderDefault, stored>>

MoveColumn(dragged, target) ==
    mounted[Ladder] # None /\ Changed(Ladder,
        [mounted[Ladder] EXCEPT !.columnOrder = MovedColumn(@, dragged, target)])
ResizeColumn(column, by) ==
    mounted[Ladder] # None /\ Changed(Ladder, ResizedColumn(mounted[Ladder], column, by))
PickMultiplier(m) ==
    mounted[Ladder] # None /\ Changed(Ladder, [mounted[Ladder] EXCEPT !.priceMultiplier = m])
ApplyPreset(p) ==
    mounted[SingleChart] # None /\ Changed(SingleChart,
        [displayPreset |-> p, studies |-> mounted[SingleChart].studies] @@ PresetOf(p))
AddStudy ==
    mounted[SingleChart] # None /\ Changed(SingleChart,
        [mounted[SingleChart] EXCEPT !.studies = Append(@, "atr")])
RemoveStudy ==
    mounted[SingleChart] # None /\ mounted[SingleChart].studies # <<>> /\ Changed(SingleChart,
        [mounted[SingleChart] EXCEPT !.studies = Tail(@)])
ClearStudies ==
    mounted[SingleChart] # None /\ mounted[SingleChart].studies # <<>> /\ Changed(SingleChart,
        [mounted[SingleChart] EXCEPT !.studies = ChartDefault.studies])

SaveLadderDefault ==
    /\ mounted[Ladder] # None
    /\ ladderDefault' = Normal(mounted[Ladder])
    /\ deskWindows' = [deskWindows EXCEPT ![Ladder] = ladderDefault']
    /\ UNCHANGED <<mounted, stored, changes>>
(* A window added from the menu has no settings of its own.                  *)
OpenWith(id, held) ==
    /\ mounted' = [mounted EXCEPT ![id] = Mount(id, held)]
    /\ deskWindows' = [deskWindows EXCEPT ![id] = Reported(id, Mount(id, held))]
OpenSettings(id) ==
    /\ mounted[id] = None
    /\ OpenWith(id, None)
    /\ UNCHANGED <<ladderDefault, stored, changes>>
CloseSettings(id) ==
    /\ mounted[id] # None
    /\ mounted' = [mounted EXCEPT ![id] = None]
    /\ deskWindows' = [deskWindows EXCEPT ![id] = None]
    /\ UNCHANGED <<ladderDefault, stored, changes>>
SaveDesk ==
    /\ stored' = deskWindows
    /\ UNCHANGED <<deskWindows, mounted, ladderDefault, changes>>
(* A saved workspace is loaded. A window of the same id stays mounted: it      *)
(* keeps what it shows, and a ladder reports that at once.                     *)
LoadedShape(id, held) == IF held = None THEN None
                         ELSE IF mounted[id] # None THEN mounted[id] ELSE Mount(id, held)
LoadDesk ==
    /\ mounted' = [id \in DOMAIN mounted |-> LoadedShape(id, stored[id])]
    /\ deskWindows' = [id \in DOMAIN mounted |->
         IF mounted'[id] = None THEN None
         ELSE IF id = SingleChart /\ mounted[id] # None THEN stored[id]
         ELSE Reported(id, mounted'[id])]
    /\ UNCHANGED <<ladderDefault, stored, changes>>

SettingsNext ==
    \/ \E d \in Drags : MoveColumn(d[1], d[2])
    \/ \E p \in Pulls : ResizeColumn(p[1], p[2])
    \/ \E m \in Multiples : PickMultiplier(m)
    \/ \E p \in {"clean", "grid", "calendar", "outline"} : ApplyPreset(p)
    \/ AddStudy \/ RemoveStudy \/ ClearStudies
    \/ SaveLadderDefault \/ SaveDesk \/ LoadDesk
    \/ \E id \in {Ladder, SingleChart} : OpenSettings(id) \/ CloseSettings(id)
SettingsSpec == SettingsInit /\ [][SettingsNext]_settingsVars

\* Whatever an older build stored and however columns are dragged, the ladder has
\* each of its four columns once, so the price and both sides can be reached.
EveryColumnOnce == mounted[Ladder] # None =>
    /\ Len(mounted[Ladder].columnOrder) = 4
    /\ Range(mounted[Ladder].columnOrder) = Range(Columns)

\* What the workspace holds of an open ladder is what the ladder shows: nothing a
\* gesture reaches is lost or changed on the way into the workspace.
HeldIsShown == mounted[Ladder] # None => deskWindows[Ladder] = mounted[Ladder]

\* No resize makes a column that was within its limits leave them, nor its
\* neighbour.
LimitsKept ==
    [][(mounted[Ladder] # None /\ mounted'[Ladder] # None) =>
         \A c \in Range(Columns) :
           LET Within(w) == w >= ColumnLimits[c][1] /\ w <= ColumnLimits[c][2]
           IN Within(mounted[Ladder].columnWidths[c]) => Within(mounted'[Ladder].columnWidths[c])]_settingsVars
-----------------------------------------------------------------------------
(* The settings page, in several tabs over one storage: every change stores the    *)
(* whole form and posts its limits, and what was stored by an older version is     *)
(* completed from the defaults. Tabs do not hear of each other's changes.          *)
CONSTANTS SettingsTabs, Themes, DefaultTheme,
          LimitsTyped, DefaultLimit, \* manualMaxOrders; a field left empty is 0
          OldPreferences,  \* what may be stored already: records of some of the fields
          MaxSettingChanges, MaxPosts \* bounds

VARIABLES keptSettings,   \* pt_settings_v1, None when there is nothing
          forms,          \* the page's settings in each tab, None while it is not open
          themes,         \* the theme of each tab's document
          posts, limits,  \* POST /api/settings/risk on their way, and what has arrived
          settingChanges
preferenceVars == <<keptSettings, forms, themes, posts, limits, settingChanges>>

(* The fields stand for the groups of the page: theme, mode, limits and the rest.   *)
Defaults == [theme |-> DefaultTheme, mode |-> "paper", limit |-> DefaultLimit, detail |-> FALSE]
Fields == DOMAIN Defaults
ASSUME PreferencesAssumption == \A old \in OldPreferences : DOMAIN old \subseteq Fields

LoadedSettings ==
    IF keptSettings = None THEN Defaults
    ELSE [f \in DOMAIN keptSettings \cup Fields |->
            IF f \in DOMAIN keptSettings THEN keptSettings[f] ELSE Defaults[f]]

(* The effect on every change of the form: also the one that opens the page.        *)
Stored(tab, form) ==
    /\ settingChanges < MaxSettingChanges /\ settingChanges' = settingChanges + 1
    /\ keptSettings' = form /\ forms' = [forms EXCEPT ![tab] = form]
    /\ posts' = IF Cardinality(posts) < MaxPosts THEN posts \cup {form.limit} ELSE posts
    /\ UNCHANGED limits
OpenPage(tab) == forms[tab] = None /\ Stored(tab, LoadedSettings) /\ UNCHANGED themes
ClosePage(tab) == /\ forms[tab] # None /\ forms' = [forms EXCEPT ![tab] = None]
                  /\ UNCHANGED <<keptSettings, themes, posts, limits, settingChanges>>

SetField(tab, field, value) ==
    /\ forms[tab] # None /\ forms[tab][field] # value
    /\ Stored(tab, [forms[tab] EXCEPT ![field] = value])

PickTheme(tab, theme) == SetField(tab, "theme", theme) /\ themes' = [themes EXCEPT ![tab] = theme]
PickMode(tab, mode) == SetField(tab, "mode", mode) /\ UNCHANGED themes
TypeLimit(tab, n) == SetField(tab, "limit", n) /\ UNCHANGED themes
SetDetail(tab, value) == SetField(tab, "detail", value) /\ UNCHANGED themes

(* The danger zone's button: the storage is emptied and the tab loads again; a tab  *)
(* that loads applies the stored theme before it renders.                          *)
Reloaded(tab, theme) == /\ forms' = [forms EXCEPT ![tab] = None]
                        /\ themes' = [themes EXCEPT ![tab] = theme]
ResetAll(tab) == /\ forms[tab] # None /\ settingChanges < MaxSettingChanges /\ settingChanges' = settingChanges + 1
                 /\ keptSettings' = None /\ Reloaded(tab, DefaultTheme) /\ UNCHANGED <<posts, limits>>
Reload(tab) == Reloaded(tab, LoadedSettings.theme) /\ UNCHANGED <<keptSettings, posts, limits, settingChanges>>

PostArrives(n) == limits' = n /\ posts' = posts \ {n} /\ UNCHANGED <<keptSettings, forms, themes, settingChanges>>
PostIsLost(n) == posts' = posts \ {n} /\ UNCHANGED <<keptSettings, forms, themes, limits, settingChanges>>

PreferencesInit ==
    /\ keptSettings \in {None} \cup OldPreferences /\ forms = [tab \in SettingsTabs |-> None]
    /\ themes = [tab \in SettingsTabs |-> LoadedSettings.theme] /\ posts = {} /\ limits = DefaultLimit /\ settingChanges = 0
PreferencesNext ==
    \/ \E tab \in SettingsTabs :
          \/ OpenPage(tab) \/ ClosePage(tab) \/ ResetAll(tab) \/ Reload(tab)
          \/ \E theme \in Themes : PickTheme(tab, theme)
          \/ \E mode \in {"paper", "live"} : PickMode(tab, mode)
          \/ \E n \in LimitsTyped : TypeLimit(tab, n)
          \/ \E value \in BOOLEAN : SetDetail(tab, value)
    \/ \E n \in posts : PostArrives(n) \/ PostIsLost(n)
PreferencesSpec == PreferencesInit /\ [][PreferencesNext]_preferenceVars

\* Whatever version stored the settings and whichever tabs change or reset them, a page
\* that is open has every field, and what is stored is whole once a page has opened.
SettingsAreWhole ==
    /\ \A tab \in SettingsTabs : forms[tab] # None => DOMAIN forms[tab] = Fields
    /\ keptSettings # None => DOMAIN keptSettings = Fields \/ (settingChanges = 0 /\ keptSettings \in OldPreferences)
\* A tab's document never wears another theme than the page open in it names after a
\* change there, a reset or a reload; a change made in another tab alters neither.
ThemeOfTheTab == [][\A tab \in SettingsTabs :
    forms[tab] # None /\ forms'[tab] # None /\ forms[tab].theme # forms'[tab].theme
        => themes'[tab] = forms'[tab].theme]_preferenceVars
=============================================================================
