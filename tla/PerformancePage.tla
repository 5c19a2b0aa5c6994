---------------------------- MODULE PerformancePage ----------------------------
(* The performance page: what it makes of a journal of closed trades, its calendar *)
(* and the day's note, written here while the page is fetched again and again. The *)
(* routes it fetches are outside the repository.                                   *)
EXTENDS Terminal, SequencesExt, FiniteSetsExt, TLC

CONSTANTS Journals,         \* what the service may hold: [trades, daily] of one moment,
                            \* a trade [asset, model, regime, copy, net, win, exit],
                            \* daily a function from dates to [net, count]
          MonthLength,      \* days of a month, numbered from 0
          DayLength, Zone,  \* a day, and how far local time is ahead of UTC
          Texts,            \* what may be typed as a note
          MaxFetches, MaxEdits \* bounds

VARIABLES loaded,          \* the journal shown, None before the first answer
          month, chosen,   \* the calendar's month and the date it details
          filter,          \* of the recent trades: [type, asset]
          curves,          \* the curves shown
          note,            \* the service's note of today
          shownNote,       \* todayNote.text: the note of the last answer
          text,            \* the text area
          fetches, saves,  \* answers and texts on their way
          edits            \* edits of the user, and calls lost
performanceVars == <<loaded, month, chosen, filter, curves, note, shownNote, text, fetches, saves, edits>>
pageVars == <<loaded, month, chosen, filter, curves>>
noteVars == <<note, shownNote, text, fetches, saves>>

Trades == IF loaded = None THEN <<>> ELSE loaded.trades
Daily == IF loaded = None THEN <<>> ELSE loaded.daily
NetOf(ts) == FoldSeq(LAMBDA t, sum : sum + t.net, 0, ts)

(* segmentTrades and the recent trades' filter.                                    *)
TradeTypes == {"MANUAL", "ALGO", "COPY"}
OfType(t, type) == CASE type = "MANUAL" -> ~t.copy /\ t.model = None
                     [] type = "ALGO" -> t.model # None
                     [] type = "COPY" -> t.copy
                     [] OTHER -> TRUE
Segment(type) == SelectSeq(Trades, LAMBDA t : OfType(t, type))
(* tradeStats, and the ratio of the KPI strip: None is the dash.                    *)
TradeStats(ts) == [count |-> Len(ts), wins |-> Len(SelectSeq(ts, LAMBDA t : t.win)), net |-> NetOf(ts),
                   best |-> IF ts = <<>> THEN 0 ELSE Max({ts[n].net : n \in DOMAIN ts})]
ProfitFactor == LET won == NetOf(SelectSeq(Trades, LAMBDA t : t.win))
                    lost == -NetOf(SelectSeq(Trades, LAMBDA t : ~t.win /\ t.net < 0))
                            + NetOf(SelectSeq(Trades, LAMBDA t : ~t.win /\ t.net >= 0))
                IN CASE lost > 0 -> [won |-> won, lost |-> lost] [] won > 0 -> "all" [] OTHER -> None


(* buildCurve: running sums by the time of the exit.                               *)
Curve(ts) == LET byExit == SortSeq(ts, LAMBDA a, b : a.exit < b.exit) IN
    [n \in DOMAIN ts |-> NetOf(SubSeq(byExit, 1, n))]
CurvesDrawn == {type \in curves : Len(Segment(type)) >= 2}

(* byAsset, byModel, byRegime: a group and its figures.                            *)
GroupRows(ts, by) ==
    {LET its == SelectSeq(ts, LAMBDA t : t[by] = g)
     IN [group |-> g, count |-> Len(its), net |-> NetOf(its)] : g \in {ts[n][by] : n \in DOMAIN ts}}
ByAsset == GroupRows(Trades, "asset")
ByModel == GroupRows(Segment("ALGO"), "model")
ByRegime == GroupRows(Trades, "regime")

(* RecentTrades: the last fifty, newest first, and only then filtered.             *)
RecentTrades == SelectSeq(FirstOf(SortSeq(Trades, LAMBDA a, b : a.exit > b.exit), 50),
                          LAMBDA t : filter.asset \in {"ALL", t.asset} /\ OfType(t, filter.type))

(* buildCalendar and the cells: a cell is the local day's midnight, and its date is *)
(* that instant's in UTC.                                                          *)
DateOf(d) == (d * DayLength - Zone) \div DayLength
EmptyDay == [net |-> 0, count |-> 0]
PerfOf(date) == IF date \in DOMAIN Daily THEN Daily[date] ELSE EmptyDay
Cells == [d \in (month * MonthLength)..((month + 1) * MonthLength - 1) |-> PerfOf(DateOf(d))]

(* monthPnl and monthTrades: of the dates with the month's prefix.                  *)
MonthDates == {date \in DOMAIN Daily : date \div MonthLength = month}
MonthSummary == [net |-> MapThenSumSet(LAMBDA date : Daily[date].net, MonthDates),
                 count |-> MapThenSumSet(LAMBDA date : Daily[date].count, MonthDates)]
DayTrades == SortSeq(SelectSeq(Trades, LAMBDA t : t.exit \div DayLength = chosen),
                     LAMBDA a, b : a.exit < b.exit)

(* Performance, the load: every ten seconds, whatever is still under way. A text    *)
(* other than the one last fetched replaces what is typed.                         *)
Fetch == /\ Cardinality(fetches) < MaxFetches /\ fetches' = fetches \cup {note}
         /\ UNCHANGED <<pageVars, note, shownNote, text, saves, edits>>
NoteFollowed(fetched) == IF fetched # None /\ fetched # shownNote THEN fetched ELSE text
Fetched(fetched) ==
    /\ fetches' = fetches \ {fetched} /\ shownNote' = fetched /\ text' = NoteFollowed(fetched)
    /\ loaded' \in Journals
    /\ UNCHANGED <<month, chosen, filter, curves, note, saves, edits>>
FetchFails(fetched) == /\ edits < MaxEdits /\ edits' = edits + 1 /\ fetches' = fetches \ {fetched}
                       /\ UNCHANGED <<pageVars, note, shownNote, text, saves>>

(* JournalNotes: a text is saved by the button, or on leaving the area when it is   *)
(* another than the one fetched; another tab of the page takes the area down, and  *)
(* the one that comes back holds the text last fetched.                            *)
ShownText == IF shownNote = None THEN "" ELSE shownNote
Type(typed) == /\ edits < MaxEdits /\ edits' = edits + 1 /\ typed # text /\ text' = typed
               /\ UNCHANGED <<pageVars, note, shownNote, fetches, saves>>
NoteSaved == Cardinality(saves) < MaxFetches /\ saves' = saves \cup {text}
HandleSave == /\ edits < MaxEdits /\ edits' = edits + 1 /\ NoteSaved
              /\ UNCHANGED <<pageVars, note, shownNote, text, fetches>>

HandleBlur == text # ShownText /\ NoteSaved /\ UNCHANGED <<pageVars, note, shownNote, text, fetches, edits>>
SwitchTabs == /\ edits < MaxEdits /\ edits' = edits + 1
              /\ IF text = ShownText THEN UNCHANGED saves ELSE NoteSaved
              /\ text' = ShownText /\ UNCHANGED <<pageVars, note, shownNote, fetches>>
SaveArrives(saved) == /\ note' = saved /\ saves' = saves \ {saved}
                      /\ UNCHANGED <<pageVars, shownNote, text, fetches, edits>>
SaveIsLost(saved) == /\ edits < MaxEdits /\ edits' = edits + 1 /\ saves' = saves \ {saved}
                     /\ UNCHANGED <<pageVars, note, shownNote, text, fetches>>

(* The calendar's month and day, the filter, the curves' buttons.                  *)
ShowMonth(m) == /\ edits < MaxEdits /\ edits' = edits + 1 /\ m \in {month - 1, month + 1} /\ month' = m
                /\ UNCHANGED <<loaded, chosen, filter, curves, noteVars>>
Choose(d) == /\ d \in DOMAIN Cells /\ chosen' = IF chosen = DateOf(d) THEN None ELSE DateOf(d)
             /\ edits < MaxEdits /\ edits' = edits + 1 /\ UNCHANGED <<loaded, month, filter, curves, noteVars>>
SetTradeFilter(f) == /\ edits < MaxEdits /\ edits' = edits + 1 /\ filter' = f
                     /\ UNCHANGED <<loaded, month, chosen, curves, noteVars>>
ToggleCurve(type) == /\ edits < MaxEdits /\ edits' = edits + 1
                     /\ curves' = IF type \in curves THEN curves \ {type} ELSE curves \cup {type}
                     /\ UNCHANGED <<loaded, month, chosen, filter, noteVars>>

PerformanceInit ==
    /\ loaded = None /\ month = 0 /\ chosen = None /\ filter = [type |-> "ALL", asset |-> "ALL"]
    /\ curves = TradeTypes /\ note \in {None} \cup Texts /\ shownNote = None /\ text = ""
    /\ fetches = {} /\ saves = {} /\ edits = 0
TradeFilters == {[type |-> type, asset |-> asset] : type \in TradeTypes \cup {"ALL"},
                 asset \in {"ALL"} \cup {row.group : row \in ByAsset}}
PerformanceNext ==
    \/ Fetch \/ HandleSave \/ HandleBlur \/ SwitchTabs
    \/ \E fetched \in fetches : Fetched(fetched) \/ FetchFails(fetched)
    \/ \E typed \in Texts \cup {""} : Type(typed)
    \/ \E saved \in saves : SaveArrives(saved) \/ SaveIsLost(saved)
    \/ \E m \in {month - 1, month + 1} : ShowMonth(m)
    \/ \E d \in DOMAIN Cells : Choose(d)
    \/ \E f \in TradeFilters : SetTradeFilter(f)
    \/ \E type \in TradeTypes : ToggleCurve(type)
(* The interval fires, calls end, and an area that is typed in is left; the calls   *)
(* that are lost count against the bound of the edits, so that at last none is.     *)
PerformanceSpec ==
    /\ PerformanceInit /\ [][PerformanceNext]_performanceVars
    /\ WF_performanceVars(Fetch) /\ WF_performanceVars(HandleBlur)
    /\ \A t \in Texts \cup {"", None} :
          /\ WF_performanceVars(t \in fetches /\ (Fetched(t) \/ FetchFails(t)))
          /\ WF_performanceVars(t \in saves /\ (SaveArrives(t) \/ SaveIsLost(t)))

\* Whatever journal is loaded, the tables by asset and by regime add up to all of it,
\* the one by model to the algo card, and every curve ends at its card's net.
PageFiguresAgree ==
    LET total(rows) == MapThenSumSet(LAMBDA row : row.net, rows) IN
    /\ total(ByAsset) = NetOf(Trades) /\ total(ByRegime) = NetOf(Trades)
    /\ total(ByModel) = TradeStats(Segment("ALGO")).net
    /\ \A type \in TradeTypes : LET its == Segment(type) IN
          its # <<>> => Curve(its)[Len(its)] = TradeStats(its).net
\* Where local time is not ahead of UTC, a month's summary is the sum of its cells, so
\* that no day's figure is counted in a month that does not show it.
MonthIsItsCells ==
    /\ MonthSummary.net = MapThenSumSet(LAMBDA d : Cells[d].net, DOMAIN Cells)
    /\ MonthSummary.count = MapThenSumSet(LAMBDA d : Cells[d].count, DOMAIN Cells)
\* Once no one types, the text area and the service come to hold the same note, in
\* whichever order the texts saved and the answers fetched arrive.
NotesConverge == <>[](text = ShownText /\ note = shownNote /\ saves \subseteq {text})
=============================================================================
