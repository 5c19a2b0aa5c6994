----------------------------- MODULE TradeReport ------------------------------
(* The trade analytics window: the tables the terminal exports as CSV and reads *)
(* back character by character, the figures it makes of the fills in a file,    *)
(* and the import itself, of which one may be read while another is picked and  *)
(* whose result is kept in localStorage. Each of the three is a desk of its own *)
(* here, chosen at the start.                                                   *)
EXTENDS Terminal, FiniteSets, SequencesExt

CONSTANTS Cells,        \* texts a cell can have, sequences of characters
          TableColumns, MaxRows, \* size of the tables
          Pnls, Times,  \* values of the records; None for a time that cannot be read
          MaxRecords,   \* fills of a file
          AccountSize,  \* TRADE_ANALYTICS_ACCOUNT_SIZE
          Falls,        \* largest accountMaxDrawdown of a file; 0 without that column
          FillFiles, MaxImports \* files to import, and a bound on the reads under way

VARIABLES part,      \* "scan", "figures" or "window"
          table,     \* the table that was exported
          text, at,  \* its CSV and the next character of it
          rows, row, cell, quoted, \* locals of parseCeriousCsv
          records, reported, figures, \* fills in the order they are judged, the drawdown their
                     \* file reports, and what comes of them
          imported, storedImport, \* result shown by the window, and the one in localStorage
          reading    \* files picked and not yet read
scanVars == <<table, text, at, rows, row, cell, quoted>>
figureVars == <<records, reported, figures>>
importVars == <<imported, storedImport, reading>>
reportVars == <<part, scanVars, figureVars, importVars>>

(* csvEscape and exportCsv. A character is a quote, a comma, a line feed, a      *)
(* carriage return, a blank or any other.                                       *)
Special == {"quote", "comma", "lf", "cr"}
Doubled(txt) == FoldLeft(LAMBDA t, ch : t \o (IF ch = "quote" THEN <<ch, ch>> ELSE <<ch>>), <<>>, txt)

Escaped(txt) == IF Special \cap {txt[n] : n \in DOMAIN txt} = {} THEN txt
                ELSE <<"quote">> \o Doubled(txt) \o <<"quote">>
Joined(parts, sep) == FoldLeft(LAMBDA t, p : IF t.first THEN [first |-> FALSE, txt |-> p]
                                             ELSE [first |-> FALSE, txt |-> t.txt \o <<sep>> \o p],
                               [first |-> TRUE, txt |-> <<>>], parts).txt
LineOf(line) == Joined([n \in DOMAIN line |-> Escaped(line[n])], "comma")
ExportCsv(t) == Joined([n \in DOMAIN t |-> LineOf(t[n])], "lf")

(* parseCeriousCsv, a character at a time.                                      *)
Blank(line) == \A n \in DOMAIN line : \A k \in DOMAIN line[n] : line[n][k] \in {"blank", "lf", "cr"}
WithRow(line) == IF Blank(line) THEN rows ELSE Append(rows, line)
Ch == text[at]
NextIs(ch) == at < Len(text) /\ text[at + 1] = ch
DoubledQuote == /\ Ch = "quote" /\ quoted /\ NextIs("quote")
                /\ cell' = Append(cell, "quote") /\ at' = at + 2
                /\ UNCHANGED <<rows, row, quoted>>
Quote == /\ Ch = "quote" /\ ~(quoted /\ NextIs("quote"))
         /\ quoted' = ~quoted /\ at' = at + 1 /\ UNCHANGED <<rows, row, cell>>
Comma == /\ Ch = "comma" /\ ~quoted
         /\ row' = Append(row, cell) /\ cell' = <<>> /\ at' = at + 1 /\ UNCHANGED <<rows, quoted>>
LineEnd == /\ Ch \in {"lf", "cr"} /\ ~quoted
           /\ at' = IF Ch = "cr" /\ NextIs("lf") THEN at + 2 ELSE at + 1
           /\ rows' = WithRow(Append(row, cell)) /\ row' = <<>> /\ cell' = <<>> /\ UNCHANGED quoted
Plain == /\ Ch \notin {"quote"} \cup (IF quoted THEN {} ELSE Special)
         /\ cell' = Append(cell, Ch) /\ at' = at + 1 /\ UNCHANGED <<rows, row, quoted>>
Scan == /\ part = "scan" /\ at <= Len(text)
        /\ DoubledQuote \/ Quote \/ Comma \/ LineEnd \/ Plain
        /\ UNCHANGED <<part, table, text, figureVars, importVars>>
EndOfText == /\ part = "scan" /\ at = Len(text) + 1
             /\ rows' = WithRow(Append(row, cell)) /\ at' = at + 1
             /\ UNCHANGED <<part, table, text, row, cell, quoted, figureVars, importVars>>

(* The records by their times. A comparison with a time that is not known says  *)
(* "equal": with some known and some not, any order can come of it.             *)
Before(list, i, j) == list[i].time < list[j].time \/ (list[i].time = list[j].time /\ i < j)
Placed(list, order) == [n \in DOMAIN list |-> list[order[n]]]
Arrangements(list) ==
    LET some == {n \in DOMAIN list : list[n].time = None}
    IN IF some = DOMAIN list THEN {list}
       ELSE IF some = {} THEN {Placed(list, SetToSortSeq(DOMAIN list, LAMBDA i, j : Before(list, i, j)))}
       ELSE {Placed(list, order) : order \in {f \in [DOMAIN list -> DOMAIN list] :
                                                \A i, j \in DOMAIN list : i # j => f[i] # f[j]}}

\* Mutant: a new peak is only taken at the end of a fall.
PointLate(last, pnl) ==
    LET sum == last.equity + pnl
        peak == IF sum < last.equity THEN Greater(last.peak, last.equity) ELSE last.peak
        fall == Greater(0, peak - sum)
    IN [equity |-> sum, peak |-> peak, drawdown |-> fall, most |-> Greater(last.most, Greater(0, last.peak - sum))]

(* equityCurveFromPnls: a point per record, and the figures of the report.      *)
Point(last, pnl) ==
    LET sum == last.equity + pnl
        peak == Greater(last.peak, sum)
        fall == Greater(0, peak - sum)
    IN [equity |-> sum, peak |-> peak, drawdown |-> fall, most |-> Greater(last.most, fall)]
Curve(list) ==
    FoldLeft(LAMBDA c, r : Append(c, Point(c[Len(c)], r.pnl)),
             <<[equity |-> 0, peak |-> 0, drawdown |-> 0, most |-> 0]>>, list)
SumOf(list, Counts(_)) == FoldLeft(LAMBDA t, r : IF Counts(r) THEN t + r.pnl ELSE t, 0, list)
ProductTotals(list) ==
    [g \in {list[n].good : n \in DOMAIN list} |-> SumOf(list, LAMBDA r : r.good = g)]
Metrics(list) ==
    LET curve == Curve(list)
    IN [total |-> SumOf(list, LAMBDA r : TRUE), rows |-> Len(list),
        profit |-> SumOf(list, LAMBDA r : r.pnl > 0), loss |-> -SumOf(list, LAMBDA r : r.pnl < 0),
        squares |-> FoldLeft(LAMBDA t, r : t + r.pnl * r.pnl, 0, list),
        largest |-> FoldLeft(LAMBDA t, r : Greater(t, -r.pnl), 0, list),
        known |-> Len(SelectSeq(list, LAMBDA r : r.good = "ES")),
        drawdown |-> IF reported > 0 THEN reported ELSE curve[Len(curve)].most,
        end |-> curve[Len(curve)].equity, products |-> ProductTotals(list)]

(* tradeAnalyticsRiskLevel and buildTradeAnalyticsStudies, their ratios          *)
(* multiplied out: a Sharpe ratio below a half, of a sample whose deviation may  *)
(* be none, and a profit factor that is the profit itself when nothing was lost. *)
Apart(m) == m.rows * m.squares - m.total * m.total
LowSharpe(m) == Apart(m) = 0 \/ m.total < 0 \/ 4 * m.total * m.total * (m.rows - 1) < Apart(m)

RiskLevel(m) ==
    CASE 50 * m.drawdown >= AccountSize \/ m.total < 0 -> "High"
      [] 100 * m.drawdown >= AccountSize \/ 5 * m.profit < 6 * Greater(m.loss, 1) \/ LowSharpe(m) -> "Elevated"
      [] OTHER -> "Controlled"
Studies(m) ==
    [risk |-> RiskLevel(m) = "Controlled", base |-> m.total >= 0,
     drawdown |-> 100 * m.drawdown <= AccountSize,
     expectancy |-> m.total > 0 /\ m.profit >= Greater(m.loss, 1),
     losses |-> 200 * m.largest <= AccountSize, coverage |-> 10 * m.known >= 8 * m.rows]
(* buildTradeAnalyticsReport: the rows that do not only repeat a figure.         *)
Report(m, list) ==
    [read |-> IF m.total < 0 THEN "pressure" ELSE IF 100 * m.drawdown > AccountSize THEN "exceeded" ELSE "inside",
     best |-> FoldLeft(LAMBDA t, r : Greater(t, r.pnl), list[1].pnl, list),
     worst |-> FoldLeft(LAMBDA t, r : Lesser(t, r.pnl), list[1].pnl, list)]
NoFigures == [metrics |-> [rows |-> 0]]
Analyze == /\ part = "figures" /\ figures = NoFigures /\ records # <<>>
           /\ \E list \in Arrangements(records) :
                 LET m == Metrics(list)
                 IN records' = list /\ figures' = [metrics |-> m, level |-> RiskLevel(m), studies |-> Studies(m), report |-> Report(m, list)]
           /\ UNCHANGED <<part, reported, scanVars, importVars>>

(* The window: files are read in their own time, a file without a figure to read *)
(* or a storage that is full leaves what was shown, and the window is opened anew.*)
PickFile(f) == /\ part = "window" /\ Len(reading) < MaxImports
               /\ reading' = Append(reading, f) /\ UNCHANGED <<part, scanVars, figureVars, imported, storedImport>>

Kept(f, room) == IF room THEN imported' = f /\ storedImport' = f ELSE UNCHANGED <<imported, storedImport>>
FileRead(n) == /\ part = "window" /\ n \in DOMAIN reading /\ reading' = RemoveAt(reading, n)
               /\ \/ \E room \in BOOLEAN : Kept(reading[n], room)
                  \/ UNCHANGED <<imported, storedImport>>
               /\ UNCHANGED <<part, scanVars, figureVars>>
ClearImport == /\ part = "window" /\ imported # None
               /\ imported' = None /\ storedImport' = None
               /\ UNCHANGED <<part, scanVars, figureVars, reading>>
ReopenReport == /\ part = "window" /\ imported' = storedImport /\ reading' = <<>>
                /\ UNCHANGED <<part, scanVars, figureVars, storedImport>>

Tables == UNION {[1 .. n -> [1 .. TableColumns -> Cells]] : n \in 1 .. MaxRows}
Records == [pnl : Pnls, time : Times, good : {"ES", "XX"}]
ReportInit ==
    /\ at = 1 /\ rows = <<>> /\ row = <<>> /\ cell = <<>> /\ quoted = FALSE
    /\ imported = None /\ storedImport = None /\ reading = <<>> /\ figures = NoFigures
    /\ \/ part = "scan" /\ records = <<>> /\ reported = 0
          /\ table \in {t \in Tables : \A n \in DOMAIN t : ~Blank(t[n])} /\ text = ExportCsv(table)
       \/ part = "figures" /\ table = <<>> /\ text = <<>> /\ reported \in Falls
          /\ records \in UNION {[1 .. n -> Records] : n \in 1 .. MaxRecords}
       \/ part = "window" /\ table = <<>> /\ text = <<>> /\ records = <<>> /\ reported = 0
ReportNext == \/ Scan \/ EndOfText \/ Analyze \/ ClearImport \/ ReopenReport
              \/ \E f \in FillFiles : PickFile(f)
              \/ \E n \in DOMAIN reading : FileRead(n)
ReportSpec == ReportInit /\ [][ReportNext]_reportVars

\* What the terminal exports it reads back as it was, whatever quotes, commas and
\* line ends its cells hold.
ExportReadsBack == part = "scan" /\ at = Len(text) + 2 => rows = table /\ ~quoted

\* The figures of the report agree: the drawdown is the one the file reports or
\* else the deepest fall from any earlier point of the account, the start included,
\* and the products, the profit less the loss and the end of the curve all come to
\* the total.
FiguresAgree ==
    figures # NoFigures =>
        LET m == figures.metrics
            equity[n \in 0 .. Len(records)] == IF n = 0 THEN 0 ELSE equity[n - 1] + records[n].pnl
            real == {equity[p[1]] - equity[p[2]] :
                        p \in {q \in (0 .. Len(records)) \X (0 .. Len(records)) : q[1] <= q[2]}}
        IN /\ IF reported > 0 THEN m.drawdown = reported
              ELSE m.drawdown \in real /\ \A f \in real : f <= m.drawdown
           /\ m.end = m.total /\ m.total = m.profit - m.loss
           /\ m.total = FoldSet(LAMBDA g, t : t + m.products[g], 0, DOMAIN m.products)
           /\ figures.report.worst >= -m.largest /\ m.rows * figures.report.best >= m.total

\* The words of a report do not contradict its tests: what is called controlled
\* passes the tests of the account, of the drawdown and of the expectancy, and what
\* is called high fails one of the first two.
LevelAgreesWithStudies ==
    figures # NoFigures =>
        LET studies == figures.studies
        IN /\ studies.risk => studies.base /\ studies.drawdown /\ studies.expectancy
           /\ figures.level = "High" => ~(studies.base /\ studies.drawdown)

\* What the window shows is what it will show when it is opened again, also when a
\* file cannot be read, when the storage is full, and when it is cleared meanwhile.
ShownIsStored == imported = storedImport
=============================================================================
