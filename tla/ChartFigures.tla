---------------------------- MODULE ChartFigures -----------------------------
(* What a study chart makes of its bars: the series by timeframe, the bar of    *)
(* the live price, the volume at price, the regression channel and the ATR      *)
(* bands, and what of it has been handed to the chart component that draws it.  *)
(* How the bars arrive is ChartFeed.                                            *)
EXTENDS Terminal, FiniteSets, SequencesExt

CONSTANTS Walks,       \* histories: sequences of minute bars, times 0, 1, ...
          Frames,      \* timeframes, in minutes
          LivePrices,  \* prices a trade or a quote can have
          StudyLength, \* lookback of the studies
          Bins         \* bins of the volume at price

VARIABLES walk, minute,  \* the history that will be, and the minute
          frame, bars,   \* timeframe of the chart, rows of the last answer
          tick, quote,   \* latest trade and book of the product, or None
          snapshot,      \* regression snapshot of the gateway, or None
          redraws,       \* effects of the last render still to run, "series" and "last"
          drawn,         \* bars the chart component has
          regression,    \* means of the channel drawn, [time, mean]
          studiedAt,     \* when it was drawn
          standing       \* FALSE: the component threw, and the page with it
figureChartVars == <<walk, minute, frame, bars, tick, quote, snapshot, redraws, drawn, regression, studiedAt, standing>>

Total(list, Of(_)) == FoldLeft(LAMBDA t, x : t + Of(x), 0, list)
BucketStart(time, width) == (time \div width) * width

(* ceriousChartSeriesBars: the rows of a bucket make one bar.                   *)
JoinedBar(bar, row) == [bar EXCEPT !.high = Greater(bar.high, row.high),
                                !.low = Lesser(bar.low, row.low), !.close = row.close,
                                !.volume = bar.volume + row.volume]
SeriesBars(rows, width) ==
    FoldLeft(LAMBDA list, row :
                 LET start == BucketStart(row.time, width)
                     open == {n \in DOMAIN list : list[n].time = start}
                 IN IF open = {} THEN Append(list, [row EXCEPT !.time = start])
                    ELSE LET n == CHOOSE k \in open : TRUE
                         IN [list EXCEPT ![n] = JoinedBar(list[n], row)], <<>>, rows)

(* ceriousChartWithLiveLast: the newer of trade and quote, by their times.      *)
TradeLeads == tick # None /\ (quote = None \/ tick.time >= quote.time)
Live == IF TradeLeads THEN tick ELSE IF quote # None THEN quote ELSE None
LiveBucket(time) == BucketStart(time, frame)
WithLiveLast ==
    LET rows == SeriesBars(bars, frame) latest == rows[Len(rows)] time == LiveBucket(Live.time)
        size == IF TradeLeads THEN tick.size ELSE 0
    IN IF Live = None THEN rows
       ELSE IF rows # <<>> /\ latest.time = time
       THEN [rows EXCEPT ![Len(rows)] = JoinedBar(@, [high |-> Live.price, low |-> Live.price,
                                                   close |-> Live.price, volume |-> size])]
       ELSE LET open == IF rows = <<>> THEN Live.price ELSE latest.close
            IN Append(rows, [time |-> time, open |-> open, high |-> Greater(open, Live.price),
                             low |-> Lesser(open, Live.price), close |-> Live.price, volume |-> size])

\* Mutant: the highest price has no bin.
BinUnclamped(row, min, max) ==
    (Bins * (row.high + row.low + row.close - 3 * min)) \div (3 * (max - min)) + 1

(* ceriousVolumeAtPriceBuckets: the volume of a row goes to the bin of its      *)
(* typical price, (high + low + close) / 3.                                     *)
BinOf(row, min, max) ==
    ClampLow((Bins * (row.high + row.low + row.close - 3 * min)) \div (3 * (max - min)), 0, Bins - 1) + 1
LowsOf(rows) == {rows[n].low : n \in DOMAIN rows}
HighsOf(rows) == {rows[n].high : n \in DOMAIN rows}
LowestOf(S) == CHOOSE x \in S : \A y \in S : x <= y
HighestOf(S) == CHOOSE x \in S : \A y \in S : x >= y
VolumeAtPrice(rows) ==
    IF Len(rows) < 2 THEN <<>>
    ELSE LET min == LowestOf(LowsOf(rows)) max == HighestOf(HighsOf(rows))
         IN IF max <= min THEN <<>>
            ELSE [b \in 1 .. Bins |-> Total(SelectSeq(rows, LAMBDA r : BinOf(r, min, max) = b),
                                            LAMBDA r : r.volume)]

(* The rows whose period is over.                                               *)
CompletedRows(rows) == SelectSeq(rows, LAMBDA r : r.time + frame <= minute)

(* ceriousRegressionChannel, the least squares line of the last rows. Values    *)
(* are multiples of 1 / (n * Spread): Offset is twice the distance from the     *)
(* middle of the sample.                                                        *)
Offset(i, n) == 2 * (i - 1) - (n - 1)
Spread(n) == Total([i \in 1 .. n |-> i], LAMBDA i : Offset(i, n) * Offset(i, n))
Slope(sample) == LET n == Len(sample)
                 IN n * Total([i \in 1 .. n |-> i], LAMBDA i : Offset(i, n) * sample[i].close)
MeanAt(sample, i) == LET n == Len(sample)
                     IN Total(sample, LAMBDA r : r.close) * Spread(n) + Slope(sample) * Offset(i, n)
RegressionChannel(rows) ==
    LET sample == LastOf(rows, StudyLength)
    IN IF Len(rows) < StudyLength THEN <<>>
       ELSE [i \in DOMAIN sample |-> [time |-> sample[i].time, mean |-> MeanAt(sample, i)]]

(* serverRegressionChannel: the last mean of the snapshot is carried back along *)
(* its slope, from the last row the gateway knew. Slope is per half a row.      *)
EligibleRows(rows) == SelectSeq(rows, LAMBDA r : r.time <= snapshot.updated)
ServerChannel(rows) ==
    LET studied == LastOf(EligibleRows(rows), StudyLength)
        last == Len(studied)
    IN IF last < 2 THEN <<>>
       ELSE [i \in DOMAIN studied |-> [time |-> studied[i].time,
                                       mean |-> snapshot.mean - snapshot.slope * 2 * (last - i)]]

(* ceriousAtrBands: the distance of the bands, a multiple of 1 / StudyLength.    *)
TrueRange(rows, n) ==
    HighestOf({rows[n].high - rows[n].low, rows[n].high - rows[n - 1].close,
               rows[n - 1].close - rows[n].low, rows[n - 1].close - rows[n].high,
               rows[n].low - rows[n - 1].close})
AtrBands(rows) ==
    IF Len(rows) < StudyLength + 1 THEN <<>>
    ELSE [k \in 1 .. Len(rows) - StudyLength |->
             [time |-> rows[k + StudyLength].time,
              range |-> Total([i \in 1 .. StudyLength |-> k + i], LAMBDA n : TrueRange(rows, n))]]

(* The two effects: the first hands over the whole series and draws the studies,*)
(* the second updates the last bar. update() of the chart component joins the   *)
(* last bar or appends a later one, and throws when it is given an older one.   *)
Drawing(rows, last) ==
    IF last = None \/ rows = <<>> \/ rows[Len(rows)].time < last.time
    THEN IF last # None /\ rows = <<>> THEN <<last>> ELSE rows
    ELSE IF rows[Len(rows)].time = last.time THEN [rows EXCEPT ![Len(rows)] = last]
    ELSE Append(rows, last)
Throws(rows, last) == last # None /\ rows # <<>> /\ last.time < rows[Len(rows)].time
LastShown == LET shown == WithLiveLast IN IF shown = <<>> THEN None ELSE shown[Len(shown)]
ChannelOf(rows) == IF snapshot # None /\ snapshot.frame = frame THEN ServerChannel(rows)
                   ELSE RegressionChannel(rows)
RunEffects ==
    LET bucketed == SeriesBars(bars, frame)
        handed == "series" \in redraws /\ bucketed # <<>>
        rows == IF handed THEN bucketed ELSE drawn
        last == IF "last" \in redraws THEN LastShown ELSE None
    IN /\ redraws # {} /\ redraws' = {}
       /\ drawn' = Drawing(rows, last)
       /\ standing' = ~Throws(rows, last)
       /\ regression' = IF handed THEN ChannelOf(CompletedRows(bucketed)) ELSE regression
       /\ studiedAt' = IF handed THEN minute ELSE studiedAt
       /\ UNCHANGED <<walk, minute, frame, bars, tick, quote, snapshot>>
Redraws(effects) == /\ redraws = {} /\ redraws' = effects
                    /\ UNCHANGED <<walk, minute, drawn, regression, studiedAt, standing>>

ChartInit ==
    /\ walk \in Walks /\ minute = 0 /\ frame \in Frames /\ bars = <<>>
    /\ tick = None /\ quote = None /\ snapshot = None
    /\ redraws = {} /\ drawn = <<>> /\ regression = <<>> /\ studiedAt = 0 /\ standing = TRUE
BarsArrive(n) == /\ bars' = SeriesBars(FirstOf(walk, n), frame) /\ bars' # bars
                 /\ UNCHANGED <<frame, tick, quote, snapshot>> /\ Redraws({"series", "last"})
PickFrame(w) == /\ w # frame /\ frame' = w
                /\ UNCHANGED <<bars, tick, quote, snapshot>> /\ Redraws({"series", "last"})
TradeArrives(price) == /\ tick' = [time |-> minute, price |-> price, size |-> 1]
                       /\ UNCHANGED <<frame, bars, quote, snapshot>> /\ Redraws({"last"})
QuoteArrives(price) == /\ quote' = [time |-> minute, price |-> price, size |-> 0]
                       /\ UNCHANGED <<frame, bars, tick, snapshot>> /\ Redraws({"last"})
\* The gateway studies the bars it has, with a bar of the live mark where it has
\* one: calculate_regression_study and study_bars_with_live_mark.
LiveMarked(rows, price) ==
    LET start == BucketStart(minute, frame)
        bar == [time |-> start, open |-> price, high |-> price, low |-> price, close |-> price, volume |-> 0]
    IN IF price = None THEN rows
       ELSE IF rows # <<>> /\ rows[Len(rows)].time = start THEN [rows EXCEPT ![Len(rows)] = JoinedBar(@, bar)]
       ELSE Append(rows, bar)
StudyArrives(n, price) ==
    LET known == LiveMarked(SeriesBars(FirstOf(walk, n), frame), price)
        sample == LastOf(known, StudyLength)
    IN /\ Len(known) >= StudyLength
       /\ snapshot' = [frame |-> frame, updated |-> sample[Len(sample)].time, sample |-> sample,
                       mean |-> MeanAt(sample, Len(sample)), slope |-> Slope(sample)]
       /\ UNCHANGED <<frame, bars, tick, quote>> /\ Redraws({"series"})
MinutePasses == /\ minute < Len(walk) /\ minute' = minute + 1
                /\ redraws = {} /\ UNCHANGED <<walk, frame, bars, tick, quote, snapshot, redraws, drawn, regression, studiedAt, standing>>
ChartNext == /\ standing
             /\ \/ MinutePasses \/ RunEffects
                \/ \E n \in {minute - 1, minute} \ {-1, 0} : BarsArrive(n) \/ \E mark \in LivePrices \cup {None} : StudyArrives(n, mark)
                \/ \E w \in Frames : PickFrame(w)
                \/ \E price \in LivePrices : TradeArrives(price) \/ QuoteArrives(price)
ChartSpec == ChartInit /\ [][ChartNext]_figureChartVars

\* The bars handed to the chart are in the order of their times, each one holds
\* its open and its close between its low and its high, and each covers every
\* minute bar that went into it.
BarsAreWhole ==
    /\ \A n \in DOMAIN drawn : {drawn[n].open, drawn[n].close} \subseteq drawn[n].low .. drawn[n].high
    /\ standing => \A n \in 1 .. Len(drawn) - 1 : drawn[n].time < drawn[n + 1].time
    /\ \A row \in ToSet(bars) : \E bar \in ToSet(SeriesBars(bars, frame)) :
           /\ row.time \in bar.time .. bar.time + frame - 1
           /\ bar.low <= row.low /\ row.high <= bar.high

\* No volume is lost on the way: not where bars are put together, and not in the
\* bins of the volume at price, whose bounds the highest price lies on.
VolumeIsWhole ==
    LET rows == SeriesBars(bars, frame) profile == VolumeAtPrice(rows)
        whole == Total(bars, LAMBDA r : r.volume)
    IN Total(rows, LAMBDA r : r.volume) = whole
       /\ (profile # <<>> => Total(profile, LAMBDA v : v) = whole)

Studied == snapshot # None /\ snapshot.frame = frame
SampleUpTo(time) == LastOf(SelectSeq(SeriesBars(bars, frame), LAMBDA r : r.time <= time), StudyLength)

\* A channel computed here, and one of the gateway that was studied on a bar that
\* is over and on the chart, is the line with no other through the sample closer to
\* it, although the chart may have newer bars than the study; and neither uses a
\* bar whose period is not over.
ChannelIsTheFit ==
    LET n == Len(regression)
        sample == SampleUpTo(IF Studied THEN snapshot.updated ELSE regression[n].time)
        scale == n * Total([i \in 1 .. n |-> i], LAMBDA i : (2 * i - n - 1) * (2 * i - n - 1))
        gap == [i \in 1 .. n |-> scale * sample[i].close - regression[i].mean]
    IN n > 0 /\ redraws = {} /\ (Studied => /\ snapshot.updated + frame <= studiedAt
                                       /\ snapshot.sample = sample) =>
         /\ regression[n].time + frame <= studiedAt
         /\ [i \in 1 .. n |-> regression[i].time] = [i \in 1 .. n |-> sample[i].time]
         /\ Total(gap, LAMBDA g : g) = 0
         /\ Total([i \in 1 .. n |-> i], LAMBDA i : i * gap[i]) = 0

\* The bands of a bar take its gap to the bar before it: they are never closer than
\* the way the price went through the lookback.
BandsHoldTheMoves ==
    LET rows == SeriesBars(bars, frame) bands == AtrBands(rows)
        Way(n) == Greater(rows[n].close - rows[n - 1].close, rows[n - 1].close - rows[n].close)
    IN \A k \in DOMAIN bands :
           bands[k].range >= Total([i \in 1 .. StudyLength |-> k + i], LAMBDA n : Way(n))

\* With bars to draw, the page is only brought down by a price of a period before
\* that of the last bar.
OnlyAnOldPriceThrows ==
    ~standing /\ bars # <<>> => \A live \in {tick, quote} \ {None} : live.time < bars[Len(bars)].time
=============================================================================
