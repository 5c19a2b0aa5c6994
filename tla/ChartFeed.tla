------------------------------ MODULE ChartFeed -------------------------------
(* The data of a study chart: the chain of requests for its bars, each one      *)
(* started a while after the last, and the round of requests for its studies.   *)
EXTENDS Terminal, FiniteSets, SequencesExt

CONSTANTS ChartSymbols,  \* products a chart may show
          Lookbacks,     \* lookbacks of its regression studies
          MaxSwitches    \* bound on the changes of product and of studies

VARIABLES serving,  \* the price service answers
          chartOf,  \* the product on the chart
          barsOf,   \* the product whose bars are shown, or None
          barError, loading,
          chain,    \* requests and timers of the chart, [symbol, stage, alive]
          lookback, snapshots, rounds, \* study on the chart, its snapshot, the rounds under way
          switches
chartVars == <<serving, chartOf, barsOf, barError, loading, chain, lookback, snapshots, rounds, switches>>

Link(symbol) == [symbol |-> symbol, stage |-> "asked", alive |-> TRUE]
Round(symbol, n) == [symbol |-> symbol, lookback |-> n, stage |-> "asked", alive |-> TRUE]

ChartFeedInit ==
    /\ serving = TRUE
    /\ \E s \in ChartSymbols : chartOf = s
    /\ barsOf = None /\ barError = FALSE /\ loading = TRUE
    /\ chain = {Link(chartOf)}
    /\ \E n \in Lookbacks : lookback = n
    /\ snapshots = None /\ rounds = {Round(chartOf, lookback)}
    /\ switches = 0

Studies == <<lookback, snapshots, rounds>>

\* Mutant: an answer is taken whatever the chart shows by now.
AnyLink(link) == TRUE

(* fetchBars answers, fails or times out; a failure keeps the bars there are,  *)
(* and either way the next request is timed. What was abandoned is not taken.   *)
Current(link) == link.alive

BarsReturn(link) ==
    /\ link \in chain /\ link.stage = "asked"
    /\ IF Current(link)
       THEN /\ barsOf' = IF serving THEN link.symbol ELSE barsOf
            /\ barError' = ~serving
            /\ loading' = FALSE
            /\ chain' = (chain \ {link}) \cup {[link EXCEPT !.stage = "waiting"]}
       ELSE chain' = chain \ {link} /\ UNCHANGED <<barsOf, barError, loading>>
    /\ UNCHANGED <<serving, Studies, chartOf, switches>>
PullBars(link) ==
    /\ link \in chain /\ link.stage = "waiting"
    /\ loading' = TRUE
    /\ chain' = (chain \ {link}) \cup {Link(link.symbol)}
    /\ UNCHANGED <<serving, Studies, chartOf, barsOf, barError, switches>>

(* Another product or timeframe: the timer is cleared, an answer on its way    *)
(* is not taken; the bars stay until the first answer.                         *)
Abandoned(links) == {[link EXCEPT !.alive = FALSE] : link \in {l \in links : l.stage # "waiting"}}
SwitchChart(s) ==
    /\ s # chartOf /\ switches < MaxSwitches
    /\ switches' = switches + 1
    /\ chartOf' = s
    /\ chain' = Abandoned(chain) \cup {Link(s)}
    /\ rounds' = Abandoned(rounds) \cup {Round(s, lookback)}
    /\ loading' = TRUE
    /\ UNCHANGED <<serving, barsOf, barError, lookback, snapshots>>

(* Every study is asked for; one that fails is kept as a failure. The round   *)
(* that is over is started again after half a minute.                         *)
SwitchStudy(n) ==
    /\ n # lookback /\ switches < MaxSwitches
    /\ switches' = switches + 1
    /\ lookback' = n
    /\ rounds' = Abandoned(rounds) \cup {Round(chartOf, n)}
    /\ UNCHANGED <<serving, chartOf, barsOf, barError, loading, chain, snapshots>>
StudiesReturn(round) ==
    /\ round \in rounds /\ round.stage = "asked"
    /\ IF Current(round)
       THEN /\ snapshots' = [symbol |-> round.symbol, lookback |-> round.lookback, ok |-> serving]
            /\ rounds' = (rounds \ {round}) \cup {[round EXCEPT !.stage = "waiting"]}
       ELSE rounds' = rounds \ {round} /\ UNCHANGED snapshots
    /\ UNCHANGED <<serving, chartOf, barsOf, barError, loading, chain, lookback, switches>>
PullStudies(round) ==
    /\ round \in rounds /\ round.stage = "waiting"
    /\ rounds' = (rounds \ {round}) \cup {Round(round.symbol, round.lookback)}
    /\ UNCHANGED <<serving, chartOf, barsOf, barError, loading, chain, lookback, snapshots, switches>>

(* What is drawn of a study: the snapshot of its own request, by its key.     *)
Drawn == IF snapshots # None /\ snapshots.ok /\ snapshots.symbol = chartOf
            /\ snapshots.lookback = lookback THEN snapshots ELSE None

ServiceTurns == /\ serving' = ~serving
                /\ UNCHANGED <<chartOf, barsOf, barError, loading, chain, Studies, switches>>

ChartFeedNext ==
    \/ \E link \in chain : BarsReturn(link) \/ PullBars(link)
    \/ \E round \in rounds : StudiesReturn(round) \/ PullStudies(round)
    \/ \E s \in ChartSymbols : SwitchChart(s)
    \/ \E n \in Lookbacks : SwitchStudy(n)
    \/ ServiceTurns
ChartFeedSpec ==
    /\ ChartFeedInit /\ [][ChartFeedNext]_chartVars
    /\ WF_chartVars(\E link \in chain : link.alive /\ (BarsReturn(link) \/ PullBars(link)))
    /\ WF_chartVars(\E round \in rounds : round.alive
                      /\ (StudiesReturn(round) \/ PullStudies(round)))

\* However often product and studies are changed, a chart has one chain of
\* requests for its bars and one round for its studies: no timer of a product
\* left goes on asking beside them.
OneChain == /\ Cardinality({link \in chain : link.alive \/ link.stage = "waiting"}) = 1
            /\ Cardinality({round \in rounds : round.alive \/ round.stage = "waiting"}) = 1

\* A step that changes bars or studies, changes them to those of what is shown after it.
AnswersFit ==
    /\ barsOf' # barsOf => barsOf' = chartOf'
    /\ snapshots' # snapshots => snapshots'.symbol = chartOf' /\ snapshots'.lookback = lookback'

\* Bars and studies change only to those of what the chart shows.
AnswersOfTheChart == [][AnswersFit]_chartVars

\* With the service answering, a chart comes to show bars and a study of its own,
\* whatever was left unanswered before.
ChartConverges == <>[]serving => <>[](barsOf = chartOf /\ Drawn # None)
=============================================================================
