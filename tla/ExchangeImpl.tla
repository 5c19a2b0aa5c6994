----------------------------- MODULE ExchangeImpl -----------------------------
(***************************************************************************)
(* Exchange implements OrderBook: seen between two operations, a handler   *)
(* that loops over levels and queues has the effect of one atomic step.    *)
(* held keeps what was seen when the running operation began.              *)
(***************************************************************************)
EXTENDS Exchange

VARIABLE held

implVars == <<vars, held>>

Live ==
  UNION {{queue[s][d][p][i] : i \in DOMAIN queue[s][d][p]} :
           s \in Products, d \in Sides, p \in Ticks}

\* The resting order's report of each trade: the second of the two of a match,
\* which tells of an order that was not accepted just now, or the one of a sweep.
MakerReports ==
  {i \in DOMAIN batch.reports :
     LET r == batch.reports[i]
     IN /\ r.fill > 0
        /\ \A a \in DOMAIN batch.reports :
             batch.reports[a].status = "accepted" => batch.reports[a].id # r.id}

Fills ==
  {[maker |-> batch.reports[i].id, taker |-> batch.reports[i].contra,
    qty |-> batch.reports[i].fill, px |-> batch.reports[i].px] : i \in MakerReports}

Seen == [live |-> Live, clock |-> sequence, fills |-> Fills]

ImplInit == Init /\ held = None

ImplNext ==
  /\ Next
  /\ held' = IF ctl' = "idle" THEN None ELSE IF ctl = "idle" THEN Seen ELSE held

ImplSpec == ImplInit /\ [][ImplNext]_implVars

Shown == IF ctl = "idle" THEN Seen ELSE held

Book == INSTANCE OrderBook WITH
          live <- Shown.live, clock <- Shown.clock, fills <- Shown.fills

\* The exchange with its loops, queues and registry implements the atomic book.
ImplementsOrderBook == Book!Spec
=============================================================================
