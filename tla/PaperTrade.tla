----------------------------- MODULE PaperTrade -----------------------------
(* Paper trading of event markets: positions opened by hand or by signals, closed *)
(* by hand or by their own limits, and an account of all closings that outlives   *)
(* the list of them. Money is in cents, rounded down.                          *)
EXTENDS Terminal, SequencesExt

CONSTANTS Events,       \* the markets
          Chances,      \* their probabilities, in percent
          Stake,        \* invested in each position
          TradeList,    \* trades kept (5000 in the code)
          RestoredSum,  \* what the one-time restoration adds
          OldTrades,    \* lists of profits an older version may have left
          SignalIds,
          MaxOpened, MaxMoves \* bounds on the positions and on the market's moves

VARIABLES chance,           \* polyBooks and markets: a probability, None for a market that is gone
          holdings,         \* open positions
          closings,         \* trades, the latest first
          lifetime,         \* totals of every closing since the last reset
          restored,         \* the restoration has been made
          paperOpen, auto,  \* the page is shown; auto-signal is on
          signalsSeen,      \* signals this page has looked at
          openings, moves,
          book              \* history: profits since the last reset in their order, and an adoption
paperVars == <<chance, holdings, closings, lifetime, restored, paperOpen, auto, signalsSeen, openings, moves, book>>

NoTotals == [total |-> 0, wins |-> 0, count |-> 0, fall |-> 0, peak |-> 0]

(* calcNetPnl: the change in price less a fee on each leg, of 7.2 % times p(1-p). *)
SideChance(side, p) == IF side = "yes" THEN p ELSE 100 - p
Fee(entry, p) == (Stake * 72 * p * (100 - p)) \div (100000 * entry)
Net(pos, now) ==
    LET e == SideChance(pos.side, pos.entry)  x == SideChance(pos.side, now)
    IN (Stake * (x - e)) \div e - Fee(e, e) - Fee(e, x)
PriceOf(pos, prices) == IF prices[pos.event] = None THEN pos.entry ELSE prices[pos.event]

\* Mutant: the fall is measured before the closing is added.
EnteredLate(totals, profit) ==
    LET sum == totals.total + profit IN
    [total |-> sum, wins |-> totals.wins + (IF profit > 0 THEN 1 ELSE 0), count |-> totals.count + 1,
     peak |-> Greater(totals.peak, sum), fall |-> Greater(totals.fall, totals.peak - totals.total)]

(* A closing enters the account: the totals of setLifetime, the head of the list. *)
Entered(totals, profit) ==
    LET sum == totals.total + profit  peak == Greater(totals.peak, sum) IN
    [total |-> sum, wins |-> totals.wins + (IF profit > 0 THEN 1 ELSE 0), count |-> totals.count + 1,
     peak |-> peak, fall |-> Greater(totals.fall, peak - sum)]
Account(totals, history, profits) ==
    /\ closings' = FirstOf(profits \o closings, TradeList)
    /\ lifetime' = FoldLeft(Entered, totals, profits)
    /\ book' = [history EXCEPT !.profits = @ \o profits]

(* The effect that runs when a market moves: positions whose return is at +20 %   *)
(* or more, or -50 % or less, are closed at that price.                           *)
PastLimit(profit) == 5 * profit >= Stake \/ 2 * profit <= -Stake
AutoClose(totals, history, prices) ==
    LET done == SelectSeq(holdings, LAMBDA p : PastLimit(Net(p, PriceOf(p, prices)))) IN
    /\ holdings' = SelectSeq(holdings, LAMBDA p : ~PastLimit(Net(p, PriceOf(p, prices))))
    /\ Account(totals, history, [n \in DOMAIN done |-> Net(done[n], PriceOf(done[n], prices))])
MarketMoves ==
    /\ moves < MaxMoves /\ moves' = moves + 1
    /\ \E e \in Events, p \in Chances \cup {None} :
          LET prices == [chance EXCEPT ![e] = p] IN
          /\ p # chance[e] /\ chance' = prices
          /\ IF paperOpen THEN AutoClose(lifetime, book, prices)
                        ELSE UNCHANGED <<holdings, closings, lifetime, book>>
    /\ UNCHANGED <<restored, paperOpen, auto, signalsSeen, openings>>

(* handleBuy, handleQuickSignalTrade: only for a market that is listed.           *)
Position(event, side) == [id |-> openings + 1, event |-> event, side |-> side, entry |-> chance[event]]
Buy(event, side) ==
    /\ openings < MaxOpened /\ chance[event] # None /\ openings' = openings + 1
    /\ holdings' = Append(holdings, Position(event, side))
    /\ UNCHANGED <<chance, closings, lifetime, restored, paperOpen, auto, signalsSeen, moves, book>>
(* The auto-signal effect: every signal it has not looked at opens a position.    *)
SignalArrives(event, id, side) ==
    /\ auto /\ id \notin signalsSeen /\ chance[event] # None /\ openings < MaxOpened
    /\ signalsSeen' = signalsSeen \cup {id} /\ openings' = openings + 1
    /\ holdings' = Append(holdings, Position(event, side))
    /\ UNCHANGED <<chance, closings, lifetime, restored, paperOpen, auto, moves, book>>
ToggleAuto == auto' = ~auto /\ UNCHANGED <<chance, holdings, closings, lifetime, restored, paperOpen, signalsSeen, openings, moves, book>>

(* handleClose, at the price its market has now.                                  *)
CloseHolding(n) ==
    /\ holdings' = SelectSeq(holdings, LAMBDA p : p.id # holdings[n].id)
    /\ Account(lifetime, book, <<Net(holdings[n], PriceOf(holdings[n], chance))>>)
    /\ UNCHANGED <<chance, restored, paperOpen, auto, signalsSeen, openings, moves>>
Reset == /\ holdings' = <<>> /\ closings' = <<>> /\ lifetime' = NoTotals
         /\ book' = [profits |-> <<>>, adopted |-> FALSE, opened |-> openings]
         /\ UNCHANGED <<chance, restored, paperOpen, auto, signalsSeen, openings, moves>>

(* The page is mounted: what was stored comes back, trades without totals are     *)
(* adopted (calcStats, over the list as it is stored), the one-time restoration is *)
(* made, and positions that crossed a limit while it was away are closed.         *)
Adopted == LET sums == FoldLeft(Entered, NoTotals, closings) IN [sums EXCEPT !.peak = Greater(0, sums.total)]
Restored(base) == IF restored THEN base
                  ELSE [base EXCEPT !.total = @ + RestoredSum, !.peak = Greater(@, base.total + RestoredSum)]
OpenPaper ==
    LET adopts == lifetime.count = 0 /\ closings # <<>>
        history == [book EXCEPT !.profits = (IF adopts THEN closings ELSE @)
                                            \o (IF restored THEN <<>> ELSE <<RestoredSum>>),
                                !.adopted = @ \/ adopts,
                                !.opened = IF adopts THEN @ - Len(closings) ELSE @] IN
    /\ ~paperOpen /\ AutoClose(Restored(IF adopts THEN Adopted ELSE lifetime), history, chance)
    /\ paperOpen' = TRUE /\ restored' = TRUE /\ auto' = FALSE /\ signalsSeen' = {}
    /\ UNCHANGED <<chance, openings, moves>>
ClosePaper == paperOpen /\ paperOpen' = FALSE
           /\ UNCHANGED <<chance, holdings, closings, lifetime, restored, auto, signalsSeen, openings, moves, book>>

PaperInit ==
    /\ chance \in [Events -> Chances] /\ holdings = <<>> /\ closings \in OldTrades
    /\ lifetime = NoTotals /\ restored = FALSE /\ paperOpen = FALSE /\ auto = FALSE /\ signalsSeen = {}
    /\ openings = 0 /\ moves = 0 /\ book = [profits |-> <<>>, adopted |-> FALSE, opened |-> 0]
PaperNext ==
    \/ OpenPaper \/ ClosePaper \/ MarketMoves
    \/ paperOpen /\  \/ ToggleAuto \/ Reset
                     \/ \E e \in Events, side \in {"yes", "no"} :
                           Buy(e, side) \/ \E id \in SignalIds : SignalArrives(e, id, side)
                     \/ \E n \in DOMAIN holdings : CloseHolding(n)
PaperSpec == PaperInit /\ [][PaperNext]_paperVars

SumOfAll(profits) == FoldLeft(LAMBDA t, p : t + p, 0, profits)

\* The lifetime profit is that of every closing since the last reset, of those the
\* list no longer holds too, and every position opened since is open or counted.
LifetimeHoldsEveryClose ==
    restored => /\ lifetime.total = SumOfAll(book.profits)
                /\ lifetime.count + Len(holdings) = openings - book.opened

\* The lifetime drawdown is the worst fall of the running profit over the closings
\* in their order, for an account that was not adopted from an older list.
LifetimeFallIsTheWorst ==
    restored /\ ~book.adopted =>
        LET run == [n \in 0..Len(book.profits) |-> SumOfAll(SubSeq(book.profits, 1, n))]
            falls == {run[i] - run[j] : i, j \in DOMAIN run} IN
        /\ \A i, j \in DOMAIN run : i <= j => run[i] - run[j] <= lifetime.fall
        /\ lifetime.fall = 0 \/ \E i, j \in DOMAIN run : i <= j /\ run[i] - run[j] = lifetime.fall
-----------------------------------------------------------------------------
(* The backtest of paper trading: a strategy runs over the recorded probabilities *)
(* of a market; one position is open at a time, and each is closed at the first   *)
(* point that meets its stop, its profit limit or its target.                     *)
CONSTANTS Odds,          \* probabilities a point of history may have, in percent
          Configs,       \* [strategy, low, high, target, stop, take, stake]
          MinPoints,     \* points a run needs (10 in the code)
          HistoryLength  \* bound

VARIABLES history,       \* probHistory of the market
          report         \* btResult: [of, cfg, trades, equity], None before the first run
backtestVars == <<history, report>>

Gain(cfg, side, entry, now) ==
    IF side = "yes" THEN (cfg.stake * (now - entry)) \div entry
                    ELSE (cfg.stake * (entry - now)) \div (100 - entry)

(* Why a position is closed at a point, None when it is not; the stop comes first. *)
Exit(cfg, open, now) ==
    LET percent == (Gain(cfg, open.side, open.entry, now) * 100) \div cfg.stake IN
    CASE percent <= -cfg.stop -> "stop"
      [] percent > -cfg.stop /\ percent >= cfg.take -> "take_profit"
      [] percent > -cfg.stop /\ percent < cfg.take
         /\ (IF open.side = "yes" THEN now >= cfg.target ELSE now <= 100 - cfg.target) -> "signal"
      [] OTHER -> None

(* The side a strategy takes at point n, None when it takes none. Momentum looks   *)
(* three points back.                                                              *)
Entry(cfg, h, n) ==
    LET now == h[n]
        yes == CASE cfg.strategy = "mean_reversion" -> now <= cfg.low
                 [] cfg.strategy = "momentum" -> n > 3 /\ now - h[n - 3] >= 5 /\ now < 80
                 [] cfg.strategy = "threshold" -> now < cfg.low
        no ==  CASE cfg.strategy = "mean_reversion" -> now >= cfg.high
                 [] cfg.strategy = "momentum" -> n > 3 /\ h[n - 3] - now >= 5 /\ now > 20
                 [] cfg.strategy = "threshold" -> now > cfg.high
    IN IF yes THEN "yes" ELSE IF no THEN "no" ELSE None

Closed(cfg, run, n, now, reason) ==
    LET gain == Gain(cfg, run.open.side, run.open.entry, now) IN
    [open |-> None, sum |-> run.sum + gain, equity |-> Append(run.equity, run.sum + gain),
     trades |-> Append(run.trades, [side |-> run.open.side, from |-> run.open.at, to |-> n,
                                    gain |-> gain, reason |-> reason])]
Settled(cfg, run, n, now) ==
    IF run.open = None THEN run
    ELSE LET reason == Exit(cfg, run.open, now) IN
         IF reason = None THEN run ELSE Closed(cfg, run, n, now, reason)

EnteredAt(cfg, h, run, n) ==
    LET side == Entry(cfg, h, n) IN
    IF run.open # None \/ side = None THEN run
    ELSE [run EXCEPT !.open = [side |-> side, entry |-> h[n], at |-> n]]
(* runBacktest: the first point only serves later ones; what is open at the end is *)
(* closed at the last point.                                                       *)
RunOf(cfg, h) ==
    LET none == [open |-> None, sum |-> 0, trades |-> <<>>, equity |-> <<>>]
        step(run, n) == EnteredAt(cfg, h, Settled(cfg, run, n, h[n]), n)
        end == FoldLeft(step, none, [n \in 1..(Len(h) - 1) |-> n + 1])
    IN IF end.open = None THEN end ELSE Closed(cfg, end, Len(h), h[Len(h)], "rollover")

PointArrives == \E p \in Odds : Len(history) < HistoryLength
                                /\ history' = Append(history, p) /\ UNCHANGED report
RunBacktest == \E cfg \in Configs :
    LET run == RunOf(cfg, history) IN
    /\ Len(history) >= MinPoints
    /\ report' = [of |-> history, cfg |-> cfg, trades |-> run.trades, equity |-> run.equity]
    /\ UNCHANGED history
BacktestInit == history = <<>> /\ report = None
BacktestNext == PointArrives \/ RunBacktest
BacktestSpec == BacktestInit /\ [][BacktestNext]_backtestVars

(* Whether a trade had to be closed at a point, from its definition.               *)
MustClose(cfg, trade, h, n) ==
    LET gain == Gain(cfg, trade.side, h[trade.from], h[n]) IN
    \/ (gain * 100) \div cfg.stake <= -cfg.stop
    \/ (gain * 100) \div cfg.stake >= cfg.take
    \/ IF trade.side = "yes" THEN h[n] >= cfg.target ELSE h[n] <= 100 - cfg.target

\* Positions of a backtest follow one another; each is closed at the first point after
\* its entry that must close it, or at the end of the history, and no point outside
\* them called for an entry.
TradesAreTheStrategys ==
    report # None =>
        LET cfg == report.cfg  h == report.of  trades == report.trades
            within(n) == \E k \in DOMAIN trades : trades[k].from <= n /\ n < trades[k].to IN
        /\ \A k \in DOMAIN trades : LET t == trades[k] IN
              /\ \A n \in (t.from + 1)..(t.to - 1) : ~MustClose(cfg, t, h, n)
              /\ t.to # Len(h) => t.from < t.to /\ MustClose(cfg, t, h, t.to)
              /\ k < Len(trades) => t.to <= trades[k + 1].from
        /\ \A n \in 2..(Len(h) - 1) : Entry(cfg, h, n) # None => within(n)
=============================================================================
