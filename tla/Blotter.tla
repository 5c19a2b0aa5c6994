------------------------------- MODULE Blotter -------------------------------
(* The order book and the fills window of the terminal: rows made from the      *)
(* orders, fills and positions the store holds, the filters over them, the sums *)
(* in their headers, and the cancels sent from a row. The store changes as the  *)
(* snapshots of the exchange do; how those arrive is StorePolls' concern.      *)
EXTENDS Terminal, FiniteSets, SequencesExt, FiniteSetsExt

CONSTANTS Goods,      \* products traded
          OrderIds,   \* identities of orders
          OrderOf,    \* what each order is: [side, source], "bid" or "offer", "manual" or "algo"
          TapeCap,    \* fills of a product the exchange sends
          MaxSends    \* bound on the requests to cancel under way

VARIABLES orders,         \* orders of the store, [id, good, side, size, left, source]
          tape,           \* per product the fills of the store, oldest first
          net, realized,  \* per product the position and its realized profit
          cut,            \* a fill has been dropped from a tape
          filter,         \* [venue, good, status, source], "all" for no filter
          selectedId,     \* order whose row was clicked
          cancels         \* requests to cancel under way, a sequence of order identities
blotterVars == <<orders, tape, net, realized, cut, filter, selectedId, cancels>>

NoFilter == [venue |-> "all", good |-> "all", status |-> "working", source |-> "all"]
BlotterInit ==
    /\ orders = {} /\ cut = FALSE /\ filter = NoFilter
    /\ tape = [g \in Goods |-> <<>>]
    /\ net = [g \in Goods |-> 0] /\ realized = [g \in Goods |-> 0]
    /\ selectedId = None /\ cancels = <<>>

(* Rows of orders: the exchange sends those that work, all of one venue.       *)
OrderRow(o) == [id |-> o.id, good |-> o.good, venue |-> "sim", status |-> "working",
                source |-> o.source, left |-> o.left]
ASSUME BlotterAssumption ==
    /\ OrderOf \in [OrderIds -> [side : {"bid", "offer"}, source : {"manual", "algo"}]]
    /\ None \notin [id : OrderIds, good : Goods, venue : {"sim"}, status : {"working"},
                    source : {"manual", "algo"}, left : Nat]
OrderRows == {OrderRow(o) : o \in orders}
Passes(choice, value) == choice \in {"all", value}
Filtered(rows) == {r \in rows : /\ Passes(filter.venue, r.venue) /\ Passes(filter.good, r.good)
                                /\ Passes(filter.source, r.source)}
VisibleOrders == {r \in Filtered(OrderRows) : Passes(filter.status, r.status)}
Shown == {r.id : r \in VisibleOrders}

SelectedOrder == IF selectedId \in Shown THEN CHOOSE r \in VisibleOrders : r.id = selectedId
                 ELSE IF Shown = {} THEN None ELSE CHOOSE r \in VisibleOrders : TRUE

(* Rows of fills. A fill of the exchange does not say where it comes from, and  *)
(* its row takes the venue of its product.                                      *)
Bucket(side) == IF side \in {"no", "sell", "offer", "ask"} THEN "sell" ELSE "buy"
FillRow(g, n) == [good |-> g, place |-> n, venue |-> "cme", side |-> tape[g][n].side,
                  size |-> tape[g][n].size, order |-> tape[g][n].order]
FillRows == UNION {{FillRow(g, n) : n \in DOMAIN tape[g]} : g \in Goods}
VisibleFills == {r \in FillRows : Passes(filter.venue, r.venue) /\ Passes(filter.good, r.good)}

(* Rows of positions, and those that count as open.                            *)
PositionRow(g) == [good |-> g, venue |-> "sim", size |-> net[g], closed |-> realized[g]]
PositionRows == {PositionRow(g) : g \in {h \in Goods : net[h] # 0 \/ realized[h] # 0}}
VisiblePositions == {r \in PositionRows : Passes(filter.venue, r.venue) /\ Passes(filter.good, r.good)}
OpenRows(rows) == {r \in rows : r.size # 0}

(* The header of the fills window.                                             *)
Amount(rows) == FoldSet(LAMBDA r, sum : sum + r.size, 0, rows)
Rollup(g) == LET mine == {r \in VisibleFills : r.good = g}
             IN [good |-> g, buys |-> Amount({r \in mine : Bucket(r.side) = "buy"}),
                 sells |-> Amount({r \in mine : Bucket(r.side) = "sell"})]
Rollups == {Rollup(g) : g \in {r.good : r \in VisibleFills}}
Summary == [buys  |-> FoldSet(LAMBDA r, sum : sum + r.buys, 0, Rollups),
            sells |-> FoldSet(LAMBDA r, sum : sum + r.sells, 0, Rollups),
            net   |-> Amount(OpenRows(VisiblePositions))]

View == <<filter, selectedId>>
Book == <<orders, tape, net, realized, cut>>

(* The store takes what the exchange did: an order rests, fills in part or in  *)
(* whole, or leaves. A position that is cut realizes a profit.                  *)
OrderRests(o) ==
    /\ ~cut /\ o.id \notin {p.id : p \in orders}  \* no order once a tape is cut: a bound
    /\ \A g \in Goods : \A n \in DOMAIN tape[g] : tape[g][n].order # o.id
    /\ orders' = orders \cup {o}
    /\ UNCHANGED <<tape, net, realized, cut, View, cancels>>
Signed(side, n) == IF side = "bid" THEN n ELSE -n
OrderFills(o, n) ==
    LET g == o.good
        after == Append(tape[g], [side |-> IF o.side = "bid" THEN "yes" ELSE "no",
                                  size |-> n, order |-> o.id])
        reduces == net[g] * Signed(o.side, n) < 0
    IN /\ o \in orders /\ n \in 1 .. o.left
       /\ orders' = (orders \ {o}) \cup {p \in {[o EXCEPT !.left = @ - n]} : p.left > 0}
       /\ tape' = [tape EXCEPT ![g] = LastOf(after, TapeCap)]
       /\ cut' = (cut \/ Len(after) > TapeCap)
       /\ net' = [net EXCEPT ![g] = @ + Signed(o.side, n)]
       /\ realized' = [realized EXCEPT ![g] = IF reduces THEN @ + 1 ELSE @]
       /\ UNCHANGED <<View, cancels>>

(* Cancels: of a row that is not closed, and of every working order. The answer *)
(* of either brings the book after it.                                          *)
CancelRow(id) ==
    /\ id \in Shown /\ Len(cancels) < MaxSends
    /\ cancels' = Append(cancels, id)
    /\ UNCHANGED <<Book, View>>
CancelAnswered(n) ==
    /\ n \in DOMAIN cancels
    /\ orders' = {o \in orders : o.id # cancels[n]}
    /\ cancels' = RemoveAt(cancels, n)
    /\ UNCHANGED <<tape, net, realized, cut, View>>
CancelAllOrders ==
    /\ orders' = {}
    /\ UNCHANGED <<tape, net, realized, cut, View, cancels>>

(* The operator: filters, of which the venue clears the product, and clicks.   *)
PickVenue(v) == /\ filter' = [filter EXCEPT !.venue = v, !.good = "all"]
                /\ UNCHANGED <<Book, selectedId, cancels>>
PickGood(g) == /\ g = "all" \/ g \in {r.good : r \in OrderRows \cup FillRows \cup PositionRows}
               /\ filter' = [filter EXCEPT !.good = g]
               /\ UNCHANGED <<Book, selectedId, cancels>>
PickSource(s) == /\ filter' = [filter EXCEPT !.source = s]
                 /\ UNCHANGED <<Book, selectedId, cancels>>
PickStatus(s) == /\ filter' = [filter EXCEPT !.status = s]
                 /\ UNCHANGED <<Book, selectedId, cancels>>
SelectOrder(id) == id \in Shown /\ selectedId' = id /\ UNCHANGED <<Book, filter, cancels>>

BlotterNext ==
    \/ \E id \in OrderIds, g \in Goods :
          OrderRests([id |-> id, good |-> g, side |-> OrderOf[id].side, size |-> 2, left |-> 2,
                      source |-> OrderOf[id].source])
    \/ \E o \in orders, n \in 1 .. 2 : OrderFills(o, n)
    \/ \E id \in OrderIds : CancelRow(id) \/ SelectOrder(id)
    \/ \E n \in DOMAIN cancels : CancelAnswered(n)
    \/ CancelAllOrders
    \/ \E v \in {"all", "sim", "cme"} : PickVenue(v)
    \/ \E g \in Goods \cup {"all"} : PickGood(g)
    \/ \E s \in {"all", "manual", "algo"} : PickSource(s)
    \/ \E s \in {"working", "all", "closed"} : PickStatus(s)
BlotterSpec == BlotterInit /\ [][BlotterNext]_blotterVars

\* The header's net position is what its fills bought less what they sold,
\* whichever product the view is cut to, as long as every fill is on the tape: two
\* numbers that reach the window along different ways.
NetIsBoughtLessSold ==
    filter.venue = "all" /\ ~cut => LET s == Summary IN s.net = s.buys - s.sells

\* The details and the cancel of the order book are of an order in view, also
\* after the filters changed or the order that was clicked is gone.
DetailsOfTheView == LET s == SelectedOrder IN
    /\ s # None => s.id \in Shown
    /\ s = None => Shown = {}
-----------------------------------------------------------------------------
(* The positions and orders window: rows and totals of what the store holds,      *)
(* narrowed by a filter, with a cancel on every row and one for all of them.      *)
CONSTANTS Instruments,      \* products with their multipliers: [key, label, multiplier]
          Tickets,          \* identities of orders, each of an instrument: [id, key, size]
          PositionFigures,  \* figures a position may have: [qty, avg, mark, realized]
          MaxReports        \* bound on the exchange's changes

VARIABLES exchange,   \* [orders, positions]: what the exchange holds
          account,    \* simOrders and simPositions of the store
          query,      \* filter: an instrument's label, None when it is empty
          note,       \* actionStatus: what a cancel-all says and what it did, None else
          canceller,  \* a cancel-all on its way: the rows it was clicked over
          reports
accountVars == <<exchange, account, query, note, canceller, reports>>

Instrument(key) == CHOOSE i \in Instruments : i.key = key
Unfinished(order) == order.status \in {"working", "partially_filled"}
OpenPnl(p) == (p.mark - p.avg) * p.qty * Instrument(p.key).multiplier

(* The rows: a position under its product, its account and its strategy (both the *)
(* same for all the exchange reports); an order under its id, with what is left.  *)
AccountOrder(order) == [id |-> order.id, label |-> Instrument(order.key).label, status |-> order.status,
                    qty |-> IF order.left > 0 THEN order.left ELSE order.size]
AccountPosition(p) == [label |-> Instrument(p.key).label, qty |-> p.qty, openPnl |-> OpenPnl(p), realized |-> p.realized]
AllAccountOrders == {AccountOrder(o) : o \in {k \in account.orders : Unfinished(k)}}

RowsOfPositions(positions) ==
    LET labels == {Instrument(p.key).label : p \in positions}
    IN {AccountPosition(CHOOSE p \in positions : Instrument(p.key).label = label) : label \in labels}
AllAccountPositions == RowsOfPositions(account.positions)
Matches(row) == query \in {None, row.label}
AccountOrders == {row \in AllAccountOrders : Matches(row)}
AccountPositions == {row \in AllAccountPositions : Matches(row)}
(* summary: the status pattern knows "partial" and refuses "filled".               *)
IsWorking(row) == row.status = "working"
AccountSummary == [positions |-> Cardinality(AllAccountPositions),
            working |-> Cardinality({row \in AllAccountOrders : IsWorking(row)}),
            openPnl |-> MapThenSumSet(LAMBDA row : row.openPnl, AllAccountPositions),
            closedPnl |-> MapThenSumSet(LAMBDA p : p.realized, account.positions)]

(* The exchange: an order is entered, filled in part, then for the rest; a position *)
(* changes. It reports flat products that closed with a result too.                *)
ExchangeMoves ==
    /\ reports < MaxReports /\ reports' = reports + 1
    /\ \/ \E t \in Tickets :
             /\ \A o \in exchange.orders : o.id # t.id
             /\ exchange' = [exchange EXCEPT !.orders = @ \cup
                   {[id |-> t.id, key |-> t.key, size |-> t.size, left |-> t.size, status |-> "working"]}]
       \/ \E o \in exchange.orders, left \in 0..1 :
             /\ Unfinished(o) /\ left < o.left
             /\ exchange' = [exchange EXCEPT !.orders = (@ \ {o}) \cup
                   {[o EXCEPT !.left = left, !.status = IF left = 0 THEN "filled" ELSE "partially_filled"]}]
       \/ \E i \in Instruments, r \in PositionFigures :
             exchange' = [exchange EXCEPT !.positions = {p \in @ : p.key # i.key} \cup
                   {[key |-> i.key, qty |-> r.qty, avg |-> r.avg, mark |-> r.mark, realized |-> r.realized]}]
    /\ UNCHANGED <<account, query, note, canceller>>
Pull == account' = exchange /\ UNCHANGED <<exchange, query, note, canceller, reports>>

(* cancelOrder and cancelAll: the gateway cancels, for all of them by a reset of the *)
(* exchange's orders, and its answer is the new state. The answer holds no count, so *)
(* the status names the rows there were at the click.                              *)
Cancelled(o) == [o EXCEPT !.status = "cancelled"]
CancelOrder(row) ==
    /\ exchange' = [exchange EXCEPT !.orders =
                       {IF o.id = row.id /\ Unfinished(o) THEN Cancelled(o) ELSE o : o \in @}]
    /\ account' = exchange' /\ note' = None /\ UNCHANGED <<query, canceller, reports>>
CancelAll == /\ AccountOrders # {} /\ canceller = None /\ canceller' = Cardinality(AccountOrders)
             /\ note' = None /\ UNCHANGED <<exchange, account, query, reports>>

\* Mutant: only what the filter leaves is cancelled.
ClearedOfShown(held) == {o \in held : query \notin {None, Instrument(o.key).label}}

Cleared(held) == {}
CancelAllDone ==
    /\ canceller # None /\ canceller' = None
    /\ exchange' = [exchange EXCEPT !.orders = Cleared(@)] /\ account' = exchange'
    /\ note' = [said |-> canceller, done |-> Cardinality({o \in exchange.orders : Unfinished(o)})]
    /\ UNCHANGED <<query, reports>>
SetQuery == \E q \in {None} \cup {i.label : i \in Instruments} :
               q # query /\ query' = q /\ UNCHANGED <<exchange, account, note, canceller, reports>>

AccountInit == /\ exchange = [orders |-> {}, positions |-> {}] /\ account = exchange
               /\ query = None /\ note = None /\ canceller = None /\ reports = 0
AccountNext == \/ ExchangeMoves \/ Pull \/ CancelAll \/ CancelAllDone \/ SetQuery
               \/ \E row \in AccountOrders : CancelOrder(row)
AccountSpec == AccountInit /\ [][AccountNext]_accountVars

\* The totals count every position of the store once, whatever the filter shows: open
\* profit at its mark and closed profit, of long, short and flat products.
TotalsAreOfThePositions ==
    /\ AccountSummary.openPnl = MapThenSumSet(OpenPnl, account.positions)
    /\ AccountSummary.positions = Cardinality(account.positions)
\* Cancelling all leaves no order to be filled, those the filter hides included.
CancelAllLeavesNothing ==
    [][CancelAllDone => \A o \in exchange'.orders : ~Unfinished(o)]_accountVars
=============================================================================
