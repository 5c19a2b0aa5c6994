----------------------------- MODULE EventMarket -----------------------------
(* The ladder of an event market (OrderBook2): a ticket or a fast click becomes an *)
(* entry posted to the gateway, a marker stands for it meanwhile, and a marker can  *)
(* be cancelled or dragged to another price. Its rows are the later of two books.   *)
(* A market is always chosen, and no two entries are made in one millisecond.       *)
EXTENDS Terminal, FiniteSetsExt, SequencesExt, FiniteSets

CONSTANTS EventSlots,   \* the clickable columns: [outcome, side]
          Cents,        \* prices of rows
          EventMarkets,
          MarkerLimit,  \* markers kept (30 in the code)
          BookLevels,   \* books a market may have: sets of [price, size], prices in tenths of a cent
          BookTimes,    \* times a book may bear (seen_ms)
          MaxEntries, MaxToggles, MaxBooks \* bounds

VARIABLES market, fast, simulated, \* activeMarketKey, fastTrade, simulationEnabled
          full,       \* positions.length or the exposure is at its limit
          ticket,     \* orderIntent
          markers,    \* workingOrders
          dragged,    \* replaceDrag
          flying,     \* entries posted and not answered: [id, ticket]
          counts,     \* entries made, toggles, books
          cancelled,  \* history: markers the user took away
          books       \* [ws, rest]: the store's by market, and the last polled; [time, levels]
ladder2Vars == <<market, fast, simulated, full, ticket, markers, dragged, flying, counts, cancelled, books>>

Intent(slot, cents) == [slot |-> slot, cents |-> cents]
Marker(intent, key, id, status) == [id |-> id, key |-> key, slot |-> intent.slot,
                                    cents |-> intent.cents, status |-> status]
EventMarkers == [id : Nat, key : EventMarkets, slot : EventSlots, cents : Cents,
                 status : {"pending", "working", "rejected"}]
ASSUME EventMarketAssumption == MarkerLimit \in Nat \ {0} /\ None \notin EventMarkers

Fresh == counts.entries + 1
Counted(what) == counts' = [counts EXCEPT ![what] = @ + 1]

Posts(ticketed) == flying' = flying \cup {[id |-> Fresh, ticket |-> ticketed]}

(* An entry without a ticket (submitFastOrder). The exchange of the simulation     *)
(* never hears of it (placeSimOrder only writes a message), and the marker is       *)
(* reconciled away; at a limit it is refused here; else it is posted.               *)
WithMarker(kept, intent, status) == FirstOf(<<Marker(intent, market, Fresh, status)>> \o kept, MarkerLimit)
SubmitFast(kept, intent) ==
    /\ counts.entries < MaxEntries /\ Counted("entries")
    /\ CASE simulated -> markers' = FirstOf(kept, MarkerLimit - 1) /\ UNCHANGED flying
         [] ~simulated /\ full -> markers' = WithMarker(kept, intent, "rejected") /\ UNCHANGED flying
         [] OTHER -> markers' = WithMarker(kept, intent, "pending") /\ Posts(FALSE)

(* queueOrder; the price also goes to the order panel (BookClick there).           *)
Click(slot, cents) ==
    /\ IF fast THEN ticket' = None /\ SubmitFast(markers, Intent(slot, cents))
       ELSE ticket' = Intent(slot, cents) /\ UNCHANGED <<markers, flying, counts>>
    /\ UNCHANGED <<market, fast, simulated, full, dragged, cancelled, books>>
ClearTicket == ticket' = None
    /\ UNCHANGED <<market, fast, simulated, full, markers, dragged, flying, counts, cancelled, books>>

(* submitManualOrder, on the market shown now. At a limit, or when the question of  *)
(* a production build is answered with no, nothing happens. The ticket stays until  *)
(* the answer and may be submitted again.                                          *)
SubmitTicket ==
    /\ ticket # None /\ counts.entries < MaxEntries /\ Counted("entries")
    /\ \/ simulated /\ ticket' = None /\ markers' = FirstOf(markers, MarkerLimit - 1) /\ UNCHANGED flying
       \/ ~simulated /\ ~full /\ Posts(TRUE) /\ UNCHANGED <<ticket, markers>>
    /\ UNCHANGED <<market, fast, simulated, full, dragged, cancelled, books>>

\* Mutant: a call that fails leaves its marker as it is.
SettledWhenTaken(id, taken) == [n \in DOMAIN markers |->
    IF markers[n].id = id /\ taken THEN [markers[n] EXCEPT !.status = "working"] ELSE markers[n]]

(* The answer, or a failure of the call: an entry of a ticket that was taken clears *)
(* whatever ticket there is now, a marker is settled either way.                   *)
SettledMarkers(id, taken) == [n \in DOMAIN markers |->
    IF markers[n].id = id THEN [markers[n] EXCEPT !.status = IF taken THEN "working" ELSE "rejected"]
    ELSE markers[n]]
Answer(entry, taken) ==
    /\ flying' = flying \ {entry}
    /\ IF entry.ticket THEN ticket' = (IF taken THEN None ELSE ticket) /\ UNCHANGED markers
       ELSE markers' = SettledMarkers(entry.id, taken) /\ UNCHANGED ticket
    /\ UNCHANGED <<market, fast, simulated, full, dragged, counts, cancelled, books>>

(* Markers: cancelled one by one or by column, dragged, dropped on another price of *)
(* their outcome. Of those on one price the first is drawn; a column's button is     *)
(* there for one that was not rejected. cancelSimOrder(s) only write messages.      *)
InColumn(m, slot) == m.key = market /\ m.slot = slot
Column(slot) == {m \in ToSet(markers) : InColumn(m, slot)}
SamePlace(m, k) == m.key = k.key /\ m.slot = k.slot /\ m.cents = k.cents
Drawn(n) == markers[n].key = market /\ \A k \in 1..(n - 1) : ~SamePlace(markers[k], markers[n])
Remains(gone) ==
    /\ markers' = Without(markers, gone)
    /\ cancelled' = cancelled \cup {m.id : m \in gone}
    /\ UNCHANGED <<market, fast, simulated, full, ticket, flying, counts, books>>
CancelMarker(n) ==
    /\ Drawn(n)
    /\ Remains({m \in ToSet(markers) : m.id = markers[n].id})
    /\ dragged' = IF dragged # None /\ dragged.id = markers[n].id THEN None ELSE dragged
CancelColumn(slot) ==
    /\ \E m \in Column(slot) : m.status # "rejected"
    /\ Remains(Column(slot))
    /\ dragged' = IF dragged # None /\ InColumn(dragged, slot) THEN None ELSE dragged
Drag(n) == Drawn(n) /\ dragged' = markers[n]
           /\ UNCHANGED <<market, fast, simulated, full, ticket, markers, flying, counts, cancelled, books>>
Drop(cents) ==
    /\ dragged # None
    /\ LET itself == {m \in ToSet(markers) : m.id = dragged.id}
       IN SubmitFast(Without(markers, itself), Intent(dragged.slot, cents))
    /\ dragged' = None
    /\ UNCHANGED <<market, fast, simulated, full, ticket, cancelled, books>>

(* Switches. While the simulation is on, a marker stays only while the store holds  *)
(* a working order of its id, and none of these ids ever reaches the exchange.      *)
ToggleFast == fast' = ~fast /\ counts.toggles < MaxToggles /\ Counted("toggles")
              /\ UNCHANGED <<market, simulated, full, ticket, markers, dragged, flying, cancelled, books>>
ToggleSimulation ==
    /\ simulated' = ~simulated /\ counts.toggles < MaxToggles /\ Counted("toggles")
    /\ markers' = IF simulated' THEN <<>> ELSE markers
    /\ UNCHANGED <<market, fast, full, ticket, dragged, flying, cancelled, books>>
Fills == full' = ~full /\ counts.toggles < MaxToggles /\ Counted("toggles")
         /\ UNCHANGED <<market, fast, simulated, ticket, markers, dragged, flying, cancelled, books>>
Choose2(key) == /\ market' = key /\ key # market
                /\ counts.toggles < MaxToggles /\ Counted("toggles")
                /\ UNCHANGED <<fast, simulated, full, ticket, markers, dragged, flying, cancelled, books>>

(* A book arrives by the socket, of any market, or by the poll of the one shown;    *)
(* the store keeps it unless its own is later (setPolyBook), and drops the book of   *)
(* a market that rotates. What was polled stays until the next, of whatever market. *)
Later(mine, b) == IF mine # None /\ b.time < mine.time THEN mine ELSE b
BookArrives(from, key, b) ==
    /\ from = "rest" => key = market
    /\ counts.books < MaxBooks /\ Counted("books")
    /\ books' = [ws |-> [books.ws EXCEPT ![key] = Later(@, b)],
                 rest |-> IF from = "rest" THEN b ELSE books.rest]
    /\ UNCHANGED <<market, fast, simulated, full, ticket, markers, dragged, flying, cancelled>>
MarketRotates(key) ==
    /\ books.ws[key] # None /\ books' = [books EXCEPT !.ws[key] = None]
    /\ UNCHANGED <<market, fast, simulated, full, ticket, markers, dragged, flying, counts, cancelled>>
BookShown ==
    LET ws == books.ws[market] IN
    CASE ws = None -> books.rest
      [] books.rest = None -> ws
      [] OTHER -> IF ws.time >= books.rest.time THEN ws ELSE books.rest

(* mapLevels: what rounds to one cent is added up; the no-side mirrors the prices, *)
(* in tenths of a cent.                                                            *)
Rounded(tenths) == (tenths + 5) \div 10
Mirrored(levels) == {[l EXCEPT !.price = 1000 - @] : l \in levels}
SizeOf(levels) == MapThenSumSet(LAMBDA l : l.size, levels)

AtCents(levels, cents) == SizeOf({l \in levels : Rounded(l.price) = cents})
RowsSum(levels) == MapThenSumSet(LAMBDA cents : AtCents(levels, cents),
                                 {Rounded(l.price) : l \in levels} \cap (1..99))

Books == [time : BookTimes, levels : BookLevels]
Ladder2Init ==
    /\ market \in EventMarkets /\ fast \in BOOLEAN /\ simulated = TRUE /\ full = FALSE
    /\ ticket = None /\ markers = <<>> /\ dragged = None /\ flying = {} /\ cancelled = {}
    /\ counts = [entries |-> 0, toggles |-> 0, books |-> 0]
    /\ books = [ws |-> [key \in EventMarkets |-> None], rest |-> None]
MarkersNext ==
    \/ \E slot \in EventSlots, cents \in Cents : Click(slot, cents)
    \/ \E entry \in flying, taken \in BOOLEAN : Answer(entry, taken)
    \/ \E n \in DOMAIN markers : CancelMarker(n) \/ Drag(n)
    \/ \E slot \in EventSlots : CancelColumn(slot)
    \/ \E cents \in Cents : Drop(cents)
    \/ SubmitTicket \/ ClearTicket \/ ToggleFast \/ ToggleSimulation \/ Fills
BooksNext ==
    \/ \E key \in EventMarkets : MarketRotates(key)
    \/ \E from \in {"ws", "rest"}, key \in EventMarkets, b \in Books : BookArrives(from, key, b)
Choosing == \E key \in EventMarkets : Choose2(key)
Ladder2Next == MarkersNext \/ BooksNext \/ Choosing
Ladder2Spec == Ladder2Init /\ [][Ladder2Next]_ladder2Vars

\* A marker shows an entry as pending exactly while its call is on its way: whatever
\* the call's end, however the markers were trimmed and moved meanwhile.
PendingIsOnItsWay ==
    \A n \in DOMAIN markers :
        markers[n].status = "pending" <=> \E entry \in flying : entry.id = markers[n].id /\ ~entry.ticket
\* What is dragged was not cancelled meanwhile, so a drop never enters again an order
\* the user took away.
DragIsNotCancelled == dragged # None => dragged.id \notin cancelled
\* The rows of a side hold everything of its book that is priced between 0.5 and 99.5
\* cents, and the rows of the other side as much.
RowsHoldTheBook ==
    BookShown # None =>
        LET levels == BookShown.levels
            priced == {l \in levels : l.price > 5 /\ l.price < 995}
        IN RowsSum(levels) = SizeOf(priced) /\ RowsSum(Mirrored(levels)) = SizeOf(priced)
-----------------------------------------------------------------------------
(* The order panel of an event market: prices and limits as of its last render, a  *)
(* period's dead zone, and one request at a time. Amounts are cents and shares; the *)
(* size typed stays the 100 the panel starts with.                                 *)
CONSTANTS Period, DeadZone,  \* a market's period and its first part, in units of time
          LastTick,          \* bound of the clock
          BestPrices,        \* <<bid, ask>> of the book, in cents; None when there is none
          UpPercents,        \* up_pct of the market
          LimitTexts,        \* what may be typed as a limit: numbers, None for nothing
          Holdings,          \* shares of each outcome that may be reported
          PositionLimits,    \* what loadSettings() may return as manualMaxOrders
          MaxEvents          \* bound of clicks and reports

VARIABLES clock,
          ticketMarket,  \* [timed, expiry, up], expiry None when it names none; None before the list
          dead,          \* isDeadzone, computed when a new market object arrives
          best,          \* the book's
          shares,        \* shares by outcome
          count,         \* concurrent_positions of the metrics, None before the first
          most, stopped, \* maxPositions; at_trade_limit or at_loss_limit
          limitTyped,    \* yesLimit, noLimit
          placing,       \* the button whose request is under way, None
          requests,      \* sent and not answered: [button, size, price]
          events
ticketVars == <<clock, ticketMarket, dead, best, shares, count, most, stopped, limitTyped, placing, requests, events>>
panelVars == <<limitTyped, placing, requests>>
storeVars == <<ticketMarket, dead, best, shares, count, stopped>>
Outcomes == {"yes", "no"}
(* Whatever happens renders the panel, and with it the limit now in the settings.   *)
Rendered == most' \in PositionLimits
Happens == events < MaxEvents /\ events' = events + 1 /\ Rendered

(* isDeadzone, of a market of five or fifteen minutes: from its expiry, or else     *)
(* from the clock's own periods. posCount: of the metrics, or else of the positions.*)
ByExpiry(expiry, t) == LET start == expiry - Period IN start <= t /\ t < start + DeadZone

ByClock(t) == LET start == (t \div Period) * Period IN start <= t /\ t < start + DeadZone
IsDeadzone(m, t) ==
    /\ m # None /\ m.timed
    /\ IF m.expiry = None THEN ByClock(t) ELSE ByExpiry(m.expiry, t)
PosCount == IF count # None THEN count ELSE Cardinality({o \in Outcomes : shares[o] > 0})
Blocked == stopped \/ PosCount >= most \/ dead

(* yesBid, yesAsk, noAsk, noBid and marketPrice.                                   *)
ListedPrice == IF ticketMarket # None THEN ticketMarket.up ELSE 50
YesBid == IF best # None THEN best[1] ELSE ListedPrice
YesAsk == IF best # None THEN best[2] ELSE ListedPrice

MarketPrice(side, outcome) ==
    CASE outcome = "yes" -> IF side = "buy" THEN YesAsk ELSE YesBid
      [] OTHER -> IF side = "buy" THEN 100 - YesBid ELSE 100 - YesAsk
LimitPrice(outcome) == LET typed == limitTyped[outcome] IN
    IF typed = None \/ typed <= 0 \/ typed >= 100 THEN None ELSE typed

(* placeOrder: the buttons are disabled while a request is under way or orders are  *)
(* blocked; a limit that is no price is refused before anything is sent.           *)
Button(side, type, outcome) == [side |-> side, type |-> type, outcome |-> outcome]
ASSUME TicketAssumption ==
    /\ LimitTexts \subseteq Int \cup {None} /\ Holdings \subseteq [Outcomes -> Nat]
    /\ None \notin [side : {"buy", "sell"}, type : {"market", "limit", "exit"}, outcome : Outcomes]

Sent(button, size, price) ==
    /\ placing' = button /\ requests' = requests \cup {[button |-> button, size |-> size, price |-> price]}
    /\ UNCHANGED <<clock, storeVars, limitTyped>>

PlaceOrder(side, type, outcome) ==
    LET price == IF type = "limit" THEN LimitPrice(outcome) ELSE MarketPrice(side, outcome)
    IN /\ placing = None /\ ~Blocked /\ price # None /\ Happens
       /\ Sent(Button(side, type, outcome), 100, price)
(* quickExit: not blocked by any limit; half a share is rounded up.                *)
ExitSize(owned, percent) == (2 * owned * percent + 100) \div 200
QuickExit(outcome, percent) ==
    /\ placing = None /\ shares[outcome] > 0 /\ ExitSize(shares[outcome], percent) > 0 /\ Happens
    /\ Sent(Button("sell", "exit", outcome), ExitSize(shares[outcome], percent), MarketPrice("sell", outcome))
RequestEnds(request) == /\ requests' = requests \ {request} /\ placing' = None /\ Rendered
                        /\ UNCHANGED <<clock, storeVars, limitTyped, events>>

TypeLimitOf(outcome, typed) == /\ Happens /\ limitTyped' = [limitTyped EXCEPT ![outcome] = typed]
                               /\ UNCHANGED <<clock, storeVars, placing, requests>>
(* A level clicked in the book fills in the limit of its outcome, once.            *)
BookClick(outcome, cents) == cents # None /\ TypeLimitOf(outcome, cents)

(* What the store receives.                                                        *)
MarketArrives(m) == /\ Happens /\ ticketMarket' = m /\ dead' = IsDeadzone(m, clock)
                    /\ UNCHANGED <<clock, best, shares, count, stopped, panelVars>>
BookOfTheMarket(b) == /\ Happens /\ best' = b
                      /\ UNCHANGED <<clock, ticketMarket, dead, shares, count, stopped, panelVars>>
MetricsArrive(n, stop) == /\ Happens /\ count' = n /\ stopped' = stop
                          /\ UNCHANGED <<clock, ticketMarket, dead, best, shares, panelVars>>
PositionsArrive(h) == /\ Happens /\ shares' = h
                      /\ UNCHANGED <<clock, ticketMarket, dead, best, count, stopped, panelVars>>
ClockTicks == clock < LastTick /\ clock' = clock + 1 /\ UNCHANGED <<storeVars, most, panelVars, events>>

(* Markets as they are listed: of a period that runs, or without an expiry; one of   *)
(* an hour has no dead zone; and none at all.                                      *)
MarketsAt(t) == {[timed |-> timed, expiry |-> e, up |-> up] :
                    timed \in BOOLEAN, e \in {None, (t \div Period + 1) * Period}, up \in UpPercents} \cup {None}
TicketInit ==
    /\ clock = 0 /\ ticketMarket \in MarketsAt(0) /\ dead = IsDeadzone(ticketMarket, 0) /\ best = None
    /\ shares = [o \in Outcomes |-> 0] /\ count = None /\ most \in PositionLimits /\ stopped = FALSE
    /\ limitTyped = [o \in Outcomes |-> None] /\ placing = None /\ requests = {} /\ events = 0
TicketNext ==
    \/ ClockTicks
    \/ \E m \in MarketsAt(clock) : MarketArrives(m)
    \/ \E b \in BestPrices : BookOfTheMarket(b)
    \/ \E n \in 0..1, stop \in BOOLEAN : MetricsArrive(n, stop)
    \/ \E h \in Holdings : PositionsArrive(h)
    \/ \E outcome \in Outcomes :
          \/ \E typed \in LimitTexts : TypeLimitOf(outcome, typed) \/ BookClick(outcome, typed)
          \/ \E side \in {"buy", "sell"}, type \in {"market", "limit"} : PlaceOrder(side, type, outcome)
          \/ \E percent \in {25, 50, 75, 100} : QuickExit(outcome, percent)
    \/ \E request \in requests : RequestEnds(request)
TicketSpec == TicketInit /\ [][TicketNext]_ticketVars

\* At most one request is under way, of the button that says so, whatever arrives while
\* it is; a limit order's price lies inside the scale and an exit sells no more than the
\* most that was ever held.
OneRequestAtATime ==
    /\ Cardinality(requests) <= 1
    /\ \A r \in requests :
          /\ r.button = placing
          /\ r.button.type = "limit" => 0 < r.price /\ r.price < 100
          /\ r.button.type = "exit" => \E h \in Holdings : r.size <= h[r.button.outcome]
\* Buying one outcome at the market and selling the other there come to a whole dollar.
WholeDollar == \A outcome \in Outcomes :
    MarketPrice("buy", outcome) + MarketPrice("sell", CHOOSE o \in Outcomes : o # outcome) = 100
\* While a market's period runs, its expiry and the clock find the same dead zone, so
\* that a market which stops naming its expiry neither opens nor closes early.
DeadzoneIsOfThePeriod ==
    ticketMarket # None /\ ticketMarket.timed /\ ticketMarket.expiry # None /\ clock < ticketMarket.expiry
        => (IsDeadzone(ticketMarket, clock) <=> ByClock(clock))
=============================================================================
