----------------------------- MODULE MarketStore -----------------------------
(* The market part of the terminal's store: the list of markets, polled and  *)
(* pushed, the histories, ticks and books kept by market, and the market and  *)
(* asset every window follows.                                                *)
EXTENDS Terminal, FiniteSets, SequencesExt

CONSTANTS Listing,     \* the venue's slots in the order it lists them: records
                       \* [key, asset, head, rank]: head is key.split('_')[0],
                       \* rank the place of its timeframe in TF_PREF, 0 for none
          Watched,     \* the slots whose data the model follows
          MaxPeriod,   \* bound on the contracts a slot goes through
          MaxPoints,   \* stands for the cap of 4320 points of a history
          MaxTicks     \* stands for the cap of 200 ticks

\* A slot is listed once, under a key of its own.
ASSUME MarketAssumption ==
    /\ Listing \in Seq(ToSet(Listing)) /\ MaxPoints \in Nat
    /\ \A i, j \in DOMAIN Listing : Listing[i].key = Listing[j].key => i = j
    /\ \A i \in DOMAIN Listing : Listing[i].key # None /\ Listing[i].rank \in Nat

SlotKeys == {Listing[i].key : i \in DOMAIN Listing}
MarketAssets == {Listing[i].asset : i \in DOMAIN Listing}
Slot(key) == CHOOSE m \in {Listing[i] : i \in DOMAIN Listing} : m.key = key

VARIABLES venue,        \* per slot: is it listed, live, in which period
          markets,      \* the store's market list
          histories,    \* probHistory, points as [ts, period]
          ticks,        \* polyTicks, each the period it was traded in
          marketBooks,  \* polyBooks, [seen, period]
          focusOn,      \* activeAsset, activeMarketKey, usingLiveData
          arriving      \* an answer of GET /api/markets on its way
marketVars == <<venue, markets, histories, ticks, marketBooks, focusOn, arriving>>

(* What a list carries: the live ones with the points of their period.       *)
PointsOf(slot) == [n \in 1..2 |-> [ts |-> 2 * slot.period + n, period |-> slot.period]]
ListNow ==
    LET carried == Without(Listing, {m \in ToSet(Listing) : ~venue[m.key].listed})
    IN [i \in DOMAIN carried |->
          [key |-> carried[i].key, asset |-> carried[i].asset, rank |-> carried[i].rank,
           live |-> venue[carried[i].key].live, condition |-> venue[carried[i].key].period,
           points |-> PointsOf(venue[carried[i].key])]]

\* Mutant: the points are kept in the order they came.
MergedUnsorted(older, newer) == LastOf(older \o newer, MaxPoints)

(* Points of different times, sorted by them.                                *)
ByTime(points) ==
    [n \in 1..Cardinality(points) |->
       CHOOSE p \in points : Cardinality({q \in points : q.ts < p.ts}) = n - 1]

(* filter(first of its ts), sort by ts, the last so many.                    *)
Merged(older, newer) ==
    LET all == older \o newer
        First(i) == \A j \in 1..(i - 1) : all[j].ts # all[i].ts
        kept == {all[i] : i \in {i \in DOMAIN all : First(i)}}
    IN LastOf(ByTime(kept), MaxPoints)

Find(list, key) == Without(list, {m \in ToSet(list) : m.key # key})
AllLive(list) == Without(list, {m \in ToSet(list) : ~m.live})
LiveOf(list, asset) == Without(list, {m \in ToSet(list) : m.asset # asset \/ ~m.live})
(* The shortest timeframe of TF_PREF, else the first of the list.            *)
Best(live) ==
    LET ranked == {i \in DOMAIN live : live[i].rank > 0}
        i == IF ranked = {} THEN 1
             ELSE CHOOSE i \in ranked : \A j \in ranked \ {i} :
                    live[i].rank < live[j].rank \/ (live[i].rank = live[j].rank /\ i < j)
    IN IF live = <<>> THEN None ELSE live[i].key

(* setMarkets: markets whose condition changed lose what was kept for them.  *)
Rotated(list) ==
    {key \in SlotKeys : \E i \in DOMAIN list, j \in DOMAIN markets :
        list[i].key = key /\ markets[j].key = key /\ list[i].condition # markets[j].condition}

HistoryAfter(list, wiped) ==
    [key \in Watched |->
       LET kept == IF key \in wiped THEN <<>> ELSE histories[key]
           market == Find(list, key)
       IN IF market = <<>> \/ market[1].points = <<>> THEN kept
          ELSE Merged(kept, market[1].points)]

(* The market followed moves when it is gone or dead and something is live.  *)
Followed(list) ==
    LET key == focusOn.key
        current == IF key = None THEN <<>> ELSE Find(list, key)
        liveOnes == AllLive(list)
        asset == IF key # None THEN Slot(key).head
                 ELSE IF liveOnes # <<>> THEN liveOnes[1].asset ELSE "ES"
        best == IF LiveOf(list, asset) # <<>> THEN Best(LiveOf(list, asset))
                ELSE IF liveOnes # <<>> THEN liveOnes[1].key ELSE None
    IN IF (current = <<>> \/ ~current[1].live) /\ best # None THEN best ELSE key
Bare(list) == [i \in DOMAIN list |-> [list[i] EXCEPT !.points = <<>>]]

MarketInit ==
    /\ venue = [key \in SlotKeys |-> [listed |-> TRUE, live |-> TRUE, period |-> 1]]
    /\ markets = <<>> /\ arriving = None
    /\ histories = [key \in Watched |-> <<>>]
    /\ ticks = [key \in Watched |-> <<>>]
    /\ marketBooks = [key \in Watched |-> None]
    /\ focusOn = [asset |-> "ES", key |-> None, live |-> FALSE]

(* The venue: a slot's contract expires and the next one starts, a slot goes *)
(* quiet or leaves the list.                                                  *)
VenueMoves(key, slot) ==
    /\ venue' = [venue EXCEPT ![key] = slot]
    /\ UNCHANGED <<markets, histories, ticks, marketBooks, focusOn, arriving>>
NextPeriod(key) ==
    /\ venue[key].period < MaxPeriod
    /\ VenueMoves(key, [venue[key] EXCEPT !.period = @ + 1])
GoesQuiet(key) == venue[key].live /\ VenueMoves(key, [venue[key] EXCEPT !.live = FALSE])
Unlists(key) ==
    /\ venue[key].listed
    /\ VenueMoves(key, [listed |-> FALSE, live |-> FALSE, period |-> venue[key].period])

AskMarkets ==
    /\ arriving = None
    /\ arriving' = ListNow
    /\ UNCHANGED <<venue, markets, histories, ticks, marketBooks, focusOn>>
SetMarkets(list) ==
    LET wiped == Rotated(list)
    IN /\ histories' = HistoryAfter(list, wiped)
       /\ ticks' = [key \in Watched |-> IF key \in wiped THEN <<>> ELSE ticks[key]]
       /\ marketBooks' = [key \in Watched |-> IF key \in wiped THEN None ELSE marketBooks[key]]
       /\ focusOn' = [focusOn EXCEPT !.key = Followed(list), !.live = TRUE]
       /\ markets' = Bare(list)
ListArrives ==
    /\ arriving # None
    /\ arriving' = None
    /\ SetMarkets(arriving)
    /\ UNCHANGED venue

(* loadSnapshot: the markets are taken over without the wipe and without the *)
(* choice of a market; books and ticks of the snapshot replace the store's.   *)
LoadSnapshot ==
    /\ histories' = HistoryAfter(ListNow, {})
    /\ markets' = Bare(ListNow)
    /\ \E key \in Watched :
         /\ marketBooks' = [marketBooks EXCEPT ![key] = [seen |-> 1, period |-> venue[key].period]]
         /\ ticks' = [ticks EXCEPT ![key] = <<venue[key].period>>]
    /\ focusOn' = [focusOn EXCEPT !.live = @ \/ \E key \in SlotKeys : venue[key].listed /\ venue[key].live]
    /\ UNCHANGED <<venue, arriving>>

(* A book never replaces one that was seen later.                            *)
SetPolyBook(key) ==
    \E seen \in 1..2 :
    /\ marketBooks[key] # None => seen >= marketBooks[key].seen
    /\ marketBooks' = [marketBooks EXCEPT ![key] = [seen |-> seen, period |-> venue[key].period]]
    /\ UNCHANGED <<venue, markets, histories, ticks, focusOn, arriving>>
PushPolyTick(key) ==
    /\ ticks' = [ticks EXCEPT ![key] = LastOf(Append(@, venue[key].period), MaxTicks)]
    /\ UNCHANGED <<venue, markets, histories, marketBooks, focusOn, arriving>>

(* setActiveAsset picks the asset's best live market, or none.               *)
SetActiveAsset(asset) ==
    focusOn' = [focusOn EXCEPT !.asset = asset, !.key = Best(LiveOf(markets, asset))]
SetActiveMarketKey(key) ==
    focusOn' = [focusOn EXCEPT !.key = key,
        !.asset = IF Find(markets, key) # <<>> THEN Find(markets, key)[1].asset ELSE @]
Unmoved == UNCHANGED <<venue, markets, histories, ticks, marketBooks, arriving>>
SelectAsset(asset) == SetActiveAsset(asset) /\ Unmoved
SelectKey(key) == SetActiveMarketKey(key) /\ Unmoved
(* The product selector sets the key and then the asset, a row of the market *)
(* window the asset and then the key.                                         *)
SelectSymbol(key) == SetActiveAsset(Slot(key).asset) /\ Unmoved
SelectRow(key) ==
    /\ focusOn' = [focusOn EXCEPT !.asset = Slot(key).asset, !.key = key]
    /\ Unmoved
(* The rotator steps through the assets of the list.                         *)
MarketAsset(n) == markets[n].asset
RotateAsset ==
    LET firsts == {n \in DOMAIN markets : \A j \in 1..(n - 1) : MarketAsset(j) # MarketAsset(n)}
        assets == [i \in 1..Cardinality(firsts) |->
                     MarketAsset(SetToSortSeq(firsts, LAMBDA a, b : a < b)[i])]
        at == IF \E i \in DOMAIN assets : assets[i] = focusOn.asset
              THEN CHOOSE i \in DOMAIN assets : assets[i] = focusOn.asset ELSE 0
    IN assets # <<>> /\ SetActiveAsset(assets[(at % Len(assets)) + 1]) /\ Unmoved

MarketNext ==
    \/ AskMarkets \/ ListArrives \/ LoadSnapshot \/ RotateAsset
    \/ \E key \in SlotKeys :
         \/ GoesQuiet(key) \/ Unlists(key)
         \/ SelectKey(key) \/ SelectSymbol(key) \/ SelectRow(key)
    \/ \E key \in Watched :
         NextPeriod(key) \/ SetPolyBook(key) \/ PushPolyTick(key)
    \/ \E asset \in MarketAssets : SelectAsset(asset)
MarketSpec == MarketInit /\ [][MarketNext]_marketVars

\* A history is in the order of time with one point for each moment, however
\* lists and snapshots overlapped and whatever order they came in.
HistoryInOrder == \A key \in Watched : \A i, j \in DOMAIN histories[key] :
    i < j => histories[key][i].ts < histories[key][j].ts

ListApplied == arriving # None /\ arriving' = None

\* When a list shows a slot in a new contract, what is kept of its history
\* after the list is of that contract alone, and its tape and book are empty.
RotationStartsClean ==
    [][ListApplied => \A key \in Watched, i \in DOMAIN markets, j \in DOMAIN markets' :
         (markets[i].key = key /\ markets'[j].key = key
            /\ markets[i].condition # markets'[j].condition)
         => /\ ticks'[key] = <<>> /\ marketBooks'[key] = None
            /\ \A n \in DOMAIN histories'[key] :
                 histories'[key][n].period = markets'[j].condition]_marketVars

\* After a list in which something is live the market every window follows is
\* live: a contract that expired or left the list is not kept on the screen.
FollowedIsLive ==
    [][(ListApplied /\ \E i \in DOMAIN markets' : markets'[i].live)
         => \E i \in DOMAIN markets' :
              markets'[i].key = focusOn'.key /\ markets'[i].live]_marketVars
-----------------------------------------------------------------------------
(* The selection of a main window and of a window popped out of it: the main one   *)
(* tells what it selects over a channel, in order; the other one applies it to its *)
(* own list of markets, and tells nothing.                                         *)
CONSTANTS SyncSlots,     \* the markets in the order they are listed: [key, asset, live]
          Providers, StartAsset,
          MaxPicks       \* bound of selections and of lists that arrive

\* A key is of one asset's market.
ASSUME SyncAssumption ==
    /\ SyncSlots \in Seq(ToSet(SyncSlots))
    /\ \A m, n \in ToSet(SyncSlots) : m.key = n.key => m.asset = n.asset
    /\ \A m \in ToSet(SyncSlots) : m.key # None

Windows == {"main", "side"}
VARIABLES sideOpen,  \* the popped-out window is there
          chosen,    \* per window: [asset, key, provider]
          lists,     \* per window: its markets
          messages,  \* messages posted and not received
          apart,     \* has the side window a reason of its own to differ
          picks
syncVars == <<sideOpen, chosen, lists, messages, apart, picks>>
Picking == picks < MaxPicks /\ picks' = picks + 1

(* setActiveAsset and setActiveMarketKey of one window's store.                     *)
BestOf(list, asset) ==
    LET live == LiveOf(list, asset)
    IN IF live = <<>> THEN None ELSE live[1].key
WithAsset(list, c, asset) ==
    [asset |-> asset, key |-> BestOf(list, asset), provider |-> c.provider]
WithKey(list, c, key) ==
    LET found == Find(list, key)
    IN [asset |-> IF found = <<>> THEN c.asset ELSE found[1].asset, key |-> key,
        provider |-> c.provider]

(* The store's subscriber: a message for each part that changed, the asset first,   *)
(* posted as the parts change one after the other.                                 *)
Told(old, new) ==
    (IF old.asset = new.asset THEN <<>> ELSE <<[type |-> "asset", value |-> new.asset]>>)
    \o (IF old.key = new.key THEN <<>> ELSE <<[type |-> "market", value |-> new.key]>>)
    \o (IF old.provider = new.provider THEN <<>> ELSE <<[type |-> "provider", value |-> new.provider]>>)
\* What a window does with a row of changes, each of them heard by the subscriber.
Posted(old, changes) ==
    LET upto[n \in 0..Len(changes)] ==
          IF n = 0 THEN <<>>
          ELSE upto[n - 1] \o Told(IF n = 1 THEN old ELSE changes[n - 1], changes[n])
    IN upto[Len(changes)]
Selects(w, changes) ==
    /\ chosen' = [chosen EXCEPT ![w] = changes[Len(changes)]]
    /\ messages' = IF w = "main" /\ sideOpen THEN messages \o Posted(chosen[w], changes) ELSE messages
    /\ apart' = (apart \/ w = "side")
    /\ UNCHANGED <<sideOpen, lists>>

(* A row of the market data window: the asset, then its market; a product chosen in *)
(* a window's title: the market, then its asset.                                   *)
PickRow(w, slot, provider) ==
    LET c0 == [chosen[w] EXCEPT !.provider = provider]
        c1 == WithAsset(lists[w], c0, slot.asset)
    IN Picking /\ Selects(w, <<c0, c1, WithKey(lists[w], c1, slot.key)>>)
PickProduct(w, slot, provider) ==
    LET c0 == [chosen[w] EXCEPT !.provider = provider]
        c1 == WithKey(lists[w], c0, slot.key)
    IN Picking /\ Selects(w, <<c0, c1, WithAsset(lists[w], c1, slot.asset)>>)
(* MarketRotator: the asset after the selected one, every eight seconds.            *)
Rotate ==
    LET assets == FoldSeq(LAMBDA m, seen : IF Contains(seen, m.asset) THEN seen ELSE Append(seen, m.asset),
                          <<>>, lists["main"])
        at == SelectInSeq(assets, LAMBDA a : a = chosen["main"].asset)
    IN /\ Picking /\ assets # <<>>
       /\ Selects("main", <<WithAsset(lists["main"], chosen["main"], assets[(at % Len(assets)) + 1])>>)
(* setMarkets, of the selection: a market that is not live gives way to one that is.*)
MarketsArrive(w, list) ==
    /\ Picking /\ (w = "side" => sideOpen) /\ lists' = [lists EXCEPT ![w] = list]
    /\ LET c == chosen[w]
           live == AllLive(list)
           stays == live = <<>> \/ \E n \in DOMAIN live : live[n].key = c.key
           head == IF c.key = None THEN live ELSE LiveOf(list, c.asset)
           next == IF stays THEN c ELSE [c EXCEPT !.key = (head \o live)[1].key]
       IN /\ chosen' = [chosen EXCEPT ![w] = next]
          /\ messages' = IF w = "main" /\ sideOpen THEN messages \o Told(c, next) ELSE messages
    /\ apart' = TRUE /\ UNCHANGED sideOpen

(* The other window: it starts from the store's own start, and takes what is told.  *)
Start == [asset |-> StartAsset, key |-> None, provider |-> "cme"]
OpenSide == /\ ~sideOpen /\ sideOpen' = TRUE /\ messages' = <<>>
            /\ chosen' = [chosen EXCEPT !["side"] = Start]
            /\ lists' = [lists EXCEPT !["side"] = lists["main"]]
            /\ apart' = (chosen["main"] # Start) /\ UNCHANGED picks
CloseSide == /\ sideOpen /\ sideOpen' = FALSE /\ messages' = <<>> /\ UNCHANGED <<chosen, lists, apart, picks>>
Heard(list, c, message) ==
    CASE message.type = "asset" -> WithAsset(list, c, message.value)
      [] message.type = "market" /\ message.value = None -> [c EXCEPT !.key = None]
      [] message.type = "market" /\ message.value # None -> WithKey(list, c, message.value)
      [] OTHER -> [c EXCEPT !.provider = message.value]
Hear ==
    /\ sideOpen /\ messages # <<>> /\ messages' = Tail(messages)
    /\ chosen' = [chosen EXCEPT !["side"] = Heard(lists["side"], @, messages[1])]
    /\ UNCHANGED <<sideOpen, lists, apart, picks>>

SyncInit == /\ sideOpen = FALSE /\ chosen = [w \in Windows |-> Start]
            /\ lists \in {[w \in Windows |-> <<>>], [w \in Windows |-> SyncSlots]}
            /\ messages = <<>> /\ apart = FALSE /\ picks = 0
SyncNext ==
    \/ \E w \in Windows, n \in DOMAIN SyncSlots, provider \in Providers :
          (w = "side" => sideOpen) /\ (PickRow(w, SyncSlots[n], provider) \/ PickProduct(w, SyncSlots[n], provider))
    \/ Rotate
    \/ \E w \in Windows : MarketsArrive(w, SyncSlots)
    \/ OpenSide \/ CloseSide \/ Hear
SyncSpec == SyncInit /\ [][SyncNext]_syncVars

\* A popped-out window that starts as the main one is, hears everything from then on and
\* neither selects nor lists anything by itself selects what the main window does.
SideFollowsMain == sideOpen /\ ~apart /\ messages = <<>> => chosen["side"] = chosen["main"]
=============================================================================
