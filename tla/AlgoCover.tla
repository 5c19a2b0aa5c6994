------------------------------ MODULE AlgoCover -------------------------------
(***************************************************************************)
(* The order path of the gateway (native/gateway-cpp/src/main.cpp) in      *)
(* front of the matching engine: requests are relayed over HTTP, and what  *)
(* the answers tell about algo entry orders is turned into cover orders by *)
(* process_exchange_fill_events.                                           *)
(*                                                                         *)
(* Every request is handled by a thread of the server's pool, every market *)
(* record by the thread that reads the price feed.  A handler holds        *)
(* algo_cover_mutex for one event at a time and no lock while it waits for *)
(* the exchange, which serves one request at a time in any order.  A call  *)
(* may fail: the exchange cannot be reached, or the read timeout ends the  *)
(* wait for a request the exchange still carries out.                      *)
(***************************************************************************)
EXTENDS Exchange

CONSTANTS
  Clients,       \* threads of the HTTP server's pool
  Feed,          \* the market-data thread
  Nobody,        \* the caller of a request whose handler has given up
  Jobs,          \* what clients and feed ask of the gateway, each once
  Entries,       \* the commands that carry an algo entry's cover policy
  CoverTicks,    \* their coverTicksFromFill
  MaxClock,      \* bound: the last millisecond of the clock
  MaxFaults      \* bound: how many calls or processes fail

Threads == Clients \cup {Feed}

\* What execution_post sends.
Request ==
  [op: {"send"}, cmd: Command] \cup [op: {"cancel"}, id: Ids]
    \cup [op: {"market"}, tick: Tick] \cup [op: {"reset"}]

EntryIds == {c.id : c \in Entries}

\* cover_id, with the millisecond it is made in.
CoverId(id, ms) == <<id, ms>>

CoverIds == {CoverId(id, ms) : id \in EntryIds, ms \in 0..MaxClock}

ASSUME AlgoCoverAssumption ==
  /\ IsFiniteSet(Clients) /\ Feed \notin Clients /\ Nobody \notin Threads
  /\ Entries \subseteq Command
  /\ \A c, d \in Entries : c.id = d.id => c = d
  /\ CoverIds \subseteq Ids \ EntryIds
  /\ CoverTicks \in Nat \ {0}
  /\ MaxClock \in Nat /\ MaxFaults \in Nat

\* Orders are sent by the order and deploy routes, and by these only; what goes out
\* under an entry's id is the entry, and nobody but the gateway names a cover.
ASSUME JobsAssumption ==
  \A j \in Jobs :
    /\ j.todo \in Seq(Request) /\ j.todo # <<>>
    /\ j.kind # "order" => Len(j.todo) = 1
    /\ \A i \in DOMAIN j.todo :
         /\ j.todo[i].op = "send" <=> j.kind = "order"
         /\ j.kind = "order" =>
              /\ j.todo[i].cmd.id \in EntryIds => j.todo[i].cmd \in Entries
              /\ j.todo[i].cmd.id \notin CoverIds

VARIABLES
  policies,    \* the keys of algo_cover_policies
  processed,   \* processed_sim_fill_events
  thread,      \* what each thread is doing
  pending,     \* requests the exchange has not taken up
  serving,     \* the caller of the one it works on
  now,         \* now_ms()
  jobs,        \* what is still to be asked
  faults,      \* failures still to come
  made,        \* history: the covers made, with the fill each follows
  posts,       \* history: how many of them were posted
  forgot       \* history: policies and processed have been emptied

relay == <<policies, processed, thread, pending, serving, now, jobs, faults, made, posts, forgot>>
coverVars == <<vars, relay>>

Idle == [pc |-> "idle", todo |-> <<>>, reply |-> <<>>, covers |-> <<>>]

CoverInit ==
  /\ Init
  /\ policies = {} /\ processed = {}
  /\ thread = [t \in Threads |-> Idle]
  /\ pending = {} /\ serving = Nobody
  /\ now = 0 /\ jobs = Jobs /\ faults = MaxFaults
  /\ made = <<>> /\ posts = 0 /\ forgot = FALSE

(***************************************************************************)
(* What an answer says: json_objects_with_key(body, "orderId") finds the   *)
(* reports, then the orders and the fills of the event packet.  None of    *)
(* them has a "timestamp"; a report has no "price" and no "size" either,   *)
(* an order no size, no source and no role.  key is event_key.             *)
(***************************************************************************)
SideOf(r) == IF r.side = None /\ r.id \in EntryIds
             THEN (CHOOSE c \in Entries : c.id = r.id).side ELSE r.side

Event(r, px, size, tagged) ==
  [id |-> r.id, key |-> <<r.id, px, size>>, side |-> SideOf(r), sym |-> r.sym, px |-> r.px,
   qty |-> IF r.fill < 1 THEN 1 ELSE r.fill, tagged |-> tagged, fill |-> IF r.fill > 0 THEN r.seq ELSE 0]

\* The reports that tell of a fill, or the others, in their order.
Those(reports, filled) ==
  LET upto[n \in 0..Len(reports)] ==
        IF n = 0 THEN <<>>
        ELSE IF (reports[n].fill > 0) = filled THEN Append(upto[n - 1], reports[n])
        ELSE upto[n - 1]
  IN upto[Len(reports)]

Events(reports) ==
  LET orders == Those(reports, FALSE)
      fills == Those(reports, TRUE)
  IN [i \in DOMAIN reports |-> Event(reports[i], 0, 0, TRUE)]
       \o [i \in DOMAIN orders |-> Event(orders[i], orders[i].lim, 0, FALSE)]
       \o [i \in DOMAIN fills |-> Event(fills[i], fills[i].px, fills[i].fill, TRUE)]

\* The cover of an event, priced from the event's price and rounded to a tick.
CoverFor(e, ms) ==
  LET away == IF e.side = "buy" THEN FromTicks(CoverTicks) ELSE -FromTicks(CoverTicks)
  IN [id |-> CoverId(e.id, ms), sym |-> e.sym, side |-> Opposite(e.side), type |-> "limit",
      tif |-> "day", px |-> FromTicks(ToTicks(e.px + away)), qty |-> e.qty]

(***************************************************************************)
(* Handlers.                                                               *)
(***************************************************************************)
At(t, pc) == thread[t].pc = pc

Go(t, pc) == thread' = [thread EXCEPT ![t].pc = pc]

\* A request reaches the gateway, a record the feed's thread.
Start(t, j) ==
  /\ At(t, "idle")
  /\ j \in jobs
  /\ j.kind = "tick" <=> t = Feed
  /\ jobs' = jobs \ {j}
  /\ thread' = [thread EXCEPT ![t].todo = j.todo,
                              ![t].pc = CASE j.kind = "order" -> "remember"
                                          [] j.kind = "session" -> "clear"
                                          [] OTHER -> "post"]
  /\ UNCHANGED <<vars, policies, processed, pending, serving, now, faults, made, posts, forgot>>

\* remember_algo_cover_policy, before the order is sent.
Remember(t) ==
  /\ At(t, "remember")
  /\ LET c == Head(thread[t].todo).cmd
     IN policies' = policies \cup ({c.id} \cap EntryIds)
  /\ Go(t, "post")
  /\ UNCHANGED <<vars, processed, pending, serving, now, jobs, faults, made, posts, forgot>>

\* /api/cerious/session/reset empties the maps before it resets the exchange.
ClearSession(t) ==
  /\ At(t, "clear")
  /\ policies' = {} /\ processed' = {} /\ forgot' = TRUE
  /\ Go(t, "post")
  /\ UNCHANGED <<vars, pending, serving, now, jobs, faults, made, posts>>

Call(t, request) == pending' = pending \cup {[by |-> t, req |-> request]}

Post(t) ==
  /\ At(t, "post")
  /\ Call(t, Head(thread[t].todo))
  /\ Go(t, "wait")
  /\ UNCHANGED <<vars, policies, processed, serving, now, jobs, faults, made, posts, forgot>>

\* Mutant: every event is new.
NeverSeen(key) == TRUE

\* processed_sim_fill_events.insert(event_key).second
FirstSeen(key) == key \notin processed

\* Mutant: a policy serves one cover.
SpendPolicy(id) == policies' = policies \ {id}

\* A policy stays for the life of the session.
KeepPolicy(id) == policies' = policies

\* process_exchange_fill_events, one event under algo_cover_mutex.  The clock is
\* read for a cover's id only, and may have moved on since it was read last.
ProcessEvent(t) ==
  /\ At(t, "process") /\ thread[t].reply # <<>>
  /\ now' \in now..MaxClock
  /\ LET e == Head(thread[t].reply)
         covered == /\ FirstSeen(e.key)
                    /\ e.id \in policies
                    /\ e.tagged
     IN /\ processed' = processed \cup {e.key}
        /\ thread' = [thread EXCEPT ![t].reply = Tail(@),
                                    ![t].covers = IF covered THEN Append(@, CoverFor(e, now')) ELSE @]
        /\ made' = IF covered THEN Append(made, [of |-> e.id, key |-> e.key, fill |-> e.fill]) ELSE made
        /\ IF covered THEN KeepPolicy(e.id) ELSE UNCHANGED policies
  /\ UNCHANGED <<vars, pending, serving, jobs, faults, posts, forgot>>

PostCover(t) ==
  /\ At(t, "process") /\ thread[t].reply = <<>>
  /\ thread[t].covers # <<>>
  /\ Call(t, [op |-> "send", cmd |-> Head(thread[t].covers)])
  /\ posts' = posts + 1
  /\ Go(t, "settle")
  /\ UNCHANGED <<vars, policies, processed, serving, now, jobs, faults, made, forgot>>

\* The handler answers, or a deploy goes on to its next order.
NextRequest(t) ==
  /\ At(t, "process") /\ thread[t].reply = <<>> /\ thread[t].covers = <<>>
  /\ thread' = [thread EXCEPT ![t].todo = Tail(@),
                              ![t].pc = IF Len(thread[t].todo) = 1 THEN "idle" ELSE "remember"]
  /\ UNCHANGED <<vars, policies, processed, pending, serving, now, jobs, faults, made, posts, forgot>>

(***************************************************************************)
(* The exchange answers.                                                   *)
(***************************************************************************)
\* A handler looks at the answer to an order or a tick; it only relays that to a
\* cancel or a reset, and does not look at that to a cover.
Answered(h, reports) ==
  IF h.pc = "wait"
  THEN [h EXCEPT !.pc = "process",
                 !.reply = IF Head(h.todo).op \in {"send", "market"} THEN Events(reports) ELSE <<>>]
  ELSE [h EXCEPT !.pc = "process", !.covers = Tail(@)]

Deliver(t) ==
  thread' = IF t = Nobody THEN thread
            ELSE [thread EXCEPT ![t] = Answered(@, batch'.reports)]

Perform(request) ==
  \/ request.op = "send" /\ SubmitOrder(request.cmd)
  \/ request.op = "cancel" /\ CancelOrder(request.id)
  \/ request.op = "market" /\ ApplyMarketData(request.tick)
  \/ request.op = "reset" /\ Reset

Serve(p) ==
  /\ p \in pending
  /\ Perform(p.req)
  /\ pending' = pending \ {p}
  /\ \/ ctl' = "idle" /\ Deliver(p.by) /\ UNCHANGED serving
     \/ ctl' # "idle" /\ serving' = p.by /\ UNCHANGED thread
  /\ UNCHANGED <<policies, processed, now, jobs, faults, made, posts, forgot>>

ServeOn ==
  /\ Step
  /\ \/ ctl' = "idle" /\ Deliver(serving) /\ serving' = Nobody
     \/ ctl' # "idle" /\ UNCHANGED <<thread, serving>>
  /\ UNCHANGED <<policies, processed, pending, now, jobs, faults, made, posts, forgot>>

(***************************************************************************)
(* Failures.                                                               *)
(***************************************************************************)
Waiting(t) == thread[t].pc \in {"wait", "settle"}

\* Mutant: a cover that was not acknowledged is posted again.
FailedAndRetried(h) ==
  IF h.pc = "wait" THEN Idle ELSE [h EXCEPT !.pc = "process"]

\* Mutant: there is no timeout, and the handler waits on.
FailedAndWaiting(h) == h

\* execution_post returned no result: the request and the rest of a deploy are
\* given up; a cover is written to the audit log and left.
Failed(h) ==
  IF h.pc = "wait" THEN Idle ELSE [h EXCEPT !.pc = "process", !.covers = Tail(@)]

Own(t) == {p \in pending : p.by = t}

\* Requests of t whose answer nobody waits for any more.
Disown(t) ==
  /\ pending' = (pending \ Own(t)) \cup {[p EXCEPT !.by = Nobody] : p \in Own(t)}
  /\ serving' = IF serving = t THEN Nobody ELSE serving

Fault == faults > 0 /\ faults' = faults - 1

\* The connection is refused or lost before the request is read.
Unreachable(t) ==
  /\ Fault /\ Own(t) # {}
  /\ pending' = pending \ Own(t)
  /\ thread' = [thread EXCEPT ![t] = Failed(@)]
  /\ UNCHANGED <<vars, policies, processed, serving, now, jobs, made, posts, forgot>>

\* The read timeout: the exchange carries out what it has been sent.
TimeOut(t) ==
  /\ Fault /\ Waiting(t)
  /\ Disown(t)
  /\ thread' = [thread EXCEPT ![t] = Failed(@)]
  /\ UNCHANGED <<vars, policies, processed, now, jobs, made, posts, forgot>>

\* The exchange process ends and is started again; every call in flight fails.
ExchangeCrash ==
  /\ Fault
  /\ Restart
  /\ pending' = {} /\ serving' = Nobody
  /\ thread' = [t \in Threads |-> IF Waiting(t) THEN Failed(thread[t]) ELSE thread[t]]
  /\ UNCHANGED <<policies, processed, now, jobs, made, posts, forgot>>

\* The gateway process ends and is started again: nothing of it is persisted, and
\* the exchange carries out what it has been sent.
GatewayCrash ==
  /\ Fault
  /\ policies' = {} /\ processed' = {} /\ forgot' = TRUE
  /\ thread' = [t \in Threads |-> Idle]
  /\ pending' = {[p EXCEPT !.by = Nobody] : p \in pending}
  /\ serving' = Nobody
  /\ made' = <<>> /\ posts' = 0
  /\ UNCHANGED <<vars, now, jobs>>

Handle(t) ==
  \/ Remember(t) \/ ClearSession(t) \/ Post(t)
  \/ ProcessEvent(t) \/ PostCover(t) \/ NextRequest(t)

Exchanges == ServeOn \/ \E p \in pending : Serve(p)

CoverNext ==
  \/ \E t \in Threads, j \in jobs : Start(t, j)
  \/ \E t \in Threads : Handle(t) \/ Unreachable(t) \/ TimeOut(t)
  \/ Exchanges
  \/ ExchangeCrash \/ GatewayCrash

CoverSpec == CoverInit /\ [][CoverNext]_coverVars

\* Threads are scheduled, and the exchange gets round to every request: it serves
\* one at a time and none of its loops blocks.
FairCoverSpec ==
  /\ CoverSpec
  /\ \A t \in Threads : WF_coverVars(Handle(t))
  /\ WF_coverVars(Exchanges)
-----------------------------------------------------------------------------
(***************************************************************************)
(* Properties.                                                             *)
(***************************************************************************)
\* Type invariant.  A thread waits for an answer exactly when its request is with
\* the exchange, in the queue or being served.
CoverTypeOK ==
  /\ policies \subseteq EntryIds
  /\ \A t \in Threads :
       /\ thread[t].pc \in {"idle", "remember", "clear", "post", "wait", "process", "settle"}
       /\ Cardinality(Own(t)) + (IF serving = t THEN 1 ELSE 0) = (IF Waiting(t) THEN 1 ELSE 0)
  /\ serving # Nobody => ctl # "idle"
  /\ now \in 0..MaxClock /\ faults \in 0..MaxFaults

\* An order's policy is stored before anyone can hear of the order: whichever thread
\* the report of a fill reaches, and however long after the order's own handler has
\* returned, the policy is there, unless the session was reset or the gateway lost.
PolicyBeforeReport ==
  ~forgot => \A t \in Threads : \A i \in DOMAIN thread[t].reply :
               thread[t].reply[i].id \in EntryIds => thread[t].reply[i].id \in policies

\* An event makes one cover, whichever of several threads reads of it and in however
\* many answers: event_key is claimed under algo_cover_mutex, once in a session.
EventCoveredOnce ==
  ~forgot => \A i, j \in DOMAIN made : made[i].key = made[j].key => i = j

\* The covers a thread has yet to post.
Unposted(t) == Len(thread[t].covers) - (IF At(t, "settle") THEN 1 ELSE 0)

\* A cover is posted once: neither a failed call nor a timeout of a request the
\* exchange carries out after all makes a thread post it again or skip another.
CoversPostedOnce ==
  posts + SumFunctionOnSet([t \in Threads |-> Unposted(t)], Threads) = Len(made)

\* Covers are orders of the gateway's own: they never have covers themselves, and
\* in the book they stand on the side opposite to their entry.
CoversStayCovers ==
  /\ \A i \in DOMAIN made : made[i].of \in EntryIds
  /\ \A s \in Products, d \in Sides, p \in Ticks : \A i \in DOMAIN queue[s][d][p] :
       \A c \in Entries, ms \in 0..MaxClock :
         queue[s][d][p][i].id = CoverId(c.id, ms) => d = Opposite(c.side)

\* A handler carries what it read of through to the end, once: covers of its own
\* entries only, on the opposite side, each posted once, whatever is answered by
\* another thread, fails, or is carried out after its caller gave up.
CoversAreSound == CoverTypeOK /\ CoversPostedOnce /\ CoversStayCovers

\* Every handler returns, whatever fails and however its request is overtaken.
HandlersReturn == \A t \in Threads : ~At(t, "idle") ~> At(t, "idle")

\* A cover order says of itself that it is a "cover from fill": it follows a fill.
CoverFollowsFill == \A i \in DOMAIN made : made[i].fill > 0

\* The rule of an algo is that a filled entry gets a cover: a fill that two threads'
\* answers tell of in its report and in its fill event still makes one.
FillCoveredOnce ==
  \A i, j \in DOMAIN made : made[i].fill > 0 /\ made[i].fill = made[j].fill => i = j
=============================================================================
