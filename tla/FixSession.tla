------------------------------ MODULE FixSession ------------------------------
(***************************************************************************)
(* The FIX engine: the session of native/fix-engine-cpp/src/fix_session.hpp*)
(* with the threads that use it, the handlers of fix_http_server.hpp and   *)
(* the main loop of main.cpp, over fix_tcp.hpp or, in simulated mode, with *)
(* the exchange of fix_sim.hpp.                                            *)
(*                                                                         *)
(* The session has no lock.  A thread takes a message through it in steps: *)
(* it is built with the sequence number of the moment ("build", for the    *)
(* session's own), the number is read again for the entry and for its      *)
(* increment ("number"), which is stored ("store"), the entry is appended  *)
(* ("journal"), and the message is sent ("send") or, if it was received,   *)
(* acted on ("act").  The journal's entries that tell of the session's own *)
(* state, and the counters that only /stats shows, are left out.           *)
(***************************************************************************)
EXTENDS Integers, Sequences, FiniteSets, SequencesExt

CONSTANTS
  Clients,      \* threads of the HTTP server's pool
  Main,         \* the thread of main()
  Requests,     \* what clients ask, each once: [op, id]
  FreshId,      \* the ClOrdID generated for each cancel and replace
  MaxPeer,      \* bound: how many messages the counterparty sends
  MaxBeats,     \* bound: how many heartbeats fall due
  None

Threads == Clients \cup {Main}

ClOrdIds == {r.id : r \in Requests} \cup {FreshId[r] : r \in Requests}

ASSUME FixSessionAssumption ==
  /\ Main \notin Clients /\ IsFiniteSet(Clients)
  /\ MaxPeer \in Nat /\ MaxBeats \in Nat
  /\ \A r \in Requests : r.op \in {"order", "cancel", "replace"}
  /\ DOMAIN FreshId = Requests

VARIABLES
  state,        \* state_
  sendSeq,      \* send_seq_
  recvSeq,      \* recv_seq_
  sentCount,    \* how many messages have been journaled as sent
  received,     \* the entries journaled as received, in their order
  orders,       \* the status of each order in orders_ of the simulated exchange
  connected,    \* connected_ of the transport
  wire,         \* the messages that have left
  inbox,        \* the counterparty's messages on their way
  buffer,       \* read_buffer_: those that have been read
  running,      \* g_running
  listening,    \* the HTTP server takes requests
  step,         \* what each thread is doing
  todo,         \* requests still to come
  peer,         \* how many messages the counterparty has sent
  beats         \* how many heartbeats have fallen due

session == <<state, sendSeq, recvSeq, sentCount, received>>
transport == <<connected, wire, inbox, buffer, peer>>
process == <<running, listening, todo, beats>>
fixVars == <<session, transport, process, orders, step>>

At(t, pc) == step[t].pc = pc

Idle == [pc |-> "idle", way |-> None, msg |-> None, read |-> 0, req |-> None]

MainAt(pc) == [Idle EXCEPT !.pc = pc]

Go(t, pc) == step' = [step EXCEPT ![t].pc = pc]

Init ==
  /\ state = "disconnected" /\ sendSeq = 1 /\ recvSeq = 1 /\ sentCount = 0 /\ received = <<>>
  /\ connected = FALSE /\ wire = {} /\ inbox = <<>> /\ buffer = <<>> /\ peer = 0
  /\ running = TRUE /\ listening = FALSE /\ todo = Requests /\ beats = 0
  /\ orders = [id \in ClOrdIds |-> None]
  /\ step = [t \in Threads |-> IF t = Main THEN MainAt("start") ELSE Idle]

(***************************************************************************)
(* A message on its way through the session.                               *)
(***************************************************************************)
Message(type, re) == [type |-> type, re |-> re, seq |-> None]

\* t goes to build a message; re is the test request it answers.
Building(t, msg) ==
  step' = [step EXCEPT ![t].pc = "build", ![t].way = "sent", ![t].msg = msg]

\* finalize: MsgSeqNum is send_seq_.
Build(t) ==
  /\ At(t, "build")
  /\ step' = [step EXCEPT ![t].pc = "number", ![t].msg.seq = sendSeq]
  /\ UNCHANGED <<session, transport, process, orders>>

\* t goes to journal a message that has been received.
Receiving(t, msg) ==
  step' = [step EXCEPT ![t].pc = "number", ![t].way = "received", ![t].msg = msg]

\* Mutant: one counter for both directions.
OneCounter(way) == sendSeq

SessionSeq(way) == IF way = "sent" THEN sendSeq ELSE recvSeq

\* make_entry, and the read of the increment.
Number(t) ==
  /\ At(t, "number")
  /\ step' = [step EXCEPT ![t].pc = "store", ![t].read = SessionSeq(step[t].way)]
  /\ UNCHANGED <<session, transport, process, orders>>

Incremented(n) == n + 1

\* The write of the increment.
StoreSeq(t) ==
  /\ At(t, "store")
  /\ \/ step[t].way = "sent" /\ sendSeq' = Incremented(step[t].read) /\ UNCHANGED recvSeq
     \/ step[t].way = "received" /\ recvSeq' = Incremented(step[t].read) /\ UNCHANGED sendSeq
  /\ Go(t, "journal")
  /\ UNCHANGED <<state, sentCount, received, transport, process, orders>>

\* journal_.append
JournalEntry(t) ==
  /\ At(t, "journal")
  /\ \/ /\ step[t].way = "sent"
        /\ sentCount' = sentCount + 1 /\ UNCHANGED received
        /\ Go(t, "send")
     \/ /\ step[t].way = "received"
        /\ received' = Append(received, [num |-> step[t].read, msg |-> step[t].msg])
        /\ UNCHANGED sentCount
        /\ Go(t, "act")
  /\ UNCHANGED <<state, sendSeq, recvSeq, transport, process, orders>>

\* Where main() goes on after a message of its own.
Onward(msg) ==
  CASE msg.type = "logon" -> "loggedOn"
    [] msg.type = "logout" -> "loggedOut"
    [] msg.re # None -> "extract"
    [] OTHER -> "loop"

\* send_cb_, whose result is not looked at: a send that fails ends the connection.
SendMessage(t) ==
  /\ At(t, "send")
  /\ \/ connected /\ wire' = wire \cup {step[t].msg} /\ UNCHANGED connected
     \/ connected' = FALSE /\ UNCHANGED wire
  /\ step' = [step EXCEPT ![t] = IF t = Main THEN MainAt(Onward(@.msg)) ELSE [@ EXCEPT !.pc = "sent"]]
  /\ UNCHANGED <<session, inbox, buffer, peer, process, orders>>

StateAfter(type) ==
  CASE type = "logon" -> "active"
    [] type = "logout" -> "disconnected"
    [] OTHER -> state

\* Mutant: a test request is only journaled.
NotAnswered(type) == FALSE

IsAnswered(type) == type = "test"

\* The rest of on_message_received.
Act(t) ==
  /\ At(t, "act")
  /\ LET msg == step[t].msg
     IN /\ state' = StateAfter(msg.type)
        /\ IF IsAnswered(msg.type) THEN Building(t, Message("heartbeat", msg.seq))
           ELSE step' = [step EXCEPT ![t] = IF t = Main THEN MainAt("extract") ELSE Idle]
  /\ UNCHANGED <<sendSeq, recvSeq, sentCount, received, transport, process, orders>>

Pass(t) == Build(t) \/ Number(t) \/ StoreSeq(t) \/ JournalEntry(t) \/ SendMessage(t) \/ Act(t)

(***************************************************************************)
(* The handlers of the HTTP server, /send, /cancel and /replace.           *)
(***************************************************************************)
Accept(t, r) ==
  /\ At(t, "idle")
  /\ listening
  /\ r \in todo /\ todo' = todo \ {r}
  /\ step' = [step EXCEPT ![t].pc = "build", ![t].way = "sent", ![t].req = r,
                          ![t].msg = Message(r.op, None)]
  /\ UNCHANGED <<session, transport, running, listening, beats, orders>>

\* A session that is not simulated: the answer is "live".
AnswerLive(t) ==
  /\ At(t, "sent") /\ state # "simulated"
  /\ step' = [step EXCEPT ![t] = Idle]
  /\ UNCHANGED <<session, transport, process, orders>>

\* on_new_order, on_cancel and on_replace, up to the report they receive; a cancel or
\* a replace of an unknown order has none.
Simulate(t) ==
  /\ At(t, "sent") /\ state = "simulated"
  /\ LET r == step[t].req
     IN \/ /\ r.op # "order" /\ orders[r.id] = None
           /\ step' = [step EXCEPT ![t] = Idle]
           /\ UNCHANGED orders
        \/ /\ r.op = "order" \/ orders[r.id] # None
           /\ orders' = CASE r.op = "order" -> [orders EXCEPT ![r.id] = "new"]
                          [] r.op = "cancel" -> [orders EXCEPT ![r.id] = "cancelled"]
                          [] r.op = "replace" -> [orders EXCEPT ![r.id] = None,
                                                                ![FreshId[r]] = "replaced"]
           /\ Receiving(t, [Message("report", None) EXCEPT !.seq = recvSeq])
  /\ UNCHANGED <<session, transport, process>>

Handle(t) == Pass(t) \/ AnswerLive(t) \/ Simulate(t) \/ \E r \in todo : Accept(t, r)

(***************************************************************************)
(* main().                                                                 *)
(***************************************************************************)
StartSimulated ==
  /\ At(Main, "start")
  /\ state' = "simulated" /\ sendSeq' = 1 /\ recvSeq' = 1
  /\ step' = [step EXCEPT ![Main] = MainAt("listen")]
  /\ UNCHANGED <<sentCount, received, transport, process, orders>>

Connect ==
  /\ At(Main, "start")
  /\ connected' = TRUE
  /\ Building(Main, Message("logon", None))
  /\ UNCHANGED <<session, wire, inbox, buffer, peer, process, orders>>

LoggedOn ==
  /\ At(Main, "loggedOn")
  /\ state' = "logonSent"
  /\ Go(Main, "listen")
  /\ UNCHANGED <<sendSeq, recvSeq, sentCount, received, transport, process, orders>>

Listen ==
  /\ At(Main, "listen")
  /\ listening' = TRUE
  /\ Go(Main, "loop")
  /\ UNCHANGED <<session, transport, running, todo, beats, orders>>


Ends == ~running

Turn ==
  /\ At(Main, "loop")
  /\ \/ ~Ends /\ Go(Main, "poll")
     \/ Ends /\ state = "active" /\ Building(Main, Message("logout", None))
     \/ Ends /\ state # "active" /\ Go(Main, "stop")
  /\ UNCHANGED <<session, transport, process, orders>>

\* poll: something is read, the counterparty has closed, or neither.
Poll ==
  /\ At(Main, "poll")
  /\ \/ /\ connected /\ inbox # <<>>
        /\ \E n \in 1 .. Len(inbox) :
             /\ buffer' = buffer \o SubSeq(inbox, 1, n)
             /\ inbox' = SubSeq(inbox, n + 1, Len(inbox))
        /\ Go(Main, "extract")
        /\ UNCHANGED connected
     \/ /\ connected /\ connected' = FALSE
        /\ Go(Main, "beat")
        /\ UNCHANGED <<inbox, buffer>>
     \/ /\ Go(Main, "beat")
        /\ UNCHANGED <<connected, inbox, buffer>>
  /\ UNCHANGED <<session, wire, peer, process, orders>>

\* extract_messages delivers all that was read, whether or not the connection lasts.
Extract ==
  /\ At(Main, "extract")
  /\ \/ buffer = <<>> /\ Go(Main, "beat") /\ UNCHANGED buffer
     \/ buffer # <<>> /\ Receiving(Main, Head(buffer)) /\ buffer' = Tail(buffer)
  /\ UNCHANGED <<session, connected, wire, inbox, peer, process, orders>>

\* heartbeat_due
Beat ==
  /\ At(Main, "beat")
  /\ \/ /\ state = "active" /\ beats < MaxBeats /\ beats' = beats + 1
        /\ Building(Main, Message("heartbeat", None))
     \/ Go(Main, "loop") /\ UNCHANGED beats
  /\ UNCHANGED <<session, transport, running, listening, todo, orders>>

LoggedOut ==
  /\ At(Main, "loggedOut")
  /\ state' = "logoutSent"
  /\ Go(Main, "stop")
  /\ UNCHANGED <<sendSeq, recvSeq, sentCount, received, transport, process, orders>>

\* http_server.stop(), and the join of its threads.
StopServer ==
  /\ At(Main, "stop")
  /\ listening' = FALSE
  /\ Go(Main, "join")
  /\ UNCHANGED <<session, transport, running, todo, beats, orders>>

\* Mutant: the server's threads are not joined.
NotWaitedFor == TRUE

HandlersReturned == \A t \in Clients : At(t, "idle")

Join ==
  /\ At(Main, "join")
  /\ HandlersReturned
  /\ Go(Main, "disconnect")
  /\ UNCHANGED <<session, transport, process, orders>>

Disconnect ==
  /\ At(Main, "disconnect")
  /\ connected' = FALSE
  /\ Go(Main, "done")
  /\ UNCHANGED <<session, wire, inbox, buffer, peer, process, orders>>

MainStep ==
  \/ StartSimulated \/ Connect \/ LoggedOn \/ Listen \/ Pass(Main)
  \/ Turn \/ Poll \/ Extract \/ Beat \/ LoggedOut \/ StopServer \/ Join \/ Disconnect

(***************************************************************************)
(* The environment.                                                        *)
(***************************************************************************)
\* POST /shutdown, or a signal.
Shutdown ==
  /\ running /\ running' = FALSE
  /\ UNCHANGED <<session, transport, listening, todo, beats, orders, step>>

\* The counterparty has heard of us, and says what it likes.
PeerSends(type) ==
  /\ connected /\ wire # {}
  /\ peer < MaxPeer /\ peer' = peer + 1
  /\ inbox' = Append(inbox, [Message(type, None) EXCEPT !.seq = peer'])
  /\ UNCHANGED <<session, connected, wire, buffer, process, orders, step>>

Next ==
  \/ \E t \in Clients : Handle(t)
  \/ MainStep
  \/ Shutdown
  \/ \E type \in {"logon", "logout", "test", "report"} : PeerSends(type)

Spec == Init /\ [][Next]_fixVars

\* Threads are scheduled: none of the steps waits for another but the join.
FairSpec ==
  /\ Spec
  /\ \A t \in Clients : WF_fixVars(Handle(t))
  /\ WF_fixVars(MainStep)
-----------------------------------------------------------------------------
(***************************************************************************)
(* Properties.                                                             *)
(***************************************************************************)
\* Type invariant.  Racing increments lose numbers and never invent any: send_seq_ is
\* not ahead of the messages that have passed.
FixTypeOK ==
  /\ state \in {"disconnected", "logonSent", "active", "logoutSent", "simulated"}
  /\ \A t \in Threads : step[t].way \in {"sent", "received", None}
  /\ recvSeq \in Nat \ {0} /\ sendSeq \in Nat \ {0}
  /\ sendSeq - 1 <= sentCount + Cardinality({t \in Threads : step[t].way = "sent"})

\* The last that the counterparty has said of the session is of this type.
LastWord(type) ==
  \E i \in DOMAIN received :
    /\ received[i].msg.type = type
    /\ \A j \in DOMAIN received : j > i => received[j].msg.type \notin {"logon", "logout"}

\* "Manages: session state transitions": until the engine itself takes its leave, the
\* session is active exactly when the last the counterparty said of it was a logon,
\* and never because of a message of another kind or of another thread.
ActiveAfterLogon ==
  ~At(Main, "act") /\ state # "logoutSent" => (state = "active" <=> LastWord("logon"))

\* One thread reads the connection, so in a live session the messages of the
\* counterparty are journaled in their order, each under its own number.
ReceivedAsSent ==
  state # "simulated" =>
    \A i \in DOMAIN received : received[i].num = i /\ received[i].msg.seq = i

\* The session keeps its state and its numbers although handlers and the main loop use
\* it without a lock: active exactly when the counterparty logged on last, what is read
\* journaled in order, and no number drawn that no message was sent with.
SessionIsOrderly == FixTypeOK /\ ActiveAfterLogon /\ ReceivedAsSent

\* "Graceful shutdown": once the connection has been given up no handler is left that
\* would send on it, use the session or answer a client.
NoHandlerLeft ==
  At(Main, "disconnect") \/ At(Main, "done") => \A t \in Clients : At(t, "idle")

Received(type, n) ==
  \E i \in DOMAIN received : received[i].msg.type = type /\ received[i].msg.seq = n

\* "TestRequest handling": a test request that was read is answered with a heartbeat
\* that names it, unless the connection is lost.
TestRequestsAnswered ==
  \A n \in 1 .. MaxPeer :
    Received("test", n) ~> ~connected \/ \E m \in wire : m.re = n


\* "FIX 4.4 Session ... send/recv sequence numbers": no two messages have one number.
NumbersUnique ==
  \A m, n \in wire : m.seq = n.seq => m = n
=============================================================================
