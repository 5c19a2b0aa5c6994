--------------------------- MODULE FixSessionProofs ---------------------------
(***************************************************************************)
(* The session of the FIX engine keeps its state and its numbers, and a    *)
(* shutdown leaves no handler behind, for every number of handlers,        *)
(* requests, messages and heartbeats.  Its journal lists what was stored,  *)
(* for every number of writers and every capacity of the ring.             *)
(***************************************************************************)
EXTENDS FixSession, FixJournal, FiniteSetTheorems, SequenceTheorems, TLAPS

-----------------------------------------------------------------------------
(***************************************************************************)
(* The inductive invariant, part by part.                                  *)
(***************************************************************************)
Messages ==
  [type : {"logon", "logout", "test", "report", "heartbeat", "order", "cancel", "replace"},
   re : Nat \cup {None}, seq : Nat \cup {None}]

\* Where a thread has a message in its hands.
Passing == {"build", "number", "store", "journal", "send", "act"}

ClientPoints == Passing \cup {"idle", "sent"}
MainPoints ==
  Passing \cup {"start", "loggedOn", "listen", "loop", "poll", "extract", "beat",
                "loggedOut", "stop", "join", "disconnect", "done"}

\* t has a message in its hands that goes this way.
Has(t, way) == step[t].pc \in Passing /\ step[t].way = way

StepRecords ==
  [pc : ClientPoints \cup MainPoints, way : {"sent", "received", None},
   msg : Messages \cup {None}, read : Nat, req : Requests \cup {None}]

\* What t may be holding where it is.
Fits(t, s) ==
  /\ s \in StepRecords
  /\ t \in Clients => s.pc \in ClientPoints
  /\ t = Main => s.pc \in MainPoints
  /\ s.pc \in Passing => s.msg \in Messages /\ s.way \in {"sent", "received"}
  /\ s.pc \in {"build", "send"} => s.way = "sent"
  /\ s.pc = "act" => s.way = "received"

StepsOK ==
  /\ step \in [Threads -> StepRecords]
  /\ \A t \in Threads : Fits(t, step[t])

Entries == [num : Nat, msg : Messages]

VariablesOK ==
  /\ todo \subseteq Requests /\ beats \in Nat
  /\ state \in {"disconnected", "logonSent", "active", "logoutSent", "simulated"}
  /\ sendSeq \in Nat \ {0} /\ recvSeq \in Nat \ {0} /\ sentCount \in Nat /\ peer \in Nat
  /\ received \in Seq(Entries)
  /\ buffer \in Seq(Messages) /\ inbox \in Seq(Messages)

\* Handlers receive nothing but the reports of the simulated exchange.
HandlersReport ==
  \A t \in Clients : Has(t, "received") => state = "simulated" /\ step[t].msg.type = "report"

\* The threads whose message has its number and is not yet counted.
Numbered == {t \in Threads : step[t].pc = "journal" /\ step[t].way = "sent"}

\* However increments race, send_seq_ is at most one ahead of the messages that have
\* drawn a number, and so is every value a thread has read to increment it.
SendNumbers ==
  /\ sendSeq - 1 <= sentCount + Cardinality(Numbered)
  /\ \A t \in Threads : step[t].pc = "store" /\ step[t].way = "sent" =>
                          step[t].read - 1 <= sentCount + Cardinality(Numbered)

\* Before the server listens there are no handlers and nothing has been received;
\* when main() has joined the pool there are no handlers any more.
BeforeListening ==
  \/ step[Main].pc \in {"start", "loggedOn", "listen"}
  \/ Has(Main, "sent") /\ step[Main].msg.type = "logon"

Phases ==
  /\ BeforeListening => /\ ~listening /\ received = <<>>
                        /\ \A t \in Clients : step[t].pc = "idle"
  /\ step[Main].pc \in {"join", "disconnect", "done"} => ~listening
  /\ step[Main].pc \in {"disconnect", "done"} => \A t \in Clients : step[t].pc = "idle"
  /\ step[Main].pc = "start" => /\ state = "disconnected" /\ ~connected
                                /\ buffer = <<>> /\ inbox = <<>> /\ peer = 0 /\ recvSeq = 1
  /\ state = "logoutSent" => step[Main].pc \in {"stop", "join", "disconnect", "done"}
  /\ state = "simulated" =>
       /\ ~connected
       /\ step[Main].pc \in {"listen", "loop", "poll", "beat", "stop", "join", "disconnect", "done"}
       /\ \A i \in DOMAIN received : received[i].msg.type = "report"

\* A message the main loop has taken from the buffer and not yet journaled.
InHand == IF Has(Main, "received") /\ step[Main].pc # "act" THEN 1 ELSE 0

\* What is journaled, what is in hand, what is buffered and what is on its way are,
\* one after the other, the messages the counterparty has sent.
Channel ==
  state # "simulated" =>
    /\ \A i \in DOMAIN received : received[i].num = i /\ received[i].msg.seq = i
    /\ InHand = 1 => /\ step[Main].msg.seq = Len(received) + 1
                     /\ step[Main].pc \in {"store", "journal"} => step[Main].read = Len(received) + 1
    /\ recvSeq = Len(received) + (IF InHand = 1 /\ step[Main].pc = "journal" THEN 2 ELSE 1)
    /\ \A i \in DOMAIN buffer : buffer[i].seq = Len(received) + InHand + i
    /\ \A i \in DOMAIN inbox : inbox[i].seq = Len(received) + InHand + Len(buffer) + i
    /\ peer = Len(received) + InHand + Len(buffer) + Len(inbox)

\* The session is active after a logon, but for the moment in which the main loop has
\* journaled the counterparty's word and not yet acted on it.
Heeding == step[Main].pc = "act" /\ step[Main].msg.type \in {"logon", "logout"}

Heeded ==
  /\ Heeding => LastWord(step[Main].msg.type)
  /\ ~Heeding /\ state # "logoutSent" => (state = "active" <=> LastWord("logon"))

IInv == StepsOK /\ VariablesOK /\ HandlersReport /\ SendNumbers /\ Phases /\ Channel /\ Heeded
-----------------------------------------------------------------------------
(***************************************************************************)
(* Types.                                                                  *)
(***************************************************************************)
LEMMA MainApart == Main \notin Clients
  BY FixSessionAssumption

\* A thread that goes on leaves the others where they are.
LEMMA OneMoves ==
  ASSUME StepsOK, NEW t \in Threads, NEW s, Fits(t, s), step' = [step EXCEPT ![t] = s]
  PROVE  StepsOK'
  BY DEF StepsOK, Fits

\* A thread that only goes to another point keeps what it holds.
LEMMA OneGoes ==
  ASSUME StepsOK, NEW t \in Threads, NEW pc \in ClientPoints \cup MainPoints, Go(t, pc),
         t \in Clients => pc \in ClientPoints, t = Main => pc \in MainPoints,
         pc \in Passing => step[t].pc \in Passing,
         pc \in {"build", "send"} => step[t].way = "sent", pc = "act" => step[t].way = "received"
  PROVE  StepsOK'
<1> DEFINE s == [step[t] EXCEPT !.pc = pc]
<1>1. step' = [step EXCEPT ![t] = s]
  BY DEF Go, StepsOK
<1>2. Fits(t, s)
  BY DEF StepsOK, StepRecords, Fits
<1>3. QED
  BY <1>1, <1>2, OneMoves

\* A thread that turns to a message has it in its hands.
LEMMA OneBuilds ==
  ASSUME StepsOK, NEW t \in Threads, NEW m \in Messages, Building(t, m)
  PROVE  StepsOK'
<1> DEFINE s == [step[t] EXCEPT !.pc = "build", !.way = "sent", !.msg = m]
<1>1. step' = [step EXCEPT ![t] = s]
  BY DEF Building, StepsOK, StepRecords
<1>2. Fits(t, s)
  BY DEF StepsOK, StepRecords, Fits, Passing, ClientPoints, MainPoints
<1>3. QED
  BY <1>1, <1>2, OneMoves

\* One more thread has a message in hand.
LEMMA OneReceives ==
  ASSUME StepsOK, NEW t \in Threads, NEW m \in Messages, Receiving(t, m)
  PROVE  StepsOK'
<1> DEFINE s == [step[t] EXCEPT !.pc = "number", !.way = "received", !.msg = m]
<1>1. step' = [step EXCEPT ![t] = s]
  BY DEF Receiving, StepsOK, StepRecords
<1>2. Fits(t, s)
  BY DEF StepsOK, StepRecords, Fits, Passing, ClientPoints, MainPoints
<1>3. QED
  BY <1>1, <1>2, OneMoves

\* The record of each thread stays one, whatever message it is given.
LEMMA StepsKept ==
  ASSUME StepsOK, VariablesOK, Next
  PROVE  StepsOK'
<1> USE MainApart DEF Threads, At
<1>1. ASSUME NEW t \in Threads, Build(t)
      PROVE  StepsOK'
  <2> DEFINE m == [step[t].msg EXCEPT !.seq = sendSeq]
             s == [step[t] EXCEPT !.pc = "number", !.msg = m]
  <2>1. step[t].msg \in Messages /\ step[t].way = "sent" /\ step[t] \in StepRecords
    BY <1>1 DEF Build, StepsOK, Fits, Passing
  <2>2. m \in Messages
    BY <2>1 DEF Messages, VariablesOK
  <2>3. step' = [step EXCEPT ![t] = s]
    BY <1>1, <2>1 DEF Build, StepsOK, StepRecords
  <2>4. Fits(t, s)
    BY <2>1, <2>2 DEF StepRecords, Fits, Passing, ClientPoints, MainPoints
  <2>5. QED
    BY <2>3, <2>4, OneMoves
<1>2. ASSUME NEW t \in Threads, Number(t)
      PROVE  StepsOK'
  <2> DEFINE s == [step[t] EXCEPT !.pc = "store", !.read = SessionSeq(step[t].way)]
  <2>1. step' = [step EXCEPT ![t] = s]
    BY <1>2 DEF Number, StepsOK, StepRecords
  <2>2. SessionSeq(step[t].way) \in Nat
    BY DEF SessionSeq, VariablesOK
  <2>3. Fits(t, s)
    BY <1>2, <2>2 DEF Number, StepsOK, StepRecords, Fits, Passing, ClientPoints, MainPoints
  <2>4. QED
    BY <2>1, <2>3, OneMoves
<1>3. ASSUME NEW t \in Threads, StoreSeq(t)
      PROVE  StepsOK'
  BY <1>3, OneGoes DEF StoreSeq, Passing, ClientPoints, MainPoints
<1>4. ASSUME NEW t \in Threads, JournalEntry(t)
      PROVE  StepsOK'
  <2>1. CASE step[t].way = "sent" /\ Go(t, "send")
    BY <1>4, <2>1, OneGoes DEF JournalEntry, Passing, ClientPoints, MainPoints
  <2>2. CASE step[t].way = "received" /\ Go(t, "act")
    BY <1>4, <2>2, OneGoes DEF JournalEntry, Passing, ClientPoints, MainPoints
  <2>3. QED
    BY <1>4, <2>1, <2>2 DEF JournalEntry
<1>5. ASSUME NEW t \in Threads, SendMessage(t)
      PROVE  StepsOK'
  <2> DEFINE s == IF t = Main THEN MainAt(Onward(step[t].msg)) ELSE [step[t] EXCEPT !.pc = "sent"]
  <2>1. step' = [step EXCEPT ![t] = s]
    BY <1>5 DEF SendMessage, StepsOK
  <2>2. Fits(t, s)
    BY <1>5 DEF SendMessage, StepsOK, StepRecords, Fits, Onward, MainAt, Idle, Passing, ClientPoints,
                MainPoints
  <2>3. QED
    BY <2>1, <2>2, OneMoves
<1>6. ASSUME NEW t \in Threads, Act(t)
      PROVE  StepsOK'
  <2> DEFINE m == Message("heartbeat", step[t].msg.seq)
  <2>1. step[t].msg \in Messages /\ step[t] \in StepRecords
    BY <1>6 DEF Act, StepsOK, Fits, Passing
  <2>2. CASE IsAnswered(step[t].msg.type)
    <3>1. m \in Messages
      BY <2>1 DEF Message, Messages
    <3>2. QED
      BY <1>6, <2>1, <2>2, <3>1, OneBuilds DEF Act
  <2>3. CASE ~IsAnswered(step[t].msg.type)
    <3> DEFINE s == IF t = Main THEN MainAt("extract") ELSE Idle
    <3>1. step' = [step EXCEPT ![t] = s]
      BY <1>6, <2>3 DEF Act, StepsOK
    <3>2. Fits(t, s)
      BY DEF StepRecords, Fits, MainAt, Idle, Passing, ClientPoints, MainPoints
    <3>3. QED
      BY <3>1, <3>2, OneMoves
  <2>4. QED
    BY <2>2, <2>3
<1>7. ASSUME NEW t \in Clients, NEW r \in todo, Accept(t, r)
      PROVE  StepsOK'
  <2> DEFINE m == Message(r.op, None)
             s == [step[t] EXCEPT !.pc = "build", !.way = "sent", !.req = r, !.msg = m]
  <2>1. m \in Messages /\ r \in Requests /\ t # Main
    BY FixSessionAssumption DEF Message, Messages, VariablesOK
  <2>2. step' = [step EXCEPT ![t] = s]
    BY <1>7 DEF Accept, StepsOK, StepRecords
  <2>3. Fits(t, s)
    <3> HIDE DEF m
    <3>1. step[t] \in StepRecords
      BY DEF StepsOK
    <3>2. QED
      BY <2>1, <3>1 DEF StepRecords, Fits, Passing, ClientPoints
  <2>4. QED
    BY <2>2, <2>3, OneMoves
<1>8. ASSUME NEW t \in Clients, step' = [step EXCEPT ![t] = Idle]
      PROVE  StepsOK'
  <2>1. Fits(t, Idle)
    BY DEF Fits, StepRecords, Idle, Passing, ClientPoints, MainPoints
  <2>2. QED
    BY <1>8, <2>1, OneMoves
<1>9. ASSUME NEW t \in Clients, Simulate(t)
      PROVE  StepsOK'
  <2> DEFINE m == [Message("report", None) EXCEPT !.seq = recvSeq]
  <2>1. m \in Messages
    BY DEF Message, Messages, VariablesOK
  <2>2. CASE Receiving(t, m)
    BY <2>1, <2>2, OneReceives
  <2>3. QED
    BY <1>8, <1>9, <2>2 DEF Simulate
<1>10. CASE StartSimulated
  <2>1. Fits(Main, MainAt("listen"))
    BY DEF Fits, StepRecords, MainAt, Idle, Passing, ClientPoints, MainPoints
  <2>2. QED
    BY <1>10, <2>1, OneMoves DEF StartSimulated
<1>11. ASSUME NEW pc \in MainPoints \ Passing, Go(Main, pc)
       PROVE  StepsOK'
  BY <1>11, OneGoes DEF Passing, MainPoints
<1>12. ASSUME NEW type \in {"logon", "logout", "heartbeat"}, Building(Main, Message(type, None))
       PROVE  StepsOK'
  <2>1. Message(type, None) \in Messages
    BY DEF Message, Messages
  <2>2. QED
    BY <1>12, <2>1, OneBuilds
<1>13. CASE Extract
  <2>1. CASE buffer # <<>>
    <3>1. Head(buffer) \in Messages
      BY <2>1 DEF VariablesOK
    <3>2. QED
      BY <1>13, <2>1, <3>1, OneReceives DEF Extract
  <2>2. QED
    BY <1>11, <1>13, <2>1 DEF Extract, MainPoints, Passing
<1>14. CASE LoggedOn \/ Listen \/ Poll \/ LoggedOut \/ StopServer \/ Join \/ Disconnect
  BY <1>11, <1>14 DEF LoggedOn, Listen, Poll, LoggedOut, StopServer, Join, Disconnect, MainPoints, Passing
<1>15. CASE Connect \/ Turn \/ Beat
  BY <1>11, <1>12, <1>15 DEF Connect, Turn, Beat, MainPoints, Passing
<1>16. ASSUME UNCHANGED step
       PROVE  StepsOK'
  BY <1>16 DEF StepsOK
<1>17. ASSUME NEW t \in Threads, Pass(t)
       PROVE  StepsOK'
  BY <1>1, <1>2, <1>3, <1>4, <1>5, <1>6, <1>17 DEF Pass
<1>18. ASSUME NEW t \in Clients, Handle(t)
       PROVE  StepsOK'
  BY <1>7, <1>8, <1>9, <1>17, <1>18 DEF Handle, AnswerLive
<1>19. CASE MainStep
  BY <1>10, <1>13, <1>14, <1>15, <1>17, <1>19 DEF MainStep
<1>20. QED
  BY <1>16, <1>18, <1>19 DEF Next, Shutdown, PeerSends

\* The variables keep their types.
LEMMA VariablesKept ==
  ASSUME StepsOK, VariablesOK, Next
  PROVE  VariablesOK'
<1> USE MainApart DEF Threads, At, session, transport, process
<1>1. ASSUME NEW t \in Threads, Build(t) \/ Number(t) \/ SendMessage(t)
      PROVE  VariablesOK'
  BY <1>1 DEF Build, Number, SendMessage, VariablesOK
<1>2. ASSUME NEW t \in Threads, StoreSeq(t)
      PROVE  VariablesOK'
  BY <1>2 DEF StoreSeq, Incremented, VariablesOK, StepsOK, StepRecords
<1>3. ASSUME NEW t \in Threads, JournalEntry(t)
      PROVE  VariablesOK'
  <2> DEFINE e == [num |-> step[t].read, msg |-> step[t].msg]
  <2>1. e \in Entries
    BY <1>3 DEF JournalEntry, StepsOK, StepRecords, Fits, Passing, Entries
  <2>2. received' = received \/ received' = Append(received, e)
    BY <1>3 DEF JournalEntry
  <2>3. received' \in Seq(Entries)
    <3> HIDE DEF e
    <3>1. QED
      BY <2>1, <2>2 DEF VariablesOK
  <2>4. QED
    BY <1>3, <2>3 DEF JournalEntry, VariablesOK
<1>4. ASSUME NEW t \in Threads, Act(t)
      PROVE  VariablesOK'
  BY <1>4 DEF Act, StateAfter, VariablesOK
<1>5. ASSUME NEW t \in Clients, AnswerLive(t) \/ Simulate(t)
      PROVE  VariablesOK'
  BY <1>5 DEF AnswerLive, Simulate, VariablesOK
<1>6. ASSUME NEW t \in Clients, NEW r \in todo, Accept(t, r)
      PROVE  VariablesOK'
  BY <1>6 DEF Accept, VariablesOK
<1>7. CASE StartSimulated \/ Connect \/ LoggedOn \/ Listen \/ Turn \/ Beat \/ LoggedOut \/ StopServer
             \/ Join \/ Disconnect \/ Shutdown
  BY <1>7 DEF StartSimulated, Connect, LoggedOn, Listen, Turn, Beat, LoggedOut, StopServer, Join,
              Disconnect, Shutdown, VariablesOK
<1>8. CASE Poll
  <2>1. ASSUME NEW n \in 1 .. Len(inbox), buffer' = buffer \o SubSeq(inbox, 1, n),
               inbox' = SubSeq(inbox, n + 1, Len(inbox))
        PROVE  buffer' \in Seq(Messages) /\ inbox' \in Seq(Messages)
    BY <2>1 DEF VariablesOK
  <2>2. buffer' \in Seq(Messages) /\ inbox' \in Seq(Messages)
    BY <1>8, <2>1 DEF Poll, VariablesOK
  <2>3. UNCHANGED <<todo, beats, state, sendSeq, recvSeq, sentCount, peer, received>>
    BY <1>8 DEF Poll
  <2>4. QED
    BY <2>2, <2>3 DEF VariablesOK
<1>9. CASE Extract
  <2>1. \/ buffer' = buffer
        \/ buffer # <<>> /\ buffer' = Tail(buffer)
    BY <1>9 DEF Extract
  <2>2. UNCHANGED <<todo, beats, state, sendSeq, recvSeq, sentCount, peer, received, inbox>>
    BY <1>9 DEF Extract
  <2>3. buffer' \in Seq(Messages)
    BY <2>1, HeadTailProperties DEF VariablesOK
  <2>4. QED
    BY <2>2, <2>3 DEF VariablesOK
<1>10. ASSUME NEW type \in {"logon", "logout", "test", "report"}, PeerSends(type)
       PROVE  VariablesOK'
  <2>1. peer + 1 \in Nat
    BY DEF VariablesOK
  <2>2. [Message(type, None) EXCEPT !.seq = peer + 1] \in Messages
    BY <2>1 DEF Message, Messages
  <2>3. QED
    BY <1>10, <2>1, <2>2 DEF PeerSends, VariablesOK
<1>11. ASSUME NEW t \in Threads, Pass(t)
       PROVE  VariablesOK'
  BY <1>1, <1>2, <1>3, <1>4, <1>11 DEF Pass
<1>12. ASSUME NEW t \in Clients, Handle(t)
       PROVE  VariablesOK'
  BY <1>5, <1>6, <1>11, <1>12 DEF Handle
<1>13. CASE MainStep
  BY <1>7, <1>8, <1>9, <1>11, <1>13 DEF MainStep
<1>14. QED
  BY <1>7, <1>10, <1>12, <1>13 DEF Next
-----------------------------------------------------------------------------
(***************************************************************************)
(* Who disturbs what.                                                      *)
(***************************************************************************)
\* What main() and the counterparty do leaves the handlers where they are.
LEMMA MainAlone ==
  ASSUME StepsOK, MainStep \/ Shutdown \/ \E type \in {"logon", "logout", "test", "report"} : PeerSends(type)
  PROVE  \A t \in Clients : step'[t] = step[t]
<1> USE MainApart DEF Threads, StepsOK
<1>1. ASSUME Pass(Main)
      PROVE  \A t \in Clients : step'[t] = step[t]
  BY <1>1 DEF Pass, Build, Number, StoreSeq, JournalEntry, SendMessage, Act, Go, Building
<1>2. QED
  BY <1>1 DEF MainStep, StartSimulated, Connect, LoggedOn, Listen, Turn, Poll, Extract, Beat, LoggedOut,
              StopServer, Join, Disconnect, Shutdown, PeerSends, Go, Building, Receiving

\* A handler leaves main() and the other handlers where they are, the state as it was,
\* and what is received too, but for a report in a simulated session.
LEMMA HandlerAlone ==
  ASSUME StepsOK, HandlersReport, NEW t \in Clients, Handle(t)
  PROVE  /\ \A u \in Threads \ {t} : step'[u] = step[u]
         /\ UNCHANGED <<state, buffer, inbox, peer, running, listening>>
         /\ ~connected => ~connected'
         /\ state # "simulated" => UNCHANGED <<recvSeq, received>>
         /\ \/ received' = received
            \/ \E e \in Entries : received' = Append(received, e) /\ e.msg.type = "report"
         /\ step[t].pc # "idle" \/ listening
<1> USE MainApart DEF Threads, StepsOK, At, Go, session, transport, process
<1>1. CASE Build(t) \/ Number(t) \/ AnswerLive(t)
  BY <1>1 DEF Build, Number, AnswerLive
<1>2. CASE StoreSeq(t)
  BY <1>2 DEF StoreSeq, HandlersReport, Has, Passing
<1>3. CASE JournalEntry(t)
  <2> DEFINE e == [num |-> step[t].read, msg |-> step[t].msg]
  <2>1. step[t].way = "received" => state = "simulated" /\ e.msg.type = "report" /\ e \in Entries
    BY <1>3 DEF JournalEntry, HandlersReport, Has, Passing, Fits, StepRecords, Entries
  <2>2. \/ step[t].way = "sent" /\ received' = received
        \/ step[t].way = "received" /\ received' = Append(received, e)
    BY <1>3, Zenon DEF JournalEntry
  <2>3. \A u \in Threads \ {t} : step'[u] = step[u]
    BY <1>3 DEF JournalEntry
  <2>4. /\ UNCHANGED <<state, recvSeq, buffer, inbox, peer, running, listening, connected>>
        /\ step[t].pc # "idle"
    BY <1>3 DEF JournalEntry
  <2> HIDE DEF e
  <2>5. QED
    BY <2>1, <2>2, <2>3, <2>4
<1>4. CASE SendMessage(t)
  BY <1>4 DEF SendMessage
<1>5. CASE Act(t)
  <2>1. step[t].msg.type = "report"
    BY <1>5 DEF Act, HandlersReport, Has, Fits, Passing
  <2>2. QED
    BY <1>5, <2>1 DEF Act, StateAfter, IsAnswered
<1>6. CASE Simulate(t)
  BY <1>6 DEF Simulate, Receiving
<1>7. CASE \E r \in todo : Accept(t, r)
  BY <1>7 DEF Accept
<1>8. QED
  BY <1>1, <1>2, <1>3, <1>4, <1>5, <1>6, <1>7 DEF Handle, Pass

\* Handlers keep receiving nothing but reports.
LEMMA HandlersReportKept ==
  ASSUME StepsOK, HandlersReport, Phases, Next
  PROVE  HandlersReport'
<1> USE MainApart DEF Threads, StepsOK, At, Has
<1>1. ASSUME NEW t \in Clients, Handle(t)
      PROVE  HandlersReport'
  <2>1. state' = state /\ \A u \in Threads \ {t} : step'[u] = step[u]
    BY <1>1, HandlerAlone
  <2>2. Has(t, "received")' => state = "simulated" /\ step'[t].msg.type = "report"
    <3>1. CASE Build(t) \/ Number(t) \/ StoreSeq(t) \/ JournalEntry(t)
      BY <3>1 DEF Build, Number, StoreSeq, JournalEntry, Go, HandlersReport, Passing, StepRecords
    <3>2. CASE SendMessage(t) \/ AnswerLive(t)
      BY <3>2 DEF SendMessage, AnswerLive, Idle, Passing, StepRecords
    <3>3. CASE Act(t)
      <4>1. step[t].msg.type = "report"
        BY <3>3 DEF Act, HandlersReport, Fits, Passing
      <4>2. QED
        BY <3>3, <4>1 DEF Act, IsAnswered, Idle, Passing
    <3>4. CASE Simulate(t)
      BY <3>4 DEF Simulate, Receiving, Message, Idle, Passing, StepRecords
    <3>5. CASE \E r \in todo : Accept(t, r)
      BY <3>5 DEF Accept, StepRecords
    <3>6. QED
      BY <1>1, <3>1, <3>2, <3>3, <3>4, <3>5 DEF Handle, Pass
  <2>3. QED
    BY <2>1, <2>2 DEF HandlersReport
<1>2. ASSUME MainStep
      PROVE  state = "simulated" => state' = "simulated"
  <2>1. state = "simulated" => step[Main].pc \notin Passing \cup {"loggedOn", "loggedOut"}
    BY DEF Phases, Passing
  <2>2. QED
    BY <1>2, <2>1 DEF MainStep, Pass, Build, Number, StoreSeq, JournalEntry, SendMessage, Act,
                      StartSimulated, Connect, LoggedOn, Listen, Turn, Poll, Extract, Beat, LoggedOut,
                      StopServer, Join, Disconnect, Passing, session
<1>3. CASE MainStep \/ Shutdown \/ \E type \in {"logon", "logout", "test", "report"} : PeerSends(type)
  <2>1. \A t \in Clients : step'[t] = step[t]
    BY <1>3, MainAlone
  <2>2. state = "simulated" => state' = "simulated"
    BY <1>2, <1>3 DEF Shutdown, PeerSends, session
  <2>3. QED
    BY <2>1, <2>2 DEF HandlersReport
<1>4. QED
  BY <1>1, <1>3 DEF Next
-----------------------------------------------------------------------------
(***************************************************************************)
(* The numbers of what is sent.                                            *)
(***************************************************************************)
\* There are finitely many threads, and so a number of those that wait to be counted.
LEMMA NumberedIsFinite ==
  ASSUME NEW T \in SUBSET Threads
  PROVE  IsFiniteSet(T) /\ Cardinality(T) \in Nat
<1>1. IsFiniteSet(Threads)
  BY FixSessionAssumption, FS_AddElement DEF Threads
<1>2. QED
  BY <1>1, FS_Subset, FS_CardinalityType

\* No step puts send_seq_ ahead of the messages that have drawn a number.
LEMMA SendNumbersKept ==
  ASSUME StepsOK, VariablesOK, SendNumbers, Next
  PROVE  SendNumbers'
<1> USE DEF StepsOK, At
<1>0. /\ Numbered \in SUBSET Threads /\ Numbered' \in SUBSET Threads
      /\ IsFiniteSet(Numbered) /\ Cardinality(Numbered) \in Nat
      /\ sendSeq \in Nat /\ sentCount \in Nat /\ Main \in Threads /\ Clients \subseteq Threads
  BY NumberedIsFinite DEF Numbered, VariablesOK, Threads
<1>1. ASSUME UNCHANGED <<sendSeq, sentCount>>, NEW t \in Threads,
             \A u \in Threads \ {t} : step'[u] = step[u],
             step[t].pc = "journal" => step[t].way # "sent",
             step'[t].pc = "journal" => step'[t].way # "sent",
             step'[t].pc = "store" /\ step'[t].way = "sent" => step'[t].read = sendSeq
      PROVE  SendNumbers'
  <2>1. Numbered' = Numbered
    BY <1>1 DEF Numbered
  <2>2. QED
    BY <1>1, <2>1 DEF SendNumbers
<1>2. ASSUME NEW t \in Threads, Number(t)
      PROVE  SendNumbers'
  BY <1>1, <1>2 DEF Number, SessionSeq, session, StepRecords
<1>3. ASSUME NEW t \in Threads, StoreSeq(t)
      PROVE  SendNumbers'
  <2>1. step'[t] = [step[t] EXCEPT !.pc = "journal"] /\ \A u \in Threads \ {t} : step'[u] = step[u]
    BY <1>3 DEF StoreSeq, Go
  <2>2. step'[t].pc = "journal" /\ step'[t].way = step[t].way /\ step[t].read \in Nat
    BY <2>1 DEF StepRecords
  <2>3. CASE step[t].way = "sent" /\ sendSeq' = step[t].read + 1
    <3>1. Numbered' = Numbered \cup {t} /\ t \notin Numbered
      BY <1>3, <2>1, <2>2, <2>3 DEF StoreSeq, Numbered
    <3>2. Cardinality(Numbered') = Cardinality(Numbered) + 1
      BY <1>0, <3>1, FS_AddElement
    <3>3. sentCount' = sentCount
      BY <1>3 DEF StoreSeq
    <3>4. \A u \in Threads : step'[u].pc = "store" => step'[u] = step[u]
      BY <2>1, <2>2
    <3>5. step[t].read - 1 <= sentCount + Cardinality(Numbered)
      BY <1>3, <2>3 DEF StoreSeq, SendNumbers
    <3>6. \A u \in Threads : step[u].read \in Nat
      BY DEF StepRecords
    <3>7. QED
      BY <1>0, <2>2, <2>3, <3>2, <3>3, <3>4, <3>5, <3>6 DEF SendNumbers
  <2>4. CASE step[t].way = "received" /\ UNCHANGED sendSeq
    BY <1>1, <1>3, <2>1, <2>2, <2>4 DEF StoreSeq
  <2>5. QED
    BY <1>3, <2>3, <2>4 DEF StoreSeq, Incremented
<1>4. ASSUME NEW t \in Threads, JournalEntry(t)
      PROVE  SendNumbers'
  <2>1. CASE step[t].way = "sent" /\ sentCount' = sentCount + 1 /\ Go(t, "send")
    <3>1. step'[t] = [step[t] EXCEPT !.pc = "send"] /\ \A u \in Threads \ {t} : step'[u] = step[u]
      BY <2>1 DEF Go
    <3>2. step'[t].pc = "send"
      BY <3>1 DEF StepRecords
    <3>3. Numbered = Numbered' \cup {t} /\ t \notin Numbered' /\ sendSeq' = sendSeq
      BY <1>4, <2>1, <3>1, <3>2 DEF JournalEntry, Numbered
    <3>4. Cardinality(Numbered) = Cardinality(Numbered') + 1 /\ Cardinality(Numbered') \in Nat
      BY <1>0, <3>3, NumberedIsFinite, FS_AddElement
    <3>5. \A u \in Threads : step'[u].pc = "store" => step'[u] = step[u]
      BY <3>1, <3>2
    <3>6. sentCount' + Cardinality(Numbered') = sentCount + Cardinality(Numbered)
      BY <1>0, <2>1, <3>4
    <3>7. QED
      BY <3>3, <3>5, <3>6 DEF SendNumbers
  <2>2. CASE step[t].way = "received" /\ UNCHANGED sentCount /\ Go(t, "act")
    BY <1>1, <1>4, <2>2 DEF JournalEntry, Go, StepRecords
  <2>3. QED
    BY <1>4, <2>1, <2>2 DEF JournalEntry
<1>5. ASSUME NEW t \in Threads, Build(t) \/ SendMessage(t) \/ Act(t)
      PROVE  SendNumbers'
  <2>1. step'[t].pc \notin {"store", "journal"} /\ \A u \in Threads \ {t} : step'[u] = step[u]
    <3>1. CASE Build(t)
      BY <3>1 DEF Build, StepRecords
    <3>2. CASE SendMessage(t)
      BY <3>2 DEF SendMessage, Onward, MainAt, Idle, StepRecords
    <3>3. CASE Act(t)
      BY <3>3 DEF Act, Building, MainAt, Idle, StepRecords
    <3>4. QED
      BY <1>5, <3>1, <3>2, <3>3
  <2>2. UNCHANGED <<sendSeq, sentCount>> /\ step[t].pc # "journal"
    BY <1>5 DEF Build, SendMessage, Act, session
  <2>3. QED
    BY <1>1, <2>1, <2>2
<1>6. ASSUME NEW t \in Clients, AnswerLive(t) \/ Simulate(t) \/ \E r \in todo : Accept(t, r)
      PROVE  SendNumbers'
  <2>1. step'[t].pc \notin {"store", "journal"} /\ \A u \in Threads \ {t} : step'[u] = step[u]
    <3>1. CASE AnswerLive(t)
      BY <1>0, <3>1 DEF AnswerLive, Idle, StepRecords
    <3>2. CASE Simulate(t)
      BY <1>0, <3>2 DEF Simulate, Receiving, Idle, StepRecords
    <3>3. ASSUME NEW r \in todo, Accept(t, r)
          PROVE  step'[t].pc = "build" /\ \A u \in Threads \ {t} : step'[u] = step[u]
      <4> DEFINE s == [step[t] EXCEPT !.pc = "build", !.way = "sent", !.req = r, !.msg = Message(r.op, None)]
      <4>1. step' = [step EXCEPT ![t] = s]
        BY <3>3 DEF Accept, StepRecords
      <4>2. s.pc = "build"
        BY <1>0 DEF StepRecords
      <4> HIDE DEF s
      <4>3. QED
        BY <1>0, <4>1, <4>2
    <3>4. QED
      BY <1>6, <3>1, <3>2, <3>3
  <2>2. UNCHANGED <<sendSeq, sentCount>> /\ step[t].pc # "journal"
    BY <1>6 DEF AnswerLive, Simulate, Accept, session
  <2>3. QED
    BY <1>0, <1>1, <2>1, <2>2
<1>7. CASE StartSimulated
  <2>1. /\ sendSeq' = 1 /\ sentCount' = sentCount
        /\ step'[Main].pc = "listen" /\ step[Main].pc = "start"
        /\ \A u \in Threads \ {Main} : step'[u] = step[u]
    BY <1>0, <1>7 DEF StartSimulated, MainAt, Idle
  <2>2. Numbered' = Numbered
    BY <1>0, <2>1 DEF Numbered
  <2>3. QED
    BY <1>0, <2>1, <2>2 DEF SendNumbers
<1>8. CASE Connect \/ LoggedOn \/ Listen \/ Turn \/ Poll \/ Extract \/ Beat \/ LoggedOut \/ StopServer
             \/ Join \/ Disconnect
  <2>1. step'[Main].pc \notin {"store", "journal"} /\ \A u \in Threads \ {Main} : step'[u] = step[u]
    <3>1. ASSUME NEW pc, Go(Main, pc), pc \notin {"store", "journal"}
          PROVE  step'[Main].pc \notin {"store", "journal"} /\ \A u \in Threads \ {Main} : step'[u] = step[u]
      BY <1>0, <3>1 DEF Go, StepRecords
    <3>2. ASSUME NEW m, Building(Main, m) \/ Receiving(Main, m)
          PROVE  step'[Main].pc \notin {"store", "journal"} /\ \A u \in Threads \ {Main} : step'[u] = step[u]
      BY <1>0, <3>2 DEF Building, Receiving, StepRecords
    <3>3. CASE LoggedOn \/ Listen \/ Poll \/ LoggedOut \/ StopServer \/ Join \/ Disconnect
      BY <3>1, <3>3 DEF LoggedOn, Listen, Poll, LoggedOut, StopServer, Join, Disconnect
    <3>4. CASE Connect \/ Turn
      BY <3>1, <3>2, <3>4 DEF Connect, Turn
    <3>5. CASE Extract \/ Beat
      BY <3>1, <3>2, <3>5 DEF Extract, Beat
    <3>6. QED
      BY <1>8, <3>3, <3>4, <3>5
  <2>2. UNCHANGED <<sendSeq, sentCount>> /\ step[Main].pc # "journal"
    BY <1>8 DEF Connect, LoggedOn, Listen, Turn, Poll, Extract, Beat, LoggedOut, StopServer, Join,
                Disconnect, session
  <2>3. QED
    BY <1>0, <1>1, <2>1, <2>2
<1>9. CASE UNCHANGED <<step, sendSeq, sentCount>>
  BY <1>9 DEF SendNumbers, Numbered
<1>10. ASSUME NEW t \in Threads, Pass(t)
       PROVE  SendNumbers'
  BY <1>2, <1>3, <1>4, <1>5, <1>10 DEF Pass
<1>11. ASSUME NEW t \in Clients, Handle(t)
       PROVE  SendNumbers'
  BY <1>0, <1>6, <1>10, <1>11 DEF Handle
<1>12. CASE MainStep
  BY <1>0, <1>7, <1>8, <1>10, <1>12 DEF MainStep
<1>13. QED
  BY <1>9, <1>11, <1>12 DEF Next, Shutdown, PeerSends, session
-----------------------------------------------------------------------------
(***************************************************************************)
(* The phases of main().                                                   *)
(***************************************************************************)
\* Wherever main() goes, the conditions of the place it reaches hold.
LEMMA PhasesKept ==
  ASSUME StepsOK, VariablesOK, HandlersReport, Phases, Next
  PROVE  Phases'
<1> USE MainApart DEF Threads, StepsOK, At, Has
<1> DEFINE m == step[Main]
<1>0. /\ m \in StepRecords /\ Fits(Main, m)
      /\ \A t \in Clients : step[t] \in StepRecords
  OBVIOUS
<1>1. ASSUME NEW t \in Clients, Handle(t)
      PROVE  Phases'
  <2>1. /\ step'[Main] = m
        /\ UNCHANGED <<state, buffer, inbox, peer, running, listening>>
        /\ ~connected => ~connected'
        /\ state # "simulated" => UNCHANGED <<recvSeq, received>>
        /\ \/ received' = received
           \/ \E e \in Entries : received' = Append(received, e) /\ e.msg.type = "report"
        /\ step[t].pc # "idle" \/ listening
    BY <1>1, HandlerAlone
  <2>2. ~BeforeListening /\ m.pc \notin {"disconnect", "done"}
    BY <2>1 DEF Phases
  <2>3. ~BeforeListening'
    BY <2>1, <2>2 DEF BeforeListening
  <2>4. state = "simulated" => \A i \in DOMAIN received' : received'[i].msg.type = "report"
    <3>1. ASSUME NEW e \in Entries, e.msg.type = "report", received' = Append(received, e), state = "simulated"
          PROVE  \A i \in DOMAIN received' : received'[i].msg.type = "report"
      <4>1. received \in Seq(Entries) /\ \A i \in DOMAIN received : received[i].msg.type = "report"
        BY <3>1 DEF Phases, VariablesOK
      <4>2. QED
        BY <3>1, <4>1, AppendProperties
    <3>2. QED
      BY <2>1, <3>1 DEF Phases
  <2>5. m.pc # "start"
    BY <2>2 DEF BeforeListening
  <2>6. QED
    BY <2>1, <2>2, <2>3, <2>4, <2>5 DEF Phases
<1>2. ASSUME \A t \in Clients : step'[t] = step[t], UNCHANGED <<state, received, listening>>,
             connected' => connected, m.pc # "start", step'[Main].pc # "start",
             BeforeListening' => BeforeListening,
             m.pc \in {"join", "disconnect", "done"} <=> step'[Main].pc \in {"join", "disconnect", "done"},
             m.pc \in {"disconnect", "done"} <=> step'[Main].pc \in {"disconnect", "done"},
             state = "logoutSent" => step'[Main].pc \in {"stop", "join", "disconnect", "done"},
             state = "simulated" => step'[Main].pc \in {"listen", "loop", "poll", "beat", "stop", "join",
                                                        "disconnect", "done"}
      PROVE  Phases'
  BY <1>2 DEF Phases
<1>3. CASE Pass(Main)
  <2>1. /\ state \notin {"logoutSent", "simulated"} /\ ~(m.pc \in {"join", "disconnect", "done", "start"})
        /\ \A t \in Clients : step'[t] = step[t]
    BY <1>3, MainAlone DEF Pass, Build, Number, StoreSeq, JournalEntry, SendMessage, Act, Phases, MainStep
  <2>2. CASE Build(Main) \/ Number(Main) \/ StoreSeq(Main)
    <3>1. /\ step'[Main].pc \in {"number", "store", "journal"} /\ step'[Main].way = m.way
          /\ step'[Main].msg.type = m.msg.type /\ m.pc \in Passing
      <4>1. CASE Build(Main)
        BY <1>0, <4>1 DEF Build, StepRecords, Fits, Passing, Messages
      <4>2. CASE Number(Main) \/ StoreSeq(Main)
        BY <1>0, <4>2 DEF Number, StoreSeq, Go, StepRecords, Passing
      <4>3. QED
        BY <2>2, <4>1, <4>2
    <3>2. BeforeListening' => BeforeListening
      BY <3>1 DEF BeforeListening
    <3>3. UNCHANGED <<state, received, listening, connected>>
      BY <2>2 DEF Build, Number, StoreSeq, session, transport, process
    <3>4. QED
      BY <1>2, <2>1, <3>1, <3>2, <3>3
  <2>3. CASE JournalEntry(Main)
    <3>1. CASE m.way = "sent" /\ Go(Main, "send") /\ UNCHANGED received
      <4>1. step'[Main] = [m EXCEPT !.pc = "send"]
        BY <1>0, <3>1 DEF Go
      <4>2. step'[Main].pc = "send" /\ step'[Main].way = m.way /\ step'[Main].msg = m.msg
        BY <1>0, <4>1 DEF StepRecords
      <4>3. BeforeListening' => BeforeListening
        BY <2>3, <4>2 DEF BeforeListening, JournalEntry, Passing
      <4>4. UNCHANGED <<state, listening, connected>>
        BY <2>3 DEF JournalEntry, transport, process
      <4>5. QED
        BY <1>2, <2>1, <3>1, <4>2, <4>3, <4>4
    <3>2. CASE m.way = "received" /\ Go(Main, "act")
      <4>1. step'[Main] = [m EXCEPT !.pc = "act"]
        BY <1>0, <3>2 DEF Go
      <4>2. step'[Main].pc = "act" /\ step'[Main].way = "received"
        BY <1>0, <3>2, <4>1 DEF StepRecords
      <4>3. ~BeforeListening'
        BY <4>2 DEF BeforeListening
      <4>4. UNCHANGED <<state, listening, connected>>
        BY <2>3 DEF JournalEntry, transport, process
      <4>5. QED
        BY <2>1, <4>2, <4>3, <4>4 DEF Phases
    <3>3. QED
      BY <2>3, <3>1, <3>2 DEF JournalEntry
  <2>4. CASE SendMessage(Main)
    <3>1. step'[Main] = MainAt(Onward(m.msg)) /\ m.way = "sent" /\ m.pc \in Passing
      BY <1>0, <2>4 DEF SendMessage, Fits, Passing
    <3>2. step'[Main].pc \in {"loggedOn", "loggedOut", "extract", "loop"}
      BY <3>1 DEF MainAt, Idle, Onward
    <3>3. step'[Main].pc = "loggedOn" => m.msg.type = "logon"
      BY <3>1 DEF MainAt, Idle, Onward
    <3>4. BeforeListening' => BeforeListening
      BY <3>1, <3>2, <3>3 DEF BeforeListening, Passing
    <3>5. UNCHANGED <<state, received, listening>> /\ (connected' => connected)
      BY <2>4 DEF SendMessage, session, process
    <3>6. QED
      BY <1>2, <2>1, <3>2, <3>4, <3>5
  <2>5. CASE Act(Main)
    <3>1. step'[Main].pc \in {"build", "extract"}
          /\ (step'[Main].pc = "build" => step'[Main].msg.type = "heartbeat")
      <4>1. CASE IsAnswered(m.msg.type)
        BY <1>0, <2>5, <4>1 DEF Act, Building, Message, StepRecords
      <4>2. CASE ~IsAnswered(m.msg.type)
        BY <1>0, <2>5, <4>2 DEF Act, MainAt, Idle
      <4>3. QED
        BY <4>1, <4>2
    <3>2. ~BeforeListening'
      BY <3>1 DEF BeforeListening, Passing
    <3>3. UNCHANGED <<listening, connected>> /\ state' \notin {"logoutSent", "simulated"}
      BY <2>1, <2>5 DEF Act, StateAfter, transport, process
    <3>4. QED
      BY <2>1, <3>1, <3>2, <3>3 DEF Phases
  <2>6. QED
    BY <1>3, <2>2, <2>3, <2>4, <2>5 DEF Pass
<1>4. CASE StartSimulated
  <2>1. /\ state' = "simulated" /\ step'[Main].pc = "listen" /\ step'[Main].way = None
        /\ UNCHANGED <<connected, received, listening>> /\ m.pc = "start"
        /\ \A t \in Clients : step'[t] = step[t]
    BY <1>0, <1>4, MainAlone DEF StartSimulated, MainAt, Idle, transport, process, MainStep
  <2>2. QED
    BY <2>1 DEF Phases, BeforeListening
<1>5. CASE Connect
  <2>1. /\ step'[Main].pc = "build" /\ step'[Main].way = "sent" /\ step'[Main].msg.type = "logon"
        /\ UNCHANGED <<state, received, listening>> /\ m.pc = "start"
        /\ \A t \in Clients : step'[t] = step[t]
    BY <1>0, <1>5, MainAlone DEF Connect, Building, Message, session, process, MainStep, StepRecords
  <2>2. QED
    BY <2>1 DEF Phases, BeforeListening, Passing
<1>6. CASE LoggedOn
  <2>1. /\ step'[Main].pc = "listen" /\ UNCHANGED <<received, listening>> /\ m.pc = "loggedOn" /\ state' = "logonSent"
        /\ \A t \in Clients : step'[t] = step[t]
    BY <1>0, <1>6, MainAlone DEF LoggedOn, Go, transport, process, MainStep, StepRecords
  <2>2. QED
    BY <2>1 DEF Phases, BeforeListening
<1>7. CASE Listen
  <2>1. /\ step'[Main].pc = "loop" /\ UNCHANGED <<state, received, connected>> /\ m.pc = "listen"
        /\ \A t \in Clients : step'[t] = step[t]
    BY <1>0, <1>7, MainAlone DEF Listen, Go, session, transport, MainStep, StepRecords
  <2>2. QED
    BY <2>1 DEF Phases, BeforeListening, Passing
<1>8. CASE Turn \/ Poll \/ Extract \/ Beat
  <2>1. /\ UNCHANGED <<state, received, listening>> /\ (connected' => connected)
        /\ m.pc \in {"loop", "poll", "extract", "beat"}
        /\ \A t \in Clients : step'[t] = step[t]
    <3>1. \A t \in Clients : step'[t] = step[t]
      BY <1>8, MainAlone DEF MainStep
    <3>2. /\ UNCHANGED <<state, received, listening>> /\ (connected' => connected)
          /\ m.pc \in {"loop", "poll", "extract", "beat"}
      BY <1>8 DEF Turn, Poll, Extract, Beat, session, transport, process
    <3>3. QED
      BY <3>1, <3>2
  <2>2. /\ \/ step'[Main].pc \in {"poll", "stop", "extract", "beat", "loop"}
           \/ step'[Main].pc = "build" /\ step'[Main].msg.type # "logon" /\ state = "active"
           \/ step'[Main].pc = "number" /\ step'[Main].way = "received"
        /\ step'[Main].pc = "extract" => connected
        /\ step'[Main].pc = "number" => m.pc = "extract"
    <3>1. ASSUME NEW pc, Go(Main, pc)
          PROVE  step'[Main].pc = pc
      BY <1>0, <3>1 DEF Go, StepRecords
    <3>2. ASSUME NEW type, Building(Main, Message(type, None))
          PROVE  step'[Main].pc = "build" /\ step'[Main].msg.type = type
      BY <1>0, <3>2 DEF Building, Message, StepRecords
    <3>3. CASE Turn
      BY <3>1, <3>2, <3>3 DEF Turn
    <3>4. CASE Poll
      BY <3>1, <3>4 DEF Poll
    <3>5. CASE Extract /\ Go(Main, "beat")
      BY <3>1, <3>5
    <3>6. CASE Extract /\ Receiving(Main, Head(buffer))
      <4>1. step'[Main].pc = "number" /\ step'[Main].way = "received" /\ m.pc = "extract"
        BY <1>0, <3>6 DEF Extract, Receiving, StepRecords
      <4>2. QED
        BY <4>1
    <3>7. CASE Beat
      BY <3>1, <3>2, <3>7 DEF Beat
    <3>8. QED
      BY <1>8, <3>3, <3>4, <3>5, <3>6, <3>7 DEF Extract
  <2>3. ~BeforeListening'
    BY <2>2 DEF BeforeListening, Passing
  <2>4. state # "logoutSent" /\ (state = "simulated" => ~connected /\ m.pc # "extract")
    BY <2>1 DEF Phases
  <2>5. QED
    BY <2>1, <2>2, <2>3, <2>4 DEF Phases
<1>9. CASE LoggedOut \/ StopServer \/ Join \/ Disconnect
  <2>1. /\ step'[Main].pc \in {"stop", "join", "disconnect", "done"} /\ UNCHANGED received
        /\ connected' => connected
        /\ \A t \in Clients : step'[t] = step[t]
        /\ state' = state \/ state' = "logoutSent"
        /\ step'[Main].pc # "stop" => /\ state' = state
                                      /\ \/ m.pc = "stop" /\ ~listening'
                                         \/ m.pc \in {"join", "disconnect"} /\ UNCHANGED listening
        /\ step'[Main].pc \in {"disconnect", "done"} => m.pc = "disconnect" \/ \A t \in Clients : step[t].pc = "idle"
    <3>1. \A t \in Clients : step'[t] = step[t]
      BY <1>9, MainAlone DEF MainStep
    <3>2. ASSUME NEW pc, Go(Main, pc)
          PROVE  step'[Main].pc = pc
      BY <1>0, <3>2 DEF Go, StepRecords
    <3>3. CASE LoggedOut
      BY <3>1, <3>2, <3>3 DEF LoggedOut, transport, process
    <3>4. CASE StopServer
      BY <3>1, <3>2, <3>4 DEF StopServer, session, transport, process
    <3>5. CASE Join
      BY <3>1, <3>2, <3>5 DEF Join, HandlersReturned, session, transport, process
    <3>6. CASE Disconnect
      <4>1. step'[Main].pc = "done" /\ m.pc = "disconnect" /\ ~connected'
        BY <3>2, <3>6 DEF Disconnect
      <4>2. UNCHANGED <<state, received, listening>>
        BY <3>6 DEF Disconnect, session, process
      <4>3. QED
        BY <3>1, <4>1, <4>2
    <3>7. QED
      BY <1>9, <3>3, <3>4, <3>5, <3>6
  <2>2. ~BeforeListening'
    BY <2>1 DEF BeforeListening, Passing
  <2>3. QED
    BY <2>1, <2>2 DEF Phases
<1>10. CASE Shutdown
  BY <1>10 DEF Shutdown, Phases, BeforeListening, session, transport
<1>11. ASSUME NEW type \in {"logon", "logout", "test", "report"}, PeerSends(type)
       PROVE  Phases'
  <2>1. /\ UNCHANGED <<state, received, connected, listening, step>> /\ connected
    BY <1>11 DEF PeerSends, session, process
  <2>2. QED
    BY <2>1 DEF Phases, BeforeListening
<1>12. QED
  BY <1>1, <1>3, <1>4, <1>5, <1>6, <1>7, <1>8, <1>9, <1>10, <1>11 DEF Next, MainStep
-----------------------------------------------------------------------------
(***************************************************************************)
(* The messages of the counterparty.                                       *)
(***************************************************************************)
\* A step that moves none of them leaves the channel in order.
LEMMA ChannelCarried ==
  ASSUME Channel, state' # "simulated" => state # "simulated",
         UNCHANGED <<received, recvSeq, buffer, inbox, peer>>,
         \/ step'[Main] = step[Main]
         \/ InHand = 0 /\ InHand' = 0
  PROVE  Channel'
<1>1. InHand' = InHand
  BY DEF InHand, Has
<1>2. CASE step'[Main] = step[Main]
  BY <1>1, <1>2 DEF Channel
<1>3. CASE InHand = 0 /\ InHand' = 0
  BY <1>3 DEF Channel
<1>4. QED
  BY <1>2, <1>3

\* Reading, extracting and journaling take the messages on in their order.
LEMMA ChannelKept ==
  ASSUME StepsOK, VariablesOK, HandlersReport, Phases, Channel, Next
  PROVE  Channel'
<1> USE MainApart DEF Threads, StepsOK, At
<1> DEFINE m == step[Main]
<1>0. /\ m \in StepRecords /\ Fits(Main, m)
      /\ received \in Seq(Entries) /\ buffer \in Seq(Messages) /\ inbox \in Seq(Messages)
      /\ recvSeq \in Nat /\ peer \in Nat
  BY DEF VariablesOK
<1>1. ASSUME NEW t \in Clients, Handle(t)
      PROVE  Channel'
  <2>1. step'[Main] = m /\ UNCHANGED <<state, buffer, inbox, peer>>
        /\ (state # "simulated" => UNCHANGED <<recvSeq, received>>)
    BY <1>1, HandlerAlone
  <2>2. CASE state = "simulated"
    BY <2>1, <2>2 DEF Channel
  <2>3. CASE state # "simulated"
    BY <2>1, <2>3, ChannelCarried
  <2>4. QED
    BY <2>2, <2>3
<1>2. CASE Build(Main) \/ SendMessage(Main) \/ Act(Main)
  <2>1. InHand = 0
    BY <1>0, <1>2 DEF Build, SendMessage, Act, InHand, Has, Fits, Passing
  <2>2. UNCHANGED <<received, recvSeq, buffer, inbox, peer>> /\ state # "simulated"
    BY <1>2 DEF Build, SendMessage, Act, session, transport, Phases
  <2>3. step'[Main].way # "received" \/ step'[Main].pc \notin Passing
    <3>1. CASE Build(Main)
      BY <1>0, <3>1 DEF Build, StepRecords, Fits
    <3>2. CASE SendMessage(Main)
      BY <1>0, <3>2 DEF SendMessage, MainAt, Onward, Idle, Passing
    <3>3. CASE Act(Main)
      BY <1>0, <3>3 DEF Act, Building, MainAt, Idle, Passing, StepRecords
    <3>4. QED
      BY <1>2, <3>1, <3>2, <3>3
  <2>4. InHand' = 0
    BY <2>3 DEF InHand, Has
  <2>5. QED
    BY <2>1, <2>2, <2>4, ChannelCarried
<1>3. CASE Number(Main)
  <2>1. /\ step'[Main].pc = "store" /\ step'[Main].way = m.way /\ step'[Main].msg = m.msg
        /\ step'[Main].read = SessionSeq(m.way) /\ m.pc = "number"
    BY <1>0, <1>3 DEF Number, StepRecords
  <2>2. UNCHANGED <<received, recvSeq, buffer, inbox, peer, state>>
    BY <1>3 DEF Number, session, transport
  <2>3. m.way = "received" => step'[Main].read = recvSeq
    BY <2>1 DEF SessionSeq
  <2>4. InHand' = InHand /\ (InHand = 1 => m.way = "received")
    BY <2>1 DEF InHand, Has, Passing
  <2>5. QED
    BY <1>0, <2>1, <2>2, <2>3, <2>4 DEF Channel
<1>4. CASE StoreSeq(Main)
  <2>1. /\ step'[Main].pc = "journal" /\ step'[Main].way = m.way /\ step'[Main].msg = m.msg
        /\ step'[Main].read = m.read /\ m.pc = "store" /\ m.read \in Nat
    BY <1>0, <1>4 DEF StoreSeq, Go, StepRecords
  <2>2. /\ UNCHANGED <<received, buffer, inbox, peer, state>>
        /\ \/ m.way = "sent" /\ UNCHANGED recvSeq
           \/ m.way = "received" /\ recvSeq' = m.read + 1
    BY <1>4 DEF StoreSeq, Incremented, transport
  <2>3. InHand' = InHand /\ (InHand = 1 <=> m.way = "received")
    BY <2>1 DEF InHand, Has, Passing
  <2>4. QED
    BY <1>0, <2>1, <2>2, <2>3 DEF Channel
<1>5. CASE JournalEntry(Main)
  <2> DEFINE e == [num |-> m.read, msg |-> m.msg]
  <2>1. UNCHANGED <<state, recvSeq, buffer, inbox, peer>> /\ m.pc = "journal" /\ m.msg \in Messages /\ m.read \in Nat
    BY <1>0, <1>5 DEF JournalEntry, transport, Fits, Passing, StepRecords
  <2>2. CASE m.way = "sent" /\ UNCHANGED received /\ Go(Main, "send")
    <3>1. step'[Main].way = "sent"
      BY <1>0, <2>2 DEF Go, StepRecords
    <3>2. QED
      BY <2>1, <2>2, <3>1, ChannelCarried DEF InHand, Has
  <2>3. CASE m.way = "received" /\ received' = Append(received, e) /\ Go(Main, "act") /\ state # "simulated"
    <3>1. InHand = 1 /\ InHand' = 0
      <4>1. step'[Main].pc = "act"
        BY <1>0, <2>3 DEF Go, StepRecords
      <4>2. QED
        BY <2>1, <2>3, <4>1 DEF InHand, Has, Passing
    <3>2. e \in Entries /\ e.num = m.read /\ e.msg = m.msg
      BY <2>1 DEF Entries
    <3> HIDE DEF e
    <3>3. /\ received' \in Seq(Entries) /\ Len(received') = Len(received) + 1
          /\ received'[Len(received) + 1] = e
          /\ \A i \in DOMAIN received : received'[i] = received[i]
          /\ DOMAIN received' = DOMAIN received \cup {Len(received) + 1}
      BY <1>0, <2>3, <3>2, AppendProperties
    <3>4. m.read = Len(received) + 1 /\ m.msg.seq = Len(received) + 1 /\ recvSeq = Len(received) + 2
      BY <2>1, <2>3, <3>1 DEF Channel
    <3>5. \A i \in DOMAIN received' : received'[i].num = i /\ received'[i].msg.seq = i
      BY <2>3, <3>2, <3>3, <3>4 DEF Channel
    <3>6. QED
      BY <1>0, <2>1, <2>3, <3>1, <3>3, <3>4, <3>5 DEF Channel
  <2>4. QED
    BY <1>5, <2>1, <2>2, <2>3 DEF JournalEntry, Channel
<1>6. CASE StartSimulated
  BY <1>6 DEF StartSimulated, Channel
<1>7. CASE Connect \/ LoggedOn \/ Listen \/ Turn \/ Beat \/ LoggedOut \/ StopServer \/ Join \/ Disconnect
  <2>1. /\ UNCHANGED <<received, recvSeq, buffer, inbox, peer>> /\ m.pc \notin Passing
        /\ state' # "simulated" => state # "simulated"
    BY <1>7 DEF Connect, LoggedOn, Listen, Turn, Beat, LoggedOut, StopServer, Join, Disconnect, Passing,
                session, transport, Phases
  <2>2. step'[Main].way # "received" \/ step'[Main].pc \notin Passing
    <3>1. ASSUME NEW pc, Go(Main, pc), pc \notin Passing
          PROVE  step'[Main].pc \notin Passing
      BY <1>0, <3>1 DEF Go, StepRecords
    <3>2. ASSUME NEW msg, Building(Main, msg)
          PROVE  step'[Main].way # "received"
      BY <1>0, <3>2 DEF Building, StepRecords
    <3>3. CASE Connect \/ LoggedOn \/ Listen \/ Turn
      BY <3>1, <3>2, <3>3 DEF Connect, LoggedOn, Listen, Turn, Passing
    <3>4. CASE Beat \/ LoggedOut \/ StopServer \/ Join \/ Disconnect
      BY <3>1, <3>2, <3>4 DEF Beat, LoggedOut, StopServer, Join, Disconnect, Passing
    <3>5. QED
      BY <1>7, <3>3, <3>4
  <2>3. QED
    BY <2>1, <2>2, ChannelCarried DEF InHand, Has
<1>8. CASE Poll
  <2>1. /\ m.pc = "poll" /\ step'[Main].pc \in {"extract", "beat"} /\ UNCHANGED <<received, recvSeq, peer, state>>
    BY <1>0, <1>8 DEF Poll, Go, StepRecords, session
  <2>2. InHand = 0 /\ InHand' = 0
    BY <2>1 DEF InHand, Has, Passing
  <2>3. ASSUME NEW n \in 1 .. Len(inbox), buffer' = buffer \o SubSeq(inbox, 1, n),
               inbox' = SubSeq(inbox, n + 1, Len(inbox)), state # "simulated"
        PROVE  Channel'
    <3>1. /\ Len(buffer') = Len(buffer) + n /\ DOMAIN buffer' = 1 .. Len(buffer) + n
          /\ \A i \in 1 .. Len(buffer) : buffer'[i] = buffer[i]
          /\ \A i \in Len(buffer) + 1 .. Len(buffer) + n : buffer'[i] = inbox[i - Len(buffer)]
      BY <1>0, <2>3
    <3>2. /\ Len(inbox') = Len(inbox) - n /\ DOMAIN inbox' = 1 .. Len(inbox) - n
          /\ \A i \in DOMAIN inbox' : inbox'[i] = inbox[n + i]
      BY <1>0, <2>3
    <3>3. /\ \A i \in 1 .. Len(buffer) : buffer[i].seq = Len(received) + i
          /\ \A i \in 1 .. Len(inbox) : inbox[i].seq = Len(received) + Len(buffer) + i
          /\ peer = Len(received) + Len(buffer) + Len(inbox)
          /\ Len(received) \in Nat /\ Len(buffer) \in Nat /\ Len(inbox) \in Nat
      BY <1>0, <2>2, <2>3 DEF Channel
    <3>4. ASSUME NEW i \in DOMAIN buffer'
          PROVE  buffer'[i].seq = Len(received) + i
      <4>1. CASE i \in 1 .. Len(buffer)
        BY <3>1, <3>3, <4>1
      <4>2. CASE i \in Len(buffer) + 1 .. Len(buffer) + n
        <5>1. i - Len(buffer) \in 1 .. Len(inbox) /\ Len(buffer) + (i - Len(buffer)) = i
          BY <2>3, <3>3, <4>2
        <5>2. QED
          BY <3>1, <3>3, <4>2, <5>1
      <4>3. QED
        BY <3>1, <3>3, <4>1, <4>2
    <3>5. ASSUME NEW i \in DOMAIN inbox'
          PROVE  inbox'[i].seq = Len(received) + Len(buffer') + i
      <4>1. i \in 1 .. Len(inbox) - n
        BY <3>2
      <4>2. n + i \in 1 .. Len(inbox) /\ n \in Nat /\ i \in Nat
        BY <3>3, <4>1
      <4>3. inbox'[i].seq = Len(received) + Len(buffer) + (n + i)
        BY <3>2, <3>3, <4>2
      <4>4. QED
        BY <3>1, <3>3, <4>2, <4>3
    <3>6. peer = Len(received) + Len(buffer') + Len(inbox')
      <4>1. Len(buffer') = Len(buffer) + n /\ Len(inbox') = Len(inbox) - n /\ n \in Nat
        BY <3>1, <3>2
      <4>2. QED
        BY <3>3, <4>1
    <3>7. QED
      BY <1>0, <2>1, <2>2, <2>3, <3>4, <3>5, <3>6 DEF Channel
  <2>4. CASE UNCHANGED <<inbox, buffer>>
    BY <2>1, <2>2, <2>4, ChannelCarried
  <2>5. QED
    BY <1>8, <2>1, <2>3, <2>4 DEF Poll, Channel
<1>9. CASE Extract
  <2>1. m.pc = "extract" /\ InHand = 0 /\ UNCHANGED <<received, recvSeq, inbox, peer, state>>
    BY <1>9 DEF Extract, session, InHand, Has, Passing
  <2>2. CASE buffer = <<>> /\ Go(Main, "beat") /\ UNCHANGED buffer
    <3>1. step'[Main].pc = "beat"
      BY <1>0, <2>2 DEF Go, StepRecords
    <3>2. QED
      BY <2>1, <2>2, <3>1, ChannelCarried DEF InHand, Has, Passing
  <2>3. CASE buffer # <<>> /\ Receiving(Main, Head(buffer)) /\ buffer' = Tail(buffer)
    <3>1. step'[Main].pc = "number" /\ step'[Main].way = "received" /\ step'[Main].msg = Head(buffer)
      BY <1>0, <2>3 DEF Receiving, StepRecords
    <3>2. InHand' = 1
      BY <3>1 DEF InHand, Has, Passing
    <3>3. /\ Len(buffer') = Len(buffer) - 1 /\ DOMAIN buffer' = 1 .. Len(buffer) - 1
          /\ \A i \in DOMAIN buffer' : buffer'[i] = buffer[i + 1]
          /\ Head(buffer) = buffer[1] /\ 1 \in DOMAIN buffer /\ DOMAIN buffer = 1 .. Len(buffer)
          /\ Len(buffer) \in Nat
      BY <1>0, <2>3
    <3>4. state # "simulated"
      BY <2>1 DEF Phases
    <3>5. /\ \A i \in 1 .. Len(buffer) : buffer[i].seq = Len(received) + i
          /\ \A i \in DOMAIN inbox : inbox[i].seq = Len(received) + Len(buffer) + i
          /\ peer = Len(received) + Len(buffer) + Len(inbox) /\ recvSeq = Len(received) + 1
          /\ \A i \in DOMAIN received : received[i].num = i /\ received[i].msg.seq = i
          /\ Len(received) \in Nat /\ Len(inbox) \in Nat
      BY <1>0, <2>1, <3>3, <3>4 DEF Channel
    <3>6. ASSUME NEW i \in DOMAIN buffer'
          PROVE  buffer'[i].seq = Len(received) + 1 + i
      <4>1. i + 1 \in 1 .. Len(buffer)
        BY <3>3
      <4>2. buffer[i + 1].seq = Len(received) + (i + 1)
        BY <3>5, <4>1
      <4>3. QED
        BY <3>3, <3>5, <4>2
    <3>7. step'[Main].msg.seq = Len(received) + 1
      BY <3>1, <3>3, <3>5
    <3>8. /\ \A i \in DOMAIN inbox' : inbox'[i].seq = Len(received) + 1 + Len(buffer') + i
          /\ peer = Len(received) + 1 + Len(buffer') + Len(inbox)
      BY <2>1, <3>3, <3>5
    <3>9. QED
      BY <2>1, <3>1, <3>2, <3>5, <3>6, <3>7, <3>8 DEF Channel
  <2>4. QED
    BY <1>9, <2>2, <2>3 DEF Extract
<1>10. CASE Shutdown
  BY <1>10, ChannelCarried DEF Shutdown, session, transport
<1>11. ASSUME NEW type \in {"logon", "logout", "test", "report"}, PeerSends(type)
       PROVE  Channel'
  <2> DEFINE p == [Message(type, None) EXCEPT !.seq = peer + 1]
  <2>1. /\ UNCHANGED <<state, received, recvSeq, buffer, step>> /\ inbox' = Append(inbox, p)
        /\ peer' = peer + 1
    BY <1>11 DEF PeerSends, session
  <2>2. p.seq = peer + 1 /\ p \in Messages
    BY <1>0 DEF Message, Messages
  <2> HIDE DEF p
  <2>3. /\ Len(inbox') = Len(inbox) + 1 /\ inbox'[Len(inbox) + 1] = p
        /\ DOMAIN inbox' = DOMAIN inbox \cup {Len(inbox) + 1}
        /\ \A i \in DOMAIN inbox : inbox'[i] = inbox[i]
    BY <1>0, <2>1, <2>2, AppendProperties
  <2>4. InHand' = InHand
    BY <2>1 DEF InHand, Has
  <2>5. Len(inbox) \in Nat /\ Len(buffer) \in Nat /\ Len(received) \in Nat /\ InHand \in Nat
    BY <1>0 DEF InHand
  <2>6. CASE state # "simulated"
    <3>1. p.seq = Len(received) + InHand + Len(buffer) + (Len(inbox) + 1)
      BY <1>0, <2>2, <2>5, <2>6 DEF Channel
    <3>2. \A i \in DOMAIN inbox' : inbox'[i].seq = Len(received) + InHand + Len(buffer) + i
      BY <2>3, <2>6, <3>1 DEF Channel
    <3>3. peer' = Len(received) + InHand + Len(buffer) + Len(inbox')
      BY <2>1, <2>3, <2>5, <2>6 DEF Channel
    <3>4. QED
      BY <2>1, <2>4, <2>6, <3>2, <3>3 DEF Channel
  <2>7. QED
    BY <2>1, <2>6 DEF Channel
<1>12. QED
  BY <1>1, <1>2, <1>3, <1>4, <1>5, <1>6, <1>7, <1>8, <1>9, <1>10, <1>11 DEF Next, MainStep, Pass
-----------------------------------------------------------------------------
(***************************************************************************)
(* What the counterparty has said last.                                    *)
(***************************************************************************)
\* What is received next is the last word if it is one, and else the last word stays.
LEMMA LastWordNext ==
  ASSUME received \in Seq(Entries), NEW e \in Entries, received' = Append(received, e)
  PROVE  /\ e.msg.type \notin {"logon", "logout"} => \A type \in {"logon", "logout"} : LastWord(type)' = LastWord(type)
         /\ e.msg.type \in {"logon", "logout"} => LastWord(e.msg.type)'
<1>1. /\ Len(received) \in Nat /\ DOMAIN received = 1 .. Len(received)
      /\ DOMAIN received' = 1 .. Len(received) + 1 /\ received'[Len(received) + 1] = e
      /\ \A i \in 1 .. Len(received) : received'[i] = received[i]
  BY AppendProperties
<1>2. ASSUME e.msg.type \notin {"logon", "logout"}, NEW type \in {"logon", "logout"}
      PROVE  LastWord(type)' = LastWord(type)
  <2>1. ASSUME LastWord(type)
        PROVE  LastWord(type)'
    <3>1. PICK i \in 1 .. Len(received) :
            /\ received[i].msg.type = type
            /\ \A j \in 1 .. Len(received) : j > i => received[j].msg.type \notin {"logon", "logout"}
      BY <1>1, <2>1 DEF LastWord
    <3>2. \A j \in 1 .. Len(received) + 1 : j > i => received'[j].msg.type \notin {"logon", "logout"}
      BY <1>1, <1>2, <3>1
    <3>3. QED
      BY <1>1, <3>1, <3>2 DEF LastWord
  <2>2. ASSUME LastWord(type)'
        PROVE  LastWord(type)
    <3>1. PICK i \in 1 .. Len(received) + 1 :
            /\ received'[i].msg.type = type
            /\ \A j \in 1 .. Len(received) + 1 : j > i => received'[j].msg.type \notin {"logon", "logout"}
      BY <1>1, <2>2 DEF LastWord
    <3>2. i \in 1 .. Len(received)
      BY <1>1, <1>2, <3>1
    <3>3. QED
      BY <1>1, <3>1, <3>2 DEF LastWord
  <2>3. LastWord(type)' \in BOOLEAN /\ LastWord(type) \in BOOLEAN
    BY DEF LastWord
  <2>4. QED
    BY <2>1, <2>2, <2>3
<1>3. ASSUME e.msg.type \in {"logon", "logout"}
      PROVE  LastWord(e.msg.type)'
  BY <1>1, <1>3 DEF LastWord
<1>4. QED
  BY <1>2, <1>3

\* There is one last word.
LEMMA OneLastWord ==
  ASSUME received \in Seq(Entries), LastWord("logon")
  PROVE  ~LastWord("logout")
<1>1. PICK i \in DOMAIN received :
        /\ received[i].msg.type = "logon"
        /\ \A j \in DOMAIN received : j > i => received[j].msg.type \notin {"logon", "logout"}
  BY DEF LastWord
<1>2. ASSUME NEW k \in DOMAIN received, received[k].msg.type = "logout"
      PROVE  \E j \in DOMAIN received : j > k /\ received[j].msg.type \in {"logon", "logout"}
  <2>1. i \in Nat /\ k \in Nat /\ ~(k > i) /\ k # i
    BY <1>1, <1>2
  <2>2. QED
    BY <1>1, <2>1
<1>3. QED
  BY <1>2 DEF LastWord

\* A step that neither receives nor acts leaves the word heeded.
LEMMA HeededCarried ==
  ASSUME Heeded, UNCHANGED <<state, received>>, ~Heeding, ~Heeding'
  PROVE  Heeded'
  BY DEF Heeded, LastWord

\* The state follows the counterparty's word, and nothing else moves it.
LEMMA HeededKept ==
  ASSUME StepsOK, VariablesOK, HandlersReport, Phases, Heeded, Next
  PROVE  Heeded'
<1> USE MainApart DEF Threads, StepsOK, At
<1> DEFINE m == step[Main]
<1>0. m \in StepRecords /\ Fits(Main, m) /\ received \in Seq(Entries)
  BY DEF VariablesOK
<1>1. ASSUME NEW t \in Clients, Handle(t)
      PROVE  Heeded'
  <2>1. /\ step'[Main] = m /\ UNCHANGED state
        /\ \/ received' = received
           \/ \E e \in Entries : received' = Append(received, e) /\ e.msg.type = "report"
    BY <1>1, HandlerAlone
  <2>2. Heeding' = Heeding
    BY <2>1 DEF Heeding
  <2>3. \A type \in {"logon", "logout"} : LastWord(type)' = LastWord(type)
    <3>1. CASE received' = received
      BY <3>1 DEF LastWord
    <3>2. ASSUME NEW e \in Entries, received' = Append(received, e), e.msg.type = "report"
          PROVE  \A type \in {"logon", "logout"} : LastWord(type)' = LastWord(type)
      BY <1>0, <3>2, LastWordNext
    <3>3. QED
      BY <2>1, <3>1, <3>2
  <2>4. ASSUME NEW type \in {"logon", "logout"}, Heeding', step'[Main].msg.type = type
        PROVE  LastWord(type)'
    <3>1. LastWord(type)
      BY <2>1, <2>2, <2>4 DEF Heeded, LastWord
    <3>2. QED
      BY <2>3, <3>1
  <2>5. Heeding' => LastWord(step[Main].msg.type)'
    BY <2>4 DEF Heeding, LastWord
  <2>6. QED
    BY <2>1, <2>2, <2>3, <2>5 DEF Heeded
<1>2. CASE JournalEntry(Main)
  <2>1. UNCHANGED state /\ m.pc = "journal" /\ m.msg \in Messages /\ m.read \in Nat
    BY <1>0, <1>2 DEF JournalEntry, Fits, Passing, StepRecords
  <2>2. CASE m.way = "sent" /\ UNCHANGED received /\ Go(Main, "send")
    <3>1. step'[Main].pc = "send"
      BY <1>0, <2>2 DEF Go, StepRecords
    <3>2. QED
      BY <2>1, <2>2, <3>1, HeededCarried DEF Heeding
  <2>3. ASSUME NEW e \in Entries, e.msg = m.msg, received' = Append(received, e), Go(Main, "act")
        PROVE  Heeded'
    <3>1. step'[Main].pc = "act" /\ step'[Main].msg = m.msg
      BY <1>0, <2>3 DEF Go, StepRecords
    <3>2. e \in Entries /\ e.msg = m.msg
      BY <2>3
    <3>3. ~Heeding
      BY <2>1 DEF Heeding
    <3>4. CASE m.msg.type \in {"logon", "logout"}
      <4>1. LastWord(e.msg.type)'
        BY <1>0, <2>3, <3>2, <3>4, LastWordNext
      <4>2. Heeding'
        BY <3>1, <3>4 DEF Heeding
      <4>3. LastWord(step[Main].msg.type)'
        BY <3>1, <3>2, <4>1 DEF LastWord
      <4>4. QED
        BY <4>2, <4>3 DEF Heeded
    <3>5. CASE m.msg.type \notin {"logon", "logout"}
      <4>1. \A type \in {"logon", "logout"} : LastWord(type)' = LastWord(type)
        BY <1>0, <2>3, <3>2, <3>5, LastWordNext
      <4>2. ~Heeding'
        BY <3>1, <3>5 DEF Heeding
      <4>3. QED
        BY <2>1, <3>3, <4>1, <4>2 DEF Heeded
    <3>6. QED
      BY <3>4, <3>5
  <2>4. [num |-> m.read, msg |-> m.msg] \in Entries
    BY <2>1 DEF Entries
  <2>5. QED
    BY <1>2, <2>2, <2>3, <2>4 DEF JournalEntry
<1>3. CASE Act(Main)
  <2>1. /\ m.pc = "act" /\ UNCHANGED received
        /\ state' = StateAfter(m.msg.type) /\ state # "logoutSent"
    BY <1>3 DEF Act, Phases
  <2>2. step'[Main].pc # "act"
    BY <1>0, <1>3 DEF Act, Building, MainAt, Idle, StepRecords
  <2>3. ~Heeding'
    BY <2>2 DEF Heeding
  <2>4. LastWord("logon")' = LastWord("logon") /\ LastWord("logout")' = LastWord("logout")
    BY <2>1 DEF LastWord
  <2>5. CASE m.msg.type = "logon"
    BY <2>1, <2>3, <2>4, <2>5 DEF Heeded, Heeding, StateAfter
  <2>6. CASE m.msg.type = "logout"
    <3>1. ~LastWord("logon") /\ state' = "disconnected"
      BY <1>0, <2>1, <2>6, OneLastWord DEF Heeded, Heeding, StateAfter
    <3>2. QED
      BY <2>3, <2>4, <3>1 DEF Heeded
  <2>7. CASE m.msg.type \notin {"logon", "logout"}
    <3>1. ~Heeding /\ state' = state
      BY <2>1, <2>7 DEF Heeding, StateAfter
    <3>2. QED
      BY <2>1, <2>3, <3>1, HeededCarried
  <2>8. QED
    BY <2>5, <2>6, <2>7
<1>4. CASE StartSimulated \/ LoggedOn
  <2>1. received = <<>> /\ received' = received /\ state' \in {"simulated", "logonSent"}
    BY <1>4 DEF StartSimulated, LoggedOn, Phases, BeforeListening
  <2>2. step'[Main].pc = "listen"
    BY <1>0, <1>4 DEF StartSimulated, LoggedOn, Go, MainAt, Idle, StepRecords
  <2>3. ~LastWord("logon")' /\ ~Heeding'
    BY <2>1, <2>2 DEF LastWord, Heeding
  <2>4. QED
    BY <2>1, <2>3 DEF Heeded
<1>5. CASE LoggedOut
  <2>1. state' = "logoutSent" /\ step'[Main].pc = "stop"
    BY <1>0, <1>5 DEF LoggedOut, Go, StepRecords
  <2>2. QED
    BY <2>1 DEF Heeded, Heeding
<1>6. CASE Build(Main) \/ Number(Main) \/ StoreSeq(Main) \/ SendMessage(Main)
  <2>1. UNCHANGED <<state, received>> /\ m.pc # "act"
    BY <1>6 DEF Build, Number, StoreSeq, SendMessage, session
  <2>2. step'[Main].pc # "act"
    <3>1. CASE Build(Main)
      BY <1>0, <3>1 DEF Build, StepRecords
    <3>2. CASE Number(Main) \/ StoreSeq(Main)
      BY <1>0, <3>2 DEF Number, StoreSeq, Go, StepRecords
    <3>3. CASE SendMessage(Main)
      BY <1>0, <3>3 DEF SendMessage, MainAt, Onward, Idle, StepRecords
    <3>4. QED
      BY <1>6, <3>1, <3>2, <3>3
  <2>3. QED
    BY <2>1, <2>2, HeededCarried DEF Heeding
<1>7. CASE Connect \/ Listen \/ Turn \/ Poll \/ Extract \/ Beat \/ StopServer \/ Join \/ Disconnect
  <2>1. UNCHANGED <<state, received>> /\ m.pc # "act"
    BY <1>7 DEF Connect, Listen, Turn, Poll, Extract, Beat, StopServer, Join, Disconnect, session
  <2>2. step'[Main].pc # "act"
    <3>1. ASSUME NEW pc, Go(Main, pc), pc # "act"
          PROVE  step'[Main].pc # "act"
      BY <1>0, <3>1 DEF Go, StepRecords
    <3>2. ASSUME NEW msg, Building(Main, msg) \/ Receiving(Main, msg)
          PROVE  step'[Main].pc # "act"
      BY <1>0, <3>2 DEF Building, Receiving, StepRecords
    <3>3. CASE Connect \/ Listen \/ Turn \/ Poll
      BY <3>1, <3>2, <3>3 DEF Connect, Listen, Turn, Poll
    <3>4. CASE Extract \/ Beat \/ StopServer \/ Join \/ Disconnect
      BY <3>1, <3>2, <3>4 DEF Extract, Beat, StopServer, Join, Disconnect
    <3>5. QED
      BY <1>7, <3>3, <3>4
  <2>3. QED
    BY <2>1, <2>2, HeededCarried DEF Heeding
<1>8. CASE UNCHANGED <<state, received, step>>
  <2>1. Heeding' = Heeding /\ \A type \in {"logon", "logout"} : LastWord(type)' = LastWord(type)
    BY <1>8 DEF Heeding, LastWord
  <2>2. Heeding => LastWord(step[Main].msg.type)'
    BY <1>8 DEF Heeded, LastWord
  <2>3. QED
    BY <1>8, <2>1, <2>2 DEF Heeded
<1>9. QED
  BY <1>1, <1>2, <1>3, <1>4, <1>5, <1>6, <1>7, <1>8 DEF Next, MainStep, Pass, Shutdown, PeerSends, session
-----------------------------------------------------------------------------
(***************************************************************************)
(* The theorems.                                                           *)
(***************************************************************************)
\* The invariant holds when the engine starts.
LEMMA InitIInv == Init => IInv
<1> SUFFICES ASSUME Init PROVE IInv
  OBVIOUS
<1> USE MainApart DEF Init
<1>1. /\ step \in [Threads -> {MainAt("start"), Idle}] /\ step[Main] = MainAt("start")
      /\ \A t \in Clients : step[t] = Idle
  BY DEF Threads
<1>2. /\ MainAt("start").pc = "start" /\ Idle.pc = "idle" /\ MainAt("start").way = None /\ Idle.way = None
      /\ MainAt("start") \in StepRecords /\ Idle \in StepRecords
  BY DEF MainAt, Idle, StepRecords, Passing, ClientPoints, MainPoints
<1>3. StepsOK
  BY <1>1, <1>2 DEF StepsOK, Fits, Threads, Passing, ClientPoints, MainPoints
<1>4. VariablesOK /\ HandlersReport
  BY <1>1, <1>2 DEF VariablesOK, HandlersReport, Has, Passing
<1>5. SendNumbers
  <2>1. Numbered = {} /\ \A t \in Threads : step[t].pc # "store"
    BY <1>1, <1>2 DEF Numbered, Threads
  <2>2. QED
    BY <2>1, FS_EmptySet DEF SendNumbers
<1>6. Phases
  BY <1>1, <1>2 DEF Phases
<1>7. Channel /\ Heeded
  BY <1>1, <1>2 DEF Channel, Heeded, Heeding, InHand, Has, LastWord, Passing
<1>8. QED
  BY <1>3, <1>4, <1>5, <1>6, <1>7 DEF IInv

\* Every step keeps it.
LEMMA NextIInv == IInv /\ [Next]_fixVars => IInv'
<1> SUFFICES ASSUME IInv, [Next]_fixVars PROVE IInv'
  OBVIOUS
<1>1. CASE Next
  BY <1>1, StepsKept, VariablesKept, HandlersReportKept, SendNumbersKept, PhasesKept, ChannelKept, HeededKept
     DEF IInv
<1>2. CASE UNCHANGED fixVars
  BY <1>2 DEF fixVars, session, transport, process, IInv, StepsOK, VariablesOK, HandlersReport, SendNumbers,
              Numbered, Phases, BeforeListening, Channel, InHand, Heeded, Heeding, LastWord, Has
<1>3. QED
  BY <1>1, <1>2

\* The invariant of the session holds in every state, for any threads, messages and bounds.
THEOREM SpecIInv == Spec => []IInv
  BY InitIInv, NextIInv, PTL DEF Spec

\* "Graceful shutdown": once main() has given the connection up no handler is left
\* that would use it, for every number of handlers and requests.
THEOREM SpecNoHandlerLeft == Spec => []NoHandlerLeft
<1>1. IInv => NoHandlerLeft
  BY DEF IInv, Phases, NoHandlerLeft, At
<1>2. QED
  BY <1>1, SpecIInv, PTL

\* The session keeps its state and its numbers although its threads share it without a
\* lock: active exactly when the counterparty logged on last, what is read journaled in
\* order, and no number drawn that no message was sent with.
THEOREM SpecSessionIsOrderly == Spec => []SessionIsOrderly
<1>1. ASSUME IInv
      PROVE  FixTypeOK
  <2> DEFINE Sent == {t \in Threads : step[t].way = "sent"}
  <2>1. Cardinality(Numbered) <= Cardinality(Sent) /\ Cardinality(Numbered) \in Nat /\ Cardinality(Sent) \in Nat
    <3>1. Sent \in SUBSET Threads /\ Numbered \in SUBSET Sent /\ Numbered \in SUBSET Threads
      BY DEF Numbered
    <3>2. QED
      BY <3>1, NumberedIsFinite, FS_Subset
  <2>2. sendSeq - 1 <= sentCount + Cardinality(Sent)
    BY <1>1, <2>1 DEF IInv, SendNumbers, VariablesOK
  <2>3. \A t \in Threads : step[t].way \in {"sent", "received", None}
    BY <1>1 DEF IInv, StepsOK, StepRecords
  <2>4. QED
    BY <1>1, <2>2, <2>3 DEF FixTypeOK, IInv, VariablesOK
<1>2. ASSUME IInv
      PROVE  ActiveAfterLogon
  BY <1>2 DEF IInv, Heeded, Heeding, ActiveAfterLogon, At
<1>3. ASSUME IInv
      PROVE  ReceivedAsSent
  BY <1>3 DEF IInv, Channel, ReceivedAsSent
<1>4. IInv => SessionIsOrderly
  BY <1>1, <1>2, <1>3 DEF SessionIsOrderly
<1>5. QED
  BY <1>4, SpecIInv, PTL

-----------------------------------------------------------------------------
(***************************************************************************)
(* The journal.  Its ring is addressed by remainders: first what they need. *)
(***************************************************************************)
\* A number is a multiple and its remainder.
LEMMA DivMod ==
  ASSUME NEW n \in Nat \ {0}, NEW a \in Int
  PROVE  /\ a \div n \in Int /\ a % n \in 0..(n - 1)
         /\ a = n * (a \div n) + (a % n)
BY SMT

\* It is so in one way only.
LEMMA Unique ==
  ASSUME NEW n \in Nat \ {0}, NEW p \in Int, NEW q \in Int,
         NEW r \in 0..(n - 1), NEW s \in 0..(n - 1), n * p + r = n * q + s
  PROVE  p = q /\ r = s
<1>1. ~(p > q)
  <2> SUFFICES ASSUME p > q PROVE FALSE OBVIOUS
  <2>1. n * (p - q) >= n * 1 BY SMT
  <2>2. n * (p - q) = n * p - n * q BY SMT
  <2> QED BY <2>1, <2>2, SMT
<1>2. ~(q > p)
  <2> SUFFICES ASSUME q > p PROVE FALSE OBVIOUS
  <2>1. n * (q - p) >= n * 1 BY SMT
  <2>2. n * (q - p) = n * q - n * p BY SMT
  <2> QED BY <2>1, <2>2, SMT
<1> QED BY <1>1, <1>2, SMT

\* A number between two multiples tells its remainder: two numbers less than n apart
\* have remainders of their own, and remainders may be taken late.
LEMMA Remainders ==
  ASSUME NEW n \in Nat \ {0}, NEW a \in Int, NEW b \in Int
  PROVE  /\ a < b /\ b < a + n => a % n # b % n
         /\ ((a % n) + b) % n = (a + b) % n
         /\ (a + 2 * n) % n = a % n
<1> DEFINE p == a \div n
           r == a % n
<1>1. p \in Int /\ r \in 0..(n - 1) /\ a = n * p + r
  BY DivMod
<1> HIDE DEF p, r
<1>2. ASSUME a < b, b < a + n, r = b % n PROVE FALSE
  <2> PICK q \in Int : b = n * q + (b % n) BY DivMod
  <2>1. n * q - n * p = b - a BY <1>1, <1>2
  <2>2. n * (q - p) = b - a BY <2>1, <1>1, SMT
  <2>3. q > p BY <2>2, <1>1, <1>2, SMT
  <2>4. q - p >= 1 BY <2>3, <1>1, SMT
  <2>5. n * (q - p) >= n * 1 BY <2>4, <1>1, SMT
  <2> QED BY <2>5, <2>2, <1>2, SMT
<1>3. (r + b) % n = (a + b) % n
  <2> DEFINE u == (r + b) \div n
             v == (a + b) \div n
             x == (r + b) % n
             y == (a + b) % n
  <2>1. u \in Int /\ x \in 0..(n - 1) /\ r + b = n * u + x BY DivMod, <1>1
  <2>2. v \in Int /\ y \in 0..(n - 1) /\ a + b = n * v + y
    <3>1. a + b \in Int OBVIOUS
    <3> QED BY <3>1, DivMod, Zenon
  <2> HIDE DEF u, v, x, y
  <2>3. n * (u + p) + x = n * v + y
    <3>1. n * (u + p) = n * u + n * p BY <2>1, <1>1, SMT
    <3>2. n * u \in Int /\ n * v \in Int /\ n * p \in Int BY <1>1, <2>1, <2>2, SMT
    <3> QED BY <3>1, <3>2, <2>1, <2>2, <1>1, SMT
  <2>4. x = y
    <3>1. /\ n \in Nat \ {0} /\ u + p \in Int /\ v \in Int
          /\ x \in 0..(n - 1) /\ y \in 0..(n - 1)
      BY <1>1, <2>1, <2>2
    <3> PICK k \in Int : k = u + p BY <3>1
    <3>2. n * k + x = n * v + y BY <2>3
    <3> QED BY ONLY <3>1, <3>2, k \in Int, Unique
  <2> QED BY <2>4 DEF x, y
<1>4. (a + 2 * n) % n = r
  <2> DEFINE v == (a + 2 * n) \div n
             y == (a + 2 * n) % n
  <2>1. v \in Int /\ y \in 0..(n - 1) /\ a + 2 * n = n * v + y
    <3>1. a + 2 * n \in Int OBVIOUS
    <3> QED BY <3>1, DivMod, Zenon
  <2> HIDE DEF v, y
  <2>2. n * (p + 2) + r = n * v + y
    <3>1. n * (p + 2) = n * p + 2 * n BY <1>1, SMT
    <3> QED BY <3>1, <2>1, <1>1
  <2>3. y = r BY <2>2, <2>1, <1>1, Unique
  <2> QED BY <2>3 DEF y
<1> QED BY <1>2, <1>3, <1>4 DEF r

-----------------------------------------------------------------------------
Appends == [entry : Nat, printed : BOOLEAN]

JournalVariablesOK ==
  /\ appending \in [Writers -> Appends] /\ begun \in Nat
  /\ printed \in Seq(Nat) /\ kept \in Seq(Nat)
  /\ ring \in [0 .. Capacity - 1 -> Nat]
  /\ listed.entries \in Seq(Nat)

\* The counters of the ring are those of what was stored, and its places hold the
\* end of it.
RingHoldsTheTail ==
  /\ writePos = Len(kept)
  /\ ringSize = IF Len(kept) < Capacity THEN Len(kept) ELSE Capacity
  /\ \A j \in 1..Len(kept) :
       Len(kept) - j < Capacity => ring[(j - 1) % Capacity] = kept[j]

\* A writer prints before it stores.
StoredArePrinted ==
  /\ \A w \in Writers : appending[w].printed => appending[w].entry \in Lines
  /\ \A j \in 1..Len(kept) : kept[j] \in Lines

JournalInv ==
  /\ JournalVariablesOK
  /\ RingHoldsTheTail
  /\ StoredArePrinted
  /\ ListedIsPrinted

\* What recent() reads are the entries stored last.
LEMMA RecentIsTheTail ==
  ASSUME JournalVariablesOK, RingHoldsTheTail, NEW limit \in 1 .. Capacity
  PROVE  LET count == IF limit < Len(kept) THEN limit ELSE Len(kept)
         IN /\ Recent(limit) = [i \in 1 .. count |-> kept[Len(kept) - count + i]]
            /\ Recent(limit) = SubSeq(kept, Len(kept) - count + 1, Len(kept))
            /\ Recent(limit) \in Seq(Nat)
<1> DEFINE count == IF limit < Len(kept) THEN limit ELSE Len(kept)
           start == (writePos - count + 2 * Capacity) % Capacity
<1>1. Capacity \in Nat \ {0} /\ kept \in Seq(Nat) /\ Len(kept) \in Nat
  BY FixJournalAssumption DEF JournalVariablesOK
<1>2. count \in 0..Len(kept) /\ count <= Capacity
  BY <1>1
<1>3. Recent(limit) = [i \in 1 .. count |-> ring[(start + i - 1) % Capacity]]
  <2>1. (IF limit < ringSize THEN limit ELSE ringSize) = count
    BY <1>1 DEF RingHoldsTheTail
  <2> QED BY <2>1 DEF Recent
<1>4. ASSUME NEW i \in 1 .. count
      PROVE  ring[(start + i - 1) % Capacity] = kept[Len(kept) - count + i]
  <2> DEFINE before == Len(kept) - count
             j == before + i
  <2>1. before \in Nat /\ j \in 1..Len(kept) /\ Len(kept) - j < Capacity
    BY <1>1, <1>2
  <2>2. start = before % Capacity
    <3>1. before \in Int /\ writePos = Len(kept) BY <2>1 DEF RingHoldsTheTail
    <3>2. (before + 2 * Capacity) % Capacity = before % Capacity
      BY <1>1, <3>1, Remainders, Zenon
    <3> QED BY <3>1, <3>2
  <2> HIDE DEF start, before
  <2>3. (start + (i - 1)) % Capacity = (before + (i - 1)) % Capacity
    <3>1. before \in Int /\ i - 1 \in Int BY <2>1
    <3> QED BY <3>1, <2>2, <1>1, Remainders, Zenon
  <2>4. start \in Int
    BY <2>1, <2>2, <1>1, DivMod
  <2>5. start + (i - 1) = start + i - 1 /\ before + (i - 1) = j - 1
    BY <2>1, <2>4
  <2>6. ring[(j - 1) % Capacity] = kept[j]
    BY <2>1 DEF RingHoldsTheTail
  <2> QED BY <2>3, <2>5, <2>6 DEF before
<1>5. Recent(limit) = [i \in 1 .. count |-> kept[Len(kept) - count + i]]
  BY <1>3, <1>4
<1>6. Recent(limit) = SubSeq(kept, Len(kept) - count + 1, Len(kept))
  <2> HIDE DEF count
  <2>1. SubSeq(kept, Len(kept) - count + 1, Len(kept))
          = [i \in 1 .. (Len(kept) - (Len(kept) - count + 1) + 1) |-> kept[(Len(kept) - count + 1) + i - 1]]
    BY <1>1, <1>2, SubSeqProperties
  <2>2. Len(kept) - (Len(kept) - count + 1) + 1 = count
    BY <1>1, <1>2
  <2>3. \A i \in 1 .. count : (Len(kept) - count + 1) + i - 1 = Len(kept) - count + i
    BY <1>1, <1>2
  <2> QED BY <2>1, <2>2, <2>3, <1>5
<1>7. Recent(limit) \in Seq(Nat)
  <2> HIDE DEF count
  <2>1. \A i \in 1 .. count : kept[Len(kept) - count + i] \in Nat
    BY <1>1, <1>2
  <2> QED BY <1>5, <2>1, <1>2, IsASeq
<1> QED BY <1>5, <1>6, <1>7

\* The ring starts empty.
LEMMA JournalStarts == JournalInit => JournalInv
BY FixJournalAssumption
   DEF JournalInit, JournalInv, JournalVariablesOK, RingHoldsTheTail, StoredArePrinted,
       ListedIsPrinted, Resting, NoEntry, Appends

\* A writer that begins has printed and stored nothing.
LEMMA BeginAppendKeeps ==
  ASSUME JournalInv, NEW w \in Writers, BeginAppend(w)
  PROVE  JournalInv'
BY DEF BeginAppend, JournalInv, JournalVariablesOK, RingHoldsTheTail, StoredArePrinted,
       ListedIsPrinted, Appends, Lines, Recent

\* A line more takes none away.
LEMMA PrintLineKeeps ==
  ASSUME JournalInv, NEW w \in Writers, PrintLine(w)
  PROVE  JournalInv'
<1>1. appending[w] \in Appends /\ appending[w].entry \in Nat
  BY DEF JournalInv, JournalVariablesOK, Appends
<1>2. printed' \in Seq(Nat) /\ Lines' = Lines \cup {appending[w].entry}
  <2>1. /\ printed \in Seq(Nat) /\ printed' = Append(printed, appending[w].entry)
        /\ Len(printed) \in Nat
    BY DEF JournalInv, JournalVariablesOK, PrintLine
  <2>2. /\ printed' \in Seq(Nat) /\ DOMAIN printed' = 1 .. Len(printed) + 1
        /\ \A i \in 1 .. Len(printed) : printed'[i] = printed[i]
        /\ printed'[Len(printed) + 1] = appending[w].entry
    BY <1>1, <2>1
  <2>3. DOMAIN printed = 1 .. Len(printed) BY <2>1
  <2> QED BY <2>1, <2>2, <2>3 DEF Lines
<1>3. appending' = [appending EXCEPT ![w].printed = TRUE]
  BY DEF PrintLine
<1>4. \A v \in Writers : /\ appending'[v] \in Appends
                         /\ appending'[v].entry = appending[v].entry
                         /\ v # w => appending'[v] = appending[v]
  BY <1>3 DEF JournalInv, JournalVariablesOK, Appends
<1>5. appending' \in [Writers -> Appends]
  BY <1>3, <1>4 DEF JournalInv, JournalVariablesOK
<1> QED
  BY <1>2, <1>4, <1>5 DEF PrintLine, JournalInv, JournalVariablesOK, RingHoldsTheTail, StoredArePrinted,
       ListedIsPrinted

\* The entry takes the place of the one that is Capacity older, and of no other.
LEMMA StoreEntryKeeps ==
  ASSUME JournalInv, NEW w \in Writers, StoreEntry(w)
  PROVE  JournalInv'
<1> DEFINE e == appending[w].entry
<1>1. e \in Nat /\ e \in Lines /\ Lines' = Lines /\ Capacity \in Nat \ {0}
  BY FixJournalAssumption
     DEF JournalInv, JournalVariablesOK, StoredArePrinted, StoreEntry, Appends, Lines
<1>2. kept \in Seq(Nat) /\ Len(kept) \in Nat /\ kept' = Append(kept, e)
  BY DEF JournalInv, JournalVariablesOK, StoreEntry
<1> HIDE DEF e
<1>3. /\ kept' \in Seq(Nat) /\ Len(kept') = Len(kept) + 1
      /\ \A j \in 1..Len(kept) : kept'[j] = kept[j]
      /\ kept'[Len(kept) + 1] = e
  BY <1>1, <1>2
<1>4. /\ writePos' = Len(kept')
      /\ ringSize' = IF Len(kept') < Capacity THEN Len(kept') ELSE Capacity
  BY <1>1, <1>2, <1>3 DEF StoreEntry, JournalInv, RingHoldsTheTail
<1>5. Len(kept) % Capacity \in 0 .. Capacity - 1
  <2>1. Len(kept) \in Int BY <1>2
  <2> QED BY <2>1, <1>1, DivMod, Zenon
<1>6. ring' = [ring EXCEPT ![Len(kept) % Capacity] = e] /\ ring \in [0 .. Capacity - 1 -> Nat]
  BY DEF e, StoreEntry, JournalInv, RingHoldsTheTail, JournalVariablesOK
<1>7. ring' \in [0 .. Capacity - 1 -> Nat]
  BY <1>6, <1>1
<1>8. ASSUME NEW j \in 1..Len(kept'), Len(kept') - j < Capacity
      PROVE  ring'[(j - 1) % Capacity] = kept'[j]
  <2>1. CASE j = Len(kept')
    BY <2>1, <1>2, <1>3, <1>5, <1>6
  <2>2. CASE j # Len(kept')
    <3>1. j \in 1..Len(kept) /\ Len(kept) - j < Capacity /\ j - 1 \in Nat
      BY <2>2, <1>8, <1>2, <1>3, <1>1
    <3>2. j - 1 < Len(kept) /\ Len(kept) < (j - 1) + Capacity
      BY <3>1, <1>8, <1>2, <1>3, <1>1
    <3>3. (j - 1) % Capacity # Len(kept) % Capacity
      <4>1. j - 1 \in Int /\ Len(kept) \in Int BY <3>1, <1>2
      <4> QED BY <4>1, <3>2, <1>1, Remainders, Zenon
    <3>4. (j - 1) % Capacity \in 0 .. Capacity - 1
      <4>1. j - 1 \in Int BY <3>1
      <4> QED BY <4>1, <1>1, DivMod, Zenon
    <3>5. ring[(j - 1) % Capacity] = kept[j]
      BY <3>1 DEF JournalInv, RingHoldsTheTail
    <3> QED BY <3>1, <3>3, <3>4, <3>5, <1>3, <1>6
  <2> QED BY <2>1, <2>2
<1>9. RingHoldsTheTail'
  BY <1>4, <1>8 DEF RingHoldsTheTail
<1>10. /\ appending' \in [Writers -> Appends]
       /\ \A v \in Writers : v # w => appending'[v] = appending[v]
       /\ ~appending'[w].printed
  BY DEF StoreEntry, JournalInv, JournalVariablesOK, Resting, NoEntry, Appends
<1>11. StoredArePrinted'
  <2>1. \A v \in Writers : appending'[v].printed => appending'[v].entry \in Lines'
    BY <1>1, <1>10 DEF JournalInv, StoredArePrinted
  <2>2. \A j \in 1..Len(kept') : kept'[j] \in Lines'
    BY <1>1, <1>2, <1>3 DEF JournalInv, StoredArePrinted
  <2> QED BY <2>1, <2>2 DEF StoredArePrinted
<1>12. JournalVariablesOK'
  BY <1>3, <1>7, <1>10 DEF StoreEntry, JournalInv, JournalVariablesOK
<1>13. ListedIsPrinted'
  BY <1>1 DEF StoreEntry, JournalInv, ListedIsPrinted
<1> QED BY <1>9, <1>11, <1>12, <1>13 DEF JournalInv

\* A reader is given entries that were stored, which are printed.
LEMMA ListRecentKeeps ==
  ASSUME JournalInv, NEW limit \in 1 .. Capacity, ListRecent(limit)
  PROVE  JournalInv'
<1> DEFINE count == IF limit < Len(kept) THEN limit ELSE Len(kept)
<1>1. /\ Recent(limit) = [i \in 1 .. count |-> kept[Len(kept) - count + i]]
      /\ Recent(limit) \in Seq(Nat)
  BY RecentIsTheTail DEF JournalInv
<1>2. /\ listed'.entries = Recent(limit)
      /\ UNCHANGED <<appending, printed, ring, writePos, ringSize, kept, begun>>
  BY DEF ListRecent
<1>3. kept \in Seq(Nat) /\ Len(kept) \in Nat /\ limit \in Nat /\ Capacity \in Nat
  BY FixJournalAssumption DEF JournalInv, JournalVariablesOK
<1>4. \A i \in 1 .. count : Len(kept) - count + i \in 1..Len(kept)
  BY <1>3
<1>5. ListedIsPrinted'
  BY <1>1, <1>2, <1>4 DEF JournalInv, StoredArePrinted, ListedIsPrinted, Lines
<1>6. Lines' = Lines
  BY <1>2 DEF Lines
<1> QED
  BY <1>1, <1>2, <1>5, <1>6 DEF JournalInv, JournalVariablesOK, RingHoldsTheTail, StoredArePrinted

\* A reader of the FIX journal is given the newest of what was stored, in order, and
\* nothing that is not on stdout yet, for every number of writers and every capacity.
THEOREM JournalListsWhatWasPrinted == JournalSpec => []ListedIsWhatWasPrinted
<1>1. JournalInit => JournalInv
  BY JournalStarts
<1>2. JournalInv /\ [JournalNext]_journalVars => JournalInv'
  <2> SUFFICES ASSUME JournalInv, [JournalNext]_journalVars PROVE JournalInv'
    OBVIOUS
  <2>1. CASE \E w \in Writers : BeginAppend(w) \/ PrintLine(w) \/ StoreEntry(w)
    BY <2>1, BeginAppendKeeps, PrintLineKeeps, StoreEntryKeeps
  <2>2. CASE \E limit \in 1 .. Capacity : ListRecent(limit)
    BY <2>2, ListRecentKeeps
  <2>3. CASE UNCHANGED journalVars
    BY <2>3 DEF journalVars, JournalInv, JournalVariablesOK, RingHoldsTheTail, StoredArePrinted,
                ListedIsPrinted, Lines
  <2> QED BY <2>1, <2>2, <2>3 DEF JournalNext
<1>3. JournalInv => ListedIsWhatWasPrinted
  BY RecentIsTheTail DEF JournalInv, ListedIsWhatWasPrinted, ListedIsTheTail
<1> QED BY <1>1, <1>2, <1>3, PTL DEF JournalSpec
=============================================================================
