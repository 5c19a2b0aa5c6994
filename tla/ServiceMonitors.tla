--------------------------- MODULE ServiceMonitors ---------------------------
(* What the terminal shows of the services themselves: the readiness its polls   *)
(* report, with the panels of one endpoint each, and the FIX engine's journal.   *)
EXTENDS Terminal, SequencesExt, FiniteSets

-----------------------------------------------------------------------------
(* Readiness: three calls every two seconds, read at three moments and applied   *)
(* together, and the panels that keep the last answer of one endpoint.           *)

CONSTANTS MaxChanges,     \* bound on the times a service comes or goes
          MaxHealthPulls  \* bound on the pulls under way

Calls == {"health", "market", "execution"}
Slots == 1..MaxHealthPulls

VARIABLES services,     \* what the gateway would answer now
          healthPulls,  \* readiness pulls under way: what each call of each has answered
          readiness,    \* what useCeriousServiceReadiness shows
          connected,    \* the store's flag
          panel         \* one useCeriousEndpoint: on its way, data, error
healthVars == <<services, healthPulls, readiness, connected, panel>>

(* The answers: the gateway is up or not, and without it nothing answers.    *)
Answer(call) ==
    IF ~services.gateway THEN None
    ELSE CASE call = "health" -> [ok |-> TRUE]
           [] call = "market" -> [connected |-> services.market, priceReady |-> services.priced]
           [] call = "execution" -> [healthy |-> services.execution]

Detail(gatewayOk, mdConnected, priceReady, executionReady) ==
    CASE ~gatewayOk -> "Gateway down"
      [] gatewayOk /\ ~mdConnected -> "Market data connecting"
      [] gatewayOk /\ mdConnected /\ ~priceReady -> "Waiting for first book"
      [] gatewayOk /\ mdConnected /\ priceReady /\ ~executionReady -> "Execution service connecting"
      [] OTHER -> "Services ready"

\* Mutant: a call that failed leaves its part as it was.
ReadinessKept(pull) ==
    [connected |-> connected \/ \A call \in Calls : pull[call] # None,
     priceReady |-> TRUE, executionReady |-> TRUE,
     detail |-> Detail(TRUE, TRUE, TRUE, TRUE)]

(* Promise.allSettled: a call that fails counts as no answer.                *)
ReadinessOf(pull) ==
    LET gatewayOk == pull["health"] # None
        md == pull["market"]
        mdConnected == md # None /\ md.connected
        priceReady == md # None /\ md.priceReady
        executionReady == pull["execution"] # None /\ pull["execution"].healthy
    IN [connected |-> gatewayOk /\ mdConnected /\ executionReady,
        priceReady |-> priceReady, executionReady |-> executionReady,
        detail |-> Detail(gatewayOk, mdConnected, priceReady, executionReady)]
EmptyReadiness ==
    [connected |-> FALSE, priceReady |-> FALSE, executionReady |-> FALSE,
     detail |-> "Checking services"]

Unanswered == [asked |-> TRUE]
Idle == [call \in {} |-> None]
HealthInit ==
    /\ services = [gateway |-> TRUE, market |-> FALSE, priced |-> FALSE,
                   execution |-> TRUE, changes |-> 0]
    /\ healthPulls = [slot \in Slots |-> Idle]
    /\ readiness = EmptyReadiness /\ connected = FALSE
    /\ panel = [due |-> {}, data |-> None, error |-> ""]

Change(service) ==
    /\ services.changes < MaxChanges
    /\ services' = [services EXCEPT ![service] = ~@, !.changes = @ + 1]
    /\ UNCHANGED <<healthPulls, readiness, connected, panel>>

PullReadiness(slot) ==
    /\ healthPulls[slot] = Idle
    /\ healthPulls' = [healthPulls EXCEPT ![slot] = [call \in Calls |-> Unanswered]]
    /\ UNCHANGED <<services, readiness, connected, panel>>
CallReturns(slot, call) ==
    /\ healthPulls[slot] # Idle /\ healthPulls[slot][call] = Unanswered
    /\ healthPulls' = [healthPulls EXCEPT ![slot][call] = Answer(call)]
    /\ UNCHANGED <<services, readiness, connected, panel>>
Settles(slot) ==
    /\ healthPulls[slot] # Idle /\ \A call \in Calls : healthPulls[slot][call] # Unanswered
    /\ healthPulls' = [healthPulls EXCEPT ![slot] = Idle]
    /\ readiness' = ReadinessOf(healthPulls[slot])
    /\ connected' = readiness'.connected
    /\ UNCHANGED <<services, panel>>

(* A panel keeps what it last received; a failure only sets its error.  *)
PanelPulls ==
    /\ panel.due = {}
    /\ panel' = [panel EXCEPT !.due = @ \cup {Answer("execution")}]
    /\ UNCHANGED <<services, healthPulls, readiness, connected>>

Received(p, answer) ==
    IF answer = None THEN [p EXCEPT !.error = "Refresh failed"]
    ELSE [p EXCEPT !.data = answer, !.error = ""]
PanelReceives(answer) ==
    /\ answer \in panel.due
    /\ panel' = Received([panel EXCEPT !.due = @ \ {answer}], answer)
    /\ UNCHANGED <<services, healthPulls, readiness, connected>>
HealthNext ==
    \/ \E s \in {"gateway", "market", "priced", "execution"} : Change(s)
    \/ PanelPulls
    \/ \E slot \in Slots :
         PullReadiness(slot) \/ Settles(slot) \/ \E call \in Calls : CallReturns(slot, call)
    \/ \E answer \in panel.due : PanelReceives(answer)

Replies == {None} \cup [healthy : BOOLEAN]
HealthFairness ==
    /\ WF_healthVars(PanelPulls)
    /\ \A slot \in Slots :
         WF_healthVars(PullReadiness(slot) \/ Settles(slot)
                         \/ \E call \in Calls : CallReturns(slot, call))
    /\ \A answer \in Replies : WF_healthVars(PanelReceives(answer))
HealthSpec == HealthInit /\ [][HealthNext]_healthVars /\ HealthFairness

\* Types: the status line is one of the six the code writes, and the panel's answers
\* under way are answers.
HealthTypeOK ==
    /\ connected \in BOOLEAN /\ readiness.executionReady \in BOOLEAN
    /\ readiness.detail \in {"Checking services", "Gateway down", "Market data connecting",
         "Waiting for first book", "Execution service connecting", "Services ready"}
    /\ panel.error \in {"", "Refresh failed"} /\ panel.due \subseteq Replies

TrulyConnected == services.gateway /\ services.market /\ services.execution

\* Services come and go only so often; from then on the terminal's flag comes to
\* say for good whether gateway, market data and execution are all there.
ReadinessConverges == \A b \in BOOLEAN :
    <>[](TrulyConnected = b) => <>[](connected = b)

\* The words under the status light agree with the light: "Services ready"
\* stands there exactly when the store says connected and a book has come.
DetailAgreesWithFlag ==
    readiness.detail = "Services ready" <=> (connected /\ readiness.priceReady)

-----------------------------------------------------------------------------
(* The FIX monitor window: the engine's journal, polled every two seconds, paused *)
(* and filtered. The gateway offers no such route: the answers are those of the   *)
(* engine's own server, through whatever forwards to it.                          *)

CONSTANTS Entries,    \* what a journal entry may be: [direction, type, failed]
          PollLimit,  \* entries a poll asks for (500 in the code)
          MaxJournal, MaxFlying, MaxMonitorSwitches \* bounds

VARIABLES journal,         \* the engine's
          shownEntries,    \* entries: numbers of entries of the journal
          journalPolls,    \* answers on their way, each with the entries it carries
          paused, live,    \* paused, autoScroll: the end of the table is in view
          entryFilter,     \* [direction, types, errors]
          monitorSwitches  \* pauses, scrolls, filters set and polls lost
monitorVars == <<journal, shownEntries, journalPolls, paused, live, entryFilter, monitorSwitches>>

(* filtered: the rows of the table, in the journal's order.                        *)
Passes(entry, f) == /\ f.direction \in {"all", entry.direction}
                    /\ f.types = {} \/ entry.type \in f.types
                    /\ f.errors => entry.failed
TableRows == SelectSeq(shownEntries, LAMBDA n : Passes(journal[n], entryFilter))

JournalGrows(entry) ==
    /\ Len(journal) < MaxJournal /\ journal' = Append(journal, entry)
    /\ UNCHANGED <<shownEntries, journalPolls, paused, live, entryFilter, monitorSwitches>>

\* Mutant: the oldest entries are asked for.
AskedOldest == FirstOf([n \in DOMAIN journal |-> n], PollLimit)

(* fetchJournal: the interval's, or the one set after a test order, which still     *)
(* holds the pause it was made under.                                              *)
Asked == LastOf([n \in DOMAIN journal |-> n], PollLimit)
AskJournal == Cardinality(journalPolls) < MaxFlying /\ journalPolls' = journalPolls \cup {Asked}
FetchJournal == ~paused /\ AskJournal /\ UNCHANGED <<journal, shownEntries, paused, live, entryFilter, monitorSwitches>>
SendTestOrder(entry) ==
    /\ Len(journal) < MaxJournal /\ journal' = Append(journal, entry)
    /\ Cardinality(journalPolls) < MaxFlying
    /\ journalPolls' = journalPolls \cup {LastOf([n \in 1..(Len(journal) + 1) |-> n], PollLimit)}
    /\ UNCHANGED <<shownEntries, paused, live, entryFilter, monitorSwitches>>
JournalAnswered(poll) == journalPolls' = journalPolls \ {poll} /\ shownEntries' = poll /\ UNCHANGED <<journal, paused, live, entryFilter, monitorSwitches>>
Fails(poll) == journalPolls' = journalPolls \ {poll}
               /\ monitorSwitches < MaxMonitorSwitches /\ monitorSwitches' = monitorSwitches + 1
               /\ UNCHANGED <<journal, shownEntries, paused, live, entryFilter>>

TogglePause == paused' = ~paused /\ monitorSwitches < MaxMonitorSwitches /\ monitorSwitches' = monitorSwitches + 1
               /\ UNCHANGED <<journal, shownEntries, journalPolls, live, entryFilter>>
(* handleScroll; a click on the indicator returns to the end.                      *)
Scroll == live' = ~live /\ monitorSwitches < MaxMonitorSwitches /\ monitorSwitches' = monitorSwitches + 1
               /\ UNCHANGED <<journal, shownEntries, journalPolls, paused, entryFilter>>
SetFilter(f) == f # entryFilter /\ entryFilter' = f /\ monitorSwitches < MaxMonitorSwitches /\ monitorSwitches' = monitorSwitches + 1
                /\ UNCHANGED <<journal, shownEntries, journalPolls, paused, live>>

NoFilter == [direction |-> "all", types |-> {}, errors |-> FALSE]
Toggled(f, type) == [f EXCEPT !.types = IF type \in @ THEN @ \ {type} ELSE @ \cup {type}]
Filters == {NoFilter, [entryFilter EXCEPT !.errors = ~@]}
           \cup {[entryFilter EXCEPT !.direction = d] : d \in {"all", "sent", "received"}}
           \cup {Toggled(entryFilter, e.type) : e \in Entries}
MonitorInit == /\ journal = <<>> /\ shownEntries = <<>> /\ journalPolls = {} /\ paused = FALSE
               /\ live = TRUE /\ entryFilter = NoFilter /\ monitorSwitches = 0
MonitorNext ==
    \/ \E entry \in Entries : JournalGrows(entry) \/ SendTestOrder(entry)
    \/ FetchJournal \/ TogglePause \/ Scroll
    \/ \E poll \in journalPolls : JournalAnswered(poll) \/ Fails(poll)
    \/ \E f \in Filters : SetFilter(f)
(* The interval fires again and again and every call comes to its end; the calls    *)
(* that fail count against the bound of the switches, so that at last none does.    *)
MonitorSpec == /\ MonitorInit /\ [][MonitorNext]_monitorVars
               /\ WF_monitorVars(FetchJournal)
               /\ \A n \in 0..MaxJournal :
                     WF_monitorVars(\E poll \in journalPolls : /\ poll = LastOf([k \in 1..n |-> k], PollLimit)
                                                               /\ JournalAnswered(poll) \/ Fails(poll))

\* The table shows no entry twice and none out of order, and the entries shown follow
\* one another in the journal, whichever answers arrived and in which order.
ShownFollowTheJournal ==
    \A k \in 1..(Len(shownEntries) - 1) : shownEntries[k + 1] = shownEntries[k] + 1
\* A monitor that is not paused comes to show the end of the journal, so that an entry
\* of it that passes the filter is a row, and stays there once the journal is silent.
MonitorConverges == <>[](~paused) => <>[](shownEntries = LastOf([n \in DOMAIN journal |-> n], PollLimit))
=============================================================================
