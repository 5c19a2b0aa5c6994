------------------------------- MODULE Access --------------------------------
(* Who may use the terminal, and the services it uses: the portal and the         *)
(* connections of the settings page, which share nothing.                         *)
EXTENDS Terminal, FiniteSets

------------------------------------------------------------------------------
(* The portal in front of the terminal: a session kept in localStorage and shared *)
(* by the tabs of a browser, validated when a tab is loaded while the gateway may *)
(* be restarting, and given up by lock, log out and shutdown.                     *)

CONSTANTS Tabs,
          Attempts,     \* validations of a stored session before it is given up
          MaxSessions,  \* bound on the sessions the gateway gives out
          MaxPortalOutages, MaxLoads \* bounds on its stops, and on the loads of pages

VARIABLES up,      \* the gateway answers
          portalStored, token, \* portal session and workspace token of localStorage
          gate,    \* what a tab shows: "closed", "checking", "login", "crashed" or "open"
          step,    \* validations a checking tab has left; 0: its automatic login
          held,    \* session of a tab: the one it checks, or the one it is open with
          asking,  \* tabs whose form waits for an answer
          locked,  \* sessions given out when a tab was locked, None for one not locked since
          given, outages, loads
portalVars == <<up, portalStored, token, gate, step, held, asking, locked, given, outages, loads>>
PortalBounds == <<given, outages, loads>>

(* storePortalSession and setWorkspaceSessionToken, which go together.            *)
Keep(session) == portalStored' = session /\ token' = session
Opened(t, session) == /\ gate' = [gate EXCEPT ![t] = "open"] /\ held' = [held EXCEPT ![t] = session]
                      /\ locked' = [locked EXCEPT ![t] = None]
LoginShown(t) == gate' = [gate EXCEPT ![t] = "login"] /\ held' = [held EXCEPT ![t] = None]

(* A page is loaded: what it waited for before is gone with it.                   *)
LoadPage(t) ==
    /\ loads < MaxLoads /\ loads' = loads + 1
    /\ gate' = [gate EXCEPT ![t] = IF portalStored = None THEN "login" ELSE "checking"]
    /\ held' = [held EXCEPT ![t] = portalStored] /\ step' = [step EXCEPT ![t] = Attempts]
    /\ asking' = asking \ {t}
    /\ UNCHANGED <<up, portalStored, token, locked, given, outages>>

(* validate: a gateway that cannot be reached is asked again, and after the last  *)
(* attempt, or when the session has expired, an automatic login is tried; without *)
(* one the session is given up. A session that holds only sets the token.         *)
Left(n) == n - 1
Validate(t) ==
    /\ gate[t] = "checking" /\ step[t] > 0
    /\ \/ up /\ token' = held[t] /\ Opened(t, held[t]) /\ UNCHANGED step
       \/ up /\ step' = [step EXCEPT ![t] = 0] /\ UNCHANGED <<token, gate, held, locked>>
       \/ ~up /\ step' = [step EXCEPT ![t] = Left(@)] /\ UNCHANGED <<token, gate, held, locked>>
    /\ UNCHANGED <<up, portalStored, asking, PortalBounds>>

AutoLogin(t) ==
    /\ gate[t] = "checking" /\ step[t] = 0
    /\ \/ up /\ given < MaxSessions /\ given' = given + 1 /\ Keep(given') /\ Opened(t, given')
       \/ Keep(None) /\ LoginShown(t) /\ UNCHANGED <<given, locked>>
    /\ UNCHANGED <<up, step, asking, outages, loads>>

(* LoginPortal: one request at a time; a wrong password and a gateway that is     *)
(* starting leave the form.                                                       *)
Submit(t) == /\ gate[t] = "login" /\ t \notin asking /\ asking' = asking \cup {t}
             /\ UNCHANGED <<up, portalStored, token, gate, step, held, locked, PortalBounds>>
LoginAnswer(t) ==
    /\ t \in asking /\ asking' = asking \ {t}
    /\ \/ up /\ given < MaxSessions /\ given' = given + 1 /\ Keep(given') /\ Opened(t, given')
       \/ UNCHANGED <<portalStored, token, gate, held, locked, given>>
    /\ UNCHANGED <<up, step, outages, loads>>

\* Mutant: only the token of the requests is cleared.
HandleLockKeptSession(t) ==
    /\ gate[t] = "open" /\ token' = None /\ UNCHANGED portalStored /\ LoginShown(t)
    /\ locked' = [locked EXCEPT ![t] = given]

(* lockWorkspace, logoutWorkspace and shutdownSystem all end in the event the     *)
(* portal listens for; a shutdown that fails leaves the tab as it is.             *)
HandleLock(t) == /\ gate[t] = "open" /\ Keep(None) /\ LoginShown(t)
                 /\ locked' = [locked EXCEPT ![t] = given]
Lock(t) == HandleLock(t) /\ UNCHANGED <<up, step, asking, PortalBounds>>
Shutdown(t) == /\ up /\ HandleLock(t) /\ up' = FALSE /\ outages < MaxPortalOutages /\ outages' = outages + 1
               /\ UNCHANGED <<step, asking, given, loads>>
(* ErrorBoundary: an error of any window takes the page, reload brings it back.   *)
Crash(t) == /\ gate[t] = "open" /\ gate' = [gate EXCEPT ![t] = "crashed"] /\ held' = [held EXCEPT ![t] = None]
            /\ UNCHANGED <<up, portalStored, token, step, asking, locked, PortalBounds>>
GatewayTurns == /\ up' = ~up /\ (up => outages < MaxPortalOutages)
                /\ outages' = IF up THEN outages + 1 ELSE outages
                /\ UNCHANGED <<portalStored, token, gate, step, held, asking, locked, given, loads>>

PortalInit ==
    /\ up = TRUE /\ portalStored = None /\ token = None /\ asking = {} /\ locked = [t \in Tabs |-> None]
    /\ gate = [t \in Tabs |-> "closed"] /\ held = [t \in Tabs |-> None]
    /\ step = [t \in Tabs |-> Attempts] /\ given = 0 /\ outages = 0 /\ loads = 0
PortalNext ==
    \/ GatewayTurns
    \/ \E t \in Tabs : \/ LoadPage(t) \/ Validate(t) \/ AutoLogin(t) \/ Submit(t) \/ LoginAnswer(t)
                       \/ Lock(t) \/ Shutdown(t) \/ Crash(t)
PortalSpec ==
    /\ PortalInit /\ [][PortalNext]_portalVars
    /\ \A t \in Tabs : WF_portalVars(Validate(t) \/ AutoLogin(t)) /\ WF_portalVars(LoginAnswer(t))

\* A tab that opened a session while no other tab had a page makes its requests with
\* that session's token, however it came by it.
OpenCarriesItsToken ==
    \A t \in Tabs : gate[t] = "open" /\ (\A s \in Tabs \ {t} : gate[s] = "closed") => token = held[t]

\* A step that opens a locked tab gives it a session younger than the lock.
NewSessionAfterLock == \A t \in Tabs : locked[t] # None /\ gate'[t] = "open" => held'[t] > locked[t]

\* A locked tab opens again only with a session that was given after it was locked,
\* whether it logs in at its form or is loaded again: neither what was stored nor an
\* answer that was still under way brings the old one back.
UnlockedByLogin == [][NewSessionAfterLock]_portalVars

\* Whatever the gateway does, no tab goes on preparing the terminal for ever, and
\* every login is answered.
GateSettles == \A t \in Tabs : [](gate[t] = "checking" => <>(gate[t] # "checking" \/ given = MaxSessions))
                            /\ [](t \in asking => <>(t \notin asking))

------------------------------------------------------------------------------
(* The credentials of the settings page: those of QuantConnect are authenticated,  *)
(* by three calls one after the other, before they are stored; those of the other  *)
(* services are stored as typed. A section that is left takes its form with it,    *)
(* never the calls it has begun.                                                   *)

CONSTANTS Credentials,      \* user id and token, together
          GoodCredentials,  \* the ones the service authenticates
          AccountKeys,      \* what may be typed as another service's key
          MaxChains, MaxTypings \* bounds
\* None are the fields left empty.
ASSUME GoodCredentialsAssumption == GoodCredentials \subseteq Credentials /\ None \notin Credentials

VARIABLES sectionShown,       \* the section is on the screen
          typed, status,      \* creds, status.state
          credentialsStored,  \* pt_qc_creds_v1
          chains,             \* handleConnect, begun and not ended
          keyTyped, keyStored, \* the field and the storage of another service
          typings
connectionVars == <<sectionShown, typed, status, credentialsStored, chains, keyTyped, keyStored, typings>>

(* Three calls with the credentials of the click; own: of the section now shown.  *)
Chains == [creds : Credentials, stage : 1..3, own : BOOLEAN]
Shows(chain, state) == IF chain.own THEN status' = state ELSE UNCHANGED status

OpenSection ==
    /\ ~sectionShown /\ sectionShown' = TRUE /\ typed' = credentialsStored /\ keyTyped' = keyStored
    /\ status' = "disconnected" /\ UNCHANGED <<credentialsStored, chains, keyStored, typings>>
LeaveSection ==
    /\ sectionShown /\ sectionShown' = FALSE
    /\ chains' = {[chain EXCEPT !.own = FALSE] : chain \in chains}
    /\ UNCHANGED <<typed, status, credentialsStored, keyTyped, keyStored, typings>>

(* The form is there unless the section is connected, so also while it connects.   *)
TypeCredentials(creds) ==
    /\ sectionShown /\ status # "connected" /\ creds # typed /\ typings < MaxTypings
    /\ typed' = creds /\ typings' = typings + 1
    /\ UNCHANGED <<sectionShown, status, credentialsStored, chains, keyTyped, keyStored>>

(* The button is disabled while connecting; it is "Re-test" once connected. A chain *)
(* of this section is aborted before another begins.                               *)
Connect ==
    /\ sectionShown /\ status # "connecting" /\ typed # None
    /\ Cardinality(chains) < MaxChains
    /\ chains' = {chain \in chains : ~chain.own} \cup {[creds |-> typed, stage |-> 1, own |-> TRUE]}
    /\ status' = "connecting"
    /\ UNCHANGED <<sectionShown, typed, credentialsStored, keyTyped, keyStored, typings>>
ConnectNothing ==
    /\ sectionShown /\ status # "connecting" /\ typed = None /\ status' = "error"
    /\ UNCHANGED <<sectionShown, typed, credentialsStored, chains, keyTyped, keyStored, typings>>

(* The service's answer to the first call tells; those to the other two are counted.*)
Refused(chain) ==
    /\ chain.stage = 1 /\ chain.creds \notin GoodCredentials
    /\ chains' = chains \ {chain} /\ Shows(chain, "error")
    /\ UNCHANGED <<sectionShown, typed, credentialsStored, keyTyped, keyStored, typings>>
ChainGoesOn(chain) ==
    /\ chain.stage < 3 /\ chain.creds \in GoodCredentials
    /\ chains' = (chains \ {chain}) \cup {[chain EXCEPT !.stage = @ + 1]}
    /\ Shows(chain, "connecting")
    /\ UNCHANGED <<sectionShown, typed, credentialsStored, keyTyped, keyStored, typings>>

\* Mutant: what the form holds by then is stored.
VerifiedAsTyped(chain) ==
    /\ chain.stage = 3 /\ chains' = chains \ {chain}
    /\ credentialsStored' = typed /\ Shows(chain, "connected")
    /\ UNCHANGED <<sectionShown, typed, keyTyped, keyStored, typings>>

Verified(chain) ==
    /\ chain.stage = 3 /\ chains' = chains \ {chain}
    /\ credentialsStored' = chain.creds /\ Shows(chain, "connected")
    /\ UNCHANGED <<sectionShown, typed, keyTyped, keyStored, typings>>
ChainFails(chain) ==
    /\ chains' = chains \ {chain} /\ Shows(chain, "error")
    /\ UNCHANGED <<sectionShown, typed, credentialsStored, keyTyped, keyStored, typings>>

Disconnect ==
    /\ sectionShown /\ status = "connected"
    /\ chains' = {chain \in chains : ~chain.own} /\ credentialsStored' = None
    /\ typed' = None /\ status' = "disconnected"
    /\ UNCHANGED <<sectionShown, keyTyped, keyStored, typings>>

(* The fields of the other services: stored by their button, and only by it.       *)
TypeKey(key) == /\ sectionShown /\ key # keyTyped /\ typings < MaxTypings
                /\ keyTyped' = key /\ typings' = typings + 1
                /\ UNCHANGED <<sectionShown, typed, status, credentialsStored, chains, keyStored>>
SaveKey == /\ sectionShown /\ keyStored' = keyTyped
           /\ UNCHANGED <<sectionShown, typed, status, credentialsStored, chains, keyTyped, typings>>

ConnectionsInit ==
    /\ sectionShown = FALSE /\ typed = None /\ status = "disconnected" /\ chains = {}
    /\ credentialsStored \in {None} \cup GoodCredentials /\ keyTyped = None /\ keyStored = None /\ typings = 0
ChainEnds(chain) == Refused(chain) \/ ChainGoesOn(chain) \/ Verified(chain) \/ ChainFails(chain)
ConnectionsNext ==
    \/ OpenSection \/ LeaveSection \/ Connect \/ ConnectNothing \/ Disconnect \/ SaveKey
    \/ \E creds \in Credentials \cup {None} : TypeCredentials(creds)
    \/ \E key \in AccountKeys : TypeKey(key)
    \/ \E chain \in chains : ChainEnds(chain)
(* A call ends: with an answer or as a failure.                                    *)
ConnectionsSpec == /\ ConnectionsInit /\ [][ConnectionsNext]_connectionVars
                   /\ \A chain \in Chains : WF_connectionVars(chain \in chains /\ ChainEnds(chain))

\* Only credentials the service has authenticated are stored, whatever was typed while
\* the calls were under way, and a section says connected only while some are stored.
SavedWereVerified == /\ credentialsStored \in {None} \cup GoodCredentials
                     /\ sectionShown /\ status = "connected" => credentialsStored # None
\* A section comes out of connecting, in whichever order calls end and sections are left.
ConnectingEnds == (sectionShown /\ status = "connecting") ~> (~sectionShown \/ status # "connecting")
==============================================================================
