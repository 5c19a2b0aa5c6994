----------------------------- MODULE DataProofs ------------------------------
(***************************************************************************)
(* The parts of the terminal that wait for answers, for any tabs, products, *)
(* sockets, timers and answers under way: a locked tab opens only with a    *)
(* session given since (Access), one chain of requests and one socket serve  *)
(* what is shown (ChartFeed, FeedSocket), and what is shown changes only by  *)
(* answers of what is shown (ChartFeed, StorePolls).  The windows stay in    *)
(* reach of the pointer (WindowFrames).                                      *)
(***************************************************************************)
EXTENDS MCTerminalData, FiniteSetTheorems, WellFoundedInduction, TLAPS

-----------------------------------------------------------------------------
(* The portal and the connections: what opens and what is stored was verified. *)
\* Sessions are numbered in the order they are given out, and a tab that is closed waits
\* for nothing.
PortalTypes ==
  /\ given \in Nat
  /\ portalStored \in Nat \cup {None}
  /\ gate \in [Tabs -> {"closed", "checking", "login", "crashed", "open"}]
  /\ held \in [Tabs -> Nat \cup {None}]
  /\ locked \in [Tabs -> Nat \cup {None}]
  /\ asking \subseteq Tabs
  /\ \A t \in Tabs : gate[t] = "closed" => t \notin asking
  /\ \A t \in Tabs : locked[t] # None => locked[t] <= given

\* What is stored, and what a locked tab checks, was given after the tab was locked.
GivenSince(t) ==
  /\ gate[t] = "open" => locked[t] = None
  /\ gate[t] = "checking" => held[t] # None
  /\ locked[t] # None =>
       /\ portalStored # None => portalStored > locked[t]
       /\ gate[t] = "checking" => held[t] > locked[t]
PortalInv == PortalTypes /\ (\A t \in Tabs : GivenSince(t)) /\ OpenCarriesItsToken

\* A page that is loaded, and the checks of a stored session.
LEMMA LoadPageKeeps ==
  ASSUME PortalInv, NEW t \in Tabs, LoadPage(t)
  PROVE  PortalInv'
<1>1. /\ gate' = [gate EXCEPT ![t] = IF portalStored = None THEN "login" ELSE "checking"]
      /\ held' = [held EXCEPT ![t] = portalStored] /\ asking' = asking \ {t}
      /\ UNCHANGED <<portalStored, token, locked, given>>
  BY DEF LoadPage
<1>2. PortalTypes'
  BY <1>1 DEF PortalInv, PortalTypes
<1>3. \A s \in Tabs : GivenSince(s)'
  BY <1>1 DEF PortalInv, PortalTypes, GivenSince
<1>4. OpenCarriesItsToken'
  BY <1>1 DEF PortalInv, PortalTypes, OpenCarriesItsToken
<1> QED BY <1>2, <1>3, <1>4 DEF PortalInv

\* A tab opens, with the stored session it has checked or with the one it was just given.
LEMMA OpenedKeeps ==
  ASSUME PortalInv, NEW t \in Tabs, gate[t] # "closed", NEW session \in Nat, Opened(t, session), token' = session,
         asking' \subseteq asking,
         \/ UNCHANGED <<given, portalStored>> /\ gate[t] = "checking" /\ session = held[t]
         \/ session = given + 1 /\ given' = given + 1 /\ portalStored' = session
  PROVE  PortalInv' /\ NewSessionAfterLock
<1>1. /\ gate' = [gate EXCEPT ![t] = "open"] /\ held' = [held EXCEPT ![t] = session]
      /\ locked' = [locked EXCEPT ![t] = None]
  BY DEF Opened
<1>2. PortalTypes'
  BY <1>1 DEF PortalInv, PortalTypes
<1>3. \A s \in Tabs : GivenSince(s)'
  BY <1>1 DEF PortalInv, PortalTypes, GivenSince
<1>4. OpenCarriesItsToken'
  BY <1>1 DEF PortalInv, PortalTypes, OpenCarriesItsToken
<1>5. NewSessionAfterLock
  BY <1>1 DEF PortalInv, PortalTypes, GivenSince, NewSessionAfterLock
<1> QED BY <1>2, <1>3, <1>4, <1>5 DEF PortalInv

\* The session is given up, or the page is gone, or is asked again.
LEMMA ClosedKeeps ==
  ASSUME PortalInv, NEW t \in Tabs, gate[t] # "closed", NEW at \in {"login", "crashed"},
         gate' = [gate EXCEPT ![t] = at], held' = [held EXCEPT ![t] = None],
         asking' \subseteq asking, given' = given,
         \/ portalStored' = None
         \/ UNCHANGED <<portalStored, token>>,
         \/ locked' = locked
         \/ locked' = [locked EXCEPT ![t] = given] /\ portalStored' = None,
         (\A s \in Tabs \ {t} : gate[s] = "closed") \/ portalStored' = None \/ token' = token
  PROVE  PortalInv' /\ NewSessionAfterLock
<1>2. PortalTypes'
  BY DEF PortalInv, PortalTypes
<1>3. \A s \in Tabs : GivenSince(s)'
  BY DEF PortalInv, PortalTypes, GivenSince
<1>4. OpenCarriesItsToken'
  BY DEF PortalInv, PortalTypes, OpenCarriesItsToken
<1>5. NewSessionAfterLock
  BY DEF PortalInv, PortalTypes, GivenSince, NewSessionAfterLock
<1> QED BY <1>2, <1>3, <1>4, <1>5 DEF PortalInv

\* What leaves the sessions and the gates alone.
LEMMA PortalStill ==
  ASSUME PortalInv, UNCHANGED <<portalStored, token, gate, held, locked, given>>,
         \/ asking' \subseteq asking
         \/ \E t \in Tabs : gate[t] = "login" /\ asking' = asking \cup {t}
  PROVE  PortalInv' /\ NewSessionAfterLock
<1>2. PortalTypes'
  BY DEF PortalInv, PortalTypes
<1>3. \A s \in Tabs : GivenSince(s)'
  BY DEF PortalInv, PortalTypes, GivenSince
<1>4. OpenCarriesItsToken'
  BY DEF PortalInv, PortalTypes, OpenCarriesItsToken
<1>5. NewSessionAfterLock
  BY DEF PortalInv, PortalTypes, GivenSince, NewSessionAfterLock
<1> QED BY <1>2, <1>3, <1>4, <1>5 DEF PortalInv

\* Every step of the portal.
LEMMA PortalStep ==
  ASSUME PortalInv, [PortalNext]_portalVars
  PROVE  PortalInv' /\ [NewSessionAfterLock]_portalVars
<1>1. CASE UNCHANGED portalVars
  BY <1>1, PortalStill DEF portalVars
<1>2. CASE GatewayTurns
  BY <1>2, PortalStill DEF GatewayTurns
<1>3. ASSUME NEW t \in Tabs, LoadPage(t) PROVE PortalInv' /\ NewSessionAfterLock
  <2>1. NewSessionAfterLock
    BY <1>3 DEF LoadPage, PortalInv, PortalTypes, GivenSince, NewSessionAfterLock
  <2> QED BY <1>3, <2>1, LoadPageKeeps
<1>4. ASSUME NEW t \in Tabs, Validate(t) PROVE PortalInv' /\ NewSessionAfterLock
  <2>1. CASE token' = held[t] /\ Opened(t, held[t])
    <3>1. held[t] \in Nat /\ gate[t] = "checking"
      BY <1>4 DEF Validate, PortalInv, PortalTypes, GivenSince
    <3> QED BY <1>4, <2>1, <3>1, OpenedKeeps DEF Validate, PortalBounds
  <2>2. CASE UNCHANGED <<token, gate, held, locked>>
    BY <1>4, <2>2, PortalStill DEF Validate, PortalBounds
  <2> QED BY <1>4, <2>1, <2>2 DEF Validate
<1>5. ASSUME NEW t \in Tabs, AutoLogin(t) PROVE PortalInv' /\ NewSessionAfterLock
  <2>1. given \in Nat /\ gate[t] = "checking"
    BY <1>5 DEF AutoLogin, PortalInv, PortalTypes
  <2>2. CASE given' = given + 1 /\ Keep(given') /\ Opened(t, given')
    BY <1>5, <2>1, <2>2, OpenedKeeps DEF AutoLogin, Keep
  <2>3. CASE Keep(None) /\ LoginShown(t) /\ UNCHANGED <<given, locked>>
    BY <1>5, <2>1, <2>3, ClosedKeeps DEF AutoLogin, Keep, LoginShown
  <2> QED BY <1>5, <2>2, <2>3 DEF AutoLogin
<1>6. ASSUME NEW t \in Tabs, LoginAnswer(t) PROVE PortalInv' /\ NewSessionAfterLock
  <2>1. given \in Nat /\ gate[t] # "closed"
    BY <1>6 DEF LoginAnswer, PortalInv, PortalTypes
  <2>2. CASE given' = given + 1 /\ Keep(given') /\ Opened(t, given')
    BY <1>6, <2>1, <2>2, OpenedKeeps DEF LoginAnswer, Keep
  <2>3. CASE UNCHANGED <<portalStored, token, gate, held, locked, given>>
    BY <1>6, <2>3, PortalStill DEF LoginAnswer
  <2> QED BY <1>6, <2>2, <2>3 DEF LoginAnswer
<1>7. ASSUME NEW t \in Tabs, Submit(t) PROVE PortalInv' /\ NewSessionAfterLock
  BY <1>7, PortalStill DEF Submit, PortalBounds
<1>8. ASSUME NEW t \in Tabs, Lock(t) \/ Shutdown(t) PROVE PortalInv' /\ NewSessionAfterLock
  BY <1>8, ClosedKeeps DEF Lock, Shutdown, HandleLock, Keep, LoginShown, PortalBounds
<1>9. ASSUME NEW t \in Tabs, Crash(t) PROVE PortalInv' /\ NewSessionAfterLock
  BY <1>9, ClosedKeeps DEF Crash, PortalBounds
<1> QED
  BY <1>1, <1>2, <1>3, <1>4, <1>5, <1>6, <1>7, <1>8, <1>9 DEF PortalNext

\* The first state: every tab is closed.
LEMMA PortalStart == PortalInit => PortalInv
BY DEF PortalInit, PortalInv, PortalTypes, GivenSince, OpenCarriesItsToken

\* Chains whose last call is reached carry good credentials.
ConnectionsInv ==
  /\ chains \subseteq Chains /\ \A c \in chains : c.stage > 1 => c.creds \in GoodCredentials
  /\ typed \in Credentials \cup {None}
  /\ credentialsStored \in {None} \cup GoodCredentials
  /\ status = "connected" => credentialsStored # None

\* A call of a chain ends: the next one is made, or the chain is over.
LEMMA ChainStep ==
  ASSUME ConnectionsInv, NEW begun \in chains, ChainEnds(begun)
  PROVE  ConnectionsInv'
<1>1. begun \in Chains /\ (begun.stage > 1 => begun.creds \in GoodCredentials)
  BY DEF ConnectionsInv
<1>2. CASE Refused(begun) \/ ChainFails(begun)
  BY <1>2 DEF ConnectionsInv, Refused, ChainFails, Shows
<1>3. CASE ChainGoesOn(begun)
  <2>1. PICK next : next = [begun EXCEPT !.stage = @ + 1]
    OBVIOUS
  <2>2. next \in Chains /\ next.creds = begun.creds
    BY <1>1, <1>3, <2>1 DEF Chains, ChainGoesOn
  <2>3. chains' = (chains \ {begun}) \cup {next} /\ begun.creds \in GoodCredentials
    BY <1>3, <2>1 DEF ChainGoesOn
  <2>4. chains' \subseteq Chains /\ \A c \in chains' : c.stage > 1 => c.creds \in GoodCredentials
    BY <2>2, <2>3 DEF ConnectionsInv
  <2>5. UNCHANGED <<typed, credentialsStored>> /\ (status' = "connecting" \/ status' = status)
    BY <1>3 DEF ChainGoesOn, Shows
  <2> QED BY <2>4, <2>5 DEF ConnectionsInv
<1>4. CASE Verified(begun)
  <2>1. begun.creds \in GoodCredentials /\ credentialsStored' = begun.creds
    BY <1>1, <1>4 DEF Verified
  <2>2. chains' \subseteq chains /\ typed' = typed
    BY <1>4 DEF Verified
  <2> QED BY <2>1, <2>2, GoodCredentialsAssumption DEF ConnectionsInv
<1> QED BY <1>2, <1>3, <1>4 DEF ChainEnds

\* A step of the settings' connections.
LEMMA ConnectionsStep ==
  ASSUME ConnectionsInv, [ConnectionsNext]_connectionVars
  PROVE  ConnectionsInv'
<1>1. CASE \E c \in chains : ChainEnds(c)
  BY <1>1, ChainStep
<1>2. CASE OpenSection
  BY <1>2, GoodCredentialsAssumption DEF OpenSection, ConnectionsInv
<1>3. CASE LeaveSection
  <2>1. \A c \in chains : /\ [c EXCEPT !.own = FALSE] \in Chains
                          /\ [c EXCEPT !.own = FALSE].stage = c.stage
                          /\ [c EXCEPT !.own = FALSE].creds = c.creds
    BY DEF ConnectionsInv, Chains
  <2>2. chains' = {[c EXCEPT !.own = FALSE] : c \in chains} /\ UNCHANGED <<typed, status, credentialsStored>>
    BY <1>3 DEF LeaveSection
  <2>3. chains' \subseteq Chains /\ \A c \in chains' : c.stage > 1 => c.creds \in GoodCredentials
    BY <2>1, <2>2 DEF ConnectionsInv
  <2> QED BY <2>2, <2>3 DEF ConnectionsInv
<1>4. CASE Connect
  <2>1. PICK first : first = [creds |-> typed, stage |-> 1, own |-> TRUE]
    OBVIOUS
  <2>2. first \in Chains /\ first.stage = 1
    BY <1>4, <2>1 DEF Connect, ConnectionsInv, Chains
  <2>3. chains' = {c \in chains : ~c.own} \cup {first} /\ status' = "connecting"
        /\ UNCHANGED <<typed, credentialsStored>>
    BY <1>4, <2>1 DEF Connect
  <2> QED BY <2>2, <2>3 DEF ConnectionsInv
<1>5. CASE ConnectNothing \/ SaveKey \/ (\E key \in AccountKeys : TypeKey(key)) \/ UNCHANGED connectionVars
  BY <1>5 DEF ConnectNothing, SaveKey, TypeKey, connectionVars, ConnectionsInv
<1>6. CASE \E creds \in Credentials \cup {None} : TypeCredentials(creds)
  BY <1>6 DEF TypeCredentials, ConnectionsInv
<1>7. CASE Disconnect
  BY <1>7 DEF Disconnect, ConnectionsInv
<1> QED BY <1>1, <1>2, <1>3, <1>4, <1>5, <1>6, <1>7 DEF ConnectionsNext

\* The first state: nothing is stored but what was verified before.
LEMMA ConnectionsStart == ConnectionsInit => ConnectionsInv
BY DEF ConnectionsInit, ConnectionsInv


\* Only what was verified opens or is stored, for any number of tabs, sessions, outages,
\* credentials and calls under way: the tabs share what is stored, and no answer of a
\* session from before a lock opens the tab again.
THEOREM OnlyTheVerifiedOpens == PortalSpec /\ ConnectionsSpec => OnlyTheVerified
<1>1. PortalSpec => []PortalInv /\ UnlockedByLogin
  BY PortalStart, PortalStep, PTL DEF PortalSpec, UnlockedByLogin
<1>2. ConnectionsSpec => []ConnectionsInv
  BY ConnectionsStart, ConnectionsStep, PTL DEF ConnectionsSpec
<1>3. PortalInv /\ ConnectionsInv => OpenCarriesItsToken /\ SavedWereVerified
  BY DEF PortalInv, ConnectionsInv, SavedWereVerified
<1> QED BY <1>1, <1>2, <1>3, PTL DEF OnlyTheVerified

-----------------------------------------------------------------------------
(* The chart: one chain of requests and one round of studies go on.          *)
\* Of the requests of a chart one goes on, and it is of what the chart shows; what was
\* left waits for its answer only.
OneGoesOn ==
  /\ \A l \in chain : l = [symbol |-> l.symbol, stage |-> l.stage, alive |-> l.alive]
                      /\ l.stage \in {"asked", "waiting"} /\ l.alive \in BOOLEAN
                      /\ (l.stage = "waiting" => l.alive)
  /\ \E l \in chain : /\ l.alive /\ l.symbol = chartOf
                      /\ \A other \in chain : other.alive => other = l
RoundGoesOn ==
  /\ \A r \in rounds : r = [symbol |-> r.symbol, lookback |-> r.lookback, stage |-> r.stage, alive |-> r.alive]
                       /\ r.stage \in {"asked", "waiting"} /\ r.alive \in BOOLEAN
                       /\ (r.stage = "waiting" => r.alive)
  /\ \E r \in rounds : /\ r.alive /\ r.symbol = chartOf /\ r.lookback = lookback
                       /\ \A other \in rounds : other.alive => other = r
ChartInv == OneGoesOn /\ RoundGoesOn

\* What is abandoned is over, but for its answer.
LEMMA AbandonedLinks ==
  ASSUME OneGoesOn, NEW l \in Abandoned(chain)
  PROVE  /\ l = [symbol |-> l.symbol, stage |-> l.stage, alive |-> l.alive]
         /\ l.stage = "asked" /\ l.alive = FALSE
<1>1. PICK k \in chain : l = [k EXCEPT !.alive = FALSE] /\ k.stage # "waiting"
  BY DEF Abandoned
<1>2. k = [symbol |-> k.symbol, stage |-> k.stage, alive |-> k.alive] /\ k.stage = "asked"
  BY <1>1 DEF OneGoesOn
<1> QED BY <1>1, <1>2

\* The same of the rounds of studies.
LEMMA AbandonedRounds ==
  ASSUME RoundGoesOn, NEW l \in Abandoned(rounds)
  PROVE  /\ l = [symbol |-> l.symbol, lookback |-> l.lookback, stage |-> l.stage, alive |-> l.alive]
         /\ l.stage = "asked" /\ l.alive = FALSE
<1>1. PICK k \in rounds : l = [k EXCEPT !.alive = FALSE] /\ k.stage # "waiting"
  BY DEF Abandoned
<1>2. k = [symbol |-> k.symbol, lookback |-> k.lookback, stage |-> k.stage, alive |-> k.alive] /\ k.stage = "asked"
  BY <1>1 DEF RoundGoesOn
<1> QED BY <1>1, <1>2

\* Another product is shown: its chain begins, and the former goes on no more.
LEMMA SwitchedChain ==
  ASSUME OneGoesOn, NEW s, chain' = Abandoned(chain) \cup {Link(s)}, chartOf' = s
  PROVE  OneGoesOn'
<1>1. PICK l : l = Link(s)
  OBVIOUS
<1>2. /\ l = [symbol |-> l.symbol, stage |-> l.stage, alive |-> l.alive]
      /\ l.symbol = s /\ l.stage = "asked" /\ l.alive = TRUE
  BY <1>1 DEF Link
<1>3. chain' = Abandoned(chain) \cup {l}
  BY <1>1
<1> QED BY <1>2, <1>3, AbandonedLinks DEF OneGoesOn

\* The same of the rounds, for another product or another study.
LEMMA SwitchedRounds ==
  ASSUME RoundGoesOn, NEW s, NEW n, rounds' = Abandoned(rounds) \cup {Round(s, n)}, chartOf' = s, lookback' = n
  PROVE  RoundGoesOn'
<1>1. PICK l : l = Round(s, n)
  OBVIOUS
<1>2. /\ l = [symbol |-> l.symbol, lookback |-> l.lookback, stage |-> l.stage, alive |-> l.alive]
      /\ l.symbol = s /\ l.lookback = n /\ l.stage = "asked" /\ l.alive = TRUE
  BY <1>1 DEF Round
<1>3. rounds' = Abandoned(rounds) \cup {l}
  BY <1>1
<1> QED BY <1>2, <1>3, AbandonedRounds DEF RoundGoesOn

\* The request that goes on is answered, or made again.
LEMMA NextLink ==
  ASSUME OneGoesOn, NEW link \in chain, link.alive, NEW stage \in {"asked", "waiting"}, NEW next,
         next = [symbol |-> link.symbol, stage |-> stage, alive |-> TRUE],
         chain' = (chain \ {link}) \cup {next}, chartOf' = chartOf
  PROVE  OneGoesOn'
<1>1. /\ next.symbol = chartOf /\ next.stage = stage /\ next.alive = TRUE
      /\ next = [symbol |-> next.symbol, stage |-> next.stage, alive |-> next.alive]
  BY DEF OneGoesOn
<1>2. \A other \in chain \ {link} : ~other.alive
  BY DEF OneGoesOn
<1>3. \A l \in chain' : l = [symbol |-> l.symbol, stage |-> l.stage, alive |-> l.alive]
                         /\ l.stage \in {"asked", "waiting"} /\ l.alive \in BOOLEAN
                         /\ (l.stage = "waiting" => l.alive)
  BY <1>1 DEF OneGoesOn
<1>4. next \in chain' /\ \A other \in chain' : other.alive => other = next
  BY <1>2
<1> QED BY <1>1, <1>3, <1>4 DEF OneGoesOn

\* The same of the round that goes on.
LEMMA NextRound ==
  ASSUME RoundGoesOn, NEW round \in rounds, round.alive, NEW stage \in {"asked", "waiting"}, NEW next,
         next = [symbol |-> round.symbol, lookback |-> round.lookback, stage |-> stage, alive |-> TRUE],
         rounds' = (rounds \ {round}) \cup {next}, UNCHANGED <<chartOf, lookback>>
  PROVE  RoundGoesOn'
<1>1. /\ next.symbol = chartOf /\ next.lookback = lookback /\ next.stage = stage /\ next.alive = TRUE
      /\ next = [symbol |-> next.symbol, lookback |-> next.lookback, stage |-> next.stage, alive |-> next.alive]
  BY DEF RoundGoesOn
<1>2. \A other \in rounds \ {round} : ~other.alive
  BY DEF RoundGoesOn
<1>3. \A r \in rounds' : r = [symbol |-> r.symbol, lookback |-> r.lookback, stage |-> r.stage, alive |-> r.alive]
                          /\ r.stage \in {"asked", "waiting"} /\ r.alive \in BOOLEAN
                          /\ (r.stage = "waiting" => r.alive)
  BY <1>1 DEF RoundGoesOn
<1>4. next \in rounds' /\ \A other \in rounds' : other.alive => other = next
  BY <1>2
<1> QED BY <1>1, <1>3, <1>4 DEF RoundGoesOn

\* Bars come, for what is shown or for what was left.
LEMMA BarsReturnKeeps ==
  ASSUME ChartInv, NEW link \in chain, BarsReturn(link)
  PROVE  ChartInv' /\ AnswersFit
<1>1. /\ link = [symbol |-> link.symbol, stage |-> link.stage, alive |-> link.alive]
      /\ link.alive \in BOOLEAN
      /\ UNCHANGED <<chartOf, rounds, lookback, snapshots>>
  BY DEF ChartInv, OneGoesOn, BarsReturn, Studies
<1>2. CASE link.alive
  <2>1. PICK next : next = [link EXCEPT !.stage = "waiting"]
    OBVIOUS
  <2>2. next = [symbol |-> link.symbol, stage |-> "waiting", alive |-> TRUE]
    BY <1>1, <1>2, <2>1
  <2>3. chain' = (chain \ {link}) \cup {next} /\ (barsOf' = link.symbol \/ barsOf' = barsOf)
    BY <1>2, <2>1 DEF BarsReturn, Current
  <2>4. link.symbol = chartOf /\ \A other \in chain \ {link} : ~other.alive
    BY <1>2 DEF ChartInv, OneGoesOn
  <2>5. OneGoesOn'
    BY <1>1, <1>2, <2>2, <2>3, NextLink DEF ChartInv
  <2> QED BY <1>1, <2>3, <2>4, <2>5 DEF ChartInv, RoundGoesOn, AnswersFit
<1>3. CASE ~link.alive
  <2>1. chain' = chain \ {link} /\ barsOf' = barsOf
    BY <1>3 DEF BarsReturn, Current
  <2> QED BY <1>1, <1>3, <2>1 DEF ChartInv, OneGoesOn, RoundGoesOn, AnswersFit
<1> QED BY <1>1, <1>2, <1>3

\* Studies come, for what is shown or for what was left.
LEMMA StudiesReturnKeeps ==
  ASSUME ChartInv, NEW round \in rounds, StudiesReturn(round)
  PROVE  ChartInv' /\ AnswersFit
<1>1. /\ round = [symbol |-> round.symbol, lookback |-> round.lookback, stage |-> round.stage, alive |-> round.alive]
      /\ round.alive \in BOOLEAN
      /\ UNCHANGED <<chartOf, chain, lookback, barsOf>>
  BY DEF ChartInv, RoundGoesOn, StudiesReturn
<1>2. CASE round.alive
  <2>1. PICK next : next = [round EXCEPT !.stage = "waiting"]
    OBVIOUS
  <2>2. next = [symbol |-> round.symbol, lookback |-> round.lookback, stage |-> "waiting", alive |-> TRUE]
    BY <1>1, <1>2, <2>1
  <2>3. rounds' = (rounds \ {round}) \cup {next}
        /\ snapshots' = [symbol |-> round.symbol, lookback |-> round.lookback, ok |-> serving]
    BY <1>2, <2>1 DEF StudiesReturn, Current
  <2>4. round.symbol = chartOf /\ round.lookback = lookback /\ \A other \in rounds \ {round} : ~other.alive
    BY <1>2 DEF ChartInv, RoundGoesOn
  <2>5. RoundGoesOn'
    BY <1>1, <1>2, <2>2, <2>3, NextRound DEF ChartInv
  <2> QED BY <1>1, <2>3, <2>4, <2>5 DEF ChartInv, OneGoesOn, AnswersFit
<1>3. CASE ~round.alive
  <2>1. rounds' = rounds \ {round} /\ snapshots' = snapshots
    BY <1>3 DEF StudiesReturn, Current
  <2> QED BY <1>1, <1>3, <2>1 DEF ChartInv, OneGoesOn, RoundGoesOn, AnswersFit
<1> QED BY <1>1, <1>2, <1>3

\* A timer fires: only what goes on has one.
LEMMA PullsKeep ==
  ASSUME ChartInv, \/ \E link \in chain : PullBars(link)
                   \/ \E round \in rounds : PullStudies(round)
  PROVE  ChartInv' /\ AnswersFit
<1>1. ASSUME NEW link \in chain, PullBars(link) PROVE ChartInv' /\ AnswersFit
  <2>1. UNCHANGED <<chartOf, rounds, lookback, snapshots, barsOf>> /\ link.stage = "waiting"
    BY <1>1 DEF PullBars, Studies
  <2>2. PICK next : next = Link(link.symbol)
    OBVIOUS
  <2>3. next = [symbol |-> link.symbol, stage |-> "asked", alive |-> TRUE]
    BY <2>2 DEF Link
  <2>4. chain' = (chain \ {link}) \cup {next}
    BY <1>1, <2>2 DEF PullBars
  <2>5. link.alive /\ link.symbol = chartOf /\ \A other \in chain \ {link} : ~other.alive
    BY <2>1 DEF ChartInv, OneGoesOn
  <2>6. OneGoesOn'
    BY <2>1, <2>3, <2>4, <2>5, NextLink DEF ChartInv
  <2> QED BY <2>1, <2>6 DEF ChartInv, RoundGoesOn, AnswersFit
<1>2. ASSUME NEW round \in rounds, PullStudies(round) PROVE ChartInv' /\ AnswersFit
  <2>1. UNCHANGED <<chartOf, chain, lookback, snapshots, barsOf>> /\ round.stage = "waiting"
    BY <1>2 DEF PullStudies
  <2>2. PICK next : next = Round(round.symbol, round.lookback)
    OBVIOUS
  <2>3. next = [symbol |-> round.symbol, lookback |-> round.lookback, stage |-> "asked", alive |-> TRUE]
    BY <2>2 DEF Round
  <2>4. rounds' = (rounds \ {round}) \cup {next}
    BY <1>2, <2>2 DEF PullStudies
  <2>5. /\ round.alive /\ round.symbol = chartOf /\ round.lookback = lookback
        /\ \A other \in rounds \ {round} : ~other.alive
    BY <2>1 DEF ChartInv, RoundGoesOn
  <2>6. RoundGoesOn'
    BY <2>1, <2>3, <2>4, <2>5, NextRound DEF ChartInv
  <2> QED BY <2>1, <2>6 DEF ChartInv, OneGoesOn, AnswersFit
<1> QED BY <1>1, <1>2

\* A step of the chart.
LEMMA ChartStep ==
  ASSUME ChartInv, [ChartFeedNext]_chartVars
  PROVE  ChartInv' /\ [AnswersFit]_chartVars
<1>1. CASE \E link \in chain : BarsReturn(link)
  BY <1>1, BarsReturnKeeps
<1>2. CASE \E round \in rounds : StudiesReturn(round)
  BY <1>2, StudiesReturnKeeps
<1>3. CASE (\E link \in chain : PullBars(link)) \/ \E round \in rounds : PullStudies(round)
  BY <1>3, PullsKeep
<1>4. ASSUME NEW s \in ChartSymbols, SwitchChart(s) PROVE ChartInv' /\ AnswersFit
  BY <1>4, SwitchedChain, SwitchedRounds DEF SwitchChart, ChartInv, AnswersFit
<1>5. ASSUME NEW n \in Lookbacks, SwitchStudy(n) PROVE ChartInv' /\ AnswersFit
  BY <1>5, SwitchedRounds DEF SwitchStudy, ChartInv, OneGoesOn, AnswersFit
<1>6. CASE ServiceTurns \/ UNCHANGED chartVars
  BY <1>6 DEF ServiceTurns, Studies, chartVars, ChartInv, OneGoesOn, RoundGoesOn, AnswersFit
<1> QED BY <1>1, <1>2, <1>3, <1>4, <1>5, <1>6 DEF ChartFeedNext

\* The first state: one chain and one round, of what is shown.
LEMMA ChartStart == ChartFeedInit => ChartInv
<1> SUFFICES ASSUME ChartFeedInit PROVE ChartInv
  OBVIOUS
<1>1. /\ chain = {[symbol |-> chartOf, stage |-> "asked", alive |-> TRUE]}
      /\ rounds = {[symbol |-> chartOf, lookback |-> lookback, stage |-> "asked", alive |-> TRUE]}
  BY DEF ChartFeedInit, Link, Round
<1> QED BY <1>1 DEF ChartInv, OneGoesOn, RoundGoesOn

\* The invariant counts one chain and one round.
LEMMA OneChainHolds == ChartInv => OneChain
<1> SUFFICES ASSUME ChartInv PROVE OneChain
  OBVIOUS
<1>1. PICK l : {k \in chain : k.alive \/ k.stage = "waiting"} = {l}
  BY DEF ChartInv, OneGoesOn
<1>2. PICK r : {k \in rounds : k.alive \/ k.stage = "waiting"} = {r}
  BY DEF ChartInv, RoundGoesOn
<1> QED BY <1>1, <1>2, FS_Singleton DEF OneChain

-----------------------------------------------------------------------------
(* The socket: one is in use, or one is about to be opened.                  *)
Used == {n \in Numbers : sockets[n].phase \in {"connecting", "open"}}
Closing == {n \in Numbers : sockets[n].phase = "closing"}
Phases == {"connecting", "open", "closing", "closed"}

\* The types of the socket's refs.
FeedTypes ==
  /\ effect.run \in 1 .. MaxEffects
  /\ effect = [run |-> effect.run, product |-> effect.product]
  /\ DOMAIN sockets = Numbers
  /\ \A n \in Numbers :
       /\ sockets[n] = [run |-> sockets[n].run, product |-> sockets[n].product, phase |-> sockets[n].phase]
       /\ sockets[n].run \in 0 .. MaxEffects /\ sockets[n].phase \in Phases

\* Only the socket last made can be in use, for the effect's last run and product; those
\* of earlier runs are closing, at most one of a run; and the retry that is due is the
\* one last set, with no socket in use.
OneIsUsed ==
  /\ \A n \in Used : n = wsRef /\ sockets[n].run = effect.run /\ sockets[n].product = effect.product
  /\ \A n \in Closing : sockets[n].run < effect.run
  /\ Cardinality(Closing) < effect.run
  /\ timers # {} => timers = {effect.run} /\ retryRef = effect.run /\ Used = {}
FeedInv == FeedTypes /\ OneIsUsed

\* There are finitely many sockets, and as many as the effect may still need.
LEMMA NumbersAre ==
  /\ IsFiniteSet(Numbers) /\ Cardinality(Numbers) = MaxEffects + MaxDrops
  /\ IsFiniteSet(Used) /\ IsFiniteSet(Closing) /\ IsFiniteSet(Free)
  /\ Used \subseteq Numbers /\ Closing \subseteq Numbers /\ Free \subseteq Numbers
<1>1. MaxEffects + MaxDrops \in Nat
  BY FeedAssumption
<1>2. IsFiniteSet(Numbers) /\ Cardinality(Numbers) = MaxEffects + MaxDrops
  BY <1>1, FS_Interval DEF Numbers
<1> QED BY <1>2, FS_Subset DEF Used, Closing, Free

\* With no socket in use one is free.
LEMMA OneIsFree ==
  ASSUME FeedInv, \/ Used = {}
                  \/ effect.run < MaxEffects
  PROVE  Free # {}
<1> SUFFICES ASSUME Free = {} PROVE FALSE
  OBVIOUS
<1>1. Numbers = Closing \cup Used
  BY DEF FeedInv, FeedTypes, Free, Closing, Used, Phases
<1>2. Cardinality(Used) \in Nat /\ Cardinality(Closing) \in Nat /\ effect.run \in Nat
  BY NumbersAre, FS_CardinalityType DEF FeedInv, FeedTypes
<1>3. Cardinality(Used) <= 1
  <2>1. Used = {} \/ Used = {wsRef}
    BY DEF FeedInv, OneIsUsed
  <2>2. Cardinality({}) = 0 /\ Cardinality({wsRef}) = 1
    BY FS_EmptySet, FS_Singleton
  <2> QED BY <2>1, <2>2
<1>4. Used = {} => Cardinality(Used) = 0
  BY FS_EmptySet
<1>5. Cardinality(Numbers) <= Cardinality(Closing) + Cardinality(Used)
  <2>1. Closing \cap Used = {}
    BY DEF Closing, Used
  <2>2. Cardinality(Closing \cup Used) = Cardinality(Closing) + Cardinality(Used) - Cardinality(Closing \cap Used)
    BY NumbersAre, FS_Union
  <2> QED BY <1>1, <1>2, <2>1, <2>2, FS_EmptySet
<1>6. effect.run <= MaxEffects /\ Cardinality(Closing) < effect.run
  BY FeedAssumption DEF FeedInv, FeedTypes, OneIsUsed
<1> QED BY <1>2, <1>3, <1>4, <1>5, <1>6, NumbersAre, FeedAssumption

\* The socket that is taken is a free one.
LEMMA TakenIsFree ==
  ASSUME Free # {}
  PROVE  (CHOOSE m \in Free : \A k \in Free : m <= k) \in Free
<1>1. Free \subseteq Nat
  BY DEF Free, Numbers
<1>2. PICK m \in Free : \A k \in Free : ~ (<<k, m>> \in OpToRel(<, Nat))
  BY <1>1, NatLessThanWellFounded, WFMin
<1>3. \A k \in Free : ~ (k < m)
  <2> TAKE k \in Free
  <2>1. ~ (<<k, m>> \in OpToRel(<, Nat)) /\ k \in Nat /\ m \in Nat
    BY <1>1, <1>2
  <2> QED BY <2>1, Zenon DEF OpToRel
<1>4. \A k \in Free : m <= k
  BY <1>1, <1>3
<1> QED BY <1>4

\* A socket is made: none is in use beside it.
LEMMA MadeIsUsed ==
  ASSUME FeedTypes, NEW n \in Numbers, NEW ends,
         DOMAIN ends = Numbers,
         \A k \in Numbers : ends[k] = [run |-> sockets[k].run, product |-> sockets[k].product, phase |-> ends[k].phase],
         \A k \in Numbers : ends[k].phase \in Phases \ {"connecting", "open"},
         {k \in Numbers \ {n} : ends[k].phase = "closing"} \subseteq Closing \cup ({wsRef} \cap Used),
         wsRef \in Used => sockets[wsRef].run < effect'.run,
         effect' = [run |-> effect'.run, product |-> effect'.product], effect'.run \in 1 .. MaxEffects,
         sockets' = [ends EXCEPT ![n] = [run |-> effect'.run, product |-> effect'.product, phase |-> "connecting"]],
         wsRef' = n, timers' = {},
         Cardinality(Closing \cup ({wsRef} \cap Used)) < effect'.run,
         \A k \in Closing : sockets[k].run < effect'.run
  PROVE  FeedInv'
<1>1. /\ sockets'[n] = [run |-> effect'.run, product |-> effect'.product, phase |-> "connecting"]
      /\ \A k \in Numbers \ {n} : sockets'[k] = ends[k]
      /\ DOMAIN sockets' = Numbers
  OBVIOUS
<1>2. FeedTypes'
  BY <1>1, FeedAssumption DEF FeedTypes, Numbers, Phases
<1>3. Used' = {n}
  BY <1>1 DEF Used, Numbers, Phases
<1>4. Closing' \subseteq Closing \cup ({wsRef} \cap Used) /\ n \notin Closing'
  BY <1>1 DEF Closing, Numbers
<1>5. Cardinality(Closing') < effect'.run
  <2>1. IsFiniteSet(Closing \cup ({wsRef} \cap Used))
    BY NumbersAre, FS_Subset, FS_Union
  <2>2. Cardinality(Closing') <= Cardinality(Closing \cup ({wsRef} \cap Used))
    BY <1>4, <2>1, FS_Subset
  <2>3. IsFiniteSet(Closing')
    BY <1>4, <2>1, FS_Subset
  <2> QED BY <2>1, <2>2, <2>3, FS_CardinalityType DEF FeedTypes
<1>6. \A k \in Closing' : sockets'[k].run < effect'.run
  <2> SUFFICES ASSUME NEW k \in Closing' PROVE sockets'[k].run < effect'.run
    OBVIOUS
  <2>1. k \in Numbers \ {n} /\ sockets'[k].run = sockets[k].run
    BY <1>1, <1>4 DEF Closing, Numbers
  <2> QED BY <1>4, <2>1
<1> QED BY <1>1, <1>2, <1>3, <1>5, <1>6 DEF FeedInv, OneIsUsed

\* The product changes: the cleanup asks the socket in use to close and clears the timer.
LEMMA SwitchKeepsOne ==
  ASSUME FeedInv, NEW product \in FeedProducts, Switch(product)
  PROVE  FeedInv'
<1> DEFINE n == CHOOSE m \in Free : \A k \in Free : m <= k
           ends == IF wsRef \in Live THEN [sockets EXCEPT ![wsRef].phase = "closing"] ELSE sockets
<1>1. /\ effect.run < MaxEffects /\ effect' = [run |-> effect.run + 1, product |-> product]
      /\ timers' = timers \ {retryRef} /\ wsRef' = n
      /\ sockets' = [ends EXCEPT ![n] = [run |-> effect.run + 1, product |-> product, phase |-> "connecting"]]
  BY DEF Switch
<1>2. n \in Free /\ n \in Numbers
  BY <1>1, OneIsFree, TakenIsFree DEF Free
<1>3. timers' = {}
  BY <1>1 DEF FeedInv, OneIsUsed
<1>4. DOMAIN ends = Numbers
  BY DEF FeedInv, FeedTypes
<1>5. \A k \in Numbers : ends[k] = [run |-> sockets[k].run, product |-> sockets[k].product, phase |-> ends[k].phase]
                        /\ ends[k].phase = (IF wsRef \in Live /\ k = wsRef THEN "closing" ELSE sockets[k].phase)
  BY DEF FeedInv, FeedTypes
<1>6. \A k \in Numbers : ends[k].phase \in Phases \ {"connecting", "open"}
  <2>1. \A k \in Used : k = wsRef /\ k \in Live
    BY DEF FeedInv, FeedTypes, OneIsUsed, Used, Live
  <2> QED BY <1>5, <2>1 DEF FeedInv, FeedTypes, Used, Phases
<1>7. \A k \in Numbers : ends[k].phase = "closing" => \/ k \in Closing
                                                      \/ k = wsRef /\ wsRef \in Used
  BY <1>5 DEF FeedInv, FeedTypes, Used, Closing, Live, Phases
<1>8. {k \in Numbers \ {n} : ends[k].phase = "closing"} \subseteq Closing \cup ({wsRef} \cap Used)
  <2> HIDE DEF ends, n
  <2> QED BY <1>7
<1>9. /\ effect'.run = effect.run + 1 /\ effect'.product = product /\ effect.run \in 1 .. MaxEffects
      /\ effect'.run \in 1 .. MaxEffects
  BY <1>1, FeedAssumption DEF FeedInv, FeedTypes
<1>10. /\ wsRef \in Used => sockets[wsRef].run < effect'.run
       /\ \A k \in Closing : sockets[k].run < effect'.run
  BY <1>9, FeedAssumption DEF FeedInv, FeedTypes, OneIsUsed, Used, Closing
<1>11. Cardinality(Closing \cup ({wsRef} \cap Used)) < effect'.run
  <2>1. Cardinality(Closing) \in Nat /\ Cardinality(Closing) < effect.run
    BY NumbersAre, FS_CardinalityType DEF FeedInv, OneIsUsed
  <2>3. effect'.run = effect.run + 1 /\ effect.run \in Nat
    BY <1>9
  <2> HIDE DEF ends, n
  <2>2. CASE wsRef \in Used
    <3>1. Closing \cup ({wsRef} \cap Used) = Closing \cup {wsRef}
      BY <2>2
    <3>2. Cardinality(Closing \cup {wsRef}) \in {Cardinality(Closing), Cardinality(Closing) + 1}
      BY NumbersAre, FS_AddElement
    <3>3. Cardinality(Closing \cup ({wsRef} \cap Used)) = Cardinality(Closing \cup {wsRef})
      BY <3>1, Zenon
    <3> QED BY <2>1, <2>3, <3>2, <3>3
  <2>4. CASE wsRef \notin Used
    <3>1. Closing \cup ({wsRef} \cap Used) = Closing
      BY <2>4
    <3>2. Cardinality(Closing \cup ({wsRef} \cap Used)) = Cardinality(Closing)
      BY <3>1, Zenon
    <3> QED BY <2>1, <2>3, <3>2
  <2> QED BY <2>2, <2>4
<1>12. sockets' = [ends EXCEPT ![n] = [run |-> effect'.run, product |-> effect'.product, phase |-> "connecting"]]
       /\ effect' = [run |-> effect'.run, product |-> effect'.product] /\ wsRef' = n
  <2> HIDE DEF ends, n
  <2> QED BY <1>1, <1>9
<1>13. FeedTypes /\ \A k \in Numbers : ends[k] = [run |-> sockets[k].run, product |-> sockets[k].product, phase |-> ends[k].phase]
  <2>1. FeedTypes
    BY DEF FeedInv
  <2> HIDE DEF ends
  <2> QED BY <1>5, <2>1
<1> HIDE DEF ends, n
<1> QED BY <1>2, <1>3, <1>4, <1>6, <1>8, <1>9, <1>10, <1>11, <1>12, <1>13, MadeIsUsed

\* The timer fires: it was the only one, and no socket was in use.
LEMMA RetryKeepsOne ==
  ASSUME FeedInv, NEW run, Retry(run)
  PROVE  FeedInv'
<1> DEFINE n == CHOOSE m \in Free : \A k \in Free : m <= k
<1>1. /\ run \in timers /\ timers' = timers \ {run} /\ wsRef' = n /\ effect' = effect
      /\ sockets' = [sockets EXCEPT ![n] = [run |-> run, product |-> effect.product, phase |-> "connecting"]]
  BY DEF Retry, Connected
<1>2. run = effect.run /\ timers = {effect.run} /\ Used = {} /\ timers' = {}
  BY <1>1 DEF FeedInv, OneIsUsed
<1>3. n \in Free /\ n \in Numbers
  BY <1>2, OneIsFree, TakenIsFree DEF Free
<1>4. /\ DOMAIN sockets = Numbers /\ FeedTypes /\ effect'.run \in 1 .. MaxEffects
      /\ effect' = [run |-> effect'.run, product |-> effect'.product]
      /\ \A k \in Numbers : sockets[k] = [run |-> sockets[k].run, product |-> sockets[k].product, phase |-> sockets[k].phase]
  <2>1. FeedTypes
    BY DEF FeedInv
  <2> QED BY <1>1, <2>1 DEF FeedTypes
<1>5. \A k \in Numbers : sockets[k].phase \in Phases \ {"connecting", "open"}
  BY <1>2, <1>4 DEF FeedTypes, Used
<1>6. /\ {k \in Numbers \ {n} : sockets[k].phase = "closing"} \subseteq Closing \cup ({wsRef} \cap Used)
      /\ wsRef \in Used => sockets[wsRef].run < effect'.run
  BY <1>2 DEF Closing
<1>7. /\ Closing \cup ({wsRef} \cap Used) = Closing
      /\ Cardinality(Closing) < effect'.run /\ \A k \in Closing : sockets[k].run < effect'.run
  BY <1>1, <1>2 DEF FeedInv, OneIsUsed
<1>8. /\ sockets' = [sockets EXCEPT ![n] = [run |-> effect'.run, product |-> effect'.product, phase |-> "connecting"]]
      /\ wsRef' = n
  BY <1>1, <1>2
<1> HIDE DEF n
<1>9. Cardinality(Closing \cup ({wsRef} \cap Used)) < effect'.run
  BY <1>7
<1> QED BY <1>2, <1>3, <1>4, <1>5, <1>6, <1>7, <1>8, <1>9, MadeIsUsed

\* A socket opens.
LEMMA OpensKeepsOne ==
  ASSUME FeedInv, NEW n \in Numbers, SocketOpens(n)
  PROVE  FeedInv'
<1>1. /\ sockets[n].phase = "connecting" /\ sockets' = [sockets EXCEPT ![n].phase = "open"]
      /\ UNCHANGED <<effect, wsRef, timers, retryRef>>
  BY DEF SocketOpens
<1>2. \A k \in Numbers : sockets'[k] = [run |-> sockets[k].run, product |-> sockets[k].product,
                                        phase |-> IF k = n THEN "open" ELSE sockets[k].phase]
  BY <1>1 DEF FeedInv, FeedTypes
<1>3. FeedTypes'
  BY <1>1, <1>2 DEF FeedInv, FeedTypes, Phases, Numbers
<1>4. \A k \in Numbers : /\ sockets'[k].run = sockets[k].run /\ sockets'[k].product = sockets[k].product
                          /\ sockets'[k].phase = IF k = n THEN "open" ELSE sockets[k].phase
  <2> TAKE k \in Numbers
  <2>1. sockets'[k] = [run |-> sockets[k].run, product |-> sockets[k].product,
                       phase |-> IF k = n THEN "open" ELSE sockets[k].phase]
    BY <1>2
  <2> QED BY <2>1
<1>5. Used' = Used /\ Closing' = Closing
  BY <1>1, <1>4 DEF Used, Closing, Numbers
<1>6. OneIsUsed'
  BY <1>1, <1>4, <1>5, NumbersAre DEF FeedInv, OneIsUsed
<1> QED BY <1>3, <1>6 DEF FeedInv

\* A socket closes: only one that was in use sets the timer.
LEMMA ClosesKeepsOne ==
  ASSUME FeedInv, NEW n \in Numbers, sockets[n].phase # "closed", SocketCloses(n)
  PROVE  FeedInv'
<1>1. /\ sockets' = [sockets EXCEPT ![n].phase = "closed"] /\ RetryOf(n) /\ UNCHANGED <<effect, wsRef>>
  BY DEF SocketCloses
<1>2. \A k \in Numbers : sockets'[k] = [run |-> sockets[k].run, product |-> sockets[k].product,
                                        phase |-> IF k = n THEN "closed" ELSE sockets[k].phase]
  BY <1>1 DEF FeedInv, FeedTypes
<1>3. FeedTypes'
  <2>1. Numbers' = Numbers /\ DOMAIN sockets' = Numbers
    BY <1>1 DEF Numbers, FeedInv, FeedTypes
  <2>2. \A k \in Numbers :
          /\ sockets'[k] = [run |-> sockets'[k].run, product |-> sockets'[k].product, phase |-> sockets'[k].phase]
          /\ sockets'[k].run \in 0 .. MaxEffects /\ sockets'[k].phase \in Phases
    <3> TAKE k \in Numbers
    <3>1. sockets'[k] = [run |-> sockets[k].run, product |-> sockets[k].product,
                         phase |-> IF k = n THEN "closed" ELSE sockets[k].phase]
      BY <1>2
    <3>2. sockets[k].run \in 0 .. MaxEffects /\ sockets[k].phase \in Phases
      BY DEF FeedInv, FeedTypes
    <3> QED BY <3>1, <3>2 DEF Phases
  <2> QED BY <1>1, <2>1, <2>2 DEF FeedInv, FeedTypes
<1>4. \A k \in Numbers : /\ sockets'[k].run = sockets[k].run /\ sockets'[k].product = sockets[k].product
                          /\ sockets'[k].phase = IF k = n THEN "closed" ELSE sockets[k].phase
  <2> TAKE k \in Numbers
  <2>1. sockets'[k] = [run |-> sockets[k].run, product |-> sockets[k].product,
                       phase |-> IF k = n THEN "closed" ELSE sockets[k].phase]
    BY <1>2
  <2> QED BY <2>1
<1>5. Used' = Used \ {n} /\ Closing' = Closing \ {n}
  BY <1>1, <1>4 DEF Used, Closing, Numbers
<1>6. Cardinality(Closing') < effect'.run
  <2>1. Cardinality(Closing') <= Cardinality(Closing) /\ IsFiniteSet(Closing')
    BY <1>5, NumbersAre, FS_Subset
  <2> QED BY <1>1, <2>1, NumbersAre, FS_CardinalityType DEF FeedInv, FeedTypes, OneIsUsed
<1>7. \/ UNCHANGED <<timers, retryRef>>
      \/ /\ timers' = timers \cup {effect.run} /\ retryRef' = effect.run
         /\ sockets[n].run = effect.run
  BY <1>1 DEF RetryOf
<1>8. sockets[n].run = effect.run => n \in Used
  BY FeedAssumption DEF FeedInv, FeedTypes, OneIsUsed, Used, Closing, Phases
<1>9. timers' # {} => timers' = {effect'.run} /\ retryRef' = effect'.run /\ Used' = {}
  BY <1>1, <1>5, <1>7, <1>8 DEF FeedInv, OneIsUsed
<1>10. /\ \A k \in Used' : k = wsRef' /\ sockets'[k].run = effect'.run /\ sockets'[k].product = effect'.product
       /\ \A k \in Closing' : sockets'[k].run < effect'.run
  BY <1>1, <1>4, <1>5, NumbersAre DEF FeedInv, OneIsUsed
<1> QED BY <1>3, <1>6, <1>9, <1>10 DEF FeedInv, OneIsUsed

\* A step that leaves sockets and timers alone.
LEMMA FeedStill ==
  ASSUME FeedInv, UNCHANGED Plumbing
  PROVE  FeedInv'
BY DEF FeedInv, Plumbing, FeedTypes, OneIsUsed, Used, Closing, Numbers, Phases

\* A step of the socket, the store or the poll.
LEMMA FeedStep ==
  ASSUME FeedInv, [FeedNext]_feedVars
  PROVE  FeedInv'
<1>1. CASE \E product \in FeedProducts : Switch(product)
  BY <1>1, SwitchKeepsOne
<1>2. CASE \E run \in 1 .. MaxEffects : Retry(run)
  BY <1>2, RetryKeepsOne
<1>3. ASSUME NEW n \in Numbers, SocketOpens(n) PROVE FeedInv'
  BY <1>3, OpensKeepsOne
<1>4. ASSUME NEW n \in Numbers, SocketEnds(n) \/ SocketDrops(n) PROVE FeedInv'
  BY <1>4, ClosesKeepsOne DEF SocketEnds, SocketDrops
<1>5. ASSUME NEW n \in Numbers, NEW price,
             PositionsCome(n) \/ FiguresCome(n) \/ TickComes(n, price) \/ BookComes(n, price)
      PROVE  FeedInv'
  BY <1>5, FeedStill DEF PositionsCome, FiguresCome, TickComes, BookComes, Message
<1>6. CASE FiguresChange \/ PollMetrics \/ \E answer \in 0 .. MaxFigures : PollAnswered(answer)
  BY <1>6, FeedStill DEF FiguresChange, PollMetrics, PollAnswered
<1>7. CASE UNCHANGED feedVars
  BY <1>7, FeedStill DEF feedVars, Plumbing
<1> QED BY <1>1, <1>2, <1>3, <1>4, <1>5, <1>6, <1>7 DEF FeedNext

\* The first state: at most one socket, of the first run.
LEMMA FeedStart == FeedInit => FeedInv
<1> SUFFICES ASSUME FeedInit PROVE FeedInv
  OBVIOUS
<1>1. PICK product \in FeedProducts : effect = [run |-> 1, product |-> product]
  BY DEF FeedInit
<1>2. \A n \in Numbers : sockets[n] = IF n = 1 /\ legacy
        THEN [run |-> 1, product |-> product, phase |-> "connecting"]
        ELSE [run |-> 0, product |-> None, phase |-> "closed"]
  BY <1>1 DEF FeedInit, NoSocket
<1>3. FeedTypes
  BY <1>1, <1>2, FeedAssumption DEF FeedInit, FeedTypes, Phases
<1>4. Used \subseteq {1} /\ Closing = {}
  BY <1>2 DEF Used, Closing
<1>5. \A n \in Used : sockets[n].run = 1 /\ sockets[n].product = product
  BY <1>2 DEF Used
<1> QED BY <1>1, <1>3, <1>4, <1>5, FS_EmptySet DEF FeedInit, FeedInv, OneIsUsed

\* The invariant counts at most one socket or timer.
LEMMA OneSocketHolds == FeedInv => OneSocket
<1> SUFFICES ASSUME FeedInv PROVE OneSocket
  OBVIOUS
<1>1. Used = {} \/ Used = {wsRef}
  BY DEF FeedInv, OneIsUsed
<1>2. Cardinality(Used) \in {0, 1} /\ (Used # {} => timers = {})
  BY <1>1, FS_EmptySet, FS_Singleton DEF FeedInv, OneIsUsed
<1>3. Cardinality(timers) \in {0, 1} /\ (timers = {} => Cardinality(timers) = 0)
  BY FS_EmptySet, FS_Singleton DEF FeedInv, OneIsUsed
<1>4. Cardinality(Used) + Cardinality(timers) <= 1
  <2>1. CASE Used = {}
    BY <1>3, <2>1, FS_EmptySet
  <2>2. CASE Used # {}
    BY <1>2, <1>3, <2>2
  <2> QED BY <2>1, <2>2
<1>5. \A n \in Used : sockets[n].product = effect.product
  BY DEF FeedInv, OneIsUsed
<1> QED BY <1>4, <1>5 DEF OneSocket, Used

\* One chain of requests and one socket serve what is shown, for any number of products,
\* switches, closings and retries: neither a timer nor a socket of what was left goes on.
THEOREM OneRetryGoesOn == ChartFeedSpec /\ FeedSpec => []OneRetryAtATime
<1>1. ChartFeedSpec => []ChartInv
  BY ChartStart, ChartStep, PTL DEF ChartFeedSpec
<1>2. FeedSpec => []FeedInv
  BY FeedStart, FeedStep, PTL DEF FeedSpec
<1>3. ChartInv /\ FeedInv => OneRetryAtATime
  BY OneChainHolds, OneSocketHolds DEF OneRetryAtATime
<1> QED BY <1>1, <1>2, <1>3, PTL

-----------------------------------------------------------------------------
(* The watched products, the orders and the fills: whose answers change them. *)
\* An answer that is still awaited is of a product its window shows.
AnswersAwaited ==
  /\ DOMAIN booksShown = Goods /\ DOMAIN tape = Goods
  /\ \A a \in flight :
       /\ a = [window |-> a.window, kind |-> a.kind, good |-> a.good, what |-> a.what, alive |-> a.alive]
       /\ a.window \in {"rows", "ladder"}
       /\ a.alive => a.good \in Wanted(a.window)

\* A window asks anew: the answers of its last subscription are not awaited any more.
LEMMA ResubscribedAreAwaited ==
  ASSUME AnswersAwaited, NEW pane \in {"rows", "ladder"}, NEW goods, Resubscribe(pane, goods),
         \A g \in goods : g \in Wanted(pane)',
         \A w \in {"rows", "ladder"} \ {pane} : Wanted(w)' = Wanted(w)
  PROVE  AnswersAwaited' /\ ChangesAreWatched
<1>1. /\ flight' = Ended(pane) \cup AsksOf(pane, goods)
      /\ booksShown' = booksShown /\ tape' = tape
  BY DEF Resubscribe, Shown
<1>2. ASSUME NEW a \in Ended(pane)
      PROVE  /\ a = [window |-> a.window, kind |-> a.kind, good |-> a.good, what |-> a.what, alive |-> a.alive]
             /\ a.window \in {"rows", "ladder"}
             /\ a.alive => a.good \in Wanted(a.window)'
  <2>1. PICK b \in flight : a = IF b.window = pane THEN [b EXCEPT !.alive = FALSE] ELSE b
    BY DEF Ended
  <2>2. /\ b = [window |-> b.window, kind |-> b.kind, good |-> b.good, what |-> b.what, alive |-> b.alive]
        /\ b.window \in {"rows", "ladder"}
        /\ b.alive => b.good \in Wanted(b.window)
    BY DEF AnswersAwaited
  <2>3. CASE b.window = pane
    <3>1. a = [window |-> b.window, kind |-> b.kind, good |-> b.good, what |-> b.what, alive |-> FALSE]
      BY <2>1, <2>2, <2>3
    <3> QED BY <2>2, <3>1
  <2>4. CASE b.window # pane
    <3>1. a = b /\ Wanted(b.window)' = Wanted(b.window)
      BY <2>1, <2>2, <2>4
    <3> QED BY <2>2, <3>1
  <2> QED BY <2>3, <2>4
<1>3. ASSUME NEW a \in AsksOf(pane, goods)
      PROVE  /\ a = [window |-> a.window, kind |-> a.kind, good |-> a.good, what |-> a.what, alive |-> a.alive]
             /\ a.window = pane /\ a.good \in goods
  <2>1. PICK g \in goods : \E kind, what : a = AskVenue(pane, kind, g, what)
    BY DEF AsksOf
  <2>2. PICK kind, what : a = AskVenue(pane, kind, g, what)
    BY <2>1
  <2> QED BY <2>2 DEF AskVenue
<1>4. ASSUME NEW a \in flight'
      PROVE  /\ a = [window |-> a.window, kind |-> a.kind, good |-> a.good, what |-> a.what, alive |-> a.alive]
             /\ a.window \in {"rows", "ladder"}
             /\ a.alive => a.good \in Wanted(a.window)'
  <2>1. CASE a \in Ended(pane)
    BY <1>2, <2>1
  <2>2. CASE a \in AsksOf(pane, goods)
    <3>1. a.window = pane /\ a.good \in Wanted(pane)'
      BY <1>3, <2>2
    <3> QED BY <1>3, <2>2, <3>1
  <2> QED BY <1>1, <2>1, <2>2
<1>5. AnswersAwaited'
  BY <1>1, <1>4 DEF AnswersAwaited, Wanted
<1> QED BY <1>1, <1>5 DEF ChangesAreWatched

\* An answer comes: it changes what is shown of a product some window shows.
LEMMA AnsweredIsWatched ==
  ASSUME AnswersAwaited, NEW a \in flight, WatchAnswered(a)
  PROVE  AnswersAwaited' /\ ChangesAreWatched
<1>1. /\ flight' = flight \ {a} /\ UNCHANGED <<rows, ladder>>
      /\ \/ UNCHANGED <<booksShown, tape>>
         \/ a.alive /\ booksShown' = [booksShown EXCEPT ![a.good] = a.what] /\ tape' = tape
         \/ a.alive /\ tape' = [tape EXCEPT ![a.good] = FoldLeft(Pushed, @, a.what)] /\ booksShown' = booksShown
  BY DEF WatchAnswered, Taken, Shown
<1>2. /\ DOMAIN booksShown' = Goods /\ DOMAIN tape' = Goods
      /\ \A g \in Goods \ {a.good} : booksShown'[g] = booksShown[g] /\ tape'[g] = tape[g]
  BY <1>1 DEF AnswersAwaited
<1>3. AnswersAwaited'
  BY <1>1, <1>2 DEF AnswersAwaited, Wanted
<1>4. a.alive => a.window \in WindowsOf(a.good)
  BY DEF AnswersAwaited, WindowsOf
<1>5. ASSUME NEW g \in Goods, booksShown'[g] # booksShown[g] \/ tape'[g] # tape[g]
      PROVE  WindowsOf(g) # {}
  <2>1. a.alive /\ g = a.good
    BY <1>1, <1>2, <1>5
  <2> QED BY <1>4, <2>1
<1> QED BY <1>3, <1>5 DEF ChangesAreWatched

\* A book is asked for again: it is one the window shows.
LEMMA PolledIsAwaited ==
  ASSUME AnswersAwaited, NEW pane \in {"rows", "ladder"}, NEW g, PollBook(pane, g)
  PROVE  AnswersAwaited' /\ ChangesAreWatched
<1>1. PICK ask : ask = AskVenue(pane, "book", g, venueBook[g])
  OBVIOUS
<1>2. /\ ask = [window |-> ask.window, kind |-> ask.kind, good |-> ask.good, what |-> ask.what, alive |-> ask.alive]
      /\ ask.window = pane /\ ask.good = g
  BY <1>1 DEF AskVenue
<1>3. /\ flight' = flight \cup {ask} /\ g \in Wanted(pane)
      /\ UNCHANGED <<rows, ladder, booksShown, tape>>
  BY <1>1 DEF PollBook, Shown
<1>4. AnswersAwaited'
  BY <1>2, <1>3 DEF AnswersAwaited, Wanted
<1> QED BY <1>3, <1>4 DEF ChangesAreWatched

\* A step of the watched data.
LEMMA WatchStep ==
  ASSUME AnswersAwaited, [WatchNext]_watchVars
  PROVE  AnswersAwaited' /\ [ChangesAreWatched]_watchVars
<1>1. CASE UNCHANGED <<rows, ladder, flight, booksShown, tape>>
  BY <1>1 DEF AnswersAwaited, Wanted, ChangesAreWatched
<1>2. CASE ProductsArrive \/ UNCHANGED watchVars \/ \E g \in Goods : VenueTrades(g)
  BY <1>1, <1>2 DEF ProductsArrive, VenueTrades, Shown, Venue, watchVars
<1>3. ASSUME NEW w \in {"rows", "ladder"}, NEW g \in Goods, PollBook(w, g)
      PROVE  AnswersAwaited' /\ ChangesAreWatched
  BY <1>3, PolledIsAwaited
<1>4. ASSUME NEW g, AddProduct(g) \/ RemoveRow(g)
      PROVE  AnswersAwaited' /\ ChangesAreWatched
  <2>1. Resubscribe("rows", ToSet(rows')) /\ ladder' = ladder
    BY <1>4 DEF AddProduct, RemoveRow
  <2>2. Wanted("rows")' = ToSet(rows') /\ Wanted("ladder")' = Wanted("ladder")
    BY <2>1 DEF Wanted, ToSet
  <2> QED BY <2>1, <2>2, ResubscribedAreAwaited
<1>5. ASSUME NEW g, PickLadder(g)
      PROVE  AnswersAwaited' /\ ChangesAreWatched
  <2>1. Resubscribe("ladder", {g} \ {None}) /\ rows' = rows /\ ladder' = g
    BY <1>5 DEF PickLadder
  <2>2. Wanted("ladder")' = {g} \ {None} /\ Wanted("rows")' = Wanted("rows")
    BY <2>1 DEF Wanted, ToSet
  <2> QED BY <2>1, <2>2, ResubscribedAreAwaited
<1>6. ASSUME NEW a \in flight, WatchAnswered(a)
      PROVE  AnswersAwaited' /\ ChangesAreWatched
  BY <1>6, AnsweredIsWatched
<1> QED BY <1>2, <1>3, <1>4, <1>5, <1>6 DEF WatchNext, PollBooks

\* A state of orders and fills an answer can carry: the gateway's stand-in is the only
\* one without a version.
IsState(s) == /\ s = [version |-> s.version, fills |-> s.fills]
              /\ s.version = None => s = StandIn

\* What is shown and what is on its way are such states.
StatesOnTheWay ==
  /\ engine = [up |-> engine.up, version |-> engine.version, fills |-> engine.fills, outages |-> engine.outages]
  /\ engine.version \in Int
  /\ trading = [version |-> trading.version, fills |-> trading.fills]
  /\ \A call \in calls : /\ call = [kind |-> call.kind, state |-> call.state]
                         /\ IsState(call.state)
  /\ \A p \in polls : /\ p = [by |-> p.by, payload |-> p.payload]
                      /\ IsState(p.payload)

\* The states the model names.
LEMMA NamedStates ==
  ASSUME StatesOnTheWay
  PROVE  IsState(StateJson) /\ IsState(Unread)
<1>1. IsState(Unread)
  BY TradingAssumption DEF IsState, Unread, StandIn
<1>2. IsState(StandIn)
  BY DEF IsState, StandIn
<1>3. IsState(Content(engine))
  BY TradingAssumption DEF StatesOnTheWay, IsState, Content, StandIn
<1> QED BY <1>1, <1>2, <1>3 DEF StateJson

\* The exchange's own steps: it goes, it comes back, it carries out a command.
LEMMA EngineKeeps ==
  ASSUME StatesOnTheWay, NEW kind, NEW executed, Outage \/ Recovery \/ Carry(kind, executed) \/ Refuse
  PROVE  StatesOnTheWay' /\ EmptiedByACall
<1>1. PICK e : e = engine'
  OBVIOUS
<1>2. /\ e = [up |-> e.up, version |-> e.version, fills |-> e.fills, outages |-> e.outages]
      /\ e.version \in Int
  <2>1. CASE Outage
    BY <1>1, <2>1 DEF Outage, StatesOnTheWay
  <2>2. CASE Recovery
    BY <1>1, <2>2 DEF Recovery, StatesOnTheWay
  <2>3. CASE Carry(kind, executed)
    <3>1. PICK f : e = [engine EXCEPT !.version = @ + 1, !.fills = f]
      BY <1>1, <2>3 DEF Carry
    <3>2. e = [up |-> engine.up, version |-> engine.version + 1, fills |-> f, outages |-> engine.outages]
      BY <3>1 DEF StatesOnTheWay
    <3> QED BY <3>2 DEF StatesOnTheWay
  <2>4. CASE Refuse
    BY <1>1, <2>4 DEF Refuse, StatesOnTheWay
  <2> QED BY <2>1, <2>2, <2>3, <2>4
<1>3. UNCHANGED <<trading, polls>> /\ \E k : calls' \subseteq calls \cup {Routed(k)}
  BY DEF Outage, Recovery, Carry, Refuse
<1>4. \A k : Routed(k) = [kind |-> Routed(k).kind, state |-> Routed(k).state] /\ IsState(Routed(k).state)
  BY NamedStates DEF Routed
<1>5. StatesOnTheWay'
  BY <1>1, <1>2, <1>3, <1>4 DEF StatesOnTheWay
<1> QED BY <1>3, <1>5 DEF EmptiedByACall

\* An order call is read back, and its answer applied.
LEMMA CallsKeep ==
  ASSUME StatesOnTheWay, NEW call \in calls, ReadBack(call) \/ CallAnswered(call)
  PROVE  StatesOnTheWay' /\ EmptiedByACall
<1>1. CASE ReadBack(call)
  <2>1. PICK answer : answer = Answered(call.kind, StateJson)
    OBVIOUS
  <2>2. answer = [kind |-> answer.kind, state |-> answer.state] /\ IsState(answer.state)
    BY <2>1, NamedStates DEF Answered
  <2>3. calls' = (calls \ {call}) \cup {answer} /\ UNCHANGED <<engine, trading, polls>>
    BY <1>1, <2>1 DEF ReadBack
  <2> QED BY <2>2, <2>3 DEF StatesOnTheWay, EmptiedByACall
<1>2. CASE CallAnswered(call)
  <2>1. calls' = calls \ {call} /\ trading' = call.state /\ UNCHANGED <<engine, polls>>
    BY <1>2 DEF CallAnswered, SetSimTradingState
  <2>2. IsState(call.state) /\ call \in calls \ calls'
    BY <2>1 DEF StatesOnTheWay
  <2> QED BY <2>1, <2>2 DEF StatesOnTheWay, EmptiedByACall, IsState
<1> QED BY <1>1, <1>2

\* A poll asks, and its answer is applied unless it is the stand-in.
LEMMA PollsKeep ==
  ASSUME StatesOnTheWay, \/ \E by \in {"hydrator", "positions"} : Poll(by)
                         \/ \E p \in polls : HydratorAnswered(p) \/ PositionsAnswered(p)
  PROVE  StatesOnTheWay' /\ EmptiedByACall
<1>1. ASSUME NEW by, Poll(by) PROVE StatesOnTheWay' /\ EmptiedByACall
  <2>1. PICK p : p = [by |-> by, payload |-> StateJson]
    OBVIOUS
  <2>2. p = [by |-> p.by, payload |-> p.payload] /\ IsState(p.payload)
    BY <2>1, NamedStates
  <2>3. polls' = polls \cup {p} /\ UNCHANGED <<engine, trading, calls>>
    BY <1>1, <2>1 DEF Poll
  <2> QED BY <2>2, <2>3 DEF StatesOnTheWay, EmptiedByACall
<1>2. ASSUME NEW p \in polls, HydratorAnswered(p) \/ PositionsAnswered(p)
      PROVE  StatesOnTheWay' /\ EmptiedByACall
  <2>1. /\ polls' = polls \ {p} /\ UNCHANGED <<engine, calls>>
        /\ trading' = trading \/ (trading' = p.payload /\ p.payload.version # None)
    BY <1>2 DEF HydratorAnswered, PositionsAnswered, ApplySnapshot, SnapshotUnavailable, SetSimTradingState
  <2>2. IsState(p.payload)
    BY DEF StatesOnTheWay
  <2> QED BY <2>1, <2>2 DEF StatesOnTheWay, EmptiedByACall, IsState
<1> QED BY <1>1, <1>2

\* The market list hides fills.
LEMMA TrimKeeps ==
  ASSUME StatesOnTheWay, TrimFills
  PROVE  StatesOnTheWay' /\ EmptiedByACall
<1>1. PICK t : t = trading'
  OBVIOUS
<1>2. t = [version |-> trading.version, fills |-> t.fills] /\ UNCHANGED <<engine, polls, calls>>
  BY <1>1 DEF TrimFills, StatesOnTheWay
<1> QED BY <1>1, <1>2 DEF StatesOnTheWay, EmptiedByACall

\* A step of the orders and fills.
LEMMA TradingStep ==
  ASSUME StatesOnTheWay, [TradingNext]_tradingVars
  PROVE  StatesOnTheWay' /\ [EmptiedByACall]_tradingVars
<1>1. ASSUME NEW kind, NEW executed, Outage \/ Recovery \/ Carry(kind, executed) \/ Refuse
      PROVE  StatesOnTheWay' /\ EmptiedByACall
  BY <1>1, EngineKeeps
<1>2. CASE UNCHANGED tradingVars
  BY <1>2 DEF tradingVars, StatesOnTheWay, IsState
<1>3. CASE TrimFills
  BY <1>3, TrimKeeps
<1>4. CASE \E call \in calls : ReadBack(call) \/ CallAnswered(call)
  BY <1>4, CallsKeep
<1>5. CASE \/ \E by \in {"hydrator", "positions"} : Poll(by)
           \/ \E p \in polls : HydratorAnswered(p) \/ PositionsAnswered(p)
  BY <1>5, PollsKeep
<1> QED BY <1>1, <1>2, <1>3, <1>4, <1>5 DEF TradingNext, ResetSession

\* The first states.
LEMMA AnswersStart == (WatchInit => AnswersAwaited) /\ (TradingInit => StatesOnTheWay)
BY DEF WatchInit, AnswersAwaited, TradingInit, StatesOnTheWay

\* What is shown changes only by an answer for what is shown, for any number of products,
\* windows, orders and answers under way, however late: and the gateway's stand-in for a
\* missing exchange takes orders off the screen only as the answer of an order call.
THEOREM ShownByItsAnswers == ChartFeedSpec /\ WatchSpec /\ TradingSpec => AnswersOfWhatIsShown
<1>1. ChartFeedSpec => AnswersOfTheChart
  BY ChartStart, ChartStep, PTL DEF ChartFeedSpec, AnswersOfTheChart
<1>2. WatchSpec => NoAnswerAfterTheWindow
  BY AnswersStart, WatchStep, PTL DEF WatchSpec, NoAnswerAfterTheWindow
<1>3. TradingSpec => EmptiedOnlyByACall
  BY AnswersStart, TradingStep, PTL DEF TradingSpec, EmptiedOnlyByACall
<1> QED BY <1>1, <1>2, <1>3 DEF AnswersOfWhatIsShown
(***************************************************************************)
(* Windows.                                                                *)
(***************************************************************************)
\* Induction over the natural numbers, for a set of them.
LEMMA Ascends ==
  ASSUME NEW T, 0 \in T, \A n \in Nat : n \in T => n + 1 \in T
  PROVE  Nat \subseteq T
<1> DEFINE U == Nat \ T
<1> SUFFICES ASSUME U # {} PROVE FALSE
  OBVIOUS
<1>1. PICK x \in U : \A y \in U : ~ (<<y, x>> \in OpToRel(<, Nat))
  BY NatLessThanWellFounded, WFMin
<1>2. \A y \in U : ~ (y < x)
  BY <1>1 DEF OpToRel
<1>3. x \in Nat /\ x # 0 /\ x - 1 \in Nat /\ x - 1 \notin U
  BY <1>2
<1> QED
  BY <1>3

\* m is v or one of the numbers h gives the members of s, and none of them is greater.
Tops(m, s, h, v) ==
  /\ m = v \/ \E x \in s : m = h[x]
  /\ m >= v /\ \A x \in s : m >= h[x]

\* Of finitely many numbers one is the greatest, and Max finds it.
LEMMA HighestIs ==
  ASSUME NEW S, IsFiniteSet(S), NEW h \in [S -> Int], NEW v \in Int
  PROVE  LET All == {v} \cup {h[x] : x \in S}
         IN Max(All) \in Int /\ \A y \in All : Max(All) >= y
<1> DEFINE T == {n \in Nat : \A s \in SUBSET S : Cardinality(s) = n => \E m \in Int : Tops(m, s, h, v)}
<1>1. \A s \in SUBSET S : IsFiniteSet(s) /\ Cardinality(s) \in Nat
  BY FS_Subset, FS_CardinalityType
<1>2. 0 \in T
  <2>1. \A s \in SUBSET S : Cardinality(s) = 0 => s = {}
    BY <1>1, FS_EmptySet
  <2>2. Tops(v, {}, h, v)
    BY DEF Tops
  <2> QED BY <2>1, <2>2
<1>3. ASSUME NEW n \in Nat, n \in T
      PROVE  n + 1 \in T
  <2> SUFFICES ASSUME NEW s \in SUBSET S, Cardinality(s) = n + 1
               PROVE  \E m \in Int : Tops(m, s, h, v)
    OBVIOUS
  <2>1. s # {}
    BY FS_EmptySet, <1>1
  <2>2. PICK x : x \in s
    BY <2>1
  <2>3. s \ {x} \in SUBSET S /\ Cardinality(s \ {x}) = n
    <3>1. IsFiniteSet(s) /\ s \ {x} \in SUBSET S
      BY <1>1
    <3>2. Cardinality(s \ {x}) = Cardinality(s) - 1
      BY <3>1, <2>2, FS_RemoveElement
    <3> QED BY <3>1, <3>2
  <2>4. PICK k \in Int : Tops(k, s \ {x}, h, v)
    BY <1>3, <2>3
  <2>5. h[x] \in Int /\ \A y \in s : h[y] \in Int
    BY <2>2
  <2>6. CASE k >= h[x]
    BY <2>2, <2>4, <2>5, <2>6 DEF Tops
  <2>7. CASE k < h[x]
    <3>1. Tops(h[x], s, h, v)
      BY <2>2, <2>4, <2>5, <2>7 DEF Tops
    <3> QED BY <3>1, <2>5
  <2> QED BY <2>5, <2>6, <2>7
<1>4. Cardinality(S) \in T
  <2>1. Nat \subseteq T
    <3> HIDE DEF T
    <3> QED BY <1>2, <1>3, Ascends
  <2> QED BY <2>1, <1>1
<1>5. PICK m \in Int : Tops(m, S, h, v)
  BY <1>4
<1> DEFINE All == {v} \cup {h[x] : x \in S}
<1>6. m \in All /\ \A y \in All : m >= y
  BY <1>5 DEF Tops
<1>7. Max(All) \in All /\ \A y \in All : Max(All) >= y
  BY <1>6 DEF Max
<1> QED BY <1>7

\* Windows as they may be: finitely many, large enough and clear of the edge.
Frame == [x : Int, w : Int, z : Int, collapsed : BOOLEAN]

FramesFit(fs) ==
  /\ IsFiniteSet(DOMAIN fs) /\ fs \in [DOMAIN fs -> Frame]
  /\ \A i \in DOMAIN fs : fs[i].x >= MinPos /\ fs[i].w >= MinSize

Apart(fs) == \A i, j \in DOMAIN fs : fs[i].z = fs[j].z => i = j

\* The canvas reaches at least as far as the viewport.
LEMMA BoundsAre ==
  ASSUME NEW fs, FramesFit(fs), NEW v \in Int
  PROVE  Bounds(fs, v) \in Int /\ Bounds(fs, v) >= v
<1> DEFINE h == [i \in DOMAIN fs |-> fs[i].x + fs[i].w + Margin]
<1>1. h \in [DOMAIN fs -> Int]
  BY FramesAssumption DEF FramesFit, Frame
<1>2. {h[i] : i \in DOMAIN fs} = {fs[i].x + fs[i].w + Margin : i \in DOMAIN fs}
  OBVIOUS
<1>3. IsFiniteSet(DOMAIN fs)
  BY DEF FramesFit
<1>4. LET All == {v} \cup {h[x] : x \in DOMAIN fs}
      IN Max(All) \in Int /\ \A y \in All : Max(All) >= y
  <2> HIDE DEF h
  <2> QED BY <1>1, <1>3, HighestIs
<1>5. Bounds(fs, v) = Max({v} \cup {h[i] : i \in DOMAIN fs})
  BY <1>2 DEF Bounds
<1> QED
  <2> HIDE DEF h
  <2> QED BY <1>4, <1>5

\* The highest level is above every window.
LEMMA TopIs ==
  ASSUME NEW fs, FramesFit(fs)
  PROVE  TopZ(fs) \in Int /\ \A i \in DOMAIN fs : TopZ(fs) >= fs[i].z
<1> DEFINE h == [i \in DOMAIN fs |-> fs[i].z]
<1>1. h \in [DOMAIN fs -> Int]
  BY DEF FramesFit, Frame
<1>2. {h[i] : i \in DOMAIN fs} = {fs[i].z : i \in DOMAIN fs}
  OBVIOUS
<1>3. IsFiniteSet(DOMAIN fs)
  BY DEF FramesFit
<1>4. LET All == {1} \cup {h[x] : x \in DOMAIN fs}
      IN Max(All) \in Int /\ \A y \in All : Max(All) >= y
  <2> HIDE DEF h
  <2> QED BY <1>1, <1>3, HighestIs
<1>5. TopZ(fs) = Max({1} \cup {fs[i].z : i \in DOMAIN fs})
  BY DEF TopZ
<1> QED
  BY <1>2, <1>4, <1>5

\* Ranks tell apart what levels tell apart, and nothing else is changed.
LEMMA RankedIs ==
  ASSUME NEW fs, FramesFit(fs), Apart(fs)
  PROVE  /\ FramesFit(Ranked(fs)) /\ Apart(Ranked(fs))
         /\ DOMAIN Ranked(fs) = DOMAIN fs
         /\ \A i \in DOMAIN fs : Ranked(fs)[i].x = fs[i].x /\ Ranked(fs)[i].w = fs[i].w
<1> DEFINE Under(i) == {j \in DOMAIN fs : fs[j].z < fs[i].z}
           rs == Ranked(fs)
<1>1. \A i \in DOMAIN fs : IsFiniteSet(Under(i)) /\ Cardinality(Under(i)) \in Nat
  <2> SUFFICES ASSUME NEW i \in DOMAIN fs
               PROVE  IsFiniteSet(Under(i)) /\ Cardinality(Under(i)) \in Nat
    OBVIOUS
  <2>1. Under(i) \in SUBSET DOMAIN fs /\ IsFiniteSet(DOMAIN fs)
    BY DEF FramesFit
  <2> HIDE DEF Under
  <2> QED BY <2>1, FS_Subset, FS_CardinalityType
<1>2. rs = [i \in DOMAIN fs |-> [fs[i] EXCEPT !.z = 1 + Cardinality(Under(i))]]
  BY DEF Ranked
<1>3. \A i \in DOMAIN fs : fs[i] \in Frame /\ fs[i].x >= MinPos /\ fs[i].w >= MinSize
  BY DEF FramesFit
<1> HIDE DEF Under, rs
<1>4. DOMAIN rs = DOMAIN fs
  BY <1>2
<1>5. \A i \in DOMAIN fs : /\ rs[i] \in Frame /\ rs[i].x = fs[i].x /\ rs[i].w = fs[i].w
                           /\ rs[i].z = 1 + Cardinality(Under(i))
  BY <1>1, <1>2, <1>3 DEF Frame
<1>6. FramesFit(rs)
  BY <1>2, <1>3, <1>4, <1>5 DEF FramesFit
<1>7. ASSUME NEW i \in DOMAIN fs, NEW j \in DOMAIN fs, fs[i].z < fs[j].z
      PROVE  rs[i].z < rs[j].z
  <2>1. Under(i) \in SUBSET Under(j) /\ i \in Under(j) /\ i \notin Under(i)
    BY <1>3, <1>7 DEF Under, Frame
  <2>2. Cardinality(Under(i)) <= Cardinality(Under(j)) /\ Cardinality(Under(i)) # Cardinality(Under(j))
    BY <2>1, <1>1, FS_Subset
  <2> QED BY <2>2, <1>1, <1>5
<1>8. Apart(rs)
  <2> SUFFICES ASSUME NEW i \in DOMAIN fs, NEW j \in DOMAIN fs, rs[i].z = rs[j].z PROVE i = j
    BY <1>4 DEF Apart
  <2>1. fs[i].z \in Int /\ fs[j].z \in Int /\ rs[i].z \in Int /\ rs[j].z \in Int
    BY <1>3, <1>5 DEF Frame
  <2>2. ~(fs[i].z < fs[j].z) /\ ~(fs[j].z < fs[i].z)
    BY <1>7, <2>1
  <2>3. fs[i].z = fs[j].z
    BY <2>1, <2>2
  <2> QED BY <2>3 DEF Apart
<1> QED BY <1>4, <1>5, <1>6, <1>8 DEF rs

\* What a pan is kept to.
Inside(p, fs, v) == p \in Nat /\ p <= Greater(0, Bounds(fs, v) - v)

\* A pan is kept so.
LEMMA PannedIs ==
  ASSUME NEW fs, FramesFit(fs), NEW v \in Int, NEW p \in Int
  PROVE  Inside(Panned(p, fs, v), fs, v)
<1>1. PICK b \in Int : b = Bounds(fs, v) /\ b >= v
  BY BoundsAre
<1> QED BY <1>1 DEF Inside, Panned, ClampLow, Greater, Lesser

-----------------------------------------------------------------------------
\* A gesture began at a window that is still there.
GestureFits ==
  /\ pointer \in Int
  /\ edgeAt # None => edgeAt \in Int
  /\ gesture # None =>
       /\ gesture.id \in DOMAIN frames
       /\ gesture.x \in Int /\ gesture.w \in Int /\ gesture.at \in Int /\ gesture.pan \in Int
       /\ gesture.x >= MinPos /\ gesture.w >= MinSize

\* The windows are apart, and the pan shows some of the canvas.
DesktopFits ==
  /\ FramesFit(frames) /\ Apart(frames)
  /\ view \in Views /\ Inside(pan, frames, view)

FramesInv == DesktopFits /\ GestureFits /\ FarSideStays

\* The types that the arithmetic below needs.
LEMMA DesktopTypes ==
  ASSUME DesktopFits
  PROVE  /\ view \in Int /\ view > 0 /\ pan \in Int /\ IsFiniteSet(DOMAIN frames)
         /\ \A i \in DOMAIN frames : /\ frames[i] \in Frame /\ frames[i].x \in Int /\ frames[i].w \in Int
                                     /\ frames[i].x >= MinPos /\ frames[i].w >= MinSize
         /\ MinPos \in Int /\ MinPos >= 0 /\ MinSize \in Int /\ MinSize >= 1 /\ MaxSize \in Int
         /\ MaxSize >= MinSize /\ Offset \in Int /\ Offset >= 0
BY FramesAssumption DEF DesktopFits, FramesFit, Inside, Frame

\* Whatever windows and viewport a render is given, it leaves them apart and the pan inside.
LEMMA RenderFits ==
  ASSUME DesktopFits, NEW fs, FramesFit(fs), Apart(fs), NEW v \in Views, Render(fs, v)
  PROVE  /\ DesktopFits' /\ DOMAIN frames' = DOMAIN fs
         /\ \A i \in DOMAIN fs : frames'[i].x = fs[i].x /\ frames'[i].w = fs[i].w
<1>1. v \in Int /\ view \in Int /\ pan \in Int
  BY DesktopTypes, FramesAssumption
<1>2. /\ FramesFit(Ranked(fs)) /\ Apart(Ranked(fs))
      /\ DOMAIN Ranked(fs) = DOMAIN fs
      /\ \A i \in DOMAIN fs : Ranked(fs)[i].x = fs[i].x /\ Ranked(fs)[i].w = fs[i].w
  BY RankedIs
<1>3. frames' = Ranked(fs) /\ view' = v
  BY DEF Render
<1>4. Bounds(Ranked(fs), v) = Bounds(fs, v)
  <2>1. {Ranked(fs)[i].x + Ranked(fs)[i].w + Margin : i \in DOMAIN Ranked(fs)}
          = {fs[i].x + fs[i].w + Margin : i \in DOMAIN fs}
    BY <1>2
  <2> QED BY <2>1 DEF Bounds
<1>5. Inside(pan', fs, v)
  <2>1. CASE Bounds(fs, v) # Bounds(frames, view) \/ v # view
    BY <2>1, <1>1, PannedIs DEF Render
  <2>2. CASE Bounds(fs, v) = Bounds(frames, view) /\ v = view
    BY <2>2 DEF Render, DesktopFits, Inside
  <2> QED BY <2>1, <2>2
<1>6. Inside(pan', frames', view')
  BY <1>3, <1>4, <1>5 DEF Inside
<1> QED BY <1>2, <1>3, <1>6 DEF DesktopFits

\* Windows that get another level, position or size one at a time.
LEMMA OneMoved ==
  ASSUME DesktopFits, NEW i \in DOMAIN frames, NEW f \in Frame,
         f.x >= MinPos, f.w >= MinSize, f.z = frames[i].z \/ f.z > TopZ(frames)
  PROVE  /\ FramesFit([frames EXCEPT ![i] = f]) /\ Apart([frames EXCEPT ![i] = f])
         /\ DOMAIN [frames EXCEPT ![i] = f] = DOMAIN frames
<1> DEFINE fs == [frames EXCEPT ![i] = f]
<1>1. DOMAIN fs = DOMAIN frames /\ fs[i] = f /\ \A j \in DOMAIN frames : j # i => fs[j] = frames[j]
  OBVIOUS
<1>2. \A j \in DOMAIN frames : frames[j] \in Frame /\ frames[j].x >= MinPos /\ frames[j].w >= MinSize
  BY DEF DesktopFits, FramesFit
<1>3. \A j \in DOMAIN frames : TopZ(frames) >= frames[j].z
  BY TopIs DEF DesktopFits
<1>4. TopZ(frames) \in Int /\ f.z \in Int /\ \A j \in DOMAIN frames : frames[j].z \in Int
  BY <1>2, TopIs DEF DesktopFits, Frame
<1>5. FramesFit(fs)
  BY <1>1, <1>2 DEF DesktopFits, FramesFit
<1>6. \A j \in DOMAIN frames : j # i => frames[j].z # f.z
  <2> SUFFICES ASSUME NEW j \in DOMAIN frames, j # i, frames[j].z = f.z PROVE FALSE
    OBVIOUS
  <2>1. CASE f.z = frames[i].z
    BY <2>1 DEF DesktopFits, Apart
  <2>2. CASE f.z > TopZ(frames)
    BY <2>2, <1>3, <1>4
  <2> QED BY <2>1, <2>2
<1>7. Apart(fs)
  <2> HIDE DEF fs
  <2> QED BY <1>1, <1>6 DEF DesktopFits, Apart
<1> QED BY <1>1, <1>5, <1>7

\* bringForward puts a window in front and leaves it where it is.
LEMMA RaisedIs ==
  ASSUME DesktopFits, NEW i \in DOMAIN frames
  PROVE  /\ FramesFit(Raised(i)) /\ Apart(Raised(i)) /\ DOMAIN Raised(i) = DOMAIN frames
         /\ \A j \in DOMAIN frames : Raised(i)[j].x = frames[j].x /\ Raised(i)[j].w = frames[j].w
<1> DEFINE f == [frames[i] EXCEPT !.z = TopZ(frames) + 1]
<1>1. TopZ(frames) \in Int /\ frames[i] \in Frame
  BY TopIs, DesktopTypes DEF DesktopFits
<1>2. /\ f \in Frame /\ f.x = frames[i].x /\ f.w = frames[i].w
      /\ f.z > TopZ(frames)
  BY <1>1 DEF Frame
<1>3. f.x >= MinPos /\ f.w >= MinSize
  BY <1>2, DesktopTypes
<1>4. Raised(i) = [frames EXCEPT ![i] = f]
  BY DEF Raised
<1> HIDE DEF f
<1>5. FramesFit(Raised(i)) /\ Apart(Raised(i)) /\ DOMAIN Raised(i) = DOMAIN frames
  BY <1>2, <1>3, <1>4, OneMoved
<1> QED BY <1>2, <1>4, <1>5

\* A press on a window, on its bar or on a handle.
LEMMA PressKeeps ==
  ASSUME FramesInv, NEW i \in DOMAIN frames, NEW kind, Start(i, kind) \/ Activate(i)
  PROVE  FramesInv'
<1>1. DesktopFits /\ view \in Views
  BY DEF FramesInv, DesktopFits
<1>2. Render(Raised(i), view) /\ gesture = None
  BY DEF Start, Activate
<1>3. /\ DesktopFits' /\ DOMAIN frames' = DOMAIN frames
      /\ \A j \in DOMAIN frames : frames'[j].x = frames[j].x /\ frames'[j].w = frames[j].w
  BY <1>1, <1>2, RaisedIs, RenderFits
<1>4. CASE Activate(i)
  BY <1>2, <1>3, <1>4 DEF Activate, FramesInv, GestureFits, FarSideStays
<1>5. CASE Start(i, kind)
  <2>1. /\ gesture' = [id |-> i, kind |-> kind, at |-> PressAt(i, kind),
                       x |-> frames[i].x, w |-> frames[i].w, pan |-> pan]
        /\ pointer' = PressAt(i, kind) /\ edgeAt' = edgeAt
    BY <1>5 DEF Start
  <2>2. PressAt(i, kind) \in Int
    BY <1>1, DesktopTypes DEF PressAt
  <2>3. GestureFits'
    BY <2>1, <2>2, <1>1, <1>3, DesktopTypes DEF GestureFits, FramesInv
  <2>4. FarSideStays'
    BY <2>1, <1>3 DEF FarSideStays
  <2> QED BY <1>3, <2>3, <2>4 DEF FramesInv
<1> QED BY <1>4, <1>5

\* A frame of a drag.
LEMMA DragFrameKeeps ==
  ASSUME FramesInv, DragFrame
  PROVE  FramesInv'
<1> DEFINE i == gesture.id
           f == [frames[i] EXCEPT !.x = DraggedTo]
<1>1. DesktopFits /\ view \in Views /\ i \in DOMAIN frames /\ gesture.kind = "drag" /\ gesture # None
  BY DEF FramesInv, DesktopFits, DragFrame, GestureFits
<1>2. DraggedTo \in Int /\ DraggedTo >= MinPos
  BY <1>1, DesktopTypes DEF FramesInv, GestureFits, DraggedTo, Greater
<1>3. f \in Frame /\ f.x >= MinPos /\ f.w >= MinSize /\ f.z = frames[i].z
  BY <1>1, <1>2, DesktopTypes DEF Frame
<1>4. [frames EXCEPT ![gesture.id].x = DraggedTo] = [frames EXCEPT ![i] = f]
  OBVIOUS
<1> HIDE DEF f, i
<1>5. FramesFit([frames EXCEPT ![i] = f]) /\ Apart([frames EXCEPT ![i] = f])
      /\ DOMAIN [frames EXCEPT ![i] = f] = DOMAIN frames
  BY <1>1, <1>3, OneMoved
<1>6. Render([frames EXCEPT ![i] = f], view) /\ UNCHANGED <<gesture, pointer, edgeAt>>
  BY <1>4 DEF DragFrame
<1>7. DesktopFits' /\ DOMAIN frames' = DOMAIN frames
  BY <1>1, <1>5, <1>6, RenderFits
<1> QED
  BY <1>1, <1>6, <1>7 DEF FramesInv, GestureFits, FarSideStays

\* A resize moves the side that is held, within its limits.
LEMMA ResizedIs ==
  ASSUME FramesInv, gesture # None, gesture.kind # "drag", NEW moved \in Int
  PROVE  LET f == Resized(frames[gesture.id], moved)
         IN /\ f \in Frame /\ f.x >= MinPos /\ f.w >= MinSize /\ f.z = frames[gesture.id].z
            /\ gesture.kind = "west" => f.x + f.w = gesture.x + gesture.w
            /\ gesture.kind = "east" => f.x = gesture.x
<1>1. DesktopFits /\ gesture.id \in DOMAIN frames
  BY DEF FramesInv, GestureFits
<1>2. PICK o \in Frame : o = frames[gesture.id] /\ o.x >= MinPos /\ o.w >= MinSize
  BY <1>1, DesktopTypes
<1>3. /\ gesture.x \in Int /\ gesture.w \in Int /\ gesture.x >= MinPos /\ gesture.w >= MinSize
      /\ MinPos \in Int /\ MinSize \in Int /\ MaxSize \in Int /\ MaxSize >= MinSize
  BY <1>1, DesktopTypes DEF FramesInv, GestureFits
<1>4. gesture.kind = "east" => o.x = gesture.x
  BY <1>1, <1>2 DEF FramesInv, FarSideStays
<1>5. CASE gesture.kind = "east"
  <2> PICK w \in Int : w = ClampLow(gesture.w + moved, MinSize, MaxSize) /\ w >= MinSize
    BY <1>3 DEF ClampLow, Greater, Lesser
  <2>1. Resized(o, moved) = [o EXCEPT !.w = w]
    BY <1>5 DEF Resized
  <2> QED BY <2>1, <1>2, <1>4, <1>5 DEF Frame
<1>6. CASE gesture.kind # "east"
  <2> PICK by \in Int : /\ by = ClampLow(moved, MinPos - gesture.x, gesture.w - MinSize)
                        /\ by >= MinPos - gesture.x /\ by <= gesture.w - MinSize
    BY <1>3 DEF ClampLow, Greater, Lesser
  <2>1. Resized(o, moved) = [o EXCEPT !.x = gesture.x + by, !.w = gesture.w - by]
    BY <1>6 DEF Resized
  <2>2. gesture.x + by >= MinPos /\ gesture.w - by >= MinSize
        /\ (gesture.x + by) + (gesture.w - by) = gesture.x + gesture.w
    BY <1>3
  <2> PICK x \in Int, w \in Int : x = gesture.x + by /\ w = gesture.w - by
    BY <1>3
  <2>3. PICK f \in Frame : f = [o EXCEPT !.x = x, !.w = w]
    BY <1>2 DEF Frame
  <2>4. f.x = x /\ f.w = w /\ f.z = o.z
    BY <2>3, <1>2 DEF Frame
  <2>5. Resized(frames[gesture.id], moved) = f
    BY <2>1, <2>3, <1>2
  <2> QED BY <2>2, <2>4, <2>5, <1>2, <1>6
<1> QED BY <1>5, <1>6

\* A gesture goes on.
LEMMA MoveGestureKeeps ==
  ASSUME FramesInv, NEW p \in 0..view, MoveGesture(p)
  PROVE  FramesInv'
<1>1. DesktopFits /\ view \in Views /\ p \in Int
  BY DesktopTypes DEF FramesInv, DesktopFits
<1>2. gesture # None /\ gesture' = gesture /\ pointer' = p /\ (edgeAt' = None \/ edgeAt' = p)
  BY DEF MoveGesture, EdgeFor
<1>3. gesture.id \in DOMAIN frames /\ gesture.at \in Int /\ gesture.pan \in Int /\ pan \in Int
  BY <1>1, <1>2, DesktopTypes DEF FramesInv, GestureFits
<1>4. CASE gesture.kind = "drag"
  BY <1>1, <1>2, <1>4
     DEF MoveGesture, FramesInv, DesktopFits, GestureFits, FarSideStays
<1>5. CASE gesture.kind # "drag"
  <2> DEFINE moved == p - gesture.at + (pan - gesture.pan)
             f == Resized(frames[gesture.id], moved)
             fs == [frames EXCEPT ![gesture.id] = f]
  <2>1. moved \in Int
    BY <1>1, <1>3
  <2>2. Render(fs, view)
    BY <1>5 DEF MoveGesture
  <2> HIDE DEF moved
  <2>3. /\ f \in Frame /\ f.x >= MinPos /\ f.w >= MinSize /\ f.z = frames[gesture.id].z
        /\ gesture.kind = "west" => f.x + f.w = gesture.x + gesture.w
        /\ gesture.kind = "east" => f.x = gesture.x
    BY <1>2, <1>5, <2>1, ResizedIs
  <2> HIDE DEF f
  <2>4. FramesFit(fs) /\ Apart(fs) /\ DOMAIN fs = DOMAIN frames
    BY <1>1, <1>3, <2>3, OneMoved
  <2>5. fs[gesture.id] = f
    BY <1>3
  <2> HIDE DEF fs
  <2>6. /\ DesktopFits' /\ DOMAIN frames' = DOMAIN frames
        /\ frames'[gesture.id].x = f.x /\ frames'[gesture.id].w = f.w
    BY <1>1, <1>3, <2>2, <2>4, <2>5, RenderFits
  <2>7. GestureFits'
    BY <1>1, <1>2, <2>6 DEF FramesInv, GestureFits
  <2>8. FarSideStays'
    BY <1>2, <2>3, <2>6 DEF FarSideStays
  <2> QED BY <2>6, <2>7, <2>8 DEF FramesInv
<1> QED BY <1>4, <1>5

\* The pan moves under a wheel or an edge, and nothing else does.
LEMMA PanKeeps ==
  ASSUME FramesInv, EdgeStep \/ \E d \in {-2, 2} : Wheel(d)
  PROVE  FramesInv'
<1>1. DesktopFits /\ view \in Int /\ pan \in Int /\ FramesFit(frames)
  BY DesktopTypes DEF FramesInv, DesktopFits
<1>2. UNCHANGED <<frames, view, gesture, pointer>> /\ (edgeAt' = edgeAt \/ edgeAt' = None)
  BY DEF EdgeStep, Wheel
<1>3. pan' = pan \/ \E p \in Int : pan' = Panned(p, frames, view)
  <2>1. pan + 1 \in Int /\ pan - 1 \in Int /\ \A d \in {-2, 2} : pan + d \in Int
    BY <1>1
  <2>2. CASE EdgeStep
    BY <2>1, <2>2 DEF EdgeStep
  <2>3. CASE \E d \in {-2, 2} : Wheel(d)
    BY <2>1, <2>3 DEF Wheel
  <2> QED BY <2>2, <2>3
<1>4. Inside(pan', frames, view)
  BY <1>1, <1>3, PannedIs DEF DesktopFits
<1>5. DesktopFits'
  BY <1>1, <1>2, <1>4 DEF DesktopFits, Inside, FramesFit, Apart
<1> QED
  BY <1>2, <1>5 DEF FramesInv, GestureFits, FarSideStays

\* A gesture ends, or there is none.
LEMMA PointerKeeps ==
  ASSUME FramesInv, PointerUp \/ \E p \in 0..view : Hover(p)
  PROVE  FramesInv'
<1>1. view \in Int
  BY DesktopTypes DEF FramesInv
<1>2. UNCHANGED <<frames, view, pan>>
  BY DEF PointerUp, Hover
<1>3. DesktopFits'
  BY <1>2 DEF FramesInv, DesktopFits, Inside, FramesFit, Apart
<1>4. GestureFits' /\ FarSideStays'
  BY <1>1, <1>2 DEF PointerUp, Hover, FramesInv, GestureFits, FarSideStays
<1> QED BY <1>3, <1>4 DEF FramesInv

\* Without a gesture, what a render is given is what there is.
LEMMA QuietRenderKeeps ==
  ASSUME FramesInv, NEW fs, FramesFit(fs), Apart(fs), NEW v \in Views, Render(fs, v),
         gesture = None, UNCHANGED <<gesture, pointer, edgeAt>>
  PROVE  FramesInv'
<1>1. DesktopFits'
  BY RenderFits DEF FramesInv
<1> QED BY <1>1 DEF FramesInv, GestureFits, FarSideStays

\* A window is collapsed or closed, or the viewport resized.
LEMMA SettingKeeps ==
  ASSUME FramesInv, \/ \E i \in DOMAIN frames : ToggleCollapse(i) \/ CloseFrame(i)
                    \/ \E v \in Views : ResizeView(v)
  PROVE  FramesInv'
<1>1. DesktopFits /\ view \in Views /\ FramesFit(frames) /\ Apart(frames)
  BY DEF FramesInv, DesktopFits
<1>2. ASSUME NEW i \in DOMAIN frames, ToggleCollapse(i) PROVE FramesInv'
  <2> DEFINE f == [frames[i] EXCEPT !.collapsed = ~@]
  <2>1. f \in Frame /\ f.x >= MinPos /\ f.w >= MinSize /\ f.z = frames[i].z
    BY <1>1, DesktopTypes DEF Frame
  <2>2. Render([frames EXCEPT ![i] = f], view) /\ gesture = None
        /\ UNCHANGED <<gesture, pointer, edgeAt>>
    BY <1>2 DEF ToggleCollapse
  <2> HIDE DEF f
  <2>3. FramesFit([frames EXCEPT ![i] = f]) /\ Apart([frames EXCEPT ![i] = f])
    BY <1>1, <2>1, OneMoved
  <2> QED BY <1>1, <2>2, <2>3, QuietRenderKeeps
<1>3. ASSUME NEW i \in DOMAIN frames, CloseFrame(i) PROVE FramesInv'
  <2> DEFINE fs == [j \in DOMAIN frames \ {i} |-> frames[j]]
  <2>1. FramesFit(fs)
    <3>1. IsFiniteSet(DOMAIN frames \ {i})
      BY <1>1, DesktopTypes, FS_RemoveElement
    <3> QED BY <1>1, <3>1 DEF FramesFit
  <2>2. Apart(fs)
    BY <1>1 DEF Apart
  <2>3. Render(fs, view) /\ gesture = None /\ UNCHANGED <<gesture, pointer, edgeAt>>
    BY <1>3 DEF CloseFrame
  <2> HIDE DEF fs
  <2> QED BY <1>1, <2>1, <2>2, <2>3, QuietRenderKeeps
<1>4. ASSUME NEW v \in Views, ResizeView(v) PROVE FramesInv'
  BY <1>1, <1>4, QuietRenderKeeps DEF ResizeView
<1> QED BY <1>2, <1>3, <1>4

\* A window more is put in front of the others.
LEMMA PlacedKeeps ==
  ASSUME FramesInv, gesture = None, NEW i, i \notin DOMAIN frames, NEW x \in Int, NEW w \in Int,
         x >= MinPos, w >= MinSize, Placed(i, x, w), UNCHANGED <<gesture, pointer, edgeAt>>
  PROVE  FramesInv'
<1> DEFINE f == [x |-> x, w |-> w, z |-> TopZ(frames) + 1, collapsed |-> FALSE]
           fs == [j \in DOMAIN frames \cup {i} |-> IF j = i THEN f ELSE frames[j]]
<1>1. DesktopFits /\ view \in Views /\ FramesFit(frames) /\ Apart(frames)
  BY DEF FramesInv, DesktopFits
<1>2. TopZ(frames) \in Int /\ \A j \in DOMAIN frames : TopZ(frames) >= frames[j].z
  BY <1>1, TopIs
<1>3. f \in Frame /\ f.x = x /\ f.w = w /\ f.z = TopZ(frames) + 1
  BY <1>2 DEF Frame
<1>4. Render(fs, view)
  BY DEF Placed
<1> HIDE DEF f
<1>5. IsFiniteSet(DOMAIN frames \cup {i})
  BY <1>1, DesktopTypes, FS_AddElement
<1>6. \A j \in DOMAIN frames : frames[j] \in Frame /\ frames[j].x >= MinPos /\ frames[j].w >= MinSize
  BY <1>1 DEF FramesFit
<1>7. /\ DOMAIN fs = DOMAIN frames \cup {i} /\ fs[i] = f
      /\ \A j \in DOMAIN frames : fs[j] = frames[j]
  OBVIOUS
<1>8. FramesFit(fs)
  BY <1>3, <1>5, <1>6, <1>7 DEF FramesFit
<1> HIDE DEF fs
<1>9. Apart(fs)
  <2>1. \A j \in DOMAIN frames : frames[j].z # f.z /\ frames[j].z \in Int
    BY <1>2, <1>3, <1>6 DEF Frame
  <2> QED BY <1>1, <1>7, <2>1 DEF Apart
<1> QED BY <1>1, <1>4, <1>8, <1>9, QuietRenderKeeps

\* A window is added or cloned.
LEMMA MoreKeeps ==
  ASSUME FramesInv, AddFrame \/ \E i \in DOMAIN frames : CloneFrame(i)
  PROVE  FramesInv'
<1>1. DesktopFits
  BY DEF FramesInv
<1>2. pan \in Nat
  BY <1>1 DEF DesktopFits, Inside
<1>3. CASE AddFrame
  <2>1. /\ pan + MinPos + 1 \in Int /\ pan + MinPos + 1 >= MinPos
        /\ MinSize \in Int /\ MinSize >= MinSize
    BY <1>1, <1>2, DesktopTypes
  <2>2. PICK new \in Ids \ DOMAIN frames : Placed(new, pan + MinPos + 1, MinSize)
    BY <1>3 DEF AddFrame
  <2>3. gesture = None /\ UNCHANGED <<gesture, pointer, edgeAt>>
    BY <1>3 DEF AddFrame
  <2> QED BY <2>1, <2>2, <2>3, PlacedKeeps
<1>4. ASSUME NEW i \in DOMAIN frames, CloneFrame(i) PROVE FramesInv'
  <2> DEFINE x == Greater(MinPos, frames[i].x + Offset)
  <2>1. x \in Int /\ x >= MinPos /\ frames[i].w \in Int /\ frames[i].w >= MinSize
    BY <1>1, DesktopTypes DEF Greater
  <2>2. PICK new \in Ids \ DOMAIN frames : Placed(new, x, frames[i].w)
    BY <1>4 DEF CloneFrame
  <2>3. gesture = None /\ UNCHANGED <<gesture, pointer, edgeAt>>
    BY <1>4 DEF CloneFrame
  <2> HIDE DEF x
  <2> QED BY <2>1, <2>2, <2>3, PlacedKeeps
<1> QED BY <1>3, <1>4

\* The desktop opens with two windows apart.
LEMMA FramesStart == FramesInit => FramesInv
<1> SUFFICES ASSUME FramesInit PROVE FramesInv
  OBVIOUS
<1>1. PICK first, second :
        first \in Ids /\ second \in Ids /\ first # second /\ frames = DefaultFrames(first, second)
  BY DEF FramesInit
<1>2. MinPos \in Nat /\ MinSize \in Nat \ {0}
  BY FramesAssumption
<1>3. DOMAIN frames = {first, second} /\ IsFiniteSet(DOMAIN frames)
  <2>1. IsFiniteSet({first}) /\ {first, second} = {first} \cup {second}
    BY FS_Singleton
  <2>2. IsFiniteSet({first} \cup {second})
    BY <2>1, FS_AddElement
  <2> QED BY <1>1, <2>1, <2>2 DEF DefaultFrames
<1>4. FramesFit(frames) /\ Apart(frames)
  BY <1>1, <1>2, <1>3 DEF FramesFit, Apart, DefaultFrames, Frame
<1>5. view \in Views /\ view \in Int /\ pan = 0 /\ gesture = None /\ pointer = 0 /\ edgeAt = None
  BY FramesAssumption DEF FramesInit
<1>6. Inside(0, frames, view)
  <2>1. PICK b \in Int : b = Bounds(frames, view) /\ b >= view
    BY <1>4, <1>5, BoundsAre
  <2> QED BY <2>1, <1>5 DEF Inside, Greater
<1> QED BY <1>4, <1>5, <1>6 DEF FramesInv, DesktopFits, GestureFits, FarSideStays

\* The windows of the desktop stay in reach, for every number of windows, every size
\* and viewport, and however gestures, wheels and closings follow one another.
THEOREM WindowsAreInReach == FramesSpec => []WindowsStayInReach
<1>1. FramesInit => FramesInv
  BY FramesStart
<1>2. FramesInv /\ [FramesNext]_frameVars => FramesInv'
  <2> SUFFICES ASSUME FramesInv, [FramesNext]_frameVars PROVE FramesInv'
    OBVIOUS
  <2>1. CASE \E i \in DOMAIN frames : Activate(i) \/ CloseFrame(i) \/ CloneFrame(i)
    BY <2>1, PressKeeps, SettingKeeps, MoreKeeps
  <2>2. CASE \E i \in DOMAIN frames \cap Held : \/ StartDrag(i) \/ ToggleCollapse(i)
                                       \/ StartResize(i, "east") \/ StartResize(i, "west")
    <3> PICK i \in DOMAIN frames : \/ Start(i, "drag") \/ Start(i, "east") \/ Start(i, "west")
                                   \/ ToggleCollapse(i)
      BY <2>2 DEF StartDrag, StartResize
    <3> QED BY PressKeeps, SettingKeeps
  <2>3. CASE \E p \in 0..view : MoveGesture(p) \/ Hover(p)
    BY <2>3, MoveGestureKeeps, PointerKeeps
  <2>4. CASE (\E d \in {-2, 2} : Wheel(d)) \/ EdgeStep
    BY <2>4, PanKeeps
  <2>5. CASE (\E v \in Views : ResizeView(v))
    BY <2>5, SettingKeeps
  <2>6. CASE DragFrame \/ PointerUp \/ AddFrame
    BY <2>6, DragFrameKeeps, PointerKeeps, MoreKeeps
  <2>7. CASE UNCHANGED frameVars
    BY <2>7 DEF frameVars, FramesInv, DesktopFits, GestureFits, FarSideStays, Inside, FramesFit, Apart
  <2> QED BY <2>1, <2>2, <2>3, <2>4, <2>5, <2>6, <2>7 DEF FramesNext
<1>3. FramesInv => WindowsStayInReach
  BY DEF FramesInv, DesktopFits, FramesFit, Apart, Inside, WindowsStayInReach, FramesTypeOK,
         PanInsideCanvas, OneWindowPerLevel
<1> QED BY <1>1, <1>2, <1>3, PTL DEF FramesSpec
=============================================================================
