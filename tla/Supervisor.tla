------------------------------ MODULE Supervisor ------------------------------
(***************************************************************************)
(* The host service (native/cerious-host-cpp/src/host_service.cpp): a loop *)
(* that asks the exchange and the gateway how they are, restarts the one   *)
(* that is gone or has failed three times, and ends both when the service  *)
(* is stopped.  The service itself may crash; Windows starts it again, and *)
(* what it had started goes on without it.                                 *)
(*                                                                         *)
(* A child takes StartRounds rounds of the loop to answer.  Crashes, hangs *)
(* and failed starts are bounded together by MaxFaults.                    *)
(***************************************************************************)
EXTENDS Naturals

CONSTANTS StartRounds, Patience, MaxFaults

\* A child that is started answers before its failures run out.
ASSUME SupervisorAssumption ==
  /\ Patience \in Nat \ {0} /\ StartRounds \in 1 .. Patience /\ MaxFaults \in Nat

VARIABLES
  supAt,      \* where run() is; "crashed" and "stopped" outside of it
  children,   \* the process behind each handle
  rounds,     \* rounds a starting child still needs
  healthy,    \* exchange_ok and gateway_ok
  failures,   \* exchange_failures and gateway_failures
  stopAsked,  \* stop_
  orphans,    \* processes that hold a service's port and that no handle names
  faults

supervisorVars == <<supAt, children, rounds, healthy, failures, stopAsked, orphans, faults>>

Services == {"exchange", "gateway"}
Alive == {"starting", "serving", "hung"}

\* exchange_healthy and gateway_healthy: whoever holds the port answers.
Answers(s) == children[s] = "serving" \/ orphans[s] = "serving"

NoProcess == [s \in Services |-> "none"]
NoCount == [s \in Services |-> 0]
NoProbe == [s \in Services |-> FALSE]

SupervisorInit ==
  /\ supAt = "probe" /\ stopAsked = FALSE
  /\ children = NoProcess /\ rounds = NoCount
  /\ healthy = NoProbe /\ failures = NoCount
  /\ orphans = NoProcess /\ faults = 0

\* Both probes, of a loop that was not told to stop.
Probe ==
  /\ supAt = "probe"
  /\ IF stopAsked THEN supAt' = "closing" /\ UNCHANGED healthy
     ELSE supAt' = "exchange" /\ healthy' = [s \in Services |-> Answers(s)]
  /\ UNCHANGED <<children, rounds, failures, stopAsked, orphans, faults>>

\* restart_exchange and restart_gateway: the old process is ended first.  A start
\* that fails leaves no process.
RestartChild(s) ==
  \/ /\ children' = [children EXCEPT ![s] = "starting"]
     /\ rounds' = [rounds EXCEPT ![s] = StartRounds]
     /\ UNCHANGED <<orphans, faults>>
  \/ /\ faults < MaxFaults /\ faults' = faults + 1
     /\ children' = [children EXCEPT ![s] = "none"]
     /\ UNCHANGED <<rounds, orphans>>

After(s) == IF s = "exchange" THEN "gateway" ELSE "sleep"

\* Mutant: the failures are not forgotten with a restart.
TendRemembering(s) ==
  LET failed == IF healthy[s] THEN 0 ELSE IF failures[s] = Patience THEN Patience ELSE failures[s] + 1 IN
  /\ supAt = s /\ supAt' = After(s)
  /\ failures' = [failures EXCEPT ![s] = failed]
  /\ IF failed > 0 /\ (children[s] \notin Alive \/ failed >= Patience)
     THEN RestartChild(s) ELSE UNCHANGED <<children, rounds, orphans, faults>>
  /\ UNCHANGED <<healthy, stopAsked>>

\* What the loop does about one service's probe.
Tend(s) ==
  LET failed == IF healthy[s] THEN 0 ELSE failures[s] + 1 IN
  /\ supAt = s /\ supAt' = After(s)
  /\ IF failed > 0 /\ (children[s] \notin Alive \/ failed >= Patience)
     THEN RestartChild(s) /\ failures' = [failures EXCEPT ![s] = 0]
     ELSE failures' = [failures EXCEPT ![s] = failed] /\ UNCHANGED <<children, rounds, orphans, faults>>
  /\ UNCHANGED <<healthy, stopAsked>>

\* A child after a round: it answers at last, or finds its port taken and exits.
Grown(s) == IF children[s] # "starting" \/ rounds[s] > 1 THEN children[s]
            ELSE IF orphans[s] = "none" THEN "serving" ELSE "exited"

\* The five seconds between two rounds.
Sleep ==
  /\ supAt = "sleep" /\ supAt' = "probe"
  /\ children' = [s \in Services |-> Grown(s)]
  /\ rounds' = [s \in Services |-> IF rounds[s] = 0 THEN 0 ELSE rounds[s] - 1]
  /\ UNCHANGED <<healthy, failures, stopAsked, orphans, faults>>

\* The end of run(): terminate_child of both.
Finish ==
  /\ supAt = "closing" /\ supAt' = "stopped"
  /\ children' = [s \in Services |-> "none"]
  /\ UNCHANGED <<rounds, healthy, failures, stopAsked, orphans, faults>>

\* service_control_handler.
RequestStop ==
  /\ supAt \notin {"stopped", "crashed"} /\ ~stopAsked
  /\ stopAsked' = TRUE
  /\ UNCHANGED <<supAt, children, rounds, healthy, failures, orphans, faults>>

\* A child, or a process no handle names, hangs or exits.
ProcessFails(s) ==
  /\ faults < MaxFaults /\ faults' = faults + 1
  /\ \/ /\ children[s] = "serving" /\ children' = [children EXCEPT ![s] = "hung"] /\ UNCHANGED orphans
     \/ /\ children[s] \in Alive /\ children' = [children EXCEPT ![s] = "exited"] /\ UNCHANGED orphans
     \/ /\ orphans[s] = "serving" /\ orphans' = [orphans EXCEPT ![s] = "hung"] /\ UNCHANGED children
     \/ /\ orphans[s] # "none" /\ orphans' = [orphans EXCEPT ![s] = "none"] /\ UNCHANGED children
  /\ UNCHANGED <<supAt, rounds, healthy, failures, stopAsked>>

\* The service's process ends without its loop; its children go on.
ServiceCrashes ==
  /\ faults < MaxFaults /\ faults' = faults + 1
  /\ supAt \notin {"stopped", "crashed"}
  /\ orphans' = [s \in Services |-> IF orphans[s] # "none" \/ children[s] \notin Alive THEN orphans[s]
                                    ELSE IF children[s] = "hung" THEN "hung" ELSE "serving"]
  /\ supAt' = "crashed" /\ stopAsked' = FALSE
  /\ children' = NoProcess /\ rounds' = NoCount
  /\ healthy' = NoProbe /\ failures' = NoCount

\* SC_ACTION_RESTART: run() by a service that has started nothing.
ServiceRestarts ==
  /\ supAt = "crashed" /\ supAt' = "probe"
  /\ UNCHANGED <<children, rounds, healthy, failures, stopAsked, orphans, faults>>

LoopSteps == Probe \/ (\E s \in Services : Tend(s)) \/ Sleep \/ Finish \/ ServiceRestarts
SupervisorNext ==
  LoopSteps \/ RequestStop \/ ServiceCrashes \/ \E s \in Services : ProcessFails(s)

\* The service's thread runs, and Windows starts it again.
SupervisorSpec == SupervisorInit /\ [][SupervisorNext]_supervisorVars /\ WF_supervisorVars(LoopSteps)
-----------------------------------------------------------------------------
\* A service is answered for again, however its process ended, unless the service is
\* stopped or a process it no longer knows holds the port and hangs
\* (host_service.cpp:48-91).
ServesAgain ==
  \A s \in Services : []<>(stopAsked \/ orphans[s] = "hung" \/ Answers(s))

\* A process is left without a handle only by a crash of the service, never by a
\* restart or a stop (host_service.cpp:128-162, 87-90).
OnlyACrashOrphans ==
  [][\A s \in Services : (orphans[s] = "none" /\ orphans'[s] # "none") => supAt' = "crashed"]_supervisorVars

\* A stop that was asked for ends the loop and what it started (host_service.cpp:44-46, 87-90).
StopEnds ==
  stopAsked ~> \/ supAt = "crashed"
               \/ supAt = "stopped" /\ \A s \in Services : children[s] \notin Alive
=============================================================================
