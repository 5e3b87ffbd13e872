---------------------------- MODULE HealthProbes ----------------------------
(***************************************************************************)
(* HealthService (src/src/modules/health/health.service.ts): check and     *)
(* readiness wait for one query of the database; detail probes both        *)
(* dependencies in parallel, each in a race with a timer.                  *)
(*                                                                         *)
(* probe[s][d], for the call made by the request in slot s:                *)
(*   none     d is not probed                                              *)
(*   pending  neither the dependency nor a timer has answered              *)
(*   up, down the dependency answered, or its query failed                 *)
(*   late     the timer won; what the dependency answers later is dropped  *)
(***************************************************************************)
CONSTANT Slots    \* requests the process can serve at a time

VARIABLE probe

Dependencies == {"database", "blockchain"}
Critical == {"database"}
NotProbed == [d \in Dependencies |-> "none"]

InitProbes == probe = [s \in Slots |-> NotProbed]

\* The dependencies a health route asks.
Asked(route) ==
  CASE route = "detail" -> Dependencies
    [] route \in {"health", "ready"} -> {"database"}
    [] OTHER -> {}

StartProbes(s, route) ==
  probe' = [probe EXCEPT ![s] = [d \in Dependencies |->
                                   IF d \in Asked(route) THEN "pending" ELSE "none"]]

\* The query of d ends; nothing obliges it to.
DependencyAnswers(s, d) ==
  /\ probe[s][d] = "pending"
  /\ \E answer \in {"up", "down"} : probe' = [probe EXCEPT ![s][d] = answer]

\* Faulty form: the race is left out, and the query is simply awaited.
ProbeTimesOut_NoRace(s, d) == FALSE /\ UNCHANGED probe

\* The timer of probe() fires.
ProbeTimesOut(s, d) ==
  /\ probe[s][d] = "pending"
  /\ probe' = [probe EXCEPT ![s][d] = "late"]

Failed(s) == {d \in Dependencies : probe[s][d] \in {"down", "late"}}
ProbesSettled(s) == \A d \in Dependencies : probe[s][d] # "pending"

\* What the answer says.
Report(s, route) ==
  CASE route = "detail" -> IF Failed(s) \cap Critical # {} THEN "down"
                           ELSE IF Failed(s) # {} THEN "degraded" ELSE "ok"
    [] route = "health" -> IF Failed(s) = {} THEN "ok" ELSE "degraded"
    [] route = "ready"  -> IF Failed(s) = {} THEN "ready" ELSE "unready"
    [] OTHER -> "none"
=============================================================================
