--------------------------------- MODULE Api --------------------------------
(***************************************************************************)
(* The adapters behind an HTTP API, under one clock: a protected route     *)
(* (Access), the readiness route (Health) and the data a handler keeps in  *)
(* Redis (RedisData).  They share no state of their own, so a behaviour    *)
(* exercises one of them.                                                  *)
(***************************************************************************)
EXTENDS Access, Health, RedisData

CONSTANT MaxTime   \* bound on the clock

VARIABLES route,   \* "protected", "readyz" or "data"
          clock

vars == <<accessVars, healthVars, redisVars, route, clock>>

Init ==
  /\ route \in {"protected", "readyz", "data"}
  /\ clock = 0
  /\ AccessInit /\ HealthInit /\ RedisInit

Protected ==
  /\ route = "protected"
  /\ AccessNext(clock)
  /\ UNCHANGED <<healthVars, redisVars, route, clock>>

Ready ==
  /\ route = "readyz"
  /\ HealthNext
  /\ UNCHANGED <<accessVars, redisVars, route, clock>>

Data ==
  /\ route = "data"
  /\ RedisCall(clock)
  /\ UNCHANGED <<accessVars, healthVars, route, clock>>

Tick ==
  /\ clock < MaxTime /\ route # "readyz"
  /\ clock' = clock + 1
  /\ RedisTick(clock + 1)
  /\ UNCHANGED <<accessVars, healthVars, route>>

Next == Protected \/ Ready \/ Data \/ Tick

Spec == Init /\ [][Next]_vars

\* A probe's goroutine runs: a check that answers, or whose timeout fires, returns.
FairSpec ==
  /\ Spec
  /\ \A p \in Probes : WF_vars(route = "readyz" /\ (Check(p) \/ Answer(p))
                               /\ UNCHANGED <<accessVars, redisVars, route, clock>>)

-----------------------------------------------------------------------------
(* Properties                                                              *)

\* RefusedForCause at every moment of the clock.
NobodyRefusedWrongly == RefusedForCause(clock)
=============================================================================
