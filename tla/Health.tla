-------------------------------- MODULE Health ------------------------------
(***************************************************************************)
(* The health registry: checks are registered by name, also while probes   *)
(* are running; a readiness probe runs the checks of its snapshot one by   *)
(* one, each under the probe timeout.  A check asks a dependency, as the   *)
(* redis cache's HealthCheck pings its server; it may hang until its       *)
(* context is done.                                                        *)
(***************************************************************************)
EXTENDS Integers, Sequences

CONSTANTS Dependencies,   \* the names of the checks
          Probes          \* the readiness requests, served concurrently

VARIABLES checks,    \* the registered checks, in order
          timeout,   \* the configured probe timeout: negative, zero or positive
          up,        \* up[d]: "yes", "no" or "hangs"
          probe,     \* each probe: its state, its snapshot, its place and its verdict
          lived,     \* history: the dependencies that were up during the probe
          failed     \* history: ... and those that were not

healthVars == <<checks, timeout, up, probe, lived, failed>>

Idle == [pc |-> "idle", snapshot |-> <<>>, limit |-> 0, next |-> 1, allOK |-> TRUE, gone |-> FALSE]

Registered == {checks[i] : i \in DOMAIN checks}

Up(u, answers) == {d \in Dependencies : u[d] \in answers}

HealthInit ==
  /\ checks = <<>>
  /\ timeout = 0
  /\ up = [d \in Dependencies |-> "yes"]
  /\ probe = [p \in Probes |-> Idle]
  /\ lived = [p \in Probes |-> {}]
  /\ failed = [p \in Probes |-> {}]

\* An empty or a taken name is refused and changes nothing.
Register(d) ==
  /\ d \notin Registered
  /\ checks' = Append(checks, d)
  /\ UNCHANGED <<timeout, up, probe, lived, failed>>

SetProbeTimeout(d) ==
  /\ timeout' = d
  /\ UNCHANGED <<checks, up, probe, lived, failed>>

\* Mutation: only a positive value is a timeout, as SetProbeTimeout's comment has it.
effectiveProbeTimeoutUnset == timeout

\* Zero is the default of two seconds; a negative value disables the timeout.
effectiveProbeTimeout == IF timeout = 0 THEN 2 ELSE timeout

\* ReadinessHandler: the snapshot of the checks, then the timeout.
Readiness(p) ==
  /\ probe[p].pc = "idle"
  /\ probe' = [probe EXCEPT ![p] = [pc |-> "checking", snapshot |-> checks, limit |-> effectiveProbeTimeout,
                                    next |-> 1, allOK |-> TRUE, gone |-> FALSE]]
  /\ lived' = [lived EXCEPT ![p] = Up(up, {"yes"})]
  /\ failed' = [failed EXCEPT ![p] = Up(up, {"no", "hangs"})]
  /\ UNCHANGED <<checks, timeout, up>>

\* Mutation: the last check decides.
VerdictLast(p, ok) == ok

Verdict(p, ok) == probe[p].allOK /\ ok

Checked(p, ok) ==
  /\ probe' = [probe EXCEPT ![p].next = @ + 1, ![p].allOK = Verdict(p, ok)]
  /\ UNCHANGED <<checks, timeout, up, lived, failed>>

Asked(p) == probe[p].snapshot[probe[p].next]

\* The check answers; one that hangs fails when its context is done.
Check(p) ==
  /\ probe[p].pc = "checking"
  /\ probe[p].next \in DOMAIN probe[p].snapshot
  /\ \/ up[Asked(p)] # "hangs" /\ Checked(p, up[Asked(p)] = "yes")
     \/ up[Asked(p)] = "hangs" /\ probe[p].limit > 0 /\ Checked(p, FALSE)
     \/ probe[p].gone /\ Checked(p, FALSE)

\* The client closes the connection: the context of the request is done.
Leave(p) ==
  /\ probe[p].pc = "checking"
  /\ ~probe[p].gone
  /\ probe' = [probe EXCEPT ![p].gone = TRUE]
  /\ UNCHANGED <<checks, timeout, up, lived, failed>>

Answer(p) ==
  /\ probe[p].pc = "checking"
  /\ probe[p].next > Len(probe[p].snapshot)
  /\ probe' = [probe EXCEPT ![p].pc = IF probe[p].allOK THEN "200" ELSE "503"]
  /\ UNCHANGED <<checks, timeout, up, lived, failed>>

Done(p) ==
  /\ probe[p].pc \in {"200", "503"}
  /\ probe' = [probe EXCEPT ![p] = Idle]
  /\ lived' = [lived EXCEPT ![p] = {}]
  /\ failed' = [failed EXCEPT ![p] = {}]
  /\ UNCHANGED <<checks, timeout, up>>

\* A dependency goes away, hangs or comes back.
Change(d) ==
  /\ \E s \in {"yes", "no", "hangs"} \ {up[d]} : up' = [up EXCEPT ![d] = s]
  /\ lived' = [p \in Probes |-> IF probe[p].pc = "checking" THEN lived[p] \cup Up(up', {"yes"}) ELSE lived[p]]
  /\ failed' = [p \in Probes |-> IF probe[p].pc = "checking" THEN failed[p] \cup Up(up', {"no", "hangs"}) ELSE failed[p]]
  /\ UNCHANGED <<checks, timeout, probe>>

Probing(p) == Readiness(p) \/ Check(p) \/ Answer(p) \/ Done(p)

HealthNext ==
  \/ \E d \in Dependencies : Register(d) \/ Change(d)
  \/ \E d \in {-1, 0, 1} : SetProbeTimeout(d)
  \/ \E p \in Probes : Probing(p) \/ Leave(p)

-----------------------------------------------------------------------------
(* Properties                                                              *)

\* A probe answers 200 only if every check of its snapshot was up at some
\* moment of the probe, and 503 only if one of them was not or nobody waits
\* for the answer any more.
ReadinessHonest ==
  \A p \in Probes :
    LET asked == {probe[p].snapshot[i] : i \in DOMAIN probe[p].snapshot} IN
    /\ probe[p].pc = "200" => asked \subseteq lived[p]
    /\ probe[p].pc = "503" /\ ~probe[p].gone => asked \cap failed[p] # {}

\* Unless the timeout is ever disabled with a negative value, a probe answers
\* though a dependency hangs for ever; zero does not disable it.
ProbesAnswer ==
  [](timeout >= 0) => \A p \in Probes : probe[p].pc = "checking" ~> probe[p].pc \in {"200", "503"}
=============================================================================
