------------------------------ MODULE ApiProofs -----------------------------
(***************************************************************************)
(* Proofs about Api, and so about the protected route, the readiness route *)
(* and the data in Redis, for any configurations, tokens, requests,        *)
(* dependencies, probes and names, and without a bound on the clock.       *)
(***************************************************************************)
EXTENDS Api, SequenceTheorems, TLAPS

-----------------------------------------------------------------------------
(* Health                                                                  *)

ProbeRecord ==
  [pc : {"idle", "checking", "200", "503"}, snapshot : Seq(Dependencies), limit : Int,
   next : Nat, allOK : BOOLEAN, gone : BOOLEAN]

HealthType ==
  /\ checks \in Seq(Dependencies)
  /\ timeout \in Int
  /\ up \in [Dependencies -> {"yes", "no", "hangs"}]
  /\ probe \in [Probes -> ProbeRecord]
  /\ lived \in [Probes -> SUBSET Dependencies]
  /\ failed \in [Probes -> SUBSET Dependencies]

\* The history of a running probe covers the present, its verdict is the one
\* of the checks behind it, and its answer is its verdict.
ProbeSound(p) ==
  /\ probe[p].pc = "checking" =>
       \A d \in Dependencies : IF up[d] = "yes" THEN d \in lived[p] ELSE d \in failed[p]
  /\ probe[p].pc # "idle" /\ probe[p].allOK =>
       \A i \in DOMAIN probe[p].snapshot : i < probe[p].next => probe[p].snapshot[i] \in lived[p]
  /\ probe[p].pc # "idle" /\ ~probe[p].allOK /\ ~probe[p].gone =>
       \E i \in DOMAIN probe[p].snapshot : probe[p].snapshot[i] \in failed[p]
  /\ probe[p].pc = "200" => probe[p].allOK /\ probe[p].next > Len(probe[p].snapshot)
  /\ probe[p].pc = "503" => ~probe[p].allOK

HealthInv == HealthType /\ \A p \in Probes : ProbeSound(p)

LEMMA HealthInitInv ==
  ASSUME HealthInit
  PROVE  HealthInv
<1>1. HealthType
  <2>1. Idle \in ProbeRecord
    BY DEF Idle, ProbeRecord
  <2>. QED
    BY <2>1 DEF HealthInit, HealthType
<1>2. ASSUME NEW p \in Probes PROVE ProbeSound(p)
  BY <1>2 DEF HealthInit, Idle, ProbeSound
<1>. QED
  BY <1>1, <1>2 DEF HealthInv

\* A step of one probe leaves the others alone.
LEMMA OneProbe ==
  ASSUME HealthInv, NEW p \in Probes,
         UNCHANGED <<checks, timeout, up>>,
         NEW q \in ProbeRecord, probe' = [probe EXCEPT ![p] = q],
         NEW L \in SUBSET Dependencies, lived' = [lived EXCEPT ![p] = L],
         NEW F \in SUBSET Dependencies, failed' = [failed EXCEPT ![p] = F],
         ProbeSound(p)'
  PROVE  HealthInv'
<1>1. HealthType'
  BY DEF HealthInv, HealthType
<1>2. ASSUME NEW o \in Probes, o # p PROVE ProbeSound(o)'
  <2>1. probe'[o] = probe[o] /\ lived'[o] = lived[o] /\ failed'[o] = failed[o]
    BY <1>2 DEF HealthInv, HealthType
  <2>2. ProbeSound(o)
    BY DEF HealthInv
  <2>. QED
    BY <2>1, <2>2 DEF ProbeSound
<1>. QED
  BY <1>1, <1>2 DEF HealthInv

LEMMA CheckedInv ==
  ASSUME HealthInv, NEW p \in Probes, NEW ok \in BOOLEAN, Checked(p, ok),
         probe[p].pc = "checking", probe[p].next \in DOMAIN probe[p].snapshot,
         ok => up[Asked(p)] = "yes",
         ~ok => up[Asked(p)] # "yes" \/ probe[p].gone
  PROVE  HealthInv'
<1>0. HealthType /\ ProbeSound(p) /\ probe[p] \in ProbeRecord
  BY DEF HealthInv, HealthType
<1>1. /\ probe[p].snapshot \in Seq(Dependencies) /\ probe[p].next \in Nat /\ Asked(p) \in Dependencies
      /\ probe[p].allOK \in BOOLEAN
  BY <1>0 DEF ProbeRecord, Asked
<1>2. PICK n \in Nat, v \in BOOLEAN : n = probe[p].next + 1 /\ v = Verdict(p, ok)
  BY <1>1 DEF Verdict
<1>3. PICK q \in ProbeRecord : /\ probe' = [probe EXCEPT ![p] = q]
                               /\ q.pc = "checking" /\ q.snapshot = probe[p].snapshot
                               /\ q.next = n /\ q.allOK = v /\ q.gone = probe[p].gone
  <2>1. probe' = [probe EXCEPT ![p].next = n, ![p].allOK = v]
    BY <1>2 DEF Checked
  <2>2. probe'[p] \in ProbeRecord
    BY <1>0, <2>1 DEF HealthType, ProbeRecord
  <2>3. probe' = [probe EXCEPT ![p] = probe'[p]]
    BY <1>0, <2>1 DEF HealthType, ProbeRecord
  <2>4. /\ probe'[p].pc = "checking" /\ probe'[p].snapshot = probe[p].snapshot
        /\ probe'[p].next = n /\ probe'[p].allOK = v /\ probe'[p].gone = probe[p].gone
    BY <1>0, <2>1 DEF HealthType, ProbeRecord
  <2>. QED
    BY <2>2, <2>3, <2>4
<1>4. probe'[p] = q /\ lived' = lived /\ failed' = failed /\ up' = up /\ checks' = checks /\ timeout' = timeout
  BY <1>0, <1>3 DEF Checked, HealthType
<1>5. /\ up[Asked(p)] = "yes" => Asked(p) \in lived[p]
      /\ up[Asked(p)] # "yes" => Asked(p) \in failed[p]
  BY <1>0, <1>1 DEF ProbeSound
<1>6. ASSUME v, NEW i \in DOMAIN q.snapshot, i < n PROVE q.snapshot[i] \in lived[p]
  <2>1. probe[p].allOK /\ ok
    BY <1>2, <1>6 DEF Verdict
  <2>2. CASE i = probe[p].next
    BY <1>3, <1>5, <2>1, <2>2 DEF Asked
  <2>3. CASE i < probe[p].next
    BY <1>0, <1>3, <1>6, <2>1, <2>3 DEF ProbeSound
  <2>4. i \in Nat
    BY <1>1, <1>3
  <2>. QED
    BY <1>1, <1>2, <1>6, <2>2, <2>3, <2>4
<1>7. ASSUME ~v, ~q.gone PROVE \E i \in DOMAIN q.snapshot : q.snapshot[i] \in failed[p]
  <2>1. CASE ~probe[p].allOK
    BY <1>0, <1>3, <1>7, <2>1 DEF ProbeSound
  <2>2. CASE ~ok
    BY <1>3, <1>5, <1>7, <2>2 DEF Asked
  <2>. QED
    BY <1>2, <1>7, <2>1, <2>2 DEF Verdict
<1>8. ProbeSound(p)'
  BY <1>0, <1>3, <1>4, <1>6, <1>7 DEF ProbeSound
<1>9. lived' = [lived EXCEPT ![p] = lived[p]] /\ failed' = [failed EXCEPT ![p] = failed[p]]
  BY <1>0, <1>4 DEF HealthType
<1>10. lived[p] \in SUBSET Dependencies /\ failed[p] \in SUBSET Dependencies
  BY <1>0 DEF HealthType
<1>. QED
  BY <1>3, <1>4, <1>8, <1>9, <1>10, OneProbe

LEMMA CheckInv ==
  ASSUME HealthInv, NEW p \in Probes, Check(p)
  PROVE  HealthInv'
<1>0. probe[p].pc = "checking" /\ probe[p].next \in DOMAIN probe[p].snapshot
  BY DEF Check
<1>1. CASE up[Asked(p)] # "hangs" /\ Checked(p, up[Asked(p)] = "yes")
  <2>1. CASE up[Asked(p)] = "yes"
    <3>1. Checked(p, TRUE)
      BY <1>1, <2>1 DEF Checked, Verdict
    <3>. QED
      BY <1>0, <2>1, <3>1, CheckedInv
  <2>2. CASE up[Asked(p)] # "yes"
    <3>1. Checked(p, FALSE)
      BY <1>1, <2>2 DEF Checked, Verdict
    <3>. QED
      BY <1>0, <2>2, <3>1, CheckedInv
  <2>. QED
    BY <2>1, <2>2
<1>2. CASE Checked(p, FALSE) /\ (up[Asked(p)] = "hangs" \/ probe[p].gone)
  BY <1>0, <1>2, CheckedInv
<1>. QED
  BY <1>1, <1>2 DEF Check

LEMMA ProbingInv ==
  ASSUME HealthInv, NEW p \in Probes, Readiness(p) \/ Answer(p) \/ Done(p) \/ Leave(p)
  PROVE  HealthInv'
<1>0. HealthType /\ ProbeSound(p) /\ probe[p] \in ProbeRecord
  BY DEF HealthInv, HealthType
<1>1. lived[p] \in SUBSET Dependencies /\ failed[p] \in SUBSET Dependencies
  BY <1>0 DEF HealthType
<1>2. CASE Readiness(p)
  <2>. DEFINE q == [pc |-> "checking", snapshot |-> checks, limit |-> effectiveProbeTimeout,
                    next |-> 1, allOK |-> TRUE, gone |-> FALSE]
  <2>1. q \in ProbeRecord
    <3>1. effectiveProbeTimeout \in Int
      BY <1>0 DEF effectiveProbeTimeout, HealthType
    <3>. QED
      BY <1>0, <3>1 DEF HealthType, ProbeRecord
  <2>2. q.pc = "checking" /\ q.snapshot = checks /\ q.next = 1 /\ q.allOK = TRUE
    OBVIOUS
  <2>. HIDE DEF q
  <2>3. /\ probe' = [probe EXCEPT ![p] = q]
        /\ lived' = [lived EXCEPT ![p] = Up(up, {"yes"})]
        /\ failed' = [failed EXCEPT ![p] = Up(up, {"no", "hangs"})]
        /\ UNCHANGED <<checks, timeout, up>>
    BY <1>2 DEF Readiness, q
  <2>4. probe'[p] = q /\ lived'[p] = Up(up, {"yes"}) /\ failed'[p] = Up(up, {"no", "hangs"})
    BY <1>0, <2>3 DEF HealthType
  <2>5. \A d \in Dependencies : IF up[d] = "yes" THEN d \in lived'[p] ELSE d \in failed'[p]
    BY <1>0, <2>4 DEF HealthType, Up
  <2>6. \A i \in DOMAIN checks : ~(i < 1)
    BY <1>0 DEF HealthType
  <2>7. ProbeSound(p)'
    BY <2>2, <2>3, <2>4, <2>5, <2>6 DEF ProbeSound
  <2>8. Up(up, {"yes"}) \in SUBSET Dependencies /\ Up(up, {"no", "hangs"}) \in SUBSET Dependencies
    BY DEF Up
  <2>. QED
    BY <2>1, <2>3, <2>7, <2>8, OneProbe
<1>3. CASE Answer(p)
  <2>1. PICK s \in {"200", "503"} : s = IF probe[p].allOK THEN "200" ELSE "503"
    BY <1>0
  <2>2. probe' = [probe EXCEPT ![p].pc = s] /\ UNCHANGED <<checks, timeout, up, lived, failed>>
    BY <1>3, <2>1 DEF Answer
  <2>3. /\ probe'[p] \in ProbeRecord /\ probe' = [probe EXCEPT ![p] = probe'[p]]
        /\ probe'[p].pc = s /\ probe'[p].snapshot = probe[p].snapshot /\ probe'[p].next = probe[p].next
        /\ probe'[p].allOK = probe[p].allOK /\ probe'[p].gone = probe[p].gone
    BY <1>0, <2>2 DEF HealthType, ProbeRecord
  <2>4. ProbeSound(p)'
    BY <1>0, <1>3, <2>1, <2>2, <2>3 DEF ProbeSound, Answer
  <2>5. lived' = [lived EXCEPT ![p] = lived[p]] /\ failed' = [failed EXCEPT ![p] = failed[p]]
    BY <1>0, <2>2 DEF HealthType
  <2>6. PICK q \in ProbeRecord : probe' = [probe EXCEPT ![p] = q]
    BY <2>3
  <2>. QED
    BY <1>1, <2>2, <2>4, <2>5, <2>6, OneProbe
<1>4. CASE Done(p)
  <2>1. Idle \in ProbeRecord /\ Idle.pc = "idle"
    BY DEF Idle, ProbeRecord
  <2>2. /\ probe' = [probe EXCEPT ![p] = Idle] /\ UNCHANGED <<checks, timeout, up>>
        /\ lived' = [lived EXCEPT ![p] = {}] /\ failed' = [failed EXCEPT ![p] = {}]
    BY <1>4 DEF Done
  <2>3. probe'[p] = Idle
    BY <1>0, <2>2 DEF HealthType
  <2>4. ProbeSound(p)'
    BY <2>1, <2>3 DEF ProbeSound
  <2>5. {} \in SUBSET Dependencies
    OBVIOUS
  <2>. QED
    BY <2>1, <2>2, <2>4, <2>5, OneProbe
<1>5. CASE Leave(p)
  <2>2. probe' = [probe EXCEPT ![p].gone = TRUE] /\ UNCHANGED <<checks, timeout, up, lived, failed>>
    BY <1>5 DEF Leave
  <2>3. /\ probe'[p] \in ProbeRecord /\ probe' = [probe EXCEPT ![p] = probe'[p]]
        /\ probe'[p].pc = probe[p].pc /\ probe'[p].snapshot = probe[p].snapshot
        /\ probe'[p].next = probe[p].next /\ probe'[p].allOK = probe[p].allOK /\ probe'[p].gone = TRUE
    BY <1>0, <2>2 DEF HealthType, ProbeRecord
  <2>4. ProbeSound(p)'
    BY <1>0, <2>2, <2>3 DEF ProbeSound
  <2>5. lived' = [lived EXCEPT ![p] = lived[p]] /\ failed' = [failed EXCEPT ![p] = failed[p]]
    BY <1>0, <2>2 DEF HealthType
  <2>6. PICK q \in ProbeRecord : probe' = [probe EXCEPT ![p] = q]
    BY <2>3
  <2>. QED
    BY <1>1, <2>2, <2>4, <2>5, <2>6, OneProbe
<1>. QED
  BY <1>2, <1>3, <1>4, <1>5

LEMMA ChangeInv ==
  ASSUME HealthInv, NEW d \in Dependencies, Change(d)
  PROVE  HealthInv'
<1>0. HealthType
  BY DEF HealthInv
<1>1. /\ up' \in [Dependencies -> {"yes", "no", "hangs"}] /\ UNCHANGED <<checks, timeout, probe>>
      /\ \A p \in Probes :
           /\ lived'[p] = IF probe[p].pc = "checking" THEN lived[p] \cup Up(up', {"yes"}) ELSE lived[p]
           /\ failed'[p] = IF probe[p].pc = "checking" THEN failed[p] \cup Up(up', {"no", "hangs"}) ELSE failed[p]
  BY <1>0 DEF Change, HealthType
<1>2. HealthType'
  <2>1. Up(up', {"yes"}) \in SUBSET Dependencies /\ Up(up', {"no", "hangs"}) \in SUBSET Dependencies
    BY DEF Up
  <2>. QED
    BY <1>0, <1>1, <2>1 DEF HealthType, Change
<1>3. ASSUME NEW p \in Probes PROVE ProbeSound(p)'
  <2>0. ProbeSound(p) /\ probe'[p] = probe[p] /\ lived[p] \subseteq lived'[p] /\ failed[p] \subseteq failed'[p]
    BY <1>1 DEF HealthInv
  <2>1. probe[p].pc = "checking" =>
          \A x \in Dependencies : IF up'[x] = "yes" THEN x \in lived'[p] ELSE x \in failed'[p]
    BY <1>1 DEF Up
  <2>. QED
    BY <2>0, <2>1 DEF ProbeSound
<1>. QED
  BY <1>2, <1>3 DEF HealthInv

LEMMA HealthNextInv ==
  ASSUME HealthInv, HealthNext
  PROVE  HealthInv'
<1>1. ASSUME NEW d \in Dependencies, Register(d) PROVE HealthInv'
  BY <1>1 DEF Register, HealthInv, HealthType, ProbeSound
<1>2. ASSUME NEW d \in {-1, 0, 1}, SetProbeTimeout(d) PROVE HealthInv'
  BY <1>2 DEF SetProbeTimeout, HealthInv, HealthType, ProbeSound
<1>. QED
  BY <1>1, <1>2, ChangeInv, CheckInv, ProbingInv DEF HealthNext, Probing

LEMMA HealthInvSuffices ==
  ASSUME HealthInv
  PROVE  ReadinessHonest
<1>. SUFFICES ASSUME NEW p \in Probes
              PROVE  /\ probe[p].pc = "200" =>
                          {probe[p].snapshot[i] : i \in DOMAIN probe[p].snapshot} \subseteq lived[p]
                     /\ probe[p].pc = "503" /\ ~probe[p].gone =>
                          {probe[p].snapshot[i] : i \in DOMAIN probe[p].snapshot} \cap failed[p] # {}
  BY DEF ReadinessHonest
<1>1. ProbeSound(p) /\ probe[p].snapshot \in Seq(Dependencies) /\ probe[p].next \in Nat
  BY DEF HealthInv, HealthType, ProbeRecord
<1>2. ASSUME probe[p].pc = "200", NEW i \in DOMAIN probe[p].snapshot PROVE probe[p].snapshot[i] \in lived[p]
  <2>1. i < probe[p].next
    BY <1>1, <1>2 DEF ProbeSound
  <2>. QED
    BY <1>1, <1>2, <2>1 DEF ProbeSound
<1>. QED
  BY <1>1, <1>2 DEF ProbeSound

-----------------------------------------------------------------------------
(* The verifier                                                            *)

\* The floor of an HMAC key covers every algorithm it may be used with.
LEMMA FloorCovers ==
  ASSUME NEW algs, algs \subseteq HS, NEW a \in algs
  PROVE  maxHMACKeyBytes(algs) \in Nat /\ hmacKeyBytes[a] <= maxHMACKeyBytes(algs)
<1>1. PICK S, h : /\ S = {hmacKeyBytes[b] : b \in algs} /\ h = hmacKeyBytes[a]
                  /\ S \subseteq {32, 48, 64} /\ h \in S
  <2>1. {hmacKeyBytes[b] : b \in algs} \subseteq {32, 48, 64}
    BY DEF HS, hmacKeyBytes
  <2>2. hmacKeyBytes[a] \in {hmacKeyBytes[b] : b \in algs}
    OBVIOUS
  <2>. QED
    BY <2>1, <2>2
<1>2. \E x \in S : \A y \in S : x >= y
  <2>1. CASE 64 \in S
    BY <1>1, <2>1
  <2>2. CASE 64 \notin S /\ 48 \in S
    BY <1>1, <2>2
  <2>3. CASE 64 \notin S /\ 48 \notin S
    <3>1. h = 32 /\ \A y \in S : y = 32
      BY <1>1, <2>3
    <3>. QED
      BY <1>1, <3>1
  <2>. QED
    BY <2>1, <2>2, <2>3
<1>3. Max(S) \in S /\ \A y \in S : Max(S) >= y
  BY <1>2 DEF Max
<1>4. maxHMACKeyBytes(algs) = Max(S)
  BY <1>1 DEF maxHMACKeyBytes
<1>5. Max(S) \in Nat /\ h \in Nat /\ h <= Max(S)
  <2>1. \A x \in S : x \in Nat
    BY <1>1
  <2>. QED
    BY <1>1, <1>3, <2>1
<1>. QED
  BY <1>1, <1>4, <1>5

\* What New establishes.
ConfigSound ==
  /\ config.leeway \in Int
  /\ config.keys[1].family \in {"hmac", "rsa", "ecdsa"} /\ config.keys[1].size \in Int
  /\ effectiveAlgs(config) # {}
  /\ config.keys[1].family = "hmac" => config.keys[1].size >= maxHMACKeyBytes(effectiveAlgs(config))

\* The methods the parser accepts are those of the key that were asked for.
LEMMA AcceptedAlgs ==
  ASSUME ConfigSound, NEW a
  PROVE  a \in effectiveAlgs(config) <=>
           a \in resolveKey(config.keys[1]) /\ (config.algs = {Unset} \/ a \in config.algs)
BY DEF ConfigSound, effectiveAlgs

LEMMA KeyIsLongEnough ==
  ASSUME ConfigSound, NEW a \in effectiveAlgs(config), a \in HS
  PROVE  config.keys[1].size >= hmacKeyBytes[a]
<1>1. a \in resolveKey(config.keys[1])
  BY AcceptedAlgs
<1>2. config.keys[1].family = "hmac"
  BY <1>1 DEF resolveKey, HS, RS, ConfigSound
<1>3. effectiveAlgs(config) \subseteq HS
  <2>1. resolveKey(config.keys[1]) = HS
    BY <1>2 DEF resolveKey
  <2>. QED
    BY <2>1, AcceptedAlgs
<1>4. hmacKeyBytes[a] \in Nat
  BY DEF hmacKeyBytes, HS
<1>. QED
  BY <1>2, <1>3, <1>4, FloorCovers DEF ConfigSound

-----------------------------------------------------------------------------
(* The protected route                                                     *)

Pending == {"extract", "verify", "authorize"}

RequestRecord ==
  [pc : {"none", "served", "answered"} \cup Pending, shape : {"none", "bearer"} \cup Unusable,
   token : Tokens, object : Objects, since : Nat, gone : BOOLEAN,
   status : {0, 400, 401, 403, 500}, challenge : {"none", "Bearer", "invalid_token"}]

AccessType(now) ==
  /\ now \in Nat
  /\ request \in [Requests -> RequestRecord]
  /\ \A r \in Requests : request[r].since <= now
  /\ said \in [Requests -> SUBSET BOOLEAN]
  /\ \A r \in Requests : request[r].pc # "none" => config # NoConfig
  /\ config # NoConfig => ConfigSound

\* The token of request r was found good at some moment since it arrived.
Entitled(r) ==
  LET tok == request[r].token IN
  /\ Genuine(tok)
  /\ tok.alg \in HS => config.keys[1].size >= hmacKeyBytes[tok.alg]
  /\ request[r].since < tok.exp + Leeway

Refused401(r, now) ==
  LET tok == request[r].token IN
  \/ ~Genuine(tok)
  \/ now >= tok.exp + Leeway
  \/ tok.nbf # Absent /\ request[r].since < tok.nbf - Leeway

Allowed(r) == TRUE \in said[r]
Forbidden(r) == FALSE \in said[r]

\* What is known of a request at each stage: the history covers the present
\* while it is in progress, and each answer has its cause.
RequestSound(r, now) ==
  /\ request[r].pc \in Pending =>
       /\ Tuple(r) \in policy => Allowed(r)
       /\ Tuple(r) \notin policy => Forbidden(r)
  /\ request[r].pc \in {"authorize", "served"} => Entitled(r)
  /\ request[r].pc = "served" => Allowed(r)
  /\ request[r].pc = "answered" =>
       /\ request[r].challenge = "Bearer" => request[r].shape # "bearer"
       /\ request[r].challenge = "invalid_token" => Refused401(r, now)
       /\ request[r].status = 403 => Forbidden(r)

AccessInv(now) == AccessType(now) /\ \A r \in Requests : RequestSound(r, now)

LEMMA NoRequestType == NoRequest \in RequestRecord /\ NoRequest.pc = "none" /\ NoRequest.since = 0
<1>1. NoRequest.token \in Tokens /\ NoRequest.object \in Objects
  BY AccessAssumption DEF NoRequest
<1>. QED
  BY <1>1 DEF NoRequest, RequestRecord

LEMMA AccessInitInv ==
  ASSUME AccessInit
  PROVE  AccessInv(0)
<1>1. \A r \in Requests : request[r] = NoRequest
  BY DEF AccessInit
<1>2. AccessType(0)
  BY <1>1, NoRequestType DEF AccessInit, AccessType
<1>3. ASSUME NEW r \in Requests PROVE RequestSound(r, 0)
  BY <1>1, NoRequestType DEF RequestSound, Pending
<1>. QED
  BY <1>2, <1>3 DEF AccessInv

\* A verified token is a genuine one that has not expired; a refused one is not.
LEMMA VerifySound ==
  ASSUME ConfigSound, NEW tok \in Tokens, NEW now \in Nat
  PROVE  /\ Verify(tok, now) = "ok" => /\ Genuine(tok) /\ now < tok.exp + Leeway
                                       /\ tok.alg \in effectiveAlgs(config)
         /\ Verify(tok, now) # "ok" => \/ ~Genuine(tok)
                                       \/ now >= tok.exp + Leeway
                                       \/ tok.nbf # Absent /\ now < tok.nbf - Leeway
<1>0. tok.exp \in Int /\ tok.nbf \in Int /\ Leeway \in Int
  BY AccessAssumption DEF Leeway, ConfigSound
<1>1. tok.alg \in effectiveAlgs(config) <=>
        tok.alg \in resolveKey(config.keys[1]) /\ (config.algs = {Unset} \/ tok.alg \in config.algs)
  BY AcceptedAlgs
<1>2. ASSUME Verify(tok, now) = "ok"
      PROVE  Genuine(tok) /\ now < tok.exp + Leeway /\ tok.alg \in effectiveAlgs(config)
  <2>1. /\ tok.alg \in effectiveAlgs(config) /\ tok.signer = config.keys[1].owner
        /\ ~Expired(tok, now) /\ ~ClaimsInvalid(tok, now) /\ tok.sub # ""
    BY <1>2 DEF Verify
  <2>2. now < tok.exp + Leeway
    <3>1. tok.exp # Absent
      BY <2>1 DEF ClaimsInvalid
    <3>2. ~(now >= tok.exp + Leeway)
      BY <2>1, <3>1 DEF Expired
    <3>. QED
      BY <1>0, <3>2
  <2>. QED
    BY <1>1, <2>1, <2>2 DEF Genuine, ClaimsInvalid
<1>3. ASSUME Verify(tok, now) # "ok"
      PROVE  \/ ~Genuine(tok)
             \/ now >= tok.exp + Leeway
             \/ tok.nbf # Absent /\ now < tok.nbf - Leeway
  <2>1. \/ tok.alg \notin effectiveAlgs(config) \/ tok.signer # config.keys[1].owner
        \/ Expired(tok, now) \/ ClaimsInvalid(tok, now) \/ tok.sub = ""
    BY <1>3 DEF Verify
  <2>. QED
    BY <1>0, <1>1, <2>1 DEF Expired, ClaimsInvalid, Genuine
<1>. QED
  BY <1>2, <1>3

\* What the invariant says of a request whose credentials stay as they are.
LEMMA SameVerdict ==
  ASSUME NEW now, NEW r \in Requests, config' = config,
         request'[r].token = request[r].token, request'[r].since = request[r].since
  PROVE  /\ Entitled(r)' <=> Entitled(r)
         /\ Refused401(r, now)' <=> Refused401(r, now)
<1>1. Leeway' = Leeway
  BY DEF Leeway
<1>2. PICK tok, since : tok = request[r].token /\ since = request[r].since
  OBVIOUS
<1>3. Genuine(tok)' <=> Genuine(tok)
  BY DEF Genuine
<1>4. Genuine(request[r].token) <=> Genuine(tok)
  BY <1>2 DEF Genuine
<1>5. Genuine(request[r].token)' <=> Genuine(tok)'
  BY <1>2 DEF Genuine
<1>6. Entitled(r)' <=> Entitled(r)
  BY <1>1, <1>3, <1>4, <1>5, <1>2 DEF Entitled
<1>7. Refused401(r, now)' <=> Refused401(r, now)
  BY <1>1, <1>3, <1>4, <1>5, <1>2 DEF Refused401
<1>. QED
  BY <1>6, <1>7

\* A step of one request leaves the others alone.
LEMMA OneRequest ==
  ASSUME NEW now, AccessInv(now), NEW r \in Requests, UNCHANGED <<config, policy>>,
         request' \in [Requests -> RequestRecord], said' \in [Requests -> SUBSET BOOLEAN],
         \A o \in Requests : o # r => request'[o] = request[o] /\ said'[o] = said[o],
         request'[r].since <= now, request'[r].pc # "none" => config # NoConfig,
         RequestSound(r, now)'
  PROVE  AccessInv(now)'
<1>0. AccessType(now)
  BY DEF AccessInv
<1>2. ConfigSound' <=> ConfigSound
  BY DEF ConfigSound
<1>3. AccessType(now)'
  BY <1>0, <1>2 DEF AccessType
<1>4. ASSUME NEW o \in Requests, o # r PROVE RequestSound(o, now)'
  <2>1. RequestSound(o, now) /\ request'[o] = request[o] /\ said'[o] = said[o]
    BY <1>4 DEF AccessInv
  <2>2. (Entitled(o)' <=> Entitled(o)) /\ (Refused401(o, now)' <=> Refused401(o, now))
    BY <2>1, SameVerdict
  <2>3. /\ Tuple(o)' = Tuple(o)
        /\ (Allowed(o)' <=> Allowed(o)) /\ (Forbidden(o)' <=> Forbidden(o))
    BY <2>1 DEF Tuple, Allowed, Forbidden
  <2>. QED
    BY <2>1, <2>2, <2>3 DEF RequestSound
<1>. QED
  BY <1>3, <1>4 DEF AccessInv

\* An answer, and a request that goes on: what the invariant then asks for.
LEMMA RespondInv ==
  ASSUME NEW now, AccessInv(now), NEW r \in Requests, request[r].pc \in Pending,
         NEW status \in {0, 400, 401, 403, 500}, NEW challenge \in {"none", "Bearer", "invalid_token"},
         Respond(r, status, challenge),
         challenge = "Bearer" => request[r].shape # "bearer",
         challenge = "invalid_token" => Refused401(r, now),
         status = 403 => Forbidden(r)
  PROVE  AccessInv(now)'
<1>0. AccessType(now) /\ RequestSound(r, now)
  BY DEF AccessInv
<1>1. /\ request' = [request EXCEPT ![r].pc = "answered", ![r].status = status, ![r].challenge = challenge]
      /\ UNCHANGED <<config, policy, said>>
  BY DEF Respond
<1>2. /\ request'[r].pc = "answered" /\ request'[r].status = status /\ request'[r].challenge = challenge
      /\ request'[r].shape = request[r].shape /\ request'[r].token = request[r].token
      /\ request'[r].since = request[r].since
  <2>1. request'[r].pc = "answered" /\ request'[r].status = status /\ request'[r].challenge = challenge
    BY <1>0, <1>1 DEF AccessType, RequestRecord
  <2>2. /\ request'[r].shape = request[r].shape /\ request'[r].token = request[r].token
        /\ request'[r].since = request[r].since
    BY <1>0, <1>1 DEF AccessType, RequestRecord
  <2>. QED
    BY <2>1, <2>2
<1>3. request' \in [Requests -> RequestRecord]
  <2>. DEFINE f == [request EXCEPT ![r].pc = "answered"]
              g == [f EXCEPT ![r].status = status]
  <2>1. f \in [Requests -> RequestRecord]
    BY <1>0 DEF AccessType, RequestRecord
  <2>. HIDE DEF f
  <2>2. g \in [Requests -> RequestRecord]
    BY <2>1 DEF RequestRecord
  <2>. HIDE DEF g
  <2>3. [g EXCEPT ![r].challenge = challenge] \in [Requests -> RequestRecord]
    BY <2>2 DEF RequestRecord
  <2>4. request' = [g EXCEPT ![r].challenge = challenge]
    BY <1>0, <1>1 DEF f, g, AccessType
  <2>. QED
    BY <2>3, <2>4
<1>4. RequestSound(r, now)'
  <2>1. Refused401(r, now)' <=> Refused401(r, now)
    BY <1>1, <1>2, SameVerdict
  <2>2. Forbidden(r)' <=> Forbidden(r)
    BY <1>1 DEF Forbidden
  <2>3. request'[r].pc \notin Pending /\ request'[r].pc \notin {"authorize", "served"}
    BY <1>2 DEF Pending
  <2>. QED
    BY <1>1, <1>2, <2>1, <2>2, <2>3 DEF RequestSound
<1>5. \A o \in Requests : o # r => request'[o] = request[o] /\ said'[o] = said[o]
  BY <1>0, <1>1 DEF AccessType
<1>6. said' \in [Requests -> SUBSET BOOLEAN]
  BY <1>0, <1>1 DEF AccessType
<1>7. request'[r].since <= now /\ config # NoConfig
  BY <1>0, <1>2 DEF AccessType, Pending
<1>. QED
  BY <1>1, <1>3, <1>4, <1>5, <1>6, <1>7, OneRequest

LEMMA ContinueInv ==
  ASSUME NEW now, AccessInv(now), NEW r \in Requests, request[r].pc \in Pending,
         NEW pc \in {"verify", "authorize", "served"}, Continue(r, pc),
         pc \in {"authorize", "served"} => Entitled(r),
         pc = "served" => Allowed(r)
  PROVE  AccessInv(now)'
<1>0. AccessType(now) /\ RequestSound(r, now)
  BY DEF AccessInv
<1>1. request' = [request EXCEPT ![r].pc = pc] /\ UNCHANGED <<config, policy, said>>
  BY DEF Continue
<1>2. /\ request'[r].pc = pc /\ request'[r].token = request[r].token
      /\ request'[r].object = request[r].object /\ request'[r].since = request[r].since
      /\ request' \in [Requests -> RequestRecord]
  BY <1>0, <1>1 DEF AccessType, RequestRecord, Pending
<1>3. RequestSound(r, now)'
  <2>1. (Entitled(r)' <=> Entitled(r)) /\ Tuple(r)' = Tuple(r)
    BY <1>1, <1>2, SameVerdict DEF Tuple
  <2>2. (Allowed(r)' <=> Allowed(r)) /\ (Forbidden(r)' <=> Forbidden(r))
    BY <1>1 DEF Allowed, Forbidden
  <2>3. request'[r].pc # "answered"
    BY <1>2
  <2>. QED
    BY <1>0, <1>1, <1>2, <2>1, <2>2, <2>3 DEF RequestSound
<1>4. \A o \in Requests : o # r => request'[o] = request[o] /\ said'[o] = said[o]
  BY <1>0, <1>1 DEF AccessType
<1>5. said' \in [Requests -> SUBSET BOOLEAN]
  BY <1>0, <1>1 DEF AccessType
<1>6. request'[r].since <= now /\ config # NoConfig
  BY <1>0, <1>2 DEF AccessType, Pending
<1>. QED
  BY <1>1, <1>2, <1>3, <1>4, <1>5, <1>6, OneRequest

\* Whether something is in a set is one of the two truth values.
LEMMA MembershipIsBoolean ==
  ASSUME NEW x, NEW P
  PROVE  (x \in P) \in BOOLEAN /\ (x \in P => (x \in P) = TRUE) /\ (x \notin P => (x \in P) = FALSE)
<1>1. (x \in P) = TRUE \/ (x \in P) = FALSE
  OBVIOUS
<1>2. PICK b : b = (x \in P)
  OBVIOUS
<1>3. b = TRUE \/ b = FALSE
  BY <1>1, <1>2, Zenon
<1>4. b \in BOOLEAN
  BY <1>3, Zenon
<1>5. (x \in P) \in BOOLEAN
  BY <1>2, <1>4, Zenon
<1>6. x \in P => (x \in P) = TRUE
  OBVIOUS
<1>7. x \notin P => (x \in P) = FALSE
  OBVIOUS
<1>. QED
  BY <1>5, <1>6, <1>7, Zenon

LEMMA ExtractInv ==
  ASSUME NEW now, AccessInv(now), NEW r \in Requests, Extract(r)
  PROVE  AccessInv(now)'
<1>1. request[r].pc = "extract" /\ request[r].pc \in Pending
  BY DEF Extract, Pending
<1>2. CASE request[r].shape \in Unusable /\ Respond(r, 401, "Bearer")
  <2>1. request[r].shape # "bearer"
    BY <1>2 DEF Unusable
  <2>. QED
    BY <1>1, <1>2, <2>1, RespondInv
<1>3. CASE Continue(r, "verify")
  BY <1>1, <1>3, ContinueInv
<1>. QED
  BY <1>2, <1>3 DEF Extract

LEMMA RespondInternalInv ==
  ASSUME NEW now, AccessInv(now), NEW r \in Requests, request[r].pc \in Pending, RespondInternal(r)
  PROVE  AccessInv(now)'
BY RespondInv DEF RespondInternal

\* Whatever Verify says at this moment was so at every moment since the
\* request arrived, or has become so.
LEMMA AuthenticateInv ==
  ASSUME NEW now, AccessInv(now), NEW r \in Requests, Authenticate(r, now)
  PROVE  AccessInv(now)'
<1>0. request[r].pc \in Pending /\ AccessType(now) /\ now \in Nat
  BY DEF Authenticate, Pending, AccessInv, AccessType
<1>1. /\ ConfigSound /\ request[r].token \in Tokens
      /\ request[r].since \in Nat /\ request[r].since <= now
  BY <1>0 DEF Pending, AccessType, RequestRecord
<1>2. PICK tok \in Tokens, since \in Nat, L \in Int :
        tok = request[r].token /\ since = request[r].since /\ L = Leeway
  BY <1>1 DEF ConfigSound, Leeway
<1>3. tok.exp \in Int /\ tok.nbf \in Int /\ since <= now
  BY <1>1, <1>2, AccessAssumption
<1>4. /\ Genuine(request[r].token) <=> Genuine(tok)
      /\ Verify(request[r].token, now) = Verify(tok, now)
  BY <1>2
<1>5. CASE RespondInternal(r)
  BY <1>0, <1>5, RespondInternalInv
<1>6. CASE Verify(tok, now) = "ok" /\ Continue(r, "authorize")
  <2>1. Genuine(tok) /\ now < tok.exp + L /\ tok.alg \in effectiveAlgs(config)
    BY <1>1, <1>0, <1>2, <1>6, VerifySound
  <2>2. since < tok.exp + L
    BY <1>0, <1>3, <2>1
  <2>3. tok.alg \in HS => config.keys[1].size >= hmacKeyBytes[tok.alg]
    BY <1>1, <2>1, KeyIsLongEnough
  <2>4. Entitled(r)
    BY <1>2, <1>4, <2>1, <2>2, <2>3 DEF Entitled
  <2>. QED
    BY <1>0, <1>6, <2>4, ContinueInv
<1>7. CASE Verify(tok, now) # "ok" /\ Respond(r, 401, "invalid_token")
  <2>1. \/ ~Genuine(tok)
        \/ now >= tok.exp + L
        \/ tok.nbf # Absent /\ now < tok.nbf - L
    BY <1>1, <1>0, <1>2, <1>7, VerifySound
  <2>2. now < tok.nbf - L => since < tok.nbf - L
    BY <1>0, <1>3
  <2>3. Refused401(r, now)
    BY <1>2, <1>4, <2>1, <2>2 DEF Refused401
  <2>. QED
    BY <1>0, <1>7, <2>3, RespondInv
<1>. QED
  BY <1>4, <1>5, <1>6, <1>7 DEF Authenticate

LEMMA AuthorizeInv ==
  ASSUME NEW now, AccessInv(now), NEW r \in Requests, Authorize(r)
  PROVE  AccessInv(now)'
<1>0. request[r].pc = "authorize" /\ request[r].pc \in Pending /\ RequestSound(r, now)
  BY DEF Authorize, Pending, AccessInv
<1>1. /\ Entitled(r)
      /\ Tuple(r) \in policy => Allowed(r)
      /\ Tuple(r) \notin policy => Forbidden(r)
  BY <1>0 DEF RequestSound
<1>2. CASE Respond(r, 400, "none")
  BY <1>0, <1>2, RespondInv
<1>3. CASE RespondInternal(r)
  BY <1>0, <1>3, RespondInternalInv
<1>4. CASE Tuple(r) \in policy /\ Continue(r, "served")
  BY <1>0, <1>1, <1>4, ContinueInv
<1>5. CASE Tuple(r) \notin policy /\ Respond(r, 403, "none")
  BY <1>0, <1>1, <1>5, RespondInv
<1>. QED
  BY <1>2, <1>3, <1>4, <1>5 DEF Authorize, Enforce

LEMMA FinishInv ==
  ASSUME NEW now, AccessInv(now), NEW r \in Requests, Finish(r)
  PROVE  AccessInv(now)'
<1>0. AccessType(now)
  BY DEF AccessInv
<1>1. /\ request' \in [Requests -> RequestRecord] /\ request'[r].pc = "none" /\ request'[r].since = 0
      /\ \A o \in Requests : o # r => request'[o] = request[o] /\ said'[o] = said[o]
  BY <1>0, NoRequestType DEF AccessType, Finish
<1>2. said' \in [Requests -> SUBSET BOOLEAN]
  BY <1>0 DEF AccessType, Finish
<1>3. RequestSound(r, now)'
  BY <1>1 DEF RequestSound, Pending
<1>4. request'[r].since <= now
  BY <1>0, <1>1 DEF AccessType
<1>. QED
  BY <1>1, <1>2, <1>3, <1>4, OneRequest DEF Finish

LEMMA AbandonInv ==
  ASSUME NEW now, AccessInv(now), NEW r \in Requests, Abandon(r)
  PROVE  AccessInv(now)'
<1>0. AccessType(now) /\ RequestSound(r, now)
  BY DEF AccessInv
<1>1. request' = [request EXCEPT ![r].gone = TRUE] /\ UNCHANGED <<config, policy, said>>
  BY DEF Abandon
<1>2. /\ request'[r].pc = request[r].pc /\ request'[r].token = request[r].token
      /\ request'[r].object = request[r].object /\ request'[r].since = request[r].since
      /\ request' \in [Requests -> RequestRecord]
  <2>1. request'[r].pc = request[r].pc /\ request'[r].token = request[r].token
    BY <1>0, <1>1 DEF AccessType, RequestRecord
  <2>2. request'[r].object = request[r].object /\ request'[r].since = request[r].since
    BY <1>0, <1>1 DEF AccessType, RequestRecord
  <2>3. request' \in [Requests -> RequestRecord]
    <3>1. PICK b \in BOOLEAN : b = TRUE
      OBVIOUS
    <3>2. request' = [request EXCEPT ![r].gone = b]
      BY <1>1, <3>1, Zenon
    <3>. QED
      BY <1>0, <3>2 DEF AccessType, RequestRecord
  <2>. QED
    BY <2>1, <2>2, <2>3
<1>3. request[r].pc # "answered" /\ request[r].pc \in Pending
  BY DEF Abandon, Pending
<1>4. RequestSound(r, now)'
  <2>1. (Entitled(r)' <=> Entitled(r)) /\ Tuple(r)' = Tuple(r)
    BY <1>1, <1>2, SameVerdict DEF Tuple
  <2>2. (Allowed(r)' <=> Allowed(r)) /\ (Forbidden(r)' <=> Forbidden(r))
    BY <1>1 DEF Allowed, Forbidden
  <2>. QED
    BY <1>0, <1>1, <1>2, <1>3, <2>1, <2>2 DEF RequestSound
<1>5. /\ \A o \in Requests : o # r => request'[o] = request[o] /\ said'[o] = said[o]
      /\ said' \in [Requests -> SUBSET BOOLEAN]
  BY <1>0, <1>1 DEF AccessType
<1>6. request'[r].since <= now /\ config # NoConfig
  BY <1>0, <1>2, <1>3 DEF AccessType, Pending
<1>. QED
  BY <1>1, <1>2, <1>4, <1>5, <1>6, OneRequest

LEMMA ArriveInv ==
  ASSUME NEW now, AccessInv(now), NEW r \in Requests, NEW shape \in {"bearer"} \cup Unusable,
         NEW tok \in Tokens, NEW obj \in Objects, Arrive(r, shape, tok, obj, now)
  PROVE  AccessInv(now)'
<1>0. AccessType(now) /\ now \in Nat
  BY DEF AccessInv, AccessType
<1>. DEFINE q == [pc |-> "extract", shape |-> shape, token |-> tok, object |-> obj,
                  since |-> now, gone |-> FALSE, status |-> 0, challenge |-> "none"]
<1>1. q \in RequestRecord /\ q.pc = "extract" /\ q.since = now /\ q.token = tok /\ q.object = obj
  BY <1>0 DEF RequestRecord, Pending
<1>. HIDE DEF q
<1>2. /\ request' = [request EXCEPT ![r] = q]
      /\ said' = [said EXCEPT ![r] = {(requestBuilder(tok.sub, obj) \in policy)}]
      /\ UNCHANGED <<config, policy>> /\ config # NoConfig
  BY DEF Arrive, q
<1>3. PICK S \in SUBSET BOOLEAN : S = {(requestBuilder(tok.sub, obj) \in policy)}
  <2>1. (requestBuilder(tok.sub, obj) \in policy) \in BOOLEAN
    BY MembershipIsBoolean, Zenon
  <2>2. {(requestBuilder(tok.sub, obj) \in policy)} \in SUBSET BOOLEAN
    BY <2>1, Zenon
  <2>. QED
    BY <2>2, Zenon
<1>4. /\ request' \in [Requests -> RequestRecord] /\ said' \in [Requests -> SUBSET BOOLEAN]
      /\ \A o \in Requests : o # r => request'[o] = request[o] /\ said'[o] = said[o]
      /\ request'[r] = q /\ said'[r] = S
  BY <1>0, <1>1, <1>2, <1>3 DEF AccessType
<1>5. Tuple(r)' = requestBuilder(tok.sub, obj)
  BY <1>1, <1>4 DEF Tuple
<1>6. (requestBuilder(tok.sub, obj) \in policy => TRUE \in S) /\ (requestBuilder(tok.sub, obj) \notin policy => FALSE \in S)
  BY <1>3, Zenon
<1>7. RequestSound(r, now)'
  BY <1>1, <1>2, <1>4, <1>5, <1>6 DEF RequestSound, Pending, Allowed, Forbidden
<1>8. request'[r].since <= now
  BY <1>0, <1>1, <1>4
<1>. QED
  BY <1>2, <1>4, <1>7, <1>8, OneRequest

\* New is called once, before there are requests.
LEMMA NewInv ==
  ASSUME NEW now, AccessInv(now), NEW c \in Configs, New(c)
  PROVE  AccessInv(now)'
<1>0. AccessType(now) /\ config = NoConfig /\ config' = c /\ UNCHANGED <<policy, request, said>>
  BY DEF AccessInv, New
<1>1. \A r \in Requests : request[r].pc = "none" /\ request'[r].pc = "none"
  BY <1>0 DEF AccessType
<1>2. 1 \in DOMAIN c.keys
  <2>1. DOMAIN c.keys = 1 .. Len(c.keys)
    BY AccessAssumption, Zenon
  <2>2. Len(c.keys) = 1
    BY Zenon DEF New
  <2>3. DOMAIN c.keys = 1 .. 1
    BY <2>1, <2>2, Zenon
  <2>. QED
    BY <2>3
<1>3. ConfigSound'
  BY <1>0, <1>2, AccessAssumption DEF ConfigSound, New
<1>4. AccessType(now)'
  BY <1>0, <1>1, <1>3 DEF AccessType
<1>5. ASSUME NEW r \in Requests PROVE RequestSound(r, now)'
  BY <1>1 DEF RequestSound, Pending
<1>. QED
  BY <1>4, <1>5 DEF AccessInv

\* The history of a request in progress follows every edit of the policy.
LEMMA EditPolicyInv ==
  ASSUME NEW now, AccessInv(now), EditPolicy
  PROVE  AccessInv(now)'
<1>0. /\ AccessType(now) /\ UNCHANGED <<config, request>>
      /\ said' = [r \in Requests |-> IF request[r].pc \in {"extract", "verify", "authorize"}
                                     THEN said[r] \cup {Tuple(r) \in policy'} ELSE said[r]]
  BY DEF AccessInv, EditPolicy
<1>1. ASSUME NEW r \in Requests
      PROVE  /\ said'[r] \in SUBSET BOOLEAN
             /\ said[r] \subseteq said'[r]
             /\ request[r].pc \in Pending => (Tuple(r) \in policy') \in said'[r]
  <2>1. said'[r] = IF request[r].pc \in Pending THEN said[r] \cup {Tuple(r) \in policy'} ELSE said[r]
    BY <1>0, Zenon DEF Pending
  <2>2. said[r] \in SUBSET BOOLEAN
    BY <1>0 DEF AccessType
  <2>3. PICK t, b : t = Tuple(r) /\ b = (t \in policy') /\ b \in BOOLEAN
    BY MembershipIsBoolean, Zenon
  <2>4. said'[r] = IF request[r].pc \in Pending THEN said[r] \cup {b} ELSE said[r]
    BY <2>1, <2>3, Zenon
  <2>5. said'[r] \in SUBSET BOOLEAN /\ said[r] \subseteq said'[r]
    BY <2>2, <2>3, <2>4
  <2>6. request[r].pc \in Pending => b \in said'[r]
    BY <2>4
  <2>. QED
    BY <2>3, <2>5, <2>6, Zenon
<1>2. said' \in [Requests -> SUBSET BOOLEAN]
  BY <1>0, <1>1, Zenon
<1>3. ConfigSound' <=> ConfigSound
  BY <1>0 DEF ConfigSound
<1>4. AccessType(now)'
  BY <1>0, <1>2, <1>3 DEF AccessType
<1>5. ASSUME NEW r \in Requests PROVE RequestSound(r, now)'
  <2>1. RequestSound(r, now) /\ request'[r] = request[r]
    BY <1>0 DEF AccessInv
  <2>2. (Entitled(r)' <=> Entitled(r)) /\ (Refused401(r, now)' <=> Refused401(r, now))
    BY <1>0, <2>1, SameVerdict
  <2>3. (Allowed(r) => Allowed(r)') /\ (Forbidden(r) => Forbidden(r)')
    BY <1>1 DEF Allowed, Forbidden
  <2>4. Tuple(r)' = Tuple(r)
    BY <2>1 DEF Tuple
  <2>5. ASSUME request[r].pc \in Pending
        PROVE  /\ Tuple(r) \in policy' => Allowed(r)'
               /\ Tuple(r) \notin policy' => Forbidden(r)'
    <3>1. (Tuple(r) \in policy') \in said'[r]
      BY <1>1, <2>5, Zenon
    <3>2. /\ Tuple(r) \in policy' => (Tuple(r) \in policy') = TRUE
          /\ Tuple(r) \notin policy' => (Tuple(r) \in policy') = FALSE
      BY MembershipIsBoolean, Zenon
    <3>. QED
      BY <3>1, <3>2, Zenon DEF Allowed, Forbidden
  <2>. QED
    BY <2>1, <2>2, <2>3, <2>4, <2>5 DEF RequestSound
<1>. QED
  BY <1>4, <1>5 DEF AccessInv

LEMMA AccessNextInv ==
  ASSUME NEW now, AccessInv(now), AccessNext(now)
  PROVE  AccessInv(now)'
<1>1. NoRequest.token \in Tokens
  BY AccessAssumption DEF NoRequest
<1>2. ASSUME NEW r \in Requests, NEW shape \in Unusable, NEW obj \in Objects,
             Arrive(r, shape, NoRequest.token, obj, now)
      PROVE  AccessInv(now)'
  BY <1>1, <1>2, ArriveInv
<1>3. ASSUME NEW r \in Requests, NEW tok \in Tokens, NEW obj \in Objects,
             Arrive(r, "bearer", tok, obj, now)
      PROVE  AccessInv(now)'
  BY <1>3, ArriveInv
<1>. QED
  BY <1>2, <1>3, EditPolicyInv, NewInv, ExtractInv, AuthenticateInv, AuthorizeInv, FinishInv, AbandonInv
     DEF AccessNext, Serving

\* Time only passes: a refusal keeps its cause.
LEMMA AccessTickInv ==
  ASSUME NEW now, AccessInv(now), UNCHANGED accessVars
  PROVE  AccessInv(now + 1)'
<1>0. AccessType(now) /\ now \in Nat /\ UNCHANGED <<config, policy, request, said>>
  BY DEF AccessInv, AccessType, accessVars
<1>1. ConfigSound' <=> ConfigSound
  BY <1>0 DEF ConfigSound
<1>2. \A r \in Requests : request[r].since \in Nat /\ request[r].since <= now
  BY <1>0 DEF AccessType, RequestRecord
<1>3. \A r \in Requests : request'[r].since <= now + 1
  BY <1>0, <1>2
<1>4. AccessType(now + 1)'
  BY <1>0, <1>1, <1>3 DEF AccessType
<1>5. ASSUME NEW r \in Requests PROVE RequestSound(r, now + 1)'
  <2>1. RequestSound(r, now)
    BY DEF AccessInv
  <2>2. (Entitled(r)' <=> Entitled(r)) /\ (Refused401(r, now + 1)' <=> Refused401(r, now + 1))
    BY <1>0, SameVerdict
  <2>3. Tuple(r)' = Tuple(r) /\ (Allowed(r)' <=> Allowed(r)) /\ (Forbidden(r)' <=> Forbidden(r))
    BY <1>0 DEF Tuple, Allowed, Forbidden
  <2>4. ASSUME request[r].pc = "answered", Refused401(r, now) PROVE Refused401(r, now + 1)
    <3>1. ConfigSound /\ request[r].token \in Tokens
      BY <1>0, <2>4 DEF AccessType, RequestRecord
    <3>2. request[r].token.exp \in Int /\ Leeway \in Int
      BY <3>1, AccessAssumption DEF ConfigSound, Leeway
    <3>3. now >= request[r].token.exp + Leeway => now + 1 >= request[r].token.exp + Leeway
      BY <1>0, <3>2
    <3>. QED
      BY <2>4, <3>3 DEF Refused401
  <2>. QED
    BY <1>0, <2>1, <2>2, <2>3, <2>4 DEF RequestSound
<1>. QED
  BY <1>4, <1>5 DEF AccessInv

LEMMA AccessInvSuffices ==
  ASSUME NEW now, AccessInv(now)
  PROVE  ServedIsEntitled /\ RefusedForCause(now)
<1>1. ASSUME NEW r \in Requests PROVE RequestSound(r, now)
  BY DEF AccessInv
<1>2. ServedIsEntitled
  <2>. SUFFICES ASSUME NEW r \in Requests, request[r].pc = "served" PROVE Entitled(r) /\ TRUE \in said[r]
    BY DEF ServedIsEntitled, Entitled
  <2>. QED
    BY <1>1 DEF RequestSound, Allowed
<1>3. RefusedForCause(now)
  <2>. SUFFICES ASSUME NEW r \in Requests, request[r].pc = "answered"
                PROVE  /\ request[r].challenge = "Bearer" => request[r].shape # "bearer"
                       /\ request[r].challenge = "invalid_token" => Refused401(r, now)
                       /\ request[r].status = 403 => FALSE \in said[r]
    BY DEF RefusedForCause, Refused401
  <2>. QED
    BY <1>1 DEF RequestSound, Forbidden
<1>. QED
  BY <1>2, <1>3

-----------------------------------------------------------------------------
(* The keys in Redis                                                       *)

Chars == STRING \cup {":"}

LEMMA ShortSequences ==
  ASSUME NEW S, NEW x \in S, NEW y \in S
  PROVE  <<x>> \in Seq(S) /\ <<x, y>> \in Seq(S)
OBVIOUS

\* Where the parts of a concatenation are.
LEMMA ConcatParts ==
  ASSUME NEW s \in Seq(Chars), NEW t \in Seq(Chars)
  PROVE  /\ s \o t \in Seq(Chars) /\ Len(s) \in Nat /\ Len(t) \in Nat
         /\ Len(s \o t) = Len(s) + Len(t)
         /\ \A i \in 1 .. Len(s) : (s \o t)[i] = s[i]
         /\ \A i \in 1 .. Len(t) : (s \o t)[Len(s) + i] = t[i]
<1>1. PICK j \in Nat, k \in Nat : j = Len(s) /\ k = Len(t)
  OBVIOUS
<1>2. /\ s \o t \in Seq(Chars) /\ Len(s \o t) = j + k
      /\ \A i \in 1 .. j + k : (s \o t)[i] = IF i <= j THEN s[i] ELSE t[i - j]
  BY <1>1, ConcatProperties
<1>3. ASSUME NEW i \in 1 .. j PROVE (s \o t)[i] = s[i]
  <2>1. i \in 1 .. j + k /\ i <= j
    OBVIOUS
  <2>. QED
    BY <1>2, <2>1
<1>4. ASSUME NEW i \in 1 .. k PROVE (s \o t)[j + i] = t[i]
  <2>1. j + i \in 1 .. j + k /\ ~(j + i <= j) /\ (j + i) - j = i
    OBVIOUS
  <2>. QED
    BY <1>2, <2>1
<1>. QED
  BY <1>1, <1>2, <1>3, <1>4

\* The parts of an encoded name, and where they are.
LEMMA EncodedParts ==
  ASSUME NEW n \in Names
  PROVE  /\ Len(n.prefix) \in Nat /\ Len(n.key) \in Nat
         /\ encode(n) \in Seq(Chars)
         /\ Len(encode(n)) = 3 + Len(n.prefix) + Len(n.key)
         /\ encode(n)[1] = ToString(Len(n.prefix))
         /\ \A i \in 1 .. Len(n.prefix) : encode(n)[2 + i] = n.prefix[i]
         /\ \A i \in 1 .. Len(n.key) : encode(n)[3 + Len(n.prefix) + i] = n.key[i]
<1>1. PICK p \in Seq(Chars), k \in Seq(Chars) : p = n.prefix /\ k = n.key
  <2>1. n.prefix \in Seq(STRING) /\ n.key \in Seq(STRING)
    BY RedisAssumption
  <2>2. n.prefix \in Seq(Chars) /\ n.key \in Seq(Chars)
    BY <2>1 DEF Chars
  <2>. QED
    BY <2>2
<1>2. PICK h \in Chars : h = ToString(Len(p))
  BY <1>1, RedisAssumption DEF Chars
<1>3. PICK l \in Nat : l = Len(p)
  OBVIOUS
<1>4. PICK a : a = <<h, ":">> \o p
  OBVIOUS
<1>5. a \in Seq(Chars) /\ Len(a) = 2 + l /\ a[1] = h /\ \A i \in 1 .. l : a[2 + i] = p[i]
  <2>1. PICK s \in Seq(Chars) : s = <<h, ":">> /\ Len(s) = 2 /\ s[1] = h
    <3>1. <<h, ":">> \in Seq(Chars)
      BY ShortSequences DEF Chars
    <3>2. Len(<<h, ":">>) = 2
      OBVIOUS
    <3>3. <<h, ":">>[1] = h
      OBVIOUS
    <3>. QED
      BY <3>1, <3>2, <3>3, Zenon
  <2>. QED
    BY <1>3, <1>4, <2>1, ConcatParts
<1>6. PICK b : b = a \o <<":">>
  OBVIOUS
<1>7. b \in Seq(Chars) /\ Len(b) = 3 + l /\ \A i \in 1 .. 2 + l : b[i] = a[i]
  <2>1. PICK s \in Seq(Chars) : s = <<":">> /\ Len(s) = 1
    <3>1. <<":">> \in Seq(Chars)
      BY ShortSequences DEF Chars
    <3>2. Len(<<":">>) = 1
      OBVIOUS
    <3>. QED
      BY <3>1, <3>2, Zenon
  <2>2. b = a \o s
    BY <1>6, <2>1
  <2>3. Len(b) = Len(a) + Len(s) /\ b \in Seq(Chars) /\ \A i \in 1 .. Len(a) : b[i] = a[i]
    BY <1>5, <2>2, ConcatParts
  <2>. QED
    BY <1>3, <1>5, <2>1, <2>3
<1>8. b[1] = h /\ \A i \in 1 .. l : b[2 + i] = p[i]
  <2>1. 1 \in 1 .. 2 + l /\ \A i \in 1 .. l : 2 + i \in 1 .. 2 + l
    BY <1>3
  <2>. QED
    BY <1>5, <1>7, <2>1
<1>9. PICK e : e = b \o k
  OBVIOUS
<1>10. /\ e \in Seq(Chars) /\ Len(e) = Len(b) + Len(k) /\ Len(k) \in Nat
       /\ \A i \in 1 .. Len(b) : e[i] = b[i]
       /\ \A i \in 1 .. Len(k) : e[Len(b) + i] = k[i]
  BY <1>7, <1>9, ConcatParts
<1>11. e[1] = h /\ \A i \in 1 .. l : e[2 + i] = p[i]
  <2>1. 1 \in 1 .. 3 + l /\ \A i \in 1 .. l : 2 + i \in 1 .. 3 + l
    BY <1>3
  <2>. QED
    BY <1>7, <1>8, <1>10, <2>1
<1>12. e = encode(n)
  BY <1>1, <1>2, <1>4, <1>6, <1>9 DEF encode
<1>13. /\ Len(n.prefix) \in Nat /\ Len(n.key) \in Nat /\ encode(n) \in Seq(Chars)
       /\ Len(encode(n)) = 3 + Len(n.prefix) + Len(n.key)
  BY <1>1, <1>3, <1>7, <1>10, <1>12
<1>14. encode(n)[1] = ToString(Len(n.prefix))
  BY <1>1, <1>2, <1>11, <1>12
<1>15. \A i \in 1 .. Len(n.prefix) : encode(n)[2 + i] = n.prefix[i]
  BY <1>1, <1>3, <1>11, <1>12
<1>16. \A i \in 1 .. Len(n.key) : encode(n)[3 + Len(n.prefix) + i] = n.key[i]
  BY <1>1, <1>3, <1>7, <1>10, <1>12
<1>. QED
  BY <1>13, <1>14, <1>15, <1>16

\* "distinct (keyPrefix, key) tuples never collide": the length before the
\* prefix says where the prefix ends.
LEMMA EncodeInjective ==
  ASSUME NEW m \in Names, NEW n \in Names, encode(m) = encode(n)
  PROVE  m = n
<1>1. Len(m.prefix) = Len(n.prefix)
  <2>1. ToString(Len(m.prefix)) = ToString(Len(n.prefix))
    <3>1. encode(m)[1] = ToString(Len(m.prefix)) /\ encode(n)[1] = ToString(Len(n.prefix))
      BY EncodedParts, Zenon
    <3>. QED
      BY <3>1, Zenon
  <2>. QED
    BY <2>1, RedisAssumption, Zenon
<1>2. PICK j \in Nat, k \in Nat, e \in {encode(m)} :
        e = encode(m) /\ e = encode(n) /\ j = Len(n.prefix) /\ k = Len(n.key)
  <2>1. Len(n.prefix) \in Nat /\ Len(n.key) \in Nat
    BY EncodedParts, Zenon
  <2>. QED
    BY <2>1
<1>3. Len(m.prefix) = j /\ Len(e) = 3 + j + k
  BY <1>1, <1>2, EncodedParts, Zenon
<1>4. Len(m.key) = k
  <2>1. PICK x \in Nat : x = Len(m.key)
    BY EncodedParts
  <2>2. Len(e) = 3 + j + x
    BY <1>2, <1>3, <2>1, EncodedParts, Zenon
  <2>3. x = k
    BY <1>3, <2>2
  <2>. QED
    BY <2>1, <2>3
<1>5. /\ m \in [prefix : Seq(STRING), key : Seq(STRING)]
      /\ n \in [prefix : Seq(STRING), key : Seq(STRING)]
  BY RedisAssumption
<1>6. /\ \A i \in 1 .. j : e[2 + i] = m.prefix[i] /\ e[2 + i] = n.prefix[i]
      /\ \A i \in 1 .. k : e[3 + j + i] = m.key[i] /\ e[3 + j + i] = n.key[i]
  <2>1. /\ \A i \in 1 .. j : e[2 + i] = n.prefix[i]
        /\ \A i \in 1 .. k : e[3 + j + i] = n.key[i]
    BY <1>2, EncodedParts, Zenon
  <2>2. /\ \A i \in 1 .. j : e[2 + i] = m.prefix[i]
        /\ \A i \in 1 .. k : e[3 + j + i] = m.key[i]
    <3>1. /\ \A i \in 1 .. Len(m.prefix) : e[2 + i] = m.prefix[i]
          /\ \A i \in 1 .. Len(m.key) : e[3 + Len(m.prefix) + i] = m.key[i]
      BY <1>2, EncodedParts, Zenon
    <3>. QED
      BY <1>3, <1>4, <3>1, Zenon
  <2>. QED
    BY <2>1, <2>2
<1>7. m.prefix = n.prefix
  <2>1. m.prefix \in Seq(STRING) /\ n.prefix \in Seq(STRING) /\ Len(m.prefix) = j /\ Len(n.prefix) = j
    BY <1>2, <1>3, <1>5
  <2>2. \A i \in 1 .. j : m.prefix[i] = n.prefix[i]
    BY <1>6
  <2>. QED
    BY <2>1, <2>2
<1>8. m.key = n.key
  <2>1. m.key \in Seq(STRING) /\ n.key \in Seq(STRING) /\ Len(m.key) = k /\ Len(n.key) = k
    BY <1>2, <1>4, <1>5
  <2>2. \A i \in 1 .. k : m.key[i] = n.key[i]
    BY <1>6
  <2>. QED
    BY <2>1, <2>2
<1>. QED
  BY <1>5, <1>7, <1>8

\* The limiter's keys are its own, and one for each name.
LEMMA RateKeysApart ==
  ASSUME NEW m \in Names, NEW n \in Names
  PROVE  /\ encode(m) # rateKey(n)
         /\ rateKey(m) = rateKey(n) => m = n
<1>1. rateKey(n)[1] = "rate:" /\ encode(m)[1] # "rate:"
  <2>1. PICK s \in Seq(Chars) : s = encode(n)
    BY EncodedParts
  <2>2. (<<"rate:">> \o s)[1] = "rate:"
    BY <2>1
  <2>3. encode(m)[1] = ToString(Len(m.prefix)) /\ ToString(Len(m.prefix)) # "rate:"
    BY EncodedParts, RedisAssumption
  <2>. QED
    BY <2>1, <2>2, <2>3 DEF rateKey
<1>2. ASSUME rateKey(m) = rateKey(n) PROVE encode(m) = encode(n)
  <2>1. PICK s \in Seq(Chars), t \in Seq(Chars) : s = encode(m) /\ t = encode(n)
    BY EncodedParts
  <2>2. <<"rate:">> \o s = <<"rate:">> \o t
    BY <1>2, <2>1 DEF rateKey
  <2>3. Len(s) = Len(t) /\ \A i \in 1 .. Len(s) : s[i] = t[i]
    <3>1. /\ Len(<<"rate:">> \o s) = 1 + Len(s) /\ \A i \in 1 .. Len(s) : (<<"rate:">> \o s)[1 + i] = s[i]
          /\ Len(<<"rate:">> \o t) = 1 + Len(t) /\ \A i \in 1 .. Len(t) : (<<"rate:">> \o t)[1 + i] = t[i]
      OBVIOUS
    <3>. QED
      BY <2>2, <3>1
  <2>4. s = t
    BY <2>3
  <2>. QED
    BY <2>1, <2>4
<1>. QED
  BY <1>1, <1>2, EncodeInjective

-----------------------------------------------------------------------------
(* The cache and the limiter                                               *)

Cell == [value : Values, until : Int]

\* What a name's cache key holds, and what its limiter key holds: the arrival
\* time is as far ahead as the bucket is full.
CacheSound(n) ==
  /\ At(redis, encode(n)) = cached[n]
  /\ encode(n) \in DOMAIN redis => redis[encode(n)] \in Cell

BucketSound(n, now) ==
  /\ level[n] \in Nat
  /\ rateKey(n) \notin DOMAIN redis => level[n] = 0
  /\ rateKey(n) \in DOMAIN redis =>
       /\ redis[rateKey(n)].value = now + level[n] /\ level[n] > 0
       /\ redis[rateKey(n)].until = now + level[n]

\* The last answer is true of the state it left.
AnswerSound(n) ==
  answer.name = n =>
    /\ answer.call = "get" /\ answer.result \in {"miss"} \cup Values =>
         answer.result = IF cached[n] = None THEN "miss" ELSE cached[n].value
    /\ answer.call = "allow" =>
         /\ answer.result = "allowed" => answer.retry = 0
         /\ answer.result = "denied" =>
              answer.retry > 0 /\ level[n] - answer.retry = Interval * (Burst - 1)

RedisInv(now) ==
  /\ now \in Nat
  /\ cached = [n \in Names |-> cached[n]] /\ level = [n \in Names |-> level[n]]
  /\ \A n \in Names : CacheSound(n) /\ BucketSound(n, now) /\ AnswerSound(n)

LEMMA RedisInitInv ==
  ASSUME RedisInit
  PROVE  RedisInv(0)
<1>1. DOMAIN redis = {} /\ answer.call = "none"
  BY DEF RedisInit, Nothing
<1>2. \A n \in Names : cached[n] = None /\ level[n] = 0
  BY DEF RedisInit
<1>3. cached = [n \in Names |-> cached[n]] /\ level = [n \in Names |-> level[n]]
  BY DEF RedisInit
<1>. QED
  BY <1>1, <1>2, <1>3 DEF RedisInv, CacheSound, BucketSound, AnswerSound, At

LEMMA RedisInvSuffices ==
  ASSUME NEW now, RedisInv(now)
  PROVE  CacheIsolated /\ QuotaIsExact
<1>1. CacheIsolated
  BY DEF RedisInv, CacheSound, AnswerSound, CacheIsolated
<1>2. QuotaIsExact
  BY DEF RedisInv, AnswerSound, QuotaIsExact
<1>. QED
  BY <1>1, <1>2

\* An answer that is neither of a read nor of a limit says nothing.
LEMMA OtherAnswer ==
  ASSUME NEW now, RedisInv(now), answer'.call \notin {"get", "allow"},
         cached' = [n \in Names |-> cached'[n]], level' = [n \in Names |-> level'[n]],
         \A n \in Names : CacheSound(n)' /\ BucketSound(n, now)'
  PROVE  RedisInv(now)'
BY DEF RedisInv, AnswerSound

LEMMA FailedCall ==
  ASSUME NEW now, RedisInv(now), NEW code, Fails(code), UNCHANGED <<redis, cached, level>>
  PROVE  RedisInv(now)'
<1>1. answer'.call = "none"
  BY DEF Fails, Nothing
<1>2. \A n \in Names : CacheSound(n)' /\ BucketSound(n, now)'
  BY DEF RedisInv, CacheSound, BucketSound, At
<1>3. cached' = [n \in Names |-> cached'[n]] /\ level' = [n \in Names |-> level'[n]]
  BY DEF RedisInv
<1>. QED
  BY <1>1, <1>2, <1>3, OtherAnswer

LEMMA ReadInv ==
  ASSUME NEW now, RedisInv(now), NEW n \in Names, Get(n) \/ Exists(n)
  PROVE  RedisInv(now)'
<1>0. UNCHANGED <<redis, cached, level>>
  BY DEF Get, Exists
<1>1. CASE Lost
  BY <1>0, <1>1, FailedCall DEF Lost
<1>2. /\ \A m \in Names : CacheSound(m)' /\ BucketSound(m, now)'
      /\ cached' = [m \in Names |-> cached'[m]] /\ level' = [m \in Names |-> level'[m]]
  BY <1>0 DEF RedisInv, CacheSound, BucketSound, At
<1>3. CASE Returns("get", n, IF encode(n) \in DOMAIN redis THEN redis[encode(n)].value ELSE "miss", 0)
  <2>1. /\ answer'.call = "get" /\ answer'.name = n
        /\ answer'.result = IF encode(n) \in DOMAIN redis THEN redis[encode(n)].value ELSE "miss"
    BY <1>3 DEF Returns
  <2>2. CacheSound(n)
    BY DEF RedisInv
  <2>3. answer'.result = IF cached[n] = None THEN "miss" ELSE cached[n].value
    <3>1. CASE encode(n) \in DOMAIN redis
      <4>1. cached[n] = redis[encode(n)] /\ cached[n] \in Cell
        BY <2>2, <3>1 DEF CacheSound, At
      <4>2. cached[n].value \in Values /\ None.value = "none"
        BY <4>1 DEF Cell, None
      <4>3. cached[n] # None
        BY <4>2, RedisAssumption
      <4>. QED
        BY <2>1, <3>1, <4>1, <4>3
    <3>2. CASE encode(n) \notin DOMAIN redis
      BY <2>1, <2>2, <3>2 DEF CacheSound, At
    <3>. QED
      BY <3>1, <3>2
  <2>4. \A m \in Names : AnswerSound(m)'
    BY <1>0, <2>1, <2>3 DEF AnswerSound
  <2>. QED
    BY <1>2, <2>4 DEF RedisInv
<1>4. CASE Returns("exists", n, IF encode(n) \in DOMAIN redis THEN "yes" ELSE "no", 0)
  <2>1. answer'.call = "exists"
    BY <1>4 DEF Returns
  <2>. QED
    BY <1>2, <2>1, OtherAnswer
<1>. QED
  BY <1>1, <1>3, <1>4 DEF Get, Exists

LEMMA RefusedInv ==
  ASSUME NEW now, RedisInv(now), NEW n \in Names, NEW ttl \in TTLs, Refused(n, ttl)
  PROVE  RedisInv(now)'
BY FailedCall DEF Refused

\* A command on one key leaves the others alone.
LEMMA PutOther ==
  ASSUME NEW k, NEW v, redis' = Put(redis, k, v)
  PROVE  /\ k \in DOMAIN redis' /\ redis'[k] = v
         /\ \A x : x # k => (x \in DOMAIN redis' <=> x \in DOMAIN redis)
         /\ \A x \in DOMAIN redis : x # k => redis'[x] = redis[x]
BY DEF Put

LEMMA DropOther ==
  ASSUME NEW gone, redis' = Drop(redis, gone)
  PROVE  /\ \A x : x \in DOMAIN redis' <=> x \in DOMAIN redis /\ x \notin gone
         /\ \A x \in DOMAIN redis' : redis'[x] = redis[x]
BY DEF Drop, Restrict

LEMMA WriteInv ==
  ASSUME NEW now, RedisInv(now), NEW n \in Names, NEW cell,
         \/ cell \in Cell /\ redis' = Put(redis, encode(n), cell)
         \/ cell = None /\ redis' = Drop(redis, {encode(n)}),
         cached' = [cached EXCEPT ![n] = cell], level' = level, answer'.call \notin {"get", "allow"}
  PROVE  RedisInv(now)'
<1>1. /\ \A x : x # encode(n) => (x \in DOMAIN redis' <=> x \in DOMAIN redis)
      /\ \A x \in DOMAIN redis : x # encode(n) => redis'[x] = redis[x]
  BY PutOther, DropOther
<1>2. /\ cached' = [m \in Names |-> cached'[m]] /\ cached'[n] = cell
      /\ \A m \in Names : m # n => cached'[m] = cached[m]
  BY DEF RedisInv
<1>3. CacheSound(n)'
  <2>1. CASE cell \in Cell /\ redis' = Put(redis, encode(n), cell)
    BY <1>2, <2>1, PutOther DEF CacheSound, At
  <2>2. CASE cell = None /\ redis' = Drop(redis, {encode(n)})
    BY <1>2, <2>2, DropOther DEF CacheSound, At
  <2>. QED
    BY <2>1, <2>2
<1>4. ASSUME NEW m \in Names, m # n PROVE CacheSound(m)'
  <2>1. encode(m) # encode(n) /\ CacheSound(m)
    BY <1>4, EncodeInjective DEF RedisInv
  <2>. QED
    BY <1>1, <1>2, <1>4, <2>1 DEF CacheSound, At
<1>5. ASSUME NEW m \in Names PROVE BucketSound(m, now)'
  <2>1. rateKey(m) # encode(n) /\ BucketSound(m, now)
    BY RateKeysApart DEF RedisInv
  <2>. QED
    BY <1>1, <2>1 DEF BucketSound
<1>6. level' = [m \in Names |-> level'[m]]
  BY DEF RedisInv
<1>. QED
  BY <1>2, <1>3, <1>4, <1>5, <1>6, OtherAnswer

LEMMA SetInv ==
  ASSUME NEW now, RedisInv(now), NEW n \in Names, NEW v \in Values, NEW ttl \in TTLs, Set(n, v, ttl, now)
  PROVE  RedisInv(now)'
<1>. DEFINE cell == [value |-> v, until |-> IF ttl = 0 THEN Never ELSE now + ttl]
<1>1. cell \in Cell
  <2>1. (IF ttl = 0 THEN Never ELSE now + ttl) \in Int
    BY RedisAssumption DEF RedisInv, Never
  <2>. QED
    BY <2>1 DEF Cell
<1>2. CASE Lost /\ UNCHANGED <<redis, cached>>
  BY <1>2, FailedCall DEF Lost, Set
<1>3. CASE redis' = Put(redis, encode(n), cell) /\ cached' = [cached EXCEPT ![n] = cell]
           /\ (Returns("set", n, "ok", 0) \/ Lost)
  <2>1. answer'.call \notin {"get", "allow"}
    BY <1>3 DEF Returns, Lost, Fails, Nothing
  <2>2. level' = level
    BY DEF Set
  <2>. HIDE DEF cell
  <2>. QED
    BY <1>1, <1>3, <2>1, <2>2, WriteInv
<1>. QED
  BY <1>2, <1>3 DEF Set

LEMMA DeleteInv ==
  ASSUME NEW now, RedisInv(now), NEW n \in Names, Delete(n)
  PROVE  RedisInv(now)'
<1>1. CASE Lost /\ UNCHANGED <<redis, cached>>
  BY <1>1, FailedCall DEF Lost, Delete
<1>2. CASE redis' = Drop(redis, {encode(n)}) /\ cached' = [cached EXCEPT ![n] = None]
           /\ (Returns("delete", n, "ok", 0) \/ Lost)
  <2>1. answer'.call \notin {"get", "allow"}
    BY <1>2 DEF Returns, Lost, Fails, Nothing
  <2>2. level' = level
    BY DEF Delete
  <2>. QED
    BY <1>2, <2>1, <2>2, WriteInv
<1>. QED
  BY <1>1, <1>2 DEF Delete

\* The arrival time of the next call is where the bucket would stand.
LEMMA ArrivalIsLevel ==
  ASSUME NEW now, RedisInv(now), NEW n \in Names
  PROVE  NextArrival(n, now) = now + level[n] + Interval
<1>1. BucketSound(n, now) /\ now \in Nat /\ level[n] \in Nat /\ Interval \in Nat
  BY RedisAssumption DEF RedisInv, BucketSound
<1>2. CASE rateKey(n) \in DOMAIN redis
  <2>1. At(redis, rateKey(n)).value = now + level[n] /\ level[n] > 0
    BY <1>1, <1>2 DEF BucketSound, At
  <2>2. now + level[n] > now
    BY <1>1, <2>1
  <2>. QED
    BY <1>2, <2>1, <2>2 DEF NextArrival
<1>3. CASE rateKey(n) \notin DOMAIN redis
  <2>1. NextArrival(n, now) = now + Interval /\ level[n] = 0
    BY <1>1, <1>3 DEF NextArrival, BucketSound
  <2>. QED
    BY <1>1, <2>1
<1>. QED
  BY <1>2, <1>3

LEMMA AllowInv ==
  ASSUME NEW now, RedisInv(now), NEW n \in Names, Allow(n, now)
  PROVE  RedisInv(now)'
<1>0. /\ now \in Nat /\ level[n] \in Nat /\ Interval \in Nat \ {0} /\ Burst \in Nat \ {0}
      /\ cached' = cached
  BY RedisAssumption DEF RedisInv, BucketSound, Allow
<1>1. PICK l \in Nat, a \in Nat : l = level[n] /\ a = now + l + Interval /\ a = NextArrival(n, now)
  BY <1>0, ArrivalIsLevel
<1>2. CASE Lost /\ UNCHANGED <<redis, level>>
  BY <1>0, <1>2, FailedCall DEF Lost
<1>3. CASE redis' = Put(redis, rateKey(n), [value |-> a, until |-> a])
           /\ level' = [level EXCEPT ![n] = @ + Interval]
           /\ (mapResult("allow", n, TRUE, Never) \/ Lost)
  <2>. DEFINE cell == [value |-> a, until |-> a]
  <2>1. cell.value = a /\ cell.until = a
    OBVIOUS
  <2>. HIDE DEF cell
  <2>2. /\ rateKey(n) \in DOMAIN redis' /\ redis'[rateKey(n)] = cell
        /\ \A x : x # rateKey(n) => (x \in DOMAIN redis' <=> x \in DOMAIN redis)
        /\ \A x \in DOMAIN redis : x # rateKey(n) => redis'[x] = redis[x]
    <3>1. redis' = Put(redis, rateKey(n), cell)
      BY <1>3 DEF cell
    <3>. QED
      BY <3>1, PutOther
  <2>3. /\ level' = [m \in Names |-> level'[m]] /\ level'[n] = l + Interval
        /\ \A m \in Names : m # n => level'[m] = level[m]
    BY <1>1, <1>3 DEF RedisInv
  <2>4. ASSUME NEW m \in Names PROVE CacheSound(m)'
    <3>1. CacheSound(m) /\ encode(m) # rateKey(n)
      BY RateKeysApart DEF RedisInv
    <3>. QED
      BY <1>0, <2>2, <3>1 DEF CacheSound, At
  <2>5. BucketSound(n, now)'
    <3>1. l + Interval \in Nat /\ l + Interval > 0 /\ a = now + (l + Interval)
      BY <1>0, <1>1
    <3>. QED
      BY <2>1, <2>2, <2>3, <3>1 DEF BucketSound
  <2>6. ASSUME NEW m \in Names, m # n PROVE BucketSound(m, now)'
    <3>1. BucketSound(m, now) /\ rateKey(m) # rateKey(n)
      BY <2>6, RateKeysApart DEF RedisInv
    <3>. QED
      BY <2>2, <2>3, <2>6, <3>1 DEF BucketSound
  <2>7. cached' = [m \in Names |-> cached'[m]]
    BY <1>0 DEF RedisInv
  <2>8. CASE Lost
    <3>1. answer'.call = "none"
      BY <2>8 DEF Lost, Fails, Nothing
    <3>. QED
      BY <2>3, <2>4, <2>5, <2>6, <2>7, <3>1, OtherAnswer
  <2>9. CASE mapResult("allow", n, TRUE, Never)
    <3>1. answer'.call = "allow" /\ answer'.result = "allowed" /\ answer'.retry = 0
      BY <2>9 DEF mapResult, Returns
    <3>2. \A m \in Names : AnswerSound(m)'
      BY <3>1 DEF AnswerSound
    <3>. QED
      BY <1>0, <2>3, <2>4, <2>5, <2>6, <2>7, <3>2 DEF RedisInv
  <2>. QED
    BY <1>3, <2>8, <2>9
<1>4. CASE a - Interval * Burst - now > 0 /\ UNCHANGED <<redis, level>>
           /\ (mapResult("allow", n, FALSE, a - Interval * Burst - now) \/ Lost)
  <2>1. CASE Lost
    BY <1>0, <1>4, <2>1, FailedCall DEF Lost
  <2>2. CASE mapResult("allow", n, FALSE, a - Interval * Burst - now)
    <3>1. /\ answer'.call = "allow" /\ answer'.name = n /\ answer'.result = "denied"
          /\ answer'.retry = a - Interval * Burst - now
      BY <2>2 DEF mapResult, Returns
    <3>2. l - (a - Interval * Burst - now) = Interval * (Burst - 1)
      <4>1. PICK p \in Int : p = Interval * Burst
        BY <1>0
      <4>2. Interval * (Burst - 1) = p - Interval
        BY <1>0, <4>1
      <4>3. l - (a - p - now) = p - Interval
        BY <1>0, <1>1, <4>1
      <4>. QED
        BY <4>1, <4>2, <4>3
    <3>3. \A m \in Names : AnswerSound(m)'
      BY <1>1, <1>4, <3>1, <3>2 DEF AnswerSound
    <3>4. \A m \in Names : CacheSound(m)' /\ BucketSound(m, now)'
      BY <1>0, <1>4 DEF RedisInv, CacheSound, BucketSound, At
    <3>5. cached' = [m \in Names |-> cached'[m]] /\ level' = [m \in Names |-> level'[m]]
      BY <1>0, <1>4 DEF RedisInv
    <3>. QED
      BY <1>0, <3>3, <3>4, <3>5 DEF RedisInv
  <2>. QED
    BY <1>4, <2>1, <2>2
<1>. QED
  BY <1>1, <1>2, <1>3, <1>4 DEF Allow

\* A key expires on the server when its name's history says so.
LEMMA RedisTickInv ==
  ASSUME NEW now, RedisInv(now), RedisTick(now + 1)
  PROVE  RedisInv(now + 1)'
<1>0. now \in Nat /\ now + 1 \in Nat /\ answer'.call = "none"
  BY DEF RedisInv, RedisTick, Nothing
<1>1. /\ \A x : x \in DOMAIN redis' <=> x \in DOMAIN redis /\ redis[x].until # now + 1
      /\ \A x \in DOMAIN redis' : redis'[x] = redis[x]
  BY DropOther DEF RedisTick
<1>2. /\ \A n \in Names : cached'[n] = IF cached[n].until = now + 1 THEN None ELSE cached[n]
      /\ \A n \in Names : level'[n] = IF level[n] > 0 THEN level[n] - 1 ELSE 0
      /\ cached' = [n \in Names |-> cached'[n]] /\ level' = [n \in Names |-> level'[n]]
  BY DEF RedisTick
<1>3. ASSUME NEW n \in Names PROVE CacheSound(n)'
  <2>1. CacheSound(n)
    BY DEF RedisInv
  <2>2. CASE encode(n) \in DOMAIN redis
    BY <1>1, <1>2, <2>1, <2>2 DEF CacheSound, At
  <2>3. CASE encode(n) \notin DOMAIN redis
    BY <1>1, <1>2, <2>1, <2>3 DEF CacheSound, At
  <2>. QED
    BY <2>2, <2>3
<1>4. ASSUME NEW n \in Names PROVE BucketSound(n, now + 1)'
  <2>1. BucketSound(n, now) /\ level[n] \in Nat
    BY DEF RedisInv, BucketSound
  <2>2. CASE rateKey(n) \notin DOMAIN redis
    BY <1>1, <1>2, <2>1, <2>2 DEF BucketSound
  <2>3. CASE rateKey(n) \in DOMAIN redis
    <3>1. PICK l \in Nat : l = level[n] /\ l > 0
      BY <2>1, <2>3 DEF BucketSound
    <3>2. level'[n] = l - 1 /\ l - 1 \in Nat
      BY <1>2, <3>1
    <3>3. redis[rateKey(n)].value = now + l /\ redis[rateKey(n)].until = now + l
      BY <2>1, <2>3, <3>1 DEF BucketSound
    <3>4. CASE l = 1
      BY <1>1, <3>2, <3>3, <3>4 DEF BucketSound
    <3>5. CASE l # 1
      <4>1. now + l # now + 1 /\ l - 1 > 0 /\ now + l = (now + 1) + (l - 1)
        BY <1>0, <3>1, <3>5
      <4>2. rateKey(n) \in DOMAIN redis' /\ redis'[rateKey(n)] = redis[rateKey(n)]
        BY <1>1, <2>3, <3>3, <4>1
      <4>. QED
        BY <3>2, <3>3, <4>1, <4>2 DEF BucketSound
    <3>. QED
      BY <3>4, <3>5
  <2>. QED
    BY <2>2, <2>3
<1>5. \A n \in Names : AnswerSound(n)'
  BY <1>0 DEF AnswerSound
<1>. QED
  BY <1>0, <1>2, <1>3, <1>4, <1>5 DEF RedisInv

-----------------------------------------------------------------------------
(* The API                                                                 *)

Inductive == AccessInv(clock) /\ HealthInv /\ RedisInv(clock)

LEMMA InitInductive == Init => Inductive
BY AccessInitInv, HealthInitInv, RedisInitInv DEF Init, Inductive

LEMMA SameHealth ==
  ASSUME HealthInv, UNCHANGED healthVars
  PROVE  HealthInv'
BY DEF HealthInv, HealthType, ProbeSound, healthVars

LEMMA SameAccess ==
  ASSUME NEW now, AccessInv(now), UNCHANGED accessVars
  PROVE  AccessInv(now)'
<1>0. UNCHANGED <<config, policy, request, said>>
  BY DEF accessVars
<1>1. ConfigSound' <=> ConfigSound
  BY <1>0 DEF ConfigSound
<1>2. AccessType(now)'
  BY <1>0, <1>1 DEF AccessInv, AccessType
<1>3. ASSUME NEW r \in Requests PROVE RequestSound(r, now)'
  <2>1. RequestSound(r, now)
    BY DEF AccessInv
  <2>2. (Entitled(r)' <=> Entitled(r)) /\ (Refused401(r, now)' <=> Refused401(r, now))
    BY <1>0, SameVerdict
  <2>3. Tuple(r)' = Tuple(r) /\ (Allowed(r)' <=> Allowed(r)) /\ (Forbidden(r)' <=> Forbidden(r))
    BY <1>0 DEF Tuple, Allowed, Forbidden
  <2>. QED
    BY <1>0, <2>1, <2>2, <2>3 DEF RequestSound
<1>. QED
  BY <1>2, <1>3 DEF AccessInv

LEMMA SameRedis ==
  ASSUME NEW now, RedisInv(now), UNCHANGED redisVars
  PROVE  RedisInv(now)'
BY DEF RedisInv, CacheSound, BucketSound, AnswerSound, At, redisVars

LEMMA RedisCallInv ==
  ASSUME NEW now, RedisInv(now), RedisCall(now)
  PROVE  RedisInv(now)'
BY ReadInv, DeleteInv, AllowInv, RefusedInv, SetInv DEF RedisCall

LEMMA NextInductive == Inductive /\ [Next]_vars => Inductive'
<1>. SUFFICES ASSUME Inductive, [Next]_vars PROVE Inductive'
  OBVIOUS
<1>0. PICK now : now = clock
  OBVIOUS
<1>1. AccessInv(now) /\ HealthInv /\ RedisInv(now) /\ now \in Nat
  BY <1>0 DEF Inductive, RedisInv
<1>2. CASE Protected
  BY <1>0, <1>1, <1>2, AccessNextInv, SameHealth, SameRedis DEF Protected, Inductive
<1>3. CASE Ready
  BY <1>0, <1>1, <1>3, HealthNextInv, SameAccess, SameRedis DEF Ready, Inductive
<1>4. CASE Data
  BY <1>0, <1>1, <1>4, RedisCallInv, SameAccess, SameHealth DEF Data, Inductive
<1>5. CASE Tick
  BY <1>0, <1>1, <1>5, AccessTickInv, RedisTickInv, SameHealth DEF Tick, Inductive
<1>6. CASE UNCHANGED vars
  BY <1>0, <1>1, <1>6, SameAccess, SameHealth, SameRedis DEF vars, Inductive
<1>. QED
  BY <1>2, <1>3, <1>4, <1>5, <1>6 DEF Next

LEMMA InductiveAlways == Spec => []Inductive
BY InitInductive, NextInductive, PTL DEF Spec

\* Nobody is served without a genuine token, under a key as long as its
\* algorithm asks for, that was good when the request arrived, and without the
\* policy allowing it since: what Verify and Allow check at two moments holds
\* together (jwt.Verify, casbin.Allow).
THEOREM ServedAreEntitled == Spec => []ServedIsEntitled
<1>1. Inductive => ServedIsEntitled
  BY AccessInvSuffices DEF Inductive
<1>. QED
  BY <1>1, InductiveAlways, PTL

\* Nobody with a genuine token valid from arrival to answer is told that it is
\* invalid, and nobody the policy allowed throughout is forbidden
\* (auth middleware's defaultErrorResponder).
THEOREM RefusalsHaveCause == Spec => []NobodyRefusedWrongly
<1>1. Inductive => NobodyRefusedWrongly
  BY AccessInvSuffices DEF Inductive, NobodyRefusedWrongly
<1>. QED
  BY <1>1, InductiveAlways, PTL

\* Readiness says 200 only if each registered check was seen up during the
\* probe, and 503 only if one failed or the client left (health.Readiness).
THEOREM ReadinessIsHonest == Spec => []ReadinessHonest
<1>1. Inductive => ReadinessHonest
  BY HealthInvSuffices DEF Inductive
<1>. QED
  BY <1>1, InductiveAlways, PTL

\* The cache reads under a name what was last set under it and has not expired,
\* whatever the prefixes and the keys are, and with a limiter on the same server
\* (cache/redis encode).
THEOREM CacheNamesAreIsolated == Spec => []CacheIsolated
<1>1. Inductive => CacheIsolated
  BY RedisInvSuffices DEF Inductive
<1>. QED
  BY <1>1, InductiveAlways, PTL

\* Every name has its own leaky bucket, and RetryAfter is exactly the wait
\* until it admits a call (ratelimit/redis mapResult).
THEOREM QuotasAreExact == Spec => []QuotaIsExact
<1>1. Inductive => QuotaIsExact
  BY RedisInvSuffices DEF Inductive
<1>. QED
  BY <1>1, InductiveAlways, PTL
=============================================================================
