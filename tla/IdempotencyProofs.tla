-------------------------- MODULE IdempotencyProofs -------------------------
(***************************************************************************)
(* Proofs about Idempotency for any set of requests and fingerprints, any  *)
(* lease, retention and number of faults, with and without a client        *)
(* library that repeats commands.                                          *)
(***************************************************************************)
EXTENDS Idempotency, FiniteSetTheorems, TLAPS

-----------------------------------------------------------------------------
(* The inductive invariant                                                 *)

\* Where a request knows the token of a reservation.
Reserving == {"work", "finish", "cancel", "conflict"}

TypeOK ==
  /\ rec \in [st : {"-", "P", "C"}, fp : {NoFingerprint} \cup {Fingerprint[c] : c \in Requests},
              tok : Nat, resp : Nat, ttl : Nat]
  /\ pc \in [Requests -> {"begin"} \cup Reserving \cup Done]
  /\ token \in [Requests -> Nat]
  /\ answer \in [Requests -> Nat]
  /\ minted \in Seq({Fingerprint[c] : c \in Requests})
  /\ applied \subseteq DOMAIN minted
  /\ executed \in Nat /\ reopened \in Nat /\ spent \in Nat

\* The token of the record, of a stored response and of every request that is
\* at work was minted, and for the fingerprint it is used with.
TokensMatch ==
  /\ rec.st = "P" => rec.tok \in DOMAIN minted /\ minted[rec.tok] = rec.fp
  /\ rec.st = "C" => rec.resp \in applied /\ minted[rec.resp] = rec.fp
  /\ \A c \in Requests : pc[c] \in Reserving =>
       token[c] \in DOMAIN minted /\ minted[token[c]] = Fingerprint[c]

\* A token is known to one request at most, and a request that still knows one
\* whose response is stored lost the reply to the client library's repetition.
TokensOwned ==
  /\ \A c, d \in Requests :
       pc[c] \in Reserving /\ pc[d] \in Reserving /\ token[c] = token[d] => c = d
  /\ \A c \in Requests : pc[c] \in Reserving /\ token[c] \in applied => token[c] \in repeated

\* Requests that hold a reservation and have not run the handler yet.
Unserved == {c \in Requests : pc[c] = "work"}

\* A reservation pays for one execution.
ExecutionsReserved ==
  /\ IsFiniteSet(Unserved)
  /\ executed + Cardinality(Unserved) <= Len(minted)

\* Every reservation but the current one was ended by a release, by the end of
\* a retention or by a fault; so was the current one when nobody holds it.
ReservationsPaid ==
  /\ Len(minted) <= 1 + reopened + spent
  /\ rec.st # "C" /\ ~Held => Len(minted) <= reopened + spent

Inductive ==
  /\ TypeOK
  /\ TokensMatch
  /\ TokensOwned
  /\ AnswersMatchRequest
  /\ ExecutionsReserved
  /\ ReservationsPaid

-----------------------------------------------------------------------------
(* Type correctness                                                        *)

\* What the scripts leave behind is well formed.
LEMMA ScriptType ==
  ASSUME TypeOK, NEW c \in Requests,
         \/ Reserve(Fingerprint[c]) /\ UNCHANGED applied
         \/ Complete(token[c]) /\ pc[c] = "finish" /\ UNCHANGED minted
            /\ token[c] \in DOMAIN minted
  PROVE  /\ rec' \in [st : {"-", "P", "C"},
                      fp : {NoFingerprint} \cup {Fingerprint[d] : d \in Requests},
                      tok : Nat, resp : Nat, ttl : Nat]
         /\ minted' \in Seq({Fingerprint[d] : d \in Requests})
         /\ applied' \subseteq DOMAIN minted'
<1>1. CASE Reserve(Fingerprint[c]) /\ UNCHANGED applied
  BY <1>1, IdempotencyAssumption DEF TypeOK, Reserve, NoAnswer
<1>2. CASE Complete(token[c]) /\ UNCHANGED minted /\ token[c] \in DOMAIN minted
  BY <1>2, IdempotencyAssumption DEF TypeOK, Complete, Owned, NoToken
<1>. QED
  BY <1>1, <1>2

LEMMA TypeStep ==
  ASSUME TypeOK, TokensMatch, [Next]_vars
  PROVE  TypeOK'
<1>a. ASSUME Fault PROVE spent' \in Nat
  BY <1>a DEF Fault, TypeOK
<1>1. ASSUME NEW c \in Requests, Begin(c) PROVE TypeOK'
  <2>1. CASE BeginNew(c)
    <3>1. Reserve(Fingerprint[c]) /\ UNCHANGED applied
      BY <2>1 DEF BeginNew
    <3>2. Len(minted) + 1 \in Nat
      BY DEF TypeOK
    <3>. QED
      BY <2>1, <3>1, <3>2, ScriptType DEF BeginNew, TypeOK, Reserving
  <2>2. CASE BeginMismatch(c)
    BY <2>2 DEF BeginMismatch, TypeOK, Done
  <2>3. CASE BeginCompleted(c)
    BY <2>3 DEF BeginCompleted, TypeOK, Done
  <2>. QED
    BY <1>1, <2>1, <2>2, <2>3 DEF Begin
<1>2. ASSUME NEW c \in Requests, Handle(c) PROVE TypeOK'
  BY <1>2 DEF Handle, TypeOK, Reserving
<1>3. ASSUME NEW c \in Requests, FinishOk(c) PROVE TypeOK'
  <2>1. token[c] \in DOMAIN minted
    BY <1>3 DEF FinishOk, TokensMatch, Reserving
  <2>. QED
    BY <1>3, <2>1, ScriptType DEF FinishOk, TypeOK, Done
<1>4. ASSUME NEW c \in Requests, FinishConflict(c) \/ Recover(c) PROVE TypeOK'
  <2>1. CASE FinishConflict(c)
    BY <2>1 DEF FinishConflict, TypeOK, Reserving
  <2>2. CASE Recover(c)
    BY <2>2 DEF Recover, TypeOK, NoToken
  <2>. QED
    BY <1>4, <2>1, <2>2
<1>5. ASSUME NEW c \in Requests, CancelSent(c) PROVE TypeOK'
  BY <1>5 DEF CancelSent, Release, Absent, NoToken, NoAnswer, TypeOK, Done
<1>6. ASSUME NEW c \in Requests, Disturbance(c) PROVE TypeOK'
  <2>1. CASE BeginLost(c)
    BY <2>1, <1>a, ScriptType DEF BeginLost, TypeOK
  <2>2. CASE Crash(c) \/ CancelLost(c)
    BY <2>2, <1>a DEF Crash, CancelLost, TypeOK, Done
  <2>3. CASE FinishLost(c)
    <3>1. token[c] \in DOMAIN minted
      BY <2>3 DEF FinishLost, TokensMatch, Reserving
    <3>2. CASE Complete(token[c])
      BY <2>3, <3>1, <3>2, <1>a, ScriptType DEF FinishLost, TypeOK, NoToken
    <3>3. CASE UNCHANGED <<rec, applied>>
      BY <2>3, <3>3, <1>a DEF FinishLost, TypeOK, NoToken
    <3>. QED
      BY <2>3, <3>2, <3>3 DEF FinishLost
  <2>4. CASE FinishRepeated(c)
    <3>1. token[c] \in DOMAIN minted
      BY <2>4 DEF FinishRepeated, TokensMatch, Reserving
    <3>. QED
      BY <2>4, <3>1, <1>a, ScriptType DEF FinishRepeated, TypeOK
  <2>. QED
    BY <1>6, <2>1, <2>2, <2>3, <2>4 DEF Disturbance
<1>7. CASE Tick
  <2>1. CASE Expires
    BY <1>7, <2>1 DEF Tick, Absent, NoToken, NoAnswer, TypeOK
  <2>2. CASE ~Expires
    <3>1. rec' = [rec EXCEPT !.ttl = rec.ttl - 1] /\ rec.ttl > 0
      BY <1>7, <2>2 DEF Tick
    <3>2. rec' \in [st : {"-", "P", "C"}, fp : {NoFingerprint} \cup {Fingerprint[c] : c \in Requests},
                    tok : Nat, resp : Nat, ttl : Nat]
      <4>. DEFINE F == {NoFingerprint} \cup {Fingerprint[c] : c \in Requests}
      <4>1. rec \in [st : {"-", "P", "C"}, fp : F, tok : Nat, resp : Nat, ttl : Nat]
        BY DEF TypeOK
      <4>. HIDE DEF F
      <4>2. rec' \in [st : {"-", "P", "C"}, fp : F, tok : Nat, resp : Nat, ttl : Nat]
        BY <3>1, <4>1
      <4>. QED
        BY <4>2 DEF F
    <3>3. UNCHANGED <<pc, token, answer, minted, applied, executed, spent>> /\ reopened' = reopened
      BY <1>7, <2>2 DEF Tick
    <3>. QED
      BY <3>2, <3>3 DEF TypeOK
  <2>. QED
    BY <2>1, <2>2
<1>8. CASE Overrun
  BY <1>8, <1>a DEF Overrun, Absent, NoToken, NoAnswer, TypeOK
<1>9. CASE UNCHANGED vars
  BY <1>9 DEF vars, TypeOK
<1>. QED
  BY <1>1, <1>2, <1>3, <1>4, <1>5, <1>6, <1>7, <1>8, <1>9 DEF Next, Request

-----------------------------------------------------------------------------
(* Tokens                                                                  *)

LEMMA TokensMatchStep ==
  ASSUME TypeOK, TokensMatch, [Next]_vars
  PROVE  TokensMatch'
<1>1. ASSUME NEW c \in Requests, Begin(c) PROVE TokensMatch'
  <2>1. CASE BeginNew(c)
    BY <2>1 DEF BeginNew, Reserve, TypeOK, TokensMatch, Reserving
  <2>2. CASE BeginMismatch(c)
    BY <2>2 DEF BeginMismatch, TypeOK, TokensMatch, Reserving
  <2>3. CASE BeginCompleted(c)
    BY <2>3 DEF BeginCompleted, TypeOK, TokensMatch, Reserving
  <2>. QED
    BY <1>1, <2>1, <2>2, <2>3 DEF Begin
<1>2. ASSUME NEW c \in Requests, Handle(c) PROVE TokensMatch'
  BY <1>2 DEF Handle, TypeOK, TokensMatch, Reserving
<1>3. ASSUME NEW c \in Requests, FinishOk(c) PROVE TokensMatch'
  BY <1>3 DEF FinishOk, Complete, Owned, TypeOK, TokensMatch, Reserving
<1>4. ASSUME NEW c \in Requests, FinishConflict(c) \/ Recover(c) PROVE TokensMatch'
  BY <1>4 DEF FinishConflict, Recover, TypeOK, TokensMatch, Reserving
<1>5. ASSUME NEW c \in Requests, CancelSent(c) PROVE TokensMatch'
  <2>1. CASE Release(token[c])
    BY <1>5, <2>1 DEF CancelSent, Release, Absent, TypeOK, TokensMatch, Reserving
  <2>2. CASE UNCHANGED <<rec, reopened>>
    BY <1>5, <2>2 DEF CancelSent, TypeOK, TokensMatch, Reserving
  <2>. QED
    BY <1>5, <2>1, <2>2 DEF CancelSent
<1>6. ASSUME NEW c \in Requests, Disturbance(c) PROVE TokensMatch'
  <2>1. CASE BeginLost(c)
    BY <2>1 DEF BeginLost, Reserve, TypeOK, TokensMatch
  <2>2. CASE Crash(c) \/ CancelLost(c)
    BY <2>2 DEF Crash, CancelLost, TypeOK, TokensMatch, Reserving
  <2>3. CASE FinishLost(c)
    <3>1. CASE Complete(token[c])
      BY <2>3, <3>1 DEF FinishLost, Complete, Owned, TypeOK, TokensMatch, Reserving
    <3>2. CASE UNCHANGED <<rec, applied>>
      BY <2>3, <3>2 DEF FinishLost, TypeOK, TokensMatch, Reserving
    <3>. QED
      BY <2>3, <3>1, <3>2 DEF FinishLost
  <2>4. CASE FinishRepeated(c)
    BY <2>4 DEF FinishRepeated, Complete, Owned, TypeOK, TokensMatch
  <2>. QED
    BY <1>6, <2>1, <2>2, <2>3, <2>4 DEF Disturbance
<1>7. CASE Tick
  BY <1>7 DEF Tick, Expires, Absent, TypeOK, TokensMatch
<1>8. CASE Overrun
  BY <1>8 DEF Overrun, Absent, TypeOK, TokensMatch
<1>9. CASE UNCHANGED vars
  BY <1>9 DEF vars, TokensMatch
<1>. QED
  BY <1>1, <1>2, <1>3, <1>4, <1>5, <1>6, <1>7, <1>8, <1>9 DEF Next, Request

LEMMA TokensOwnedStep ==
  ASSUME TypeOK, TokensMatch, TokensOwned, [Next]_vars
  PROVE  TokensOwned'
<1>1. ASSUME NEW c \in Requests, Begin(c) PROVE TokensOwned'
  <2>1. CASE BeginNew(c)
    <3>1. \A d \in Requests : pc[d] \in Reserving => token[d] # Len(minted) + 1
      BY DEF TypeOK, TokensMatch
    <3>2. Len(minted) + 1 \notin applied
      BY DEF TypeOK
    <3>. QED
      BY <2>1, <3>1, <3>2 DEF BeginNew, TypeOK, TokensOwned, Reserving
  <2>2. CASE BeginMismatch(c)
    BY <2>2 DEF BeginMismatch, TypeOK, TokensOwned, Reserving
  <2>3. CASE BeginCompleted(c)
    BY <2>3 DEF BeginCompleted, TypeOK, TokensOwned, Reserving
  <2>. QED
    BY <1>1, <2>1, <2>2, <2>3 DEF Begin
<1>2. ASSUME NEW c \in Requests, Handle(c) PROVE TokensOwned'
  BY <1>2 DEF Handle, TypeOK, TokensOwned, Reserving
<1>3. ASSUME NEW c \in Requests, FinishOk(c) PROVE TokensOwned'
  BY <1>3 DEF FinishOk, Complete, TypeOK, TokensOwned, Reserving
<1>4. ASSUME NEW c \in Requests, FinishConflict(c) \/ Recover(c) PROVE TokensOwned'
  <2>1. CASE FinishConflict(c)
    BY <2>1 DEF FinishConflict, TypeOK, TokensOwned, Reserving
  <2>2. CASE Recover(c)
    BY <2>2 DEF Recover, TypeOK, TokensOwned, Reserving
  <2>. QED
    BY <1>4, <2>1, <2>2
<1>5. ASSUME NEW c \in Requests, CancelSent(c) PROVE TokensOwned'
  BY <1>5 DEF CancelSent, TypeOK, TokensOwned, Reserving
<1>6. ASSUME NEW c \in Requests, Disturbance(c) PROVE TokensOwned'
  <2>1. CASE BeginLost(c)
    BY <2>1 DEF BeginLost, TokensOwned
  <2>2. CASE Crash(c) \/ CancelLost(c)
    BY <2>2 DEF Crash, CancelLost, TypeOK, TokensOwned, Reserving
  <2>3. CASE FinishLost(c)
    <3>1. applied' \subseteq applied \cup {token[c]}
      BY <2>3 DEF FinishLost, Complete
    <3>. QED
      BY <2>3, <3>1 DEF FinishLost, TypeOK, TokensOwned, Reserving
  <2>4. CASE FinishRepeated(c)
    BY <2>4 DEF FinishRepeated, Complete, TypeOK, TokensOwned
  <2>. QED
    BY <1>6, <2>1, <2>2, <2>3, <2>4 DEF Disturbance
<1>7. CASE Tick \/ Overrun
  BY <1>7 DEF Tick, Overrun, TokensOwned
<1>8. CASE UNCHANGED vars
  BY <1>8 DEF vars, TokensOwned
<1>. QED
  BY <1>1, <1>2, <1>3, <1>4, <1>5, <1>6, <1>7, <1>8 DEF Next, Request

\* What was minted and applied stays so, and a new answer is one of them.
LEMMA AnswersStep ==
  ASSUME TypeOK, TokensMatch, AnswersMatchRequest, [Next]_vars
  PROVE  AnswersMatchRequest'
<1>1. applied \subseteq applied'
  BY DEF Next, Request, Begin, BeginNew, BeginMismatch, BeginCompleted, Handle, FinishOk, FinishConflict,
         Recover, CancelSent, Disturbance, BeginLost, Crash, FinishLost, FinishRepeated, CancelLost,
         Complete, Tick, Overrun, vars
<1>2. \A i \in DOMAIN minted : i \in DOMAIN minted' /\ minted'[i] = minted[i]
  <2>1. minted' = minted \/ \E c \in Requests : minted' = Append(minted, Fingerprint[c])
    BY DEF Next, Request, Begin, BeginNew, BeginMismatch, BeginCompleted, Handle, FinishOk, FinishConflict,
           Recover, CancelSent, Disturbance, BeginLost, Crash, FinishLost, FinishRepeated, CancelLost,
           Reserve, Tick, Overrun, vars
  <2>2. ASSUME NEW f \in {Fingerprint[c] : c \in Requests}, minted' = Append(minted, f)
        PROVE  \A i \in DOMAIN minted : i \in DOMAIN minted' /\ minted'[i] = minted[i]
    BY <2>2 DEF TypeOK
  <2>. QED
    BY <2>1, <2>2
<1>3. ASSUME NEW c \in Requests, answer'[c] # answer[c], answer'[c] # NoAnswer
      PROVE  answer'[c] \in applied' /\ minted'[answer'[c]] = Fingerprint[c]
  <2>1. CASE BeginCompleted(c)
    BY <2>1 DEF BeginCompleted, TypeOK, TokensMatch
  <2>2. CASE FinishOk(c)
    BY <2>2 DEF FinishOk, Complete, TypeOK, TokensMatch, Reserving
  <2>3. BeginCompleted(c) \/ FinishOk(c)
    BY <1>3 DEF Next, Request, Begin, BeginNew, BeginMismatch, BeginCompleted, Handle, FinishOk,
         FinishConflict, Recover, CancelSent, Disturbance, BeginLost, Crash, FinishLost, FinishRepeated,
         CancelLost, Tick, Overrun, vars, TypeOK
  <2>. QED
    BY <2>1, <2>2, <2>3
<1>. QED
  BY <1>1, <1>2, <1>3 DEF AnswersMatchRequest, TypeOK

-----------------------------------------------------------------------------
(* Executions                                                              *)

LEMMA ReservedStep ==
  ASSUME TypeOK, ExecutionsReserved, [Next]_vars
  PROVE  ExecutionsReserved'
<1>0. Len(minted) \in Nat /\ Cardinality(Unserved) \in Nat /\ executed \in Nat
  BY FS_CardinalityType DEF TypeOK, ExecutionsReserved
<1>a. ASSUME Unserved' \subseteq Unserved, UNCHANGED executed, Len(minted') \in Nat,
             Len(minted') >= Len(minted)
      PROVE  ExecutionsReserved'
  <2>1. IsFiniteSet(Unserved') /\ Cardinality(Unserved') <= Cardinality(Unserved)
    BY <1>a, FS_Subset DEF ExecutionsReserved
  <2>2. Cardinality(Unserved') \in Nat
    BY <2>1, FS_CardinalityType
  <2>. QED
    BY <1>0, <1>a, <2>1, <2>2 DEF ExecutionsReserved
<1>1. ASSUME NEW c \in Requests, BeginNew(c) PROVE ExecutionsReserved'
  <2>1. Unserved' = Unserved \cup {c} /\ c \notin Unserved
    BY <1>1 DEF BeginNew, Unserved, TypeOK
  <2>2. IsFiniteSet(Unserved') /\ Cardinality(Unserved') = Cardinality(Unserved) + 1
    BY <2>1, FS_AddElement DEF ExecutionsReserved
  <2>3. Len(minted') = Len(minted) + 1 /\ executed' = executed
    BY <1>1 DEF BeginNew, Reserve, TypeOK
  <2>. QED
    BY <1>0, <2>2, <2>3 DEF ExecutionsReserved
<1>2. ASSUME NEW c \in Requests, Handle(c) PROVE ExecutionsReserved'
  <2>1. Unserved' = Unserved \ {c} /\ c \in Unserved
    BY <1>2 DEF Handle, Unserved, TypeOK
  <2>2. IsFiniteSet(Unserved') /\ Cardinality(Unserved') = Cardinality(Unserved) - 1
    BY <2>1, FS_RemoveElement DEF ExecutionsReserved
  <2>3. minted' = minted /\ executed' = executed + 1
    BY <1>2 DEF Handle
  <2>. QED
    BY <1>0, <2>2, <2>3 DEF ExecutionsReserved
<1>3. ASSUME NEW c \in Requests, BeginLost(c) PROVE ExecutionsReserved'
  <2>1. Unserved' = Unserved /\ executed' = executed /\ Len(minted') = Len(minted) + 1
    BY <1>3 DEF BeginLost, Reserve, Unserved, TypeOK
  <2>. QED
    BY <1>0, <1>a, <2>1
<1>4. ASSUME NEW c \in Requests,
             \/ BeginMismatch(c) \/ BeginCompleted(c) \/ FinishOk(c) \/ FinishConflict(c) \/ Recover(c)
             \/ CancelSent(c) \/ Crash(c) \/ FinishLost(c) \/ FinishRepeated(c) \/ CancelLost(c)
      PROVE  ExecutionsReserved'
  <2>1. Unserved' \subseteq Unserved
    BY <1>4 DEF BeginMismatch, BeginCompleted, FinishOk, FinishConflict, Recover, CancelSent, Crash,
                FinishLost, FinishRepeated, CancelLost, Unserved, TypeOK
  <2>2. executed' = executed /\ minted' = minted
    BY <1>4 DEF BeginMismatch, BeginCompleted, FinishOk, FinishConflict, Recover, CancelSent, Crash,
                FinishLost, FinishRepeated, CancelLost
  <2>. QED
    BY <1>0, <1>a, <2>1, <2>2
<1>5. CASE Tick \/ Overrun \/ UNCHANGED vars
  BY <1>5 DEF Tick, Overrun, vars, ExecutionsReserved, Unserved
<1>. QED
  BY <1>1, <1>2, <1>3, <1>4, <1>5 DEF Next, Request, Begin, Disturbance

\* A request that moves on without changing the record is not its holder, or
\* stays its holder: somebody else who holds it still does.
LEMMA HeldKept ==
  ASSUME TypeOK, Held, rec' = rec, token' = token, NEW c \in Requests, NEW label,
         pc' = [pc EXCEPT ![c] = label],
         ~Owned(token[c]) \/ label \in {"work", "finish", "cancel"} \/ pc[c] = "begin"
  PROVE  Held'
BY DEF Held, Owned, TypeOK

LEMMA PaidStep ==
  ASSUME TypeOK, TokensMatch, ReservationsPaid, [Next]_vars
  PROVE  ReservationsPaid'
<1>0. Len(minted) \in Nat /\ reopened \in Nat /\ spent \in Nat
  BY DEF TypeOK
<1>a. ASSUME minted' = minted, reopened' = reopened, Fault PROVE ReservationsPaid'
  BY <1>0, <1>a DEF Fault, ReservationsPaid
<1>b. ASSUME minted' = minted, reopened' = reopened, spent' = spent, rec' = rec, Held => Held'
      PROVE  ReservationsPaid'
  BY <1>b DEF ReservationsPaid
<1>1. ASSUME NEW c \in Requests, Begin(c) PROVE ReservationsPaid'
  <2>1. CASE BeginNew(c)
    <3>1. rec.st = "-" /\ ~Held
      BY <2>1 DEF BeginNew, Reserve, Held, Owned
    <3>2. Len(minted') = Len(minted) + 1 /\ reopened' = reopened /\ spent' = spent
      BY <2>1 DEF BeginNew, Reserve, TypeOK
    <3>3. Held'
      BY <2>1 DEF BeginNew, Reserve, Held, Owned, TypeOK
    <3>. QED
      BY <1>0, <3>1, <3>2, <3>3 DEF ReservationsPaid
  <2>2. CASE BeginMismatch(c)
    BY <2>2, <1>b, HeldKept DEF BeginMismatch
  <2>3. CASE BeginCompleted(c)
    BY <2>3, <1>b, HeldKept DEF BeginCompleted
  <2>. QED
    BY <1>1, <2>1, <2>2, <2>3 DEF Begin
<1>2. ASSUME NEW c \in Requests, Handle(c) PROVE ReservationsPaid'
  BY <1>2, <1>b, HeldKept DEF Handle
<1>3. ASSUME NEW c \in Requests, FinishOk(c) PROVE ReservationsPaid'
  BY <1>3 DEF FinishOk, Complete, ReservationsPaid
<1>4. ASSUME NEW c \in Requests, FinishConflict(c) PROVE ReservationsPaid'
  BY <1>4, <1>b, HeldKept DEF FinishConflict
<1>5. ASSUME NEW c \in Requests, Recover(c) PROVE ReservationsPaid'
  <2>1. Held => Held'
    BY <1>5 DEF Recover, Held, Owned, TypeOK
  <2>. QED
    BY <1>5, <2>1, <1>b DEF Recover
<1>6. ASSUME NEW c \in Requests, CancelSent(c) PROVE ReservationsPaid'
  <2>1. CASE Release(token[c])
    BY <1>0, <1>6, <2>1 DEF CancelSent, Release, ReservationsPaid
  <2>2. CASE ~Owned(token[c]) /\ UNCHANGED <<rec, reopened>>
    BY <1>6, <2>2, <1>b, HeldKept DEF CancelSent
  <2>. QED
    BY <1>6, <2>1, <2>2 DEF CancelSent
<1>7. ASSUME NEW c \in Requests, Disturbance(c) PROVE ReservationsPaid'
  <2>1. CASE BeginLost(c)
    <3>1. rec.st = "-" /\ ~Held
      BY <2>1 DEF BeginLost, Reserve, Held, Owned
    <3>2. Len(minted') = Len(minted) + 1 /\ reopened' = reopened /\ spent' = spent + 1
      BY <2>1 DEF BeginLost, Reserve, Fault, TypeOK
    <3>. QED
      BY <1>0, <3>1, <3>2 DEF ReservationsPaid
  <2>2. CASE Crash(c) \/ CancelLost(c) \/ FinishLost(c) \/ FinishRepeated(c)
    BY <2>2, <1>a DEF Crash, CancelLost, FinishLost, FinishRepeated
  <2>. QED
    BY <1>7, <2>1, <2>2 DEF Disturbance
<1>8. CASE Tick
  <2>1. CASE Expires /\ rec.st = "C"
    BY <1>0, <1>8, <2>1 DEF Tick, ReservationsPaid
  <2>2. CASE Expires /\ rec.st # "C"
    BY <1>0, <1>8, <2>2 DEF Tick, ReservationsPaid
  <2>3. CASE ~Expires
    <3>1. rec'.st = rec.st /\ rec'.tok = rec.tok
      BY <1>8, <2>3 DEF Tick, TypeOK
    <3>2. Held => Held'
      BY <1>8, <3>1 DEF Tick, Held, Owned
    <3>. QED
      BY <1>8, <2>3, <3>1, <3>2 DEF Tick, ReservationsPaid
  <2>. QED
    BY <2>1, <2>2, <2>3
<1>9. CASE Overrun
  BY <1>9, <1>a DEF Overrun
<1>10. CASE UNCHANGED vars
  BY <1>10 DEF vars, ReservationsPaid, Held, Owned
<1>. QED
  BY <1>1, <1>2, <1>3, <1>4, <1>5, <1>6, <1>7, <1>8, <1>9, <1>10 DEF Next, Request

-----------------------------------------------------------------------------
(* Theorems                                                                *)

LEMMA InductiveInit == Init => Inductive
<1>. SUFFICES ASSUME Init PROVE Inductive
  OBVIOUS
<1>1. TypeOK
  BY DEF Init, TypeOK, Absent, NoToken, NoAnswer, NoFingerprint
<1>2. TokensMatch /\ TokensOwned
  BY DEF Init, TokensMatch, TokensOwned, Absent, Reserving
<1>3. AnswersMatchRequest
  BY DEF Init, AnswersMatchRequest
<1>4. ExecutionsReserved
  <2>1. Unserved = {}
    BY DEF Init, Unserved
  <2>2. IsFiniteSet(Unserved) /\ Cardinality(Unserved) = 0
    BY <2>1, FS_EmptySet
  <2>. QED
    BY <2>2 DEF Init, ExecutionsReserved
<1>5. ReservationsPaid
  BY DEF Init, ReservationsPaid
<1>. QED
  BY <1>1, <1>2, <1>3, <1>4, <1>5 DEF Inductive

LEMMA InductiveStep == Inductive /\ [Next]_vars => Inductive'
BY TypeStep, TokensMatchStep, TokensOwnedStep, AnswersStep, ReservedStep, PaidStep DEF Inductive

LEMMA InductiveHolds == Spec => []Inductive
BY InductiveInit, InductiveStep, PTL DEF Spec

\* Requests that race for one key, retry, crash, overrun their lease or lose
\* replies run the handler once, and once more for each release, each end of a
\* retention and each fault: what Begin's reservation is for.
THEOREM ExecutionsArePaid == Spec => []ExecutionsPaid
<1>1. Inductive => ExecutionsPaid
  <2>. SUFFICES ASSUME Inductive PROVE ExecutionsPaid
    OBVIOUS
  <2>1. Cardinality(Unserved) \in Nat /\ Len(minted) \in Nat
    BY FS_CardinalityType DEF Inductive, ExecutionsReserved, TypeOK
  <2>. QED
    BY <2>1 DEF Inductive, TypeOK, ExecutionsReserved, ReservationsPaid, ExecutionsPaid
<1>. QED
  BY <1>1, InductiveHolds, PTL

\* No request is answered with a response that was not stored or that was
\* computed for another fingerprint, however late a stale owner calls Finish.
THEOREM AnswersMatch == Spec => []AnswersMatchRequest
BY InductiveHolds, PTL DEF Inductive

\* A Finish that reports a conflict stored nothing, unless the client library
\* itself sent the command twice.
THEOREM ConflictsStoreNothing == Spec => []ConflictStoredNothing
<1>1. Inductive => ConflictStoredNothing
  BY DEF Inductive, TokensOwned, ConflictStoredNothing, Reserving
<1>. QED
  BY <1>1, InductiveHolds, PTL

\* A completed record is not changed, removed or prolonged before the end of
\* its retention by any script of any request.
THEOREM CompletedStays == Spec => CompletedIsFinal
<1>1. ASSUME Inductive, [Next]_vars, rec.st = "C"
      PROVE  \/ rec' = rec
             \/ rec.ttl > 1 /\ rec' = [rec EXCEPT !.ttl = rec.ttl - 1]
             \/ Expires /\ rec' = Absent
  <2>1. \A tok : ~Owned(tok)
    BY <1>1 DEF Owned
  <2>2. CASE Tick
    BY <1>1, <2>2 DEF Tick, Expires, Inductive, TypeOK
  <2>3. CASE Overrun
    BY <2>1, <2>3 DEF Overrun, Held
  <2>4. CASE rec' = rec
    BY <2>4
  <2>5. Tick \/ Overrun \/ rec' = rec
    BY <1>1, <2>1 DEF Next, Request, Begin, BeginNew, BeginMismatch, BeginCompleted, Reserve, Handle,
         FinishOk, FinishConflict, Recover, CancelSent, Release, Complete, Disturbance, BeginLost, Crash,
         FinishLost, FinishRepeated, CancelLost, vars
  <2>. QED
    BY <2>2, <2>3, <2>4, <2>5
<1>. QED
  BY <1>1, InductiveHolds, PTL DEF Spec, CompletedIsFinal
=============================================================================
