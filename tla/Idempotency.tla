----------------------------- MODULE Idempotency ----------------------------
(***************************************************************************)
(* The Redis idempotency store (idempotency/redis) for one (scope, key):   *)
(* every method is one atomic Lua script on one hash, whose PEXPIRE makes  *)
(* it vanish.  Requests with the same key follow the calling protocol of   *)
(* the repository's README: Begin, handle, Finish or Cancel, and Begin     *)
(* again whenever the outcome is in doubt.  A request may crash, outlive   *)
(* its lease, or lose the reply to any script; spent counts such faults.   *)
(***************************************************************************)
EXTENDS Integers, Sequences

CONSTANTS Requests,       \* requests that carry the same (scope, key)
          Fingerprint,    \* the fingerprint of each request
          LeaseTTL,       \* WithLeaseTTL, in ticks
          Retention,      \* WithRetention, in ticks
          ClientRetries,  \* whether the Redis client repeats a command whose
                          \* reply it lost (go-redis does, unless configured)
          MaxFaults       \* bound on the faults of one behaviour

ASSUME IdempotencyAssumption ==
  /\ LeaseTTL \in Nat \ {0}
  /\ Retention \in Nat \ {0}
  /\ ClientRetries \in BOOLEAN
  /\ MaxFaults \in Nat

VARIABLES rec,        \* the hash at the composite key, with its time to live
          pc,         \* where each request is in the protocol
          token,      \* the LeaseToken of each request's reservation
          answer,     \* the response each request gave its client
          minted,     \* the fingerprint each lease token was reserved for
          applied,    \* tokens whose Finish took effect
          repeated,   \* tokens whose Finish the client library sent again
          executed,   \* how often the handler ran
          reopened,   \* how often Cancel or the retention freed the key
          spent       \* faults so far

vars == <<rec, pc, token, answer, minted, applied, repeated, executed, reopened, spent>>

NoToken == 0
NoAnswer == 0
NoFingerprint == 0

\* st is "-" for an absent hash, "P" while in progress, "C" once completed;
\* the response of an execution is identified with its lease token.
Absent == [st |-> "-", fp |-> NoFingerprint, tok |-> NoToken, resp |-> NoAnswer, ttl |-> 0]

Done == {"replayed", "finished", "mismatch", "failed", "crashed"}

Init ==
  /\ rec = Absent
  /\ pc = [c \in Requests |-> "begin"]
  /\ token = [c \in Requests |-> NoToken]
  /\ answer = [c \in Requests |-> NoAnswer]
  /\ minted = <<>>
  /\ applied = {}
  /\ repeated = {}
  /\ executed = 0
  /\ reopened = 0
  /\ spent = 0

Fault ==
  /\ spent < MaxFaults
  /\ spent' = spent + 1

-----------------------------------------------------------------------------
(* The scripts                                                             *)

\* Mutation: an in-progress record is taken over.
ReserveInProgress(fp) ==
  /\ rec.st # "C"
  /\ minted' = Append(minted, fp)
  /\ rec' = [st |-> "P", fp |-> fp, tok |-> Len(minted) + 1, resp |-> NoAnswer, ttl |-> LeaseTTL]

\* Mutation: the reservation does not expire.
ReserveForEver(fp) ==
  /\ rec.st = "-"
  /\ minted' = Append(minted, fp)
  /\ rec' = [st |-> "P", fp |-> fp, tok |-> Len(minted) + 1, resp |-> NoAnswer, ttl |-> 0]

\* beginScript on an absent key: reserve it under a fresh token.
Reserve(fp) ==
  /\ rec.st = "-"
  /\ minted' = Append(minted, fp)
  /\ rec' = [st |-> "P", fp |-> fp, tok |-> Len(minted) + 1, resp |-> NoAnswer, ttl |-> LeaseTTL]

\* Mutation: the token is not compared.
OwnedByAnyone(tok) == rec.st = "P"

\* The guard of finishScript and cancelScript.
Owned(tok) == rec.st = "P" /\ rec.tok = tok

\* finishScript: complete the record, drop the token, start the retention.
Complete(tok) ==
  /\ Owned(tok)
  /\ rec' = [st |-> "C", fp |-> rec.fp, tok |-> NoToken, resp |-> tok, ttl |-> Retention]
  /\ applied' = applied \cup {tok}

\* Mutation: a completed record is released as well.
ReleaseCompleted(tok) ==
  /\ Owned(tok) \/ rec.st = "C"
  /\ rec' = Absent
  /\ reopened' = reopened + 1

\* cancelScript: delete the reservation.
Release(tok) ==
  /\ Owned(tok)
  /\ rec' = Absent
  /\ reopened' = reopened + 1

-----------------------------------------------------------------------------
(* Begin                                                                   *)

BeginNew(c) ==
  /\ pc[c] = "begin"
  /\ Reserve(Fingerprint[c])
  /\ token' = [token EXCEPT ![c] = Len(minted) + 1]
  /\ pc' = [pc EXCEPT ![c] = "work"]
  /\ UNCHANGED <<answer, applied, repeated, executed, reopened, spent>>

\* The script reserved the key but the reply is lost: the request does not
\* learn its token, and a repeated Begin finds the key in progress.
BeginLost(c) ==
  /\ pc[c] = "begin"
  /\ Reserve(Fingerprint[c])
  /\ Fault
  /\ UNCHANGED <<pc, token, answer, applied, repeated, executed, reopened>>

BeginMismatch(c) ==
  /\ pc[c] = "begin"
  /\ rec.st # "-" /\ rec.fp # Fingerprint[c]
  /\ pc' = [pc EXCEPT ![c] = "mismatch"]
  /\ UNCHANGED <<rec, token, answer, minted, applied, repeated, executed, reopened, spent>>

\* StatusCompleted: replay the stored response.
BeginCompleted(c) ==
  /\ pc[c] = "begin"
  /\ rec.st = "C" /\ rec.fp = Fingerprint[c]
  /\ pc' = [pc EXCEPT ![c] = "replayed"]
  /\ answer' = [answer EXCEPT ![c] = rec.resp]
  /\ UNCHANGED <<rec, token, minted, applied, repeated, executed, reopened, spent>>

\* StatusInProgress changes nothing: the request tries again later.
Begin(c) == BeginNew(c) \/ BeginMismatch(c) \/ BeginCompleted(c)

-----------------------------------------------------------------------------
(* The handler                                                             *)

\* The handler ran: its side effects happened, whatever it returned.
Handle(c) ==
  /\ pc[c] = "work"
  /\ executed' = executed + 1
  /\ \E next \in {"finish", "cancel"} : pc' = [pc EXCEPT ![c] = next]
  /\ UNCHANGED <<rec, token, answer, minted, applied, repeated, reopened, spent>>

Crash(c) ==
  /\ pc[c] \notin Done
  /\ pc' = [pc EXCEPT ![c] = "crashed"]
  /\ Fault
  /\ UNCHANGED <<rec, token, answer, minted, applied, repeated, executed, reopened>>

-----------------------------------------------------------------------------
(* Finish and Cancel                                                       *)

FinishOk(c) ==
  /\ pc[c] = "finish"
  /\ Complete(token[c])
  /\ pc' = [pc EXCEPT ![c] = "finished"]
  /\ answer' = [answer EXCEPT ![c] = token[c]]
  /\ UNCHANGED <<token, minted, repeated, executed, reopened, spent>>

\* CodeConflict: the script returned -1.
FinishConflict(c) ==
  /\ pc[c] = "finish"
  /\ ~Owned(token[c])
  /\ pc' = [pc EXCEPT ![c] = "conflict"]
  /\ UNCHANGED <<rec, token, answer, minted, applied, repeated, executed, reopened, spent>>

\* Mutation: an indeterminate Finish is sent again instead of Begin.
FinishLostRetried(c) ==
  /\ pc[c] = "finish"
  /\ Fault
  /\ Complete(token[c]) \/ UNCHANGED <<rec, applied>>
  /\ UNCHANGED <<pc, token, answer, minted, repeated, executed, reopened>>

\* CodeUnavailable: the write landed or it did not; the request asks Begin.
FinishLost(c) ==
  /\ pc[c] = "finish"
  /\ Fault
  /\ Complete(token[c]) \/ UNCHANGED <<rec, applied>>
  /\ pc' = [pc EXCEPT ![c] = "begin"]
  /\ token' = [token EXCEPT ![c] = NoToken]
  /\ UNCHANGED <<answer, minted, repeated, executed, reopened>>

\* The write landed and the client library, having lost the reply, sends the
\* same command once more.
FinishRepeated(c) ==
  /\ ClientRetries
  /\ pc[c] = "finish"
  /\ Fault
  /\ Complete(token[c])
  /\ repeated' = repeated \cup {token[c]}
  /\ UNCHANGED <<pc, token, answer, minted, executed, reopened>>

\* After a conflict the request reads the authoritative state with Begin.
Recover(c) ==
  /\ pc[c] = "conflict"
  /\ pc' = [pc EXCEPT ![c] = "begin"]
  /\ token' = [token EXCEPT ![c] = NoToken]
  /\ UNCHANGED <<rec, answer, minted, applied, repeated, executed, reopened, spent>>

\* Cancel after a handler error: the request fails whether Cancel released
\* the key or was refused.
CancelSent(c) ==
  /\ pc[c] = "cancel"
  /\ \/ Release(token[c])
     \/ ~Owned(token[c]) /\ UNCHANGED <<rec, reopened>>
  /\ pc' = [pc EXCEPT ![c] = "failed"]
  /\ UNCHANGED <<token, answer, minted, applied, repeated, executed, spent>>

\* Cancel never reached Redis.
CancelLost(c) ==
  /\ pc[c] = "cancel"
  /\ Fault
  /\ pc' = [pc EXCEPT ![c] = "failed"]
  /\ UNCHANGED <<rec, token, answer, minted, applied, repeated, executed, reopened>>

-----------------------------------------------------------------------------
(* Time                                                                    *)

Expires == rec.ttl = 1

\* Some request still works under the reservation.
Held == \E c \in Requests : pc[c] \in {"work", "finish", "cancel"} /\ Owned(token[c])

\* PEXPIRE: the remaining time runs down, at zero the hash is gone.
Tick ==
  /\ rec.ttl > 0
  /\ ~(Expires /\ Held)
  /\ rec' = IF Expires THEN Absent ELSE [rec EXCEPT !.ttl = @ - 1]
  /\ reopened' = IF Expires /\ rec.st = "C" THEN reopened + 1 ELSE reopened
  /\ UNCHANGED <<pc, token, answer, minted, applied, repeated, executed, spent>>

\* A request is slower than its lease.
Overrun ==
  /\ Expires
  /\ Held
  /\ Fault
  /\ rec' = Absent
  /\ UNCHANGED <<pc, token, answer, minted, applied, repeated, executed, reopened>>

Request(c) == Begin(c) \/ Handle(c) \/ FinishOk(c) \/ FinishConflict(c) \/ Recover(c) \/ CancelSent(c)

Disturbance(c) ==
  BeginLost(c) \/ Crash(c) \/ FinishLost(c) \/ FinishRepeated(c) \/ CancelLost(c)

Next ==
  \/ \E c \in Requests : Request(c) \/ Disturbance(c)
  \/ Tick
  \/ Overrun

Spec == Init /\ [][Next]_vars

\* Requests that did not crash go on, and time passes.
FairSpec == Spec /\ WF_vars(Tick) /\ \A c \in Requests : WF_vars(Request(c))

-----------------------------------------------------------------------------
(* Properties                                                              *)

\* Concurrent and retried requests execute the handler once: every further
\* execution is paid for by a handler error that released the key, by the end
\* of a retention, or by a fault.
ExecutionsPaid == executed <= 1 + reopened + spent

\* No request is answered with a response that was not stored, or that was
\* computed for a different fingerprint, however late a stale owner finishes.
AnswersMatchRequest ==
  \A c \in Requests : answer[c] # NoAnswer =>
    answer[c] \in applied /\ minted[answer[c]] = Fingerprint[c]

\* A completed record is final: no late Finish, no Cancel and no Begin of any
\* request changes or removes it before its retention has run down, and no
\* replay prolongs it.
CompletedIsFinal ==
  [][rec.st = "C" =>
       \/ rec' = rec
       \/ rec.ttl > 1 /\ rec' = [rec EXCEPT !.ttl = @ - 1]
       \/ Expires /\ rec' = Absent]_vars

\* A conflict is a definite answer: unless the client library itself sent the
\* command twice, a request that Finish refused has stored nothing, so running
\* into a conflict never hides a response that others already replay.
ConflictStoredNothing ==
  \A c \in Requests : pc[c] = "conflict" /\ token[c] \notin repeated => token[c] \notin applied

\* "errorsx.CodeConflict  NOT applied, for certain" (idempotency/redis/doc.go):
\* when Finish reports a conflict, the response it carried was not stored.
ConflictIsCertain ==
  \A c \in Requests : pc[c] = "conflict" => token[c] \notin applied

\* The lease is the reclaim mechanism: whatever request crashed or lost its
\* reply while it held the key, every request that goes on ends with an
\* answer, a mismatch or the handler's error.
EveryRequestEnds ==
  \A c \in Requests : <>(pc[c] \in Done)
=============================================================================
