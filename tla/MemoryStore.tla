----------------------------- MODULE MemoryStore ----------------------------
(***************************************************************************)
(* The in-process outbox store (eventbus/outbox/memory.go): a slice of     *)
(* records and a dead-letter map behind one mutex.  Each locked section is *)
(* one step; Stage reads the clock and encodes before it takes the lock.   *)
(* There is no claim: Fetch only reads.                                    *)
(***************************************************************************)
EXTENDS OutboxRecord

CONSTANTS Batches,    \* the Stage calls: sequences of events
          MaxSize,    \* WithMaxSize; 0 means unbounded
          FirstId,    \* ids drawn before the modelled Stage calls
          BatchSize,  \* the limit the relays pass to Fetch
          StageUntil  \* bound: Stage calls happen up to this time

ASSUME MemoryAssumption ==
  /\ Batches \subseteq Seq(Event)
  /\ \A b \in Batches : b # <<>>
  /\ \A b, c \in Batches : \* an event is staged by one call, once
       \A i \in DOMAIN b, j \in DOMAIN c : b[i] = c[j] => b = c /\ i = j
  /\ MaxSize \in Nat
  /\ FirstId \in Nat
  /\ BatchSize \in Nat \ {0}
  /\ StageUntil \in Nat

VARIABLES staging,   \* each Stage call: its progress and its clock reading
          records,   \* m.records
          dlq,       \* m.dlq: dead-lettered records by id
          lastId,    \* the counter of the default id generator
          now        \* the clock

memVars == <<staging, records, dlq, lastId, now>>

MemInit ==
  /\ staging = [b \in Batches |-> [st |-> "new", at |-> 0]]
  /\ records = <<>>
  /\ dlq = [i \in {} |-> {}]
  /\ lastId = FirstId
  /\ now = 1

\* Stage before the lock: now := m.now() and all marshalling.
StageEncode(b) ==
  /\ staging[b].st = "new"
  /\ staging' = [staging EXCEPT ![b] = [st |-> "open", at |-> now]]
  /\ UNCHANGED <<records, dlq, lastId, now>>

\* Mutation: the limit is tested without counting the batch.
FitsOneMore(b) == MaxSize = 0 \/ Len(records) < MaxSize

Fits(b) == MaxSize = 0 \/ Len(records) + Len(b) <= MaxSize

\* Stage under the lock: the whole batch, with one timestamp and fresh ids.
StageAppend(b) ==
  /\ staging[b].st = "open"
  /\ Fits(b)
  /\ records' = records \o [i \in DOMAIN b |->
       [id |-> lastId + i, event |-> b[i], available_at |-> staging[b].at, attempts |-> 0]]
  /\ lastId' = lastId + Len(b)
  /\ staging' = [staging EXCEPT ![b].st = "done"]
  /\ UNCHANGED <<dlq, now>>

\* ErrOutboxFull: nothing changes, and the caller may call Stage again.
StageFull(b) ==
  /\ staging[b].st = "open"
  /\ ~Fits(b)
  /\ staging' = [staging EXCEPT ![b] = [st |-> "new", at |-> 0]]
  /\ UNCHANGED <<records, dlq, lastId, now>>

-----------------------------------------------------------------------------
(* Fetch                                                                   *)

\* The decimal digits of an id, as in "mem-outbox-<n>".
Decimal[n \in Nat] == IF n < 10 THEN <<n>> ELSE Append(Decimal[n \div 10], n % 10)

\* due[i].ID < due[j].ID compares the ids as strings.
IDLess(i, j) ==
  LET s == Decimal[i]
      t == Decimal[j]
      same(k) == \A h \in 1..k : h \in DOMAIN s /\ h \in DOMAIN t /\ s[h] = t[h]
  IN  \/ Len(s) < Len(t) /\ same(Len(s))
      \/ \E k \in DOMAIN s : k \in DOMAIN t /\ same(k - 1) /\ s[k] < t[k]

\* The comparison function of Fetch's sort.
SortsBefore(r, s) ==
  \/ r.available_at < s.available_at
  \/ r.available_at = s.available_at /\ IDLess(r.id, s.id)

DueRecords == {i \in DOMAIN records : records[i].available_at <= now}

\* Fetch's result as positions in records: each once, sorted, cut off at the
\* limit.
Due(q) ==
  /\ \A i, j \in DOMAIN q : i < j => q[i] # q[j] /\ SortsBefore(records[q[i]], records[q[j]])
  /\ \A p \in DueRecords : \/ \E i \in DOMAIN q : q[i] = p
                           \/ /\ Len(q) = BatchSize
                              /\ \A i \in DOMAIN q : SortsBefore(records[q[i]], records[p])

Fetches == {q \in UNION {[1..n -> DueRecords] : n \in 0..BatchSize} : Due(q)}

\* The clones Fetch returns.
Fetched(q) == [i \in DOMAIN q |-> [event |-> records[q[i]].event, token |-> records[q[i]].id,
                                   attempts |-> records[q[i]].attempts]]

-----------------------------------------------------------------------------
(* MarkSent, MarkFailed, Terminate: an unknown id is ignored               *)

HasId(id) == \E i \in DOMAIN records : records[i].id = id

At(id) == CHOOSE i \in DOMAIN records : records[i].id = id

\* Mutation: the slice expression skips the wrong element.
RemoveIdOffByOne(id) ==
  IF HasId(id)
  THEN SubSeq(records, 1, At(id)) \o SubSeq(records, At(id) + 2, Len(records))
  ELSE records

RemoveId(id) ==
  IF HasId(id)
  THEN SubSeq(records, 1, At(id) - 1) \o SubSeq(records, At(id) + 1, Len(records))
  ELSE records

MarkSent(r) ==
  /\ records' = RemoveId(r.token)
  /\ UNCHANGED <<staging, dlq, lastId, now>>

MarkFailed(r, nextAttemptAt) ==
  /\ records' = IF HasId(r.token)
                THEN [records EXCEPT ![At(r.token)].attempts = @ + 1,
                                     ![At(r.token)].available_at = nextAttemptAt]
                ELSE records
  /\ UNCHANGED <<staging, dlq, lastId, now>>

\* Mutation: an unknown id is quarantined as well, from the relay's snapshot.
TerminateUnknown(r) ==
  /\ records' = RemoveId(r.token)
  /\ dlq' = [i \in DOMAIN dlq \cup {r.token} |->
               IF i = r.token THEN [event |-> r.event, attempts |-> r.attempts + 1]
               ELSE dlq[i]]
  /\ UNCHANGED <<staging, lastId, now>>

Terminate(r) ==
  /\ records' = RemoveId(r.token)
  /\ dlq' = IF HasId(r.token)
            THEN [i \in DOMAIN dlq \cup {r.token} |->
                    IF i = r.token
                    THEN [event |-> records[At(i)].event, attempts |-> records[At(i)].attempts + 1]
                    ELSE dlq[i]]
            ELSE dlq
  /\ UNCHANGED <<staging, lastId, now>>

\* Time passes between Stage calls, and while a record waits for its next
\* attempt.
AdvanceClock ==
  /\ \/ now < StageUntil
     \/ \E i \in DOMAIN records : records[i].available_at > now
  /\ now' = now + 1
  /\ UNCHANGED <<staging, records, dlq, lastId>>
=============================================================================
