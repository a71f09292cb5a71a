------------------------------ MODULE PgxStore ------------------------------
(***************************************************************************)
(* The Postgres outbox store (eventbus/outbox/pgx) and the transactions    *)
(* its Stage takes part in (ports/database/pgx).  Each SQL statement is    *)
(* one atomic step on the committed tables.  A row is keyed by its event:  *)
(* an event is staged at most once.  Columns no property tells apart       *)
(* (payload, headers, last_error, created_at ...) are left out.            *)
(***************************************************************************)
EXTENDS OutboxRecord

CONSTANTS Txn,        \* the callers' transactions
          TxnOf,      \* the transaction each event is staged in
          Position,   \* an event's position in its transaction's Stage batch
          Lease,      \* WithClaimLease, in ticks of the database clock
          BatchSize   \* the LIMIT the relays pass to Fetch

ASSUME StoreAssumption ==
  /\ TxnOf \in [Event -> Txn]
  /\ Position \in [Event -> Nat]
  /\ Lease \in Nat \ {0}
  /\ BatchSize \in Nat \ {0}

VARIABLES tx,            \* state of each transaction
          uncommitted,   \* rows inserted by open transactions
          records,       \* outbox_records, as committed
          dead_letters,  \* outbox_dead_letters: attempts of each event's rows
          lastId,        \* the identity sequence
          tokens,        \* claim tokens generated so far for each event's row
          now            \* the database clock

storeVars == <<tx, uncommitted, records, dead_letters, lastId, tokens, now>>

NoToken == 0      \* claim_token IS NULL
NoClaim == 0      \* claimed_until IS NULL

Row == [id : Nat, available_at : Int, attempts : Nat,
        claimed_until : Nat, claim_token : Nat]

StoreTypeOK ==
  /\ tx \in [Txn -> {"idle", "open", "committed", "rolledback"}]
  /\ DOMAIN uncommitted \subseteq Event
  /\ uncommitted \in [DOMAIN uncommitted -> Row]
  /\ DOMAIN records \subseteq Event
  /\ records \in [DOMAIN records -> Row]
  /\ dead_letters \in [Event -> Seq(Nat)]
  /\ lastId \in Nat
  /\ tokens \in [Event -> Nat]
  /\ now \in Nat

StoreInit ==
  /\ tx = [t \in Txn |-> "idle"]
  /\ uncommitted = [e \in {} |-> {}]
  /\ records = [e \in {} |-> {}]
  /\ dead_letters = [e \in Event |-> <<>>]
  /\ lastId = 0
  /\ tokens = [e \in Event |-> 0]
  /\ now = 1

-----------------------------------------------------------------------------
(* The caller's transaction: TxManager.WithinTx around Store.Stage         *)

Begin(t) ==
  /\ tx[t] = "idle"
  /\ tx' = [tx EXCEPT ![t] = "open"]
  /\ UNCHANGED <<uncommitted, records, dead_letters, lastId, tokens, now>>

\* Mutation: Stage runs on the pool instead of the caller's transaction.
StageAutocommit(e) ==
  /\ tx[TxnOf[e]] = "open"
  /\ e \notin DOMAIN records
  /\ records' = [f \in DOMAIN records \cup {e} |->
                   IF f = e
                   THEN [id |-> lastId + 1, available_at |-> now, attempts |-> 0,
                         claimed_until |-> NoClaim, claim_token |-> NoToken]
                   ELSE records[f]]
  /\ lastId' = lastId + 1
  /\ UNCHANGED <<tx, uncommitted, dead_letters, tokens, now>>

\* One VALUES row of Stage's INSERT: the identity and clock_timestamp() are
\* drawn row by row and are visible to nobody before the commit.
Stage(e) ==
  /\ tx[TxnOf[e]] = "open"
  /\ e \notin DOMAIN uncommitted
  /\ \A f \in Event : TxnOf[f] = TxnOf[e] /\ Position[f] < Position[e]
                        => f \in DOMAIN uncommitted
  /\ lastId' = lastId + 1
  /\ uncommitted' = [f \in DOMAIN uncommitted \cup {e} |->
                       IF f = e
                       THEN [id |-> lastId + 1, available_at |-> now, attempts |-> 0,
                             claimed_until |-> NoClaim, claim_token |-> NoToken]
                       ELSE uncommitted[f]]
  /\ UNCHANGED <<tx, records, dead_letters, tokens, now>>

Batch(t) == {e \in Event : TxnOf[e] = t}

\* fn returned nil and Commit took effect: every row becomes visible at once.
Commit(t) ==
  /\ tx[t] = "open"
  /\ Batch(t) \subseteq DOMAIN uncommitted
  /\ tx' = [tx EXCEPT ![t] = "committed"]
  /\ records' = [e \in DOMAIN records \cup Batch(t) |->
                   IF e \in DOMAIN records THEN records[e] ELSE uncommitted[e]]
  /\ uncommitted' = [e \in DOMAIN uncommitted \ Batch(t) |-> uncommitted[e]]
  /\ UNCHANGED <<dead_letters, lastId, tokens, now>>

\* fn returned an error (a marshal error of Stage, a failed INSERT), panicked,
\* the commit failed, or the caller died: the rows are gone, the ids are not
\* reused.
Rollback(t) ==
  /\ tx[t] = "open"
  /\ tx' = [tx EXCEPT ![t] = "rolledback"]
  /\ uncommitted' = [e \in DOMAIN uncommitted \ Batch(t) |-> uncommitted[e]]
  /\ UNCHANGED <<records, dead_letters, lastId, tokens, now>>

-----------------------------------------------------------------------------
(* Fetch: claim the due rows                                               *)

\* Mutation: claims are not looked at.
DueIgnoringClaims == {e \in DOMAIN records : records[e].available_at <= now}

\* Mutation: a claim never expires.
DueUnclaimedOnly == {e \in DOMAIN records : /\ records[e].available_at <= now
                                            /\ records[e].claimed_until = NoClaim}

\* WHERE available_at <= now() AND (claimed_until IS NULL OR <= now())
Due == {e \in DOMAIN records : /\ records[e].available_at <= now
                               /\ records[e].claimed_until <= now}

\* ORDER BY available_at, id
Before(e, f) ==
  \/ records[e].available_at < records[f].available_at
  \/ /\ records[e].available_at = records[f].available_at
     /\ records[e].id < records[f].id

\* q is the result of ORDER BY ... LIMIT BatchSize over the rows of S.
IsSelection(q, S) ==
  /\ \A i, j \in DOMAIN q : i < j => Before(q[i], q[j])
  /\ \A e \in S : \/ \E i \in DOMAIN q : q[i] = e
                  \/ /\ Len(q) = BatchSize
                     /\ \A i \in DOMAIN q : Before(q[i], e)

\* The possible fetch results when the rows of skipped are locked by other
\* statements (FOR UPDATE SKIP LOCKED).
Selections(skipped) ==
  {q \in UNION {[1..n -> Due \ skipped] : n \in 0..BatchSize} :
     IsSelection(q, Due \ skipped)}

\* A row as fetchSQL leaves it: leased, under a token nobody else knows.
Leased(e) ==
  [id |-> records[e].id, available_at |-> records[e].available_at,
   attempts |-> records[e].attempts,
   claimed_until |-> now + Lease, claim_token |-> tokens[e] + 1]

\* fetchSQL: the selected rows get a lease and a fresh claim token.
Fetch(q) ==
  LET S == {q[i] : i \in DOMAIN q}
  IN  /\ records' = [e \in DOMAIN records |-> IF e \in S THEN Leased(e) ELSE records[e]]
      /\ tokens' = [e \in Event |-> IF e \in S THEN tokens[e] + 1 ELSE tokens[e]]
      /\ UNCHANGED <<tx, uncommitted, dead_letters, lastId, now>>

\* The OutboxRecords Fetch returns for the rows it claimed, in order.
Fetched(q) == [i \in DOMAIN q |-> [event |-> q[i], token |-> tokens[q[i]] + 1,
                                   attempts |-> records[q[i]].attempts]]

-----------------------------------------------------------------------------
(* MarkSent, MarkFailed, Terminate: guarded by the claim token             *)

\* Mutation: WHERE id = $1 alone.
MatchingById(r) == {e \in DOMAIN records : e = r.event}

\* WHERE id = $1 AND claim_token = $n: one row or none.
Matching(r) == {e \in DOMAIN records : e = r.event /\ records[e].claim_token = r.token}

\* markSentSQL: delete the row.
MarkSent(r) ==
  /\ records' = [e \in DOMAIN records \ Matching(r) |-> records[e]]
  /\ UNCHANGED <<tx, uncommitted, dead_letters, lastId, tokens, now>>

\* A row as markFailedSQL leaves it: one more attempt, unclaimed.
Rescheduled(e, nextAttemptAt) ==
  [id |-> records[e].id, available_at |-> nextAttemptAt,
   attempts |-> records[e].attempts + 1,
   claimed_until |-> NoClaim, claim_token |-> NoToken]

MarkFailed(r, nextAttemptAt) ==
  /\ records' = [e \in DOMAIN records |-> IF e \in Matching(r)
                                          THEN Rescheduled(e, nextAttemptAt)
                                          ELSE records[e]]
  /\ UNCHANGED <<tx, uncommitted, dead_letters, lastId, tokens, now>>

\* Mutation: DELETE and INSERT as two statements, the INSERT unguarded.
TerminateUnguardedInsert(r) ==
  /\ records' = [e \in DOMAIN records \ Matching(r) |-> records[e]]
  /\ dead_letters' = [dead_letters EXCEPT ![r.event] = Append(@, r.attempts + 1)]
  /\ UNCHANGED <<tx, uncommitted, lastId, tokens, now>>

\* terminateSQL: DELETE ... RETURNING feeds the INSERT.
Terminate(r) ==
  /\ records' = [e \in DOMAIN records \ Matching(r) |-> records[e]]
  /\ dead_letters' = [e \in Event |->
                        IF e \in Matching(r)
                        THEN Append(dead_letters[e], records[e].attempts + 1)
                        ELSE dead_letters[e]]
  /\ UNCHANGED <<tx, uncommitted, lastId, tokens, now>>

\* The database clock advances.  Only while some row waits for it: with no
\* row in the future or under a lease, no guard reads the difference.
AdvanceClock ==
  /\ \E e \in DOMAIN records : \/ records[e].available_at > now
                               \/ records[e].claimed_until > now
  /\ now' = now + 1
  /\ UNCHANGED <<tx, uncommitted, records, dead_letters, lastId, tokens>>
=============================================================================
