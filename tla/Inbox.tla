-------------------------------- MODULE Inbox -------------------------------
(***************************************************************************)
(* The in-process inbox (eventbus/inbox) and the protocol of its callers:  *)
(* Seen, then the handler, then Record, three calls with nothing held in   *)
(* between.  An entry is forgotten when it outlives TTL or when Record     *)
(* evicts the oldest half of a map that has grown past MaxSize.  The       *)
(* counters at the end are history: they say what each forgotten entry and *)
(* each overlap of two callers may cost.                                   *)
(***************************************************************************)
EXTENDS Integers, FiniteSets, Functions

CONSTANTS Keys,      \* the (consumer, event id) pairs
          Callers,   \* the goroutines that share the inbox
          MaxSize,   \* WithMaxSize; 0 means unbounded
          TTL,       \* WithTTL; 0 means for ever
          MaxTime    \* bound on the clock

ASSUME InboxAssumption ==
  /\ MaxSize \in Nat
  /\ TTL \in Nat
  /\ MaxTime \in Nat

VARIABLES seenAt,     \* the map of recorded keys
          clock,      \* the clock behind WithClock
          working,    \* the key a caller found unseen and handles, if any, and
                      \* whether another caller was already at it
          executed,   \* how often each key was handled to the end
          forgotten,  \* how often an entry was evicted or expired
          overlaps    \* how often it was by a caller that began beside another one

inboxVars == <<seenAt, clock, working, executed, forgotten, overlaps>>

InboxInit ==
  /\ seenAt = <<>>
  /\ clock = 0
  /\ working = [c \in Callers |-> {}]
  /\ executed = [k \in Keys |-> 0]
  /\ forgotten = [k \in Keys |-> 0]
  /\ overlaps = [k \in Keys |-> 0]

\* The keys of K gain one.
Count(f, K) == [k \in Keys |-> IF k \in K THEN f[k] + 1 ELSE f[k]]

\* Mutation: the last moment of the TTL does not count any more.
SeenStrict(k) == k \in DOMAIN seenAt /\ (TTL = 0 \/ clock - seenAt[k] < TTL)

\* What Seen answers; Record leaves such an entry as it is.
Seen(k) == k \in DOMAIN seenAt /\ (TTL = 0 \/ clock - seenAt[k] <= TTL)

SeenFalse(c, k) ==
  /\ working[c] = {}
  /\ ~Seen(k)
  /\ working' = [working EXCEPT ![c] =
       {[key |-> k, beside |-> \E d \in Callers : \E w \in working[d] : w.key = k]}]
  /\ UNCHANGED <<seenAt, clock, executed, forgotten, overlaps>>

\* evictOldestHalf: the maps it may leave behind.  The sort is stable over the
\* random order of a map, so entries of one moment go in any order.
EvictOldestHalf(m) ==
  {Restrict(m, kept) : kept \in
     {K \in SUBSET DOMAIN m : /\ Cardinality(DOMAIN m \ K) = Cardinality(DOMAIN m) \div 2
                              /\ \A k \in K, gone \in DOMAIN m \ K : m[gone] <= m[k]}}

\* The maps Record may leave behind.
Recorded(k) ==
  LET m == [x \in DOMAIN seenAt \cup {k} |-> IF x = k THEN clock ELSE seenAt[x]]
  IN  IF Seen(k) THEN {seenAt}
      ELSE IF MaxSize > 0 /\ Cardinality(DOMAIN m) > MaxSize THEN EvictOldestHalf(m)
      ELSE {m}

\* The handler returned nil and the caller records the key.
Record(c) ==
  /\ working[c] # {}
  /\ \E w \in working[c] : \E m \in Recorded(w.key) :
       /\ seenAt' = m
       /\ executed' = Count(executed, {w.key})
       /\ forgotten' = Count(forgotten, (DOMAIN seenAt \cup {w.key}) \ DOMAIN m)
       /\ overlaps' = Count(overlaps, {k \in {w.key} : w.beside})
  /\ working' = [working EXCEPT ![c] = {}]
  /\ UNCHANGED clock

\* The handler failed: nothing is recorded.
GiveUp(c) ==
  /\ working' = [working EXCEPT ![c] = {}]
  /\ UNCHANGED <<seenAt, clock, executed, forgotten, overlaps>>

\* Time passes, and an entry that reaches the end of its TTL stops counting.
InboxTick ==
  /\ clock < MaxTime
  /\ clock' = clock + 1
  /\ forgotten' = Count(forgotten, {k \in DOMAIN seenAt : TTL > 0 /\ clock - seenAt[k] = TTL})
  /\ UNCHANGED <<seenAt, working, executed, overlaps>>

-----------------------------------------------------------------------------
(* Properties                                                              *)

\* A key is handled to the end once, and once more for every time the inbox
\* forgot it and for every caller that began while another one was at work
\* (Seen and Record are two calls): nothing else defeats the deduplication.
\* The map never exceeds its limit either, which is what evicting is for.
DuplicatesExcused ==
  /\ \A k \in Keys : executed[k] <= 1 + forgotten[k] + overlaps[k]
  /\ MaxSize > 0 => Cardinality(DOMAIN seenAt) <= MaxSize
=============================================================================
