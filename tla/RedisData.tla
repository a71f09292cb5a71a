------------------------------ MODULE RedisData -----------------------------
(***************************************************************************)
(* The redis cache and the redis rate limiter, side by side in one Redis.  *)
(* Every instance has a key prefix; a name is a prefix and a client's key, *)
(* strings being sequences of characters.  The limiter's algorithm is      *)
(* redis_rate's GCRA (external): a key holds its theoretical arrival time. *)
(***************************************************************************)
EXTENDS Integers, Sequences, TLC, Functions

CONSTANTS Names,      \* records [prefix, key]
          Values,     \* what is cached
          TTLs,       \* the ttl arguments, 0 meaning no expiry
          Interval,   \* Period / Rate, in ticks
          Burst

ASSUME RedisAssumption ==
  /\ TTLs \subseteq Int /\ Interval \in Nat \ {0} /\ Burst \in Nat \ {0}
  /\ "none" \notin Values
  /\ Names \subseteq [prefix : Seq(STRING), key : Seq(STRING)]
  /\ \A m, n \in Names : \* two lengths are written alike only if they are the same
       /\ ToString(Len(m.prefix)) = ToString(Len(n.prefix)) => Len(m.prefix) = Len(n.prefix)
       /\ ToString(Len(n.prefix)) \in STRING \ {"rate:"}

VARIABLES redis,    \* the keys of the server, each with its value and its expiry
          answer,   \* what the last call returned
          cached,   \* history: what each name holds by the calls made with it
          level     \* history: the leaky bucket of each name, in ticks

redisVars == <<redis, answer, cached, level>>

Never == -1

\* Mutation: the prefix and the key are joined without the length.
encodeFlat(n) == n.prefix \o <<":">> \o n.key

\* fmt.Sprintf("%d:%s:%s", len(keyPrefix), keyPrefix, key)
encode(n) == <<ToString(Len(n.prefix)), ":">> \o n.prefix \o <<":">> \o n.key

\* redis_rate puts its own prefix before the encoded key.
rateKey(n) == <<"rate:">> \o encode(n)

None == [value |-> "none", until |-> Never]

Nothing == [call |-> "none", name |-> [prefix |-> <<>>, key |-> <<>>], result |-> "none", retry |-> 0]

\* What a server holding m has under k.
At(m, k) == IF k \in DOMAIN m THEN m[k] ELSE None

Put(m, k, v) == [x \in DOMAIN m \cup {k} |-> IF x = k THEN v ELSE m[x]]

Drop(m, gone) == Restrict(m, DOMAIN m \ gone)

RedisInit ==
  /\ redis = <<>>
  /\ answer = Nothing
  /\ cached = [n \in Names |-> None]
  /\ level = [n \in Names |-> 0]

Returns(call, n, result, retry) ==
  answer' = [call |-> call, name |-> n, result |-> result, retry |-> retry]

Fails(code) == answer' = [Nothing EXCEPT !.result = code]

\* The empty key, a negative ttl and a context that is done are refused, in
\* this order, before Redis is asked.
Refused(n, ttl) ==
  /\ \/ (n.key = <<>> \/ ttl < 0) /\ Fails("invalid")
     \/ n.key # <<>> /\ ttl >= 0 /\ Fails("ctx")
  /\ UNCHANGED <<redis, cached, level>>

\* mapBackendErr, mapError: the error of the context as it is, or one coded
\* unavailable or internal; a command whose answer is lost may have run.  Or
\* the call returns nothing yet, since the client library sends the command
\* again: the repetition is another call here.
Lost ==
  \E e \in {"ctx", "unavailable", "internal", "none"} : Fails(e)

Get(n) ==
  /\ n.key # <<>>
  /\ \/ /\ Returns("get", n, IF encode(n) \in DOMAIN redis THEN redis[encode(n)].value ELSE "miss", 0)
     \/ Lost
  /\ UNCHANGED <<redis, cached, level>>

Exists(n) ==
  /\ n.key # <<>>
  /\ Returns("exists", n, IF encode(n) \in DOMAIN redis THEN "yes" ELSE "no", 0) \/ Lost
  /\ UNCHANGED <<redis, cached, level>>

Set(n, v, ttl, now) ==
  LET cell == [value |-> v, until |-> IF ttl = 0 THEN Never ELSE now + ttl] IN
  /\ n.key # <<>> /\ ttl >= 0
  /\ \/ /\ redis' = Put(redis, encode(n), cell)
        /\ cached' = [cached EXCEPT ![n] = cell]
        /\ Returns("set", n, "ok", 0) \/ Lost
     \/ Lost /\ UNCHANGED <<redis, cached>>
  /\ UNCHANGED level

Delete(n) ==
  /\ n.key # <<>>
  /\ \/ /\ redis' = Drop(redis, {encode(n)})
        /\ cached' = [cached EXCEPT ![n] = None]
        /\ Returns("delete", n, "ok", 0) \/ Lost
     \/ Lost /\ UNCHANGED <<redis, cached>>
  /\ UNCHANGED level

\* GCRA (external): the arrival time after this call, if it is allowed.
NextArrival(n, now) ==
  LET tat == At(redis, rateKey(n)).value IN
  (IF rateKey(n) \in DOMAIN redis /\ tat > now THEN tat ELSE now) + Interval

\* Mutation: redis_rate's -1 is passed on.
mapResultRaw(call, n, allowed, retry) ==
  Returns(call, n, IF allowed THEN "allowed" ELSE "denied", IF allowed THEN -1 ELSE retry)

\* mapResult: RetryAfter is zero when the call is allowed.
mapResult(call, n, allowed, retry) ==
  Returns(call, n, IF allowed THEN "allowed" ELSE "denied", IF allowed THEN 0 ELSE retry)

Allow(n, now) ==
  LET arrival == NextArrival(n, now)
      early == arrival - Interval * Burst - now IN
  /\ n.key # <<>>
  /\ \/ /\ early <= 0
        /\ redis' = Put(redis, rateKey(n), [value |-> arrival, until |-> arrival])
        /\ level' = [level EXCEPT ![n] = @ + Interval]
        /\ mapResult("allow", n, TRUE, Never) \/ Lost
     \/ /\ early > 0
        /\ mapResult("allow", n, FALSE, early) \/ Lost
        /\ UNCHANGED <<redis, level>>
     \/ Lost /\ UNCHANGED <<redis, level>>
  /\ UNCHANGED cached

\* Time passes on the server: keys expire.
RedisTick(now) ==
  /\ redis' = Drop(redis, {k \in DOMAIN redis : redis[k].until = now})
  /\ cached' = [n \in Names |-> IF cached[n].until = now THEN None ELSE cached[n]]
  /\ level' = [n \in Names |-> IF level[n] > 0 THEN level[n] - 1 ELSE 0]
  /\ answer' = Nothing

RedisCall(now) ==
  \E n \in Names :
    \/ Get(n) \/ Exists(n) \/ Delete(n) \/ Allow(n, now)
    \/ \E ttl \in TTLs : Refused(n, ttl) \/ \E v \in Values : Set(n, v, ttl, now)

-----------------------------------------------------------------------------
(* Properties                                                              *)

\* "distinct (keyPrefix, key) tuples never collide": a cache reads under a name
\* exactly what was last set under that name, and not a value of another
\* prefix, of the limiter, one deleted or one whose ttl is over.
CacheIsolated ==
  \A n \in Names :
    /\ At(redis, encode(n)) = cached[n]
    /\ answer.name = n /\ answer.call = "get" /\ answer.result \in {"miss"} \cup Values =>
         answer.result = IF cached[n] = None THEN "miss" ELSE cached[n].value

\* Each name has its own leaky bucket of Burst calls that drains one call per
\* Interval: a name is denied only when its own calls have filled it (one that
\* the client library repeats after a lost answer counts again), and a
\* caller who waits RetryAfter, and no longer, is then let through.
QuotaIsExact ==
  \A n \in Names :
    answer.name = n /\ answer.call = "allow" =>
      /\ answer.result = "allowed" => answer.retry = 0
      /\ answer.result = "denied" =>
           /\ answer.retry > 0
           /\ level[n] - answer.retry = Interval * (Burst - 1)
=============================================================================
