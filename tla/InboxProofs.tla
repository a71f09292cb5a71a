----------------------------- MODULE InboxProofs ----------------------------
(***************************************************************************)
(* The invariant of the inbox, for any keys, callers, limit and TTL.  Here *)
(* are the facts about its steps; ProcessProofs turns them into theorems   *)
(* about the process the inbox runs in.                                    *)
(***************************************************************************)
EXTENDS Inbox, FiniteSetTheorems, TLAPS

InboxType ==
  /\ DOMAIN seenAt \subseteq Keys /\ IsFiniteSet(DOMAIN seenAt)
  /\ seenAt \in [DOMAIN seenAt -> Nat]
  /\ \A k \in DOMAIN seenAt : seenAt[k] <= clock
  /\ clock \in Nat
  /\ working \in [Callers -> SUBSET [key : Keys, beside : BOOLEAN]]
  /\ executed \in [Keys -> Nat]
  /\ forgotten \in [Keys -> Nat]
  /\ overlaps \in [Keys -> Nat]

\* Of the callers at work on one key, one at most began alone.
OneBeganAlone ==
  \A c, d \in Callers : \A u \in working[c], v \in working[d] :
    u.key = v.key /\ ~u.beside /\ ~v.beside => c = d

\* Every end of a handler but the last is paid for; the last one too while the
\* inbox does not remember it or a caller is at work that began alone.
Covered(k) ==
  /\ executed[k] <= 1 + forgotten[k] + overlaps[k]
  /\ ~Seen(k) => executed[k] <= forgotten[k] + overlaps[k]
  /\ \A c \in Callers : \A u \in working[c] :
       u.key = k /\ ~u.beside => executed[k] <= forgotten[k] + overlaps[k]

Bounded == MaxSize > 0 => Cardinality(DOMAIN seenAt) <= MaxSize

InboxInv ==
  /\ InboxType
  /\ OneBeganAlone
  /\ \A k \in Keys : Covered(k)
  /\ Bounded

InboxStep ==
  \/ \E c \in Callers : \E k \in Keys : SeenFalse(c, k)
  \/ \E c \in Callers : Record(c) \/ GiveUp(c)
  \/ InboxTick
  \/ UNCHANGED inboxVars

LEMMA InboxInitInv == InboxInit => InboxInv
<1>. SUFFICES ASSUME InboxInit PROVE InboxInv
  OBVIOUS
<1>1. DOMAIN seenAt = {}
  BY DEF InboxInit
<1>2. IsFiniteSet(DOMAIN seenAt) /\ Cardinality(DOMAIN seenAt) = 0
  BY <1>1, FS_EmptySet
<1>3. InboxType
  BY <1>1, <1>2 DEF InboxInit, InboxType
<1>. QED
  BY <1>2, <1>3, InboxAssumption DEF InboxInv, InboxInit, OneBeganAlone, Covered, Bounded

\* Evicting half of a map that has outgrown its limit by one is enough.
LEMMA HalfIsEnough ==
  ASSUME NEW D, IsFiniteSet(D), NEW K \in SUBSET D, MaxSize > 0,
         Cardinality(D) <= MaxSize + 1, Cardinality(D) > MaxSize,
         Cardinality(D \ K) = Cardinality(D) \div 2
  PROVE  IsFiniteSet(K) /\ Cardinality(K) <= MaxSize
<1>1. IsFiniteSet(K) /\ IsFiniteSet(D \ K)
  BY FS_Subset
<1>2. Cardinality(K) \in Nat /\ Cardinality(D \ K) \in Nat /\ Cardinality(D) \in Nat
  BY <1>1, FS_CardinalityType
<1>3. Cardinality(D \ K) = Cardinality(D) - Cardinality(D \cap K) /\ D \cap K = K
  BY FS_Difference
<1>4. Cardinality(D) \div 2 >= 1
  BY <1>2, InboxAssumption
<1>. QED
  BY <1>1, <1>2, <1>3, <1>4, InboxAssumption

\* What Record leaves of the map.
LEMMA RecordedMap ==
  ASSUME InboxType, Bounded, NEW k \in Keys, NEW m \in Recorded(k)
  PROVE  /\ DOMAIN m \subseteq DOMAIN seenAt \cup {k} /\ IsFiniteSet(DOMAIN m)
         /\ m \in [DOMAIN m -> Nat]
         /\ \A x \in DOMAIN m : m[x] <= clock
         /\ \A x \in DOMAIN m : x # k => m[x] = seenAt[x]
         /\ k \in DOMAIN m => TTL = 0 \/ clock - m[k] <= TTL
         /\ Seen(k) => m = seenAt
         /\ MaxSize > 0 => Cardinality(DOMAIN m) <= MaxSize
<1>. DEFINE D == DOMAIN seenAt \cup {k}
            all == [x \in D |-> IF x = k THEN clock ELSE seenAt[x]]
<1>0. IsFiniteSet(D) /\ Cardinality(D) \in Nat /\ Cardinality(DOMAIN seenAt) \in Nat
  BY FS_AddElement, FS_CardinalityType DEF InboxType
<1>1. MaxSize > 0 => Cardinality(D) <= MaxSize + 1
  BY <1>0, FS_AddElement, InboxAssumption DEF InboxType, Bounded
<1>2. DOMAIN all = D /\ all \in [D -> Nat] /\ all[k] = clock
      /\ \A x \in D : all[x] <= clock /\ (x # k => all[x] = seenAt[x])
  BY DEF InboxType
<1>. HIDE DEF D, all
<1>3. CASE Seen(k)
  BY <1>3 DEF Recorded, InboxType, Bounded, Seen
<1>4. ASSUME NEW K \in SUBSET D, m = [x \in K |-> all[x]], ~Seen(k),
             MaxSize > 0 => Cardinality(K) <= MaxSize, IsFiniteSet(K)
      PROVE  /\ DOMAIN m \subseteq D /\ IsFiniteSet(DOMAIN m)
             /\ m \in [DOMAIN m -> Nat]
             /\ \A x \in DOMAIN m : m[x] <= clock
             /\ \A x \in DOMAIN m : x # k => m[x] = seenAt[x]
             /\ k \in DOMAIN m => TTL = 0 \/ clock - m[k] <= TTL
             /\ MaxSize > 0 => Cardinality(DOMAIN m) <= MaxSize
  BY <1>2, <1>4, InboxAssumption DEF InboxType
<1>5. CASE ~Seen(k) /\ MaxSize > 0 /\ Cardinality(D) > MaxSize
  <2>1. m \in EvictOldestHalf(all)
    BY <1>2, <1>5 DEF Recorded, D, all
  <2>2. PICK K \in SUBSET D : Cardinality(D \ K) = Cardinality(D) \div 2 /\ m = [x \in K |-> all[x]]
    BY <1>2, <2>1 DEF EvictOldestHalf, Restrict
  <2>3. IsFiniteSet(K) /\ Cardinality(K) <= MaxSize
    BY <1>0, <1>1, <1>5, <2>2, HalfIsEnough
  <2>. QED
    BY <1>4, <1>5, <2>2, <2>3 DEF D
<1>6. CASE ~Seen(k) /\ ~(MaxSize > 0 /\ Cardinality(D) > MaxSize)
  <2>1. m = all
    BY <1>2, <1>6 DEF Recorded, D, all
  <2>2. m = [x \in D |-> all[x]]
    BY <1>2, <2>1
  <2>3. MaxSize > 0 => Cardinality(D) <= MaxSize
    BY <1>0, <1>6, InboxAssumption
  <2>. QED
    BY <1>0, <1>4, <1>6, <2>2, <2>3 DEF D
<1>. QED
  BY <1>3, <1>5, <1>6

LEMMA CountIs ==
  ASSUME NEW f \in [Keys -> Nat], NEW K
  PROVE  /\ Count(f, K) \in [Keys -> Nat]
         /\ \A k \in Keys : Count(f, K)[k] = IF k \in K THEN f[k] + 1 ELSE f[k]
BY DEF Count

LEMMA SeenFalseInv ==
  ASSUME InboxInv, NEW c \in Callers, NEW k \in Keys, SeenFalse(c, k)
  PROVE  InboxInv'
<1>0. InboxType /\ OneBeganAlone /\ Bounded
  BY DEF InboxInv
<1>. DEFINE began == [key |-> k, beside |-> \E d \in Callers : \E w \in working[d] : w.key = k]
<1>1. /\ working' = [working EXCEPT ![c] = {began}]
      /\ UNCHANGED <<seenAt, clock, executed, forgotten, overlaps>>
      /\ ~Seen(k)
  BY DEF SeenFalse
<1>2. /\ began \in [key : Keys, beside : BOOLEAN] /\ began.key = k
      /\ ~began.beside => \A d \in Callers : \A w \in working[d] : w.key # k
  OBVIOUS
<1>. HIDE DEF began
<1>3. /\ working'[c] = {began}
      /\ \A d \in Callers : d # c => working'[d] = working[d]
      /\ working' \in [Callers -> SUBSET [key : Keys, beside : BOOLEAN]]
  BY <1>0, <1>1, <1>2 DEF InboxType
<1>4. InboxType'
  BY <1>0, <1>1, <1>3 DEF InboxType
<1>5. OneBeganAlone'
  <2>. SUFFICES ASSUME NEW a \in Callers, NEW b \in Callers, a # b,
                       NEW u \in working'[a], NEW v \in working'[b],
                       u.key = v.key, ~u.beside, ~v.beside
                PROVE  FALSE
    BY DEF OneBeganAlone
  <2>1. CASE a = c
    BY <1>2, <1>3, <2>1
  <2>2. CASE b = c
    BY <1>2, <1>3, <2>2
  <2>3. CASE a # c /\ b # c
    BY <1>0, <1>3, <2>3 DEF OneBeganAlone
  <2>. QED
    BY <2>1, <2>2, <2>3
<1>6. ASSUME NEW x \in Keys PROVE Covered(x)'
  <2>1. Covered(x) /\ Seen(x)' = Seen(x)
    BY <1>1 DEF InboxInv, Seen
  <2>2. ASSUME NEW d \in Callers, NEW u \in working'[d], u.key = x, ~u.beside
        PROVE  executed[x] <= forgotten[x] + overlaps[x]
    <3>1. CASE d = c
      BY <1>1, <1>2, <1>3, <2>1, <2>2, <3>1 DEF Covered
    <3>2. CASE d # c
      BY <1>3, <2>1, <2>2, <3>2 DEF Covered
    <3>. QED
      BY <3>1, <3>2
  <2>. QED
    BY <1>1, <2>1, <2>2 DEF Covered
<1>7. Bounded'
  BY <1>0, <1>1 DEF Bounded
<1>. QED
  BY <1>4, <1>5, <1>6, <1>7 DEF InboxInv

\* A caller that ends no longer counts.
LEMMA Ends ==
  ASSUME InboxType, OneBeganAlone, NEW c \in Callers, working' = [working EXCEPT ![c] = {}]
  PROVE  /\ working' \in [Callers -> SUBSET [key : Keys, beside : BOOLEAN]]
         /\ OneBeganAlone'
         /\ \A d \in Callers : \A u \in working'[d] : d # c /\ u \in working[d]
<1>1. /\ working'[c] = {}
      /\ \A d \in Callers : d # c => working'[d] = working[d]
      /\ working' \in [Callers -> SUBSET [key : Keys, beside : BOOLEAN]]
  BY DEF InboxType
<1>2. \A d \in Callers : \A u \in working'[d] : d # c /\ u \in working[d]
  BY <1>1
<1>. QED
  BY <1>1, <1>2 DEF OneBeganAlone

LEMMA GiveUpInv ==
  ASSUME InboxInv, NEW c \in Callers, GiveUp(c)
  PROVE  InboxInv'
<1>1. /\ working' = [working EXCEPT ![c] = {}]
      /\ UNCHANGED <<seenAt, clock, executed, forgotten, overlaps>>
  BY DEF GiveUp
<1>2. /\ working' \in [Callers -> SUBSET [key : Keys, beside : BOOLEAN]]
      /\ OneBeganAlone'
      /\ \A d \in Callers : \A u \in working'[d] : d # c /\ u \in working[d]
  BY <1>1, Ends DEF InboxInv
<1>3. InboxType'
  BY <1>1, <1>2 DEF InboxInv, InboxType
<1>4. ASSUME NEW k \in Keys PROVE Covered(k)'
  <2>1. Covered(k) /\ Seen(k)' = Seen(k)
    BY <1>1 DEF InboxInv, Seen
  <2>. QED
    BY <1>1, <1>2, <2>1 DEF Covered
<1>. QED
  BY <1>1, <1>2, <1>3, <1>4 DEF InboxInv, Bounded

LEMMA TickInv ==
  ASSUME InboxInv, InboxTick
  PROVE  InboxInv'
<1>0. InboxType
  BY DEF InboxInv
<1>. DEFINE expiring == {k \in DOMAIN seenAt : TTL > 0 /\ clock - seenAt[k] = TTL}
<1>1. /\ clock' = clock + 1 /\ forgotten' = Count(forgotten, expiring)
      /\ UNCHANGED <<seenAt, working, executed, overlaps>>
  BY DEF InboxTick
<1>2. /\ forgotten' \in [Keys -> Nat]
      /\ \A k \in Keys : forgotten'[k] = IF k \in expiring THEN forgotten[k] + 1 ELSE forgotten[k]
  BY <1>0, <1>1, CountIs DEF InboxType
<1>3. InboxType'
  BY <1>0, <1>1, <1>2 DEF InboxType
<1>4. ASSUME NEW k \in Keys PROVE Covered(k)'
  <2>1. Covered(k) /\ executed[k] \in Nat /\ forgotten[k] \in Nat /\ overlaps[k] \in Nat
    BY <1>0 DEF InboxInv, InboxType
  <2>2. ASSUME ~Seen(k)', Seen(k) PROVE k \in expiring
    BY <1>0, <1>1, <2>2, InboxAssumption DEF Seen, InboxType
  <2>3. forgotten'[k] \in Nat /\ forgotten'[k] >= forgotten[k]
    BY <1>2, <2>1
  <2>4. ~Seen(k)' => executed[k] <= forgotten'[k] + overlaps[k]
    <3>1. CASE Seen(k)
      BY <1>2, <2>1, <2>2, <3>1 DEF Covered
    <3>2. CASE ~Seen(k)
      BY <2>1, <2>3, <3>2 DEF Covered
    <3>. QED
      BY <3>1, <3>2
  <2>5. executed[k] <= 1 + forgotten'[k] + overlaps[k]
    BY <2>1, <2>3 DEF Covered
  <2>6. ASSUME NEW d \in Callers, NEW u \in working[d], u.key = k, ~u.beside
        PROVE  executed[k] <= forgotten'[k] + overlaps[k]
    <3>1. executed[k] <= forgotten[k] + overlaps[k]
      BY <2>1, <2>6 DEF Covered
    <3>. QED
      BY <2>1, <2>3, <3>1
  <2>. QED
    BY <1>1, <2>4, <2>5, <2>6 DEF Covered
<1>. QED
  BY <1>1, <1>3, <1>4 DEF InboxInv, OneBeganAlone, Bounded

LEMMA RecordInv ==
  ASSUME InboxInv, NEW c \in Callers, Record(c)
  PROVE  InboxInv'
<1>0. InboxType /\ OneBeganAlone /\ Bounded
  BY DEF InboxInv
<1>1. /\ working' = [working EXCEPT ![c] = {}] /\ clock' = clock
      /\ \E w \in working[c] : \E m \in Recorded(w.key) :
           /\ seenAt' = m
           /\ executed' = Count(executed, {w.key})
           /\ forgotten' = Count(forgotten, (DOMAIN seenAt \cup {w.key}) \ DOMAIN m)
           /\ overlaps' = Count(overlaps, {k \in {w.key} : w.beside})
  BY DEF Record
<1>2. PICK w \in working[c] :
        /\ seenAt' \in Recorded(w.key)
        /\ executed' = Count(executed, {w.key})
        /\ forgotten' = Count(forgotten, (DOMAIN seenAt \cup {w.key}) \ DOMAIN seenAt')
        /\ overlaps' = Count(overlaps, {k \in {w.key} : w.beside})
  BY <1>1
<1>3. w.key \in Keys /\ w.beside \in BOOLEAN
  BY <1>0 DEF InboxType
<1>4. /\ executed' \in [Keys -> Nat]
      /\ \A k \in Keys : executed'[k] = IF k = w.key THEN executed[k] + 1 ELSE executed[k]
  BY <1>0, <1>2, CountIs DEF InboxType
<1>5. /\ forgotten' \in [Keys -> Nat]
      /\ \A k \in Keys : forgotten'[k] = IF k \in (DOMAIN seenAt \cup {w.key}) \ DOMAIN seenAt'
                                        THEN forgotten[k] + 1 ELSE forgotten[k]
  BY <1>0, <1>2, CountIs DEF InboxType
<1>6. /\ overlaps' \in [Keys -> Nat]
      /\ \A k \in Keys : overlaps'[k] = IF k = w.key /\ w.beside THEN overlaps[k] + 1 ELSE overlaps[k]
  BY <1>0, <1>2, CountIs DEF InboxType
<1>7. /\ DOMAIN seenAt' \subseteq DOMAIN seenAt \cup {w.key} /\ IsFiniteSet(DOMAIN seenAt')
      /\ seenAt' \in [DOMAIN seenAt' -> Nat]
      /\ \A x \in DOMAIN seenAt' : seenAt'[x] <= clock
      /\ \A x \in DOMAIN seenAt' : x # w.key => seenAt'[x] = seenAt[x]
      /\ w.key \in DOMAIN seenAt' => TTL = 0 \/ clock - seenAt'[w.key] <= TTL
      /\ MaxSize > 0 => Cardinality(DOMAIN seenAt') <= MaxSize
  BY <1>0, <1>2, <1>3, RecordedMap
<1>8. /\ working' \in [Callers -> SUBSET [key : Keys, beside : BOOLEAN]]
      /\ OneBeganAlone'
      /\ \A d \in Callers : \A u \in working'[d] : d # c /\ u \in working[d]
  BY <1>0, <1>1, Ends
<1>9. InboxType' /\ Bounded'
  BY <1>0, <1>1, <1>3, <1>4, <1>5, <1>6, <1>7, <1>8 DEF InboxType, Bounded
<1>10. ASSUME NEW k \in Keys PROVE Covered(k)'
  <2>1. Covered(k) /\ executed[k] \in Nat /\ forgotten[k] \in Nat /\ overlaps[k] \in Nat
    BY <1>0 DEF InboxInv, InboxType
  <2>2. ~Seen(k)' => k \notin DOMAIN seenAt' \/ (k # w.key /\ ~Seen(k))
    BY <1>1, <1>7 DEF Seen
  <2>3. CASE k # w.key
    <3>1. /\ executed'[k] = executed[k] /\ overlaps'[k] = overlaps[k] /\ forgotten'[k] >= forgotten[k]
          /\ forgotten'[k] \in Nat
          /\ k \in DOMAIN seenAt \ DOMAIN seenAt' => forgotten'[k] = forgotten[k] + 1
      BY <1>4, <1>5, <1>6, <2>1, <2>3
    <3>2. ~Seen(k)' => executed'[k] <= forgotten'[k] + overlaps'[k]
      <4>1. CASE k \in DOMAIN seenAt \ DOMAIN seenAt'
        BY <2>1, <3>1, <4>1 DEF Covered
      <4>2. CASE ~Seen(k)
        BY <2>1, <3>1, <4>2 DEF Covered
      <4>. QED
        BY <2>2, <4>1, <4>2 DEF Seen
    <3>. QED
      BY <1>8, <2>1, <3>1, <3>2 DEF Covered
  <2>4. CASE k = w.key /\ w.beside
    <3>1. /\ executed'[k] = executed[k] + 1 /\ overlaps'[k] = overlaps[k] + 1 /\ forgotten'[k] >= forgotten[k]
          /\ forgotten'[k] \in Nat
          /\ k \notin DOMAIN seenAt' => forgotten'[k] = forgotten[k] + 1
      BY <1>4, <1>5, <1>6, <2>1, <2>4
    <3>. QED
      BY <1>8, <2>1, <2>2, <2>4, <3>1 DEF Covered
  <2>5. CASE k = w.key /\ ~w.beside
    <3>1. /\ executed'[k] = executed[k] + 1 /\ overlaps'[k] = overlaps[k] /\ forgotten'[k] >= forgotten[k]
          /\ forgotten'[k] \in Nat
          /\ k \notin DOMAIN seenAt' => forgotten'[k] = forgotten[k] + 1
      BY <1>4, <1>5, <1>6, <2>1, <2>5
    <3>2. executed[k] <= forgotten[k] + overlaps[k]
      BY <2>1, <2>5 DEF Covered
    <3>3. ASSUME NEW d \in Callers, NEW u \in working'[d], u.key = k, ~u.beside PROVE FALSE
      BY <1>0, <1>8, <2>5, <3>3 DEF OneBeganAlone
    <3>. QED
      BY <2>1, <2>2, <2>5, <3>1, <3>2, <3>3 DEF Covered
  <2>. QED
    BY <1>3, <2>3, <2>4, <2>5
<1>. QED
  BY <1>8, <1>9, <1>10 DEF InboxInv

\* Whatever the callers and the clock do, the invariant of the inbox is kept.
LEMMA InboxStepInv == InboxInv /\ InboxStep => InboxInv'
<1>. SUFFICES ASSUME InboxInv, InboxStep PROVE InboxInv'
  OBVIOUS
<1>1. CASE UNCHANGED inboxVars
  BY <1>1 DEF inboxVars, InboxInv, InboxType, OneBeganAlone, Covered, Seen, Bounded
<1>. QED
  BY <1>1, SeenFalseInv, GiveUpInv, TickInv, RecordInv DEF InboxStep

LEMMA InboxInvSuffices == InboxInv => DuplicatesExcused
BY DEF InboxInv, Covered, Bounded, DuplicatesExcused
=============================================================================
