------------------------- MODULE MemoryOutboxProofs -------------------------
(***************************************************************************)
(* Proofs about MemoryOutbox, for any Stage calls, relays and bounds.      *)
(***************************************************************************)
EXTENDS MemoryOutbox, SequenceTheorems, TLAPS

MemRecord == [id : Nat, event : Event, available_at : Nat, attempts : Nat]

MemType ==
  /\ staging \in [Batches -> [st : {"new", "open", "done"}, at : Nat]]
  /\ records \in Seq(MemRecord)
  /\ lastId \in Nat /\ now \in Nat
  /\ published \in [Event -> Nat] /\ spent \in Nat /\ shared \in BOOLEAN

\* Ids are never used twice.
Identified ==
  /\ \A i \in DOMAIN records : records[i].id <= lastId
  /\ \A i, j \in DOMAIN records : records[i].id = records[j].id => i = j

Staged(e) == \E b \in Batches : staging[b].st = "done" /\ \E i \in DOMAIN b : b[i] = e

\* An event is stored once, by the call that staged it.
StoredOnce ==
  /\ \A i \in DOMAIN records : Staged(records[i].event)
  /\ \A i, j \in DOMAIN records : records[i].event = records[j].event => i = j

\* Relays that took turns so far take turns now.
Alone == \A v, w \in Relays : pc[v] # "down" /\ pc[w] # "down" => v = w

Copy(r, s) == s.id = r.token /\ s.event = r.event /\ s.attempts = r.attempts

\* What a relay holds is what the store holds: nobody else marked it.
InHand(w) ==
  /\ \A i \in DOMAIN batch[w] : \E k \in DOMAIN records : Copy(batch[w][i], records[k])
  /\ \A i, j \in DOMAIN batch[w] : batch[w][i].token = batch[w][j].token => i = j

\* Only an event that is being settled, or was, has used up its one
\* publication.
Settling(e) ==
  Staged(e) /\ (e \notin StoredEvents \/ \E w \in Relays : pc[w] = "sent" /\ Current(w).event = e)

Priced == \A e \in Event : published[e] <= 1 + spent /\ (published[e] > spent => Settling(e))

Budgeted ==
  MaxAttempts > 0 =>
    /\ \A i \in DOMAIN dlq : dlq[i].attempts = MaxAttempts
    /\ \A i \in DOMAIN records : records[i].attempts < MaxAttempts

InTurns == Alone /\ (\A w \in Relays : InHand(w)) /\ Priced /\ Budgeted

Inductive ==
  /\ RelayTypeOK /\ MemType /\ Identified /\ StoredOnce /\ NeverOverfull
  /\ ~shared => InTurns

-----------------------------------------------------------------------------
(* The relay's half                                                        *)

\* What Head and Tail of a non-empty batch are.
LEMMA HeadTail ==
  ASSUME NEW S, NEW s \in Seq(S), s # <<>>
  PROVE  /\ Tail(s) \in Seq(S) /\ Head(s) \in S /\ Head(s) = s[1] /\ 1 \in DOMAIN s
         /\ \A i \in DOMAIN Tail(s) : i \in Nat /\ i + 1 \in DOMAIN s /\ i + 1 # 1 /\ Tail(s)[i] = s[i + 1]
OBVIOUS

LEMMA InitInductive ==
  ASSUME Init
  PROVE  Inductive
<1>1. RelayTypeOK
  <2>1. <<>> \in Seq(Record)
    OBVIOUS
  <2>. QED
    BY <2>1 DEF Init, RelayInit, RelayTypeOK, RelayPC
<1>2. MemType
  <2>1. <<>> \in Seq(MemRecord)
    OBVIOUS
  <2>. QED
    BY <2>1, MemoryAssumption DEF Init, MemInit, MemType
<1>3. DOMAIN records = {} /\ DOMAIN dlq = {} /\ Len(records) = 0
  BY DEF Init, MemInit
<1>4. Identified /\ StoredOnce
  BY <1>3 DEF Identified, StoredOnce
<1>5. NeverOverfull
  BY <1>3, MemoryAssumption DEF NeverOverfull
<1>6. InTurns
  <2>1. \A w \in Relays : pc[w] = "down" /\ DOMAIN batch[w] = {}
    BY DEF Init, RelayInit
  <2>2. Alone /\ (\A w \in Relays : InHand(w)) /\ Budgeted
    BY <1>3, <2>1 DEF Alone, InHand, Budgeted
  <2>3. spent = 0 /\ \A e \in Event : published[e] = 0
    BY DEF Init
  <2>4. Priced
    <3>1. ASSUME NEW e \in Event PROVE published[e] <= 1 + spent /\ ~(published[e] > spent)
      <4>1. published[e] = 0 /\ spent = 0
        BY <2>3
      <4>. QED
        BY <4>1
    <3>. QED
      BY <3>1, Zenon DEF Priced
  <2>. QED
    BY <2>2, <2>4 DEF InTurns
<1>. QED
  BY <1>1, <1>2, <1>4, <1>5, <1>6 DEF Inductive

\* A relay that runs alone holds the only batch.
LEMMA SoleBatch ==
  ASSUME RelayTypeOK, Alone, NEW w \in Relays, pc[w] # "down", NEW v \in Relays, v # w
  PROVE  pc[v] = "down" /\ batch[v] = <<>> /\ DOMAIN batch[v] = {}
<1>1. pc[v] = "down"
  BY DEF Alone
<1>2. batch[v] = <<>>
  BY <1>1 DEF RelayTypeOK
<1>. QED
  BY <1>1, <1>2

\* The steps of a relay that leave the store and the broker alone.
LEMMA QuietType ==
  ASSUME RelayTypeOK, NEW w \in Relays,
         Start(w) \/ Cancel(w) \/ Exit(w) \/ PublishReturns(w) \/ PublishFails(w)
  PROVE  RelayTypeOK' /\ batch' = batch
<1>1. CASE Start(w)
  BY <1>1 DEF RelayTypeOK, RelayPC, Start
<1>2. CASE Cancel(w)
  BY <1>2 DEF RelayTypeOK, RelayPC, Cancel
<1>3. CASE Exit(w)
  BY <1>3 DEF RelayTypeOK, RelayPC, Exit
<1>4. CASE PublishReturns(w) \/ PublishFails(w)
  BY <1>4 DEF RelayTypeOK, RelayPC, PublishReturns, PublishFails
<1>. QED
  BY <1>1, <1>2, <1>3, <1>4

\* The parts of the invariant that speak of the store only.
StoreInv == MemType /\ Identified /\ StoredOnce /\ NeverOverfull

LEMMA StoreSame ==
  ASSUME StoreInv, UNCHANGED memVars, published' \in [Event -> Nat], spent' \in Nat, shared' \in BOOLEAN
  PROVE  /\ StoreInv' /\ (Budgeted => Budgeted')
         /\ \A e : (Staged(e)' <=> Staged(e)) /\ StoredEvents' = StoredEvents
<1>1. UNCHANGED <<staging, records, dlq, lastId, now>>
  BY DEF memVars
<1>2. MemType' /\ Identified'
  BY <1>1 DEF StoreInv, MemType, Identified
<1>3. \A e : Staged(e)' <=> Staged(e)
  BY <1>1 DEF Staged
<1>4. StoredOnce' /\ NeverOverfull'
  BY <1>1, <1>3 DEF StoreInv, StoredOnce, NeverOverfull
<1>. QED
  BY <1>1, <1>2, <1>3, <1>4 DEF StoreInv, Budgeted, StoredEvents

\* A relay in "sent" stays there: what was being settled still is.
LEMMA SettlingSame ==
  ASSUME NEW e, Settling(e), Staged(e)' <=> Staged(e), StoredEvents' = StoredEvents,
         \A v \in Relays : pc[v] = "sent" => pc'[v] = "sent" /\ batch'[v] = batch[v]
  PROVE  Settling(e)'
BY DEF Settling, Current

LEMMA QuietInv ==
  ASSUME Inductive, NEW w \in Relays,
         ExitRelay(w) \/ CancelRelay(w) \/ PublishErr(w)
  PROVE  Inductive'
<1>0. RelayTypeOK /\ StoreInv /\ (~shared => InTurns)
  BY DEF Inductive, StoreInv
<1>1. /\ Exit(w) \/ Cancel(w) \/ PublishFails(w)
      /\ UNCHANGED <<memVars, published, spent, shared>>
  BY DEF ExitRelay, CancelRelay, PublishErr, envVars
<1>2. RelayTypeOK' /\ batch' = batch
  BY <1>0, <1>1, QuietType
<1>3. /\ \A v \in Relays : pc[v] = "sent" => pc'[v] = "sent"
      /\ \A v \in Relays : pc'[v] # "down" => pc[v] # "down"
  BY <1>0, <1>1 DEF RelayTypeOK, Exit, Cancel, PublishFails
<1>4. StoreInv' /\ (Budgeted => Budgeted') /\ \A e : (Staged(e)' <=> Staged(e)) /\ StoredEvents' = StoredEvents
  BY <1>0, <1>1, StoreSame DEF StoreInv, MemType
<1>5. ASSUME ~shared' PROVE InTurns'
  <2>0. InTurns
    BY <1>0, <1>1, <1>5
  <2>1. Alone'
    BY <1>3, <2>0 DEF InTurns, Alone
  <2>2. \A v \in Relays : InHand(v)'
    BY <1>1, <1>2, <2>0 DEF InTurns, InHand, memVars
  <2>3. \A e : Settling(e) => Settling(e)'
    BY <1>2, <1>3, <1>4, SettlingSame
  <2>4. Priced'
    BY <1>1, <2>0, <2>3 DEF InTurns, Priced
  <2>. QED
    BY <1>4, <2>0, <2>1, <2>2, <2>4 DEF InTurns
<1>. QED
  BY <1>2, <1>4, <1>5 DEF Inductive, StoreInv

\* A relay that starts while another runs ends the turns.
LEMMA StartInv ==
  ASSUME Inductive, NEW w \in Relays, StartRelay(w)
  PROVE  Inductive'
<1>0. RelayTypeOK /\ StoreInv /\ (~shared => InTurns)
  BY DEF Inductive, StoreInv
<1>1. /\ Start(w) /\ UNCHANGED <<memVars, published, spent>>
      /\ shared' = (shared \/ \E v \in Relays : pc[v] # "down")
  BY DEF StartRelay
<1>2. RelayTypeOK' /\ batch' = batch
  BY <1>0, <1>1, QuietType
<1>3. \A v \in Relays : (pc[v] = "sent" => pc'[v] = "sent") /\ (v # w => pc'[v] = pc[v])
  BY <1>0, <1>1 DEF RelayTypeOK, Start
<1>4. shared' \in BOOLEAN
  BY <1>1
<1>5. StoreInv' /\ (Budgeted => Budgeted') /\ \A e : (Staged(e)' <=> Staged(e)) /\ StoredEvents' = StoredEvents
  BY <1>0, <1>1, <1>4, StoreSame DEF StoreInv, MemType
<1>6. ASSUME ~shared' PROVE InTurns'
  <2>0. InTurns /\ \A v \in Relays : pc[v] = "down"
    BY <1>0, <1>1, <1>6
  <2>1. Alone'
    BY <1>3, <2>0 DEF Alone
  <2>2. \A v \in Relays : InHand(v)'
    BY <1>1, <1>2, <2>0 DEF InTurns, InHand, memVars
  <2>3. \A e : Settling(e) => Settling(e)'
    BY <1>2, <1>3, <1>5, SettlingSame
  <2>4. Priced'
    BY <1>1, <2>0, <2>3 DEF InTurns, Priced
  <2>. QED
    BY <1>5, <2>0, <2>1, <2>2, <2>4 DEF InTurns
<1>. QED
  BY <1>2, <1>5, <1>6 DEF Inductive, StoreInv

\* The broker takes an event: it is being settled, or its acknowledgement is
\* lost and paid for.
LEMMA PublishInv ==
  ASSUME Inductive, NEW w \in Relays, PublishOk(w) \/ PublishAckLost(w)
  PROVE  Inductive'
<1>0. RelayTypeOK /\ StoreInv /\ (~shared => InTurns)
  BY DEF Inductive, StoreInv
<1>1. /\ pc[w] = "publish" /\ Accept(Current(w).event) /\ UNCHANGED <<memVars, shared>>
      /\ \/ PublishReturns(w) /\ spent' = spent
         \/ PublishFails(w) /\ spent' = spent + 1
  BY DEF PublishOk, PublishAckLost, PublishReturns, PublishFails
<1>2. RelayTypeOK' /\ batch' = batch
  BY <1>0, <1>1, QuietType
<1>3. PICK e \in Event : e = Current(w).event
  <2>1. batch[w] \in Seq(Record) /\ batch[w] # <<>>
    BY <1>0, <1>1 DEF RelayTypeOK
  <2>2. Current(w) \in Record
    BY <2>1, HeadTail DEF Current
  <2>. QED
    BY <2>2 DEF Record
<1>4. /\ \A v \in Relays : (pc[v] = "sent" => pc'[v] = "sent") /\ (pc'[v] # "down" => pc[v] # "down")
      /\ PublishReturns(w) => pc'[w] = "sent"
  BY <1>0, <1>1 DEF RelayTypeOK, PublishReturns, PublishFails
<1>5. PICK n \in Nat, m \in Nat : n = spent /\ m = published[e]
  BY <1>0 DEF StoreInv, MemType
<1>6. /\ published' = [published EXCEPT ![e] = m + 1] /\ published' \in [Event -> Nat]
      /\ spent' \in {n, n + 1} /\ spent' \in Nat /\ shared' \in BOOLEAN
  BY <1>0, <1>1, <1>3, <1>5 DEF Accept, StoreInv, MemType
<1>7. StoreInv' /\ (Budgeted => Budgeted') /\ \A f : (Staged(f)' <=> Staged(f)) /\ StoredEvents' = StoredEvents
  BY <1>0, <1>1, <1>6, StoreSame DEF StoreInv, MemType
<1>8. ASSUME ~shared' PROVE InTurns'
  <2>0. InTurns
    BY <1>0, <1>1, <1>8
  <2>1. Alone'
    BY <1>4, <2>0 DEF InTurns, Alone
  <2>2. \A v \in Relays : InHand(v)'
    BY <1>1, <1>2, <2>0 DEF InTurns, InHand, memVars
  <2>3. \A f : Settling(f) => Settling(f)'
    BY <1>2, <1>4, <1>7, SettlingSame
  <2>4. ASSUME NEW f \in Event, f # e PROVE published'[f] <= 1 + spent' /\ (published'[f] > spent' => Settling(f)')
    <3>1. PICK k \in Nat : k = published[f] /\ k = published'[f]
      BY <1>0, <1>6, <2>4 DEF StoreInv, MemType
    <3>2. k <= 1 + n /\ (k > n => Settling(f))
      BY <1>5, <2>0, <3>1 DEF InTurns, Priced
    <3>. QED
      BY <1>5, <1>6, <2>3, <3>1, <3>2
  <2>5. m <= n
    <3>1. PICK k \in DOMAIN records : records[k].event = e
      <4>1. batch[w] \in Seq(Record) /\ batch[w] # <<>>
        BY <1>0, <1>1 DEF RelayTypeOK
      <4>2. 1 \in DOMAIN batch[w] /\ batch[w][1].event = e
        BY <1>3, <4>1, HeadTail DEF Current
      <4>. QED
        BY <2>0, <4>2 DEF InTurns, InHand, Copy
    <3>2. e \in StoredEvents
      BY <3>1 DEF StoredEvents
    <3>3. ~\E v \in Relays : pc[v] = "sent" /\ Current(v).event = e
      <4>1. \A v \in Relays : v # w => pc[v] = "down"
        BY <1>0, <1>1, <2>0, SoleBatch DEF InTurns
      <4>. QED
        BY <1>1, <4>1
    <3>4. ~Settling(e)
      BY <3>2, <3>3 DEF Settling
    <3>. QED
      BY <1>5, <2>0, <3>4 DEF InTurns, Priced
  <2>6. published'[e] <= 1 + spent' /\ (published'[e] > spent' => Settling(e)')
    <3>0. published'[e] = m + 1
      BY <1>0, <1>6 DEF StoreInv, MemType
    <3>1. CASE PublishReturns(w) /\ spent' = spent
      <4>1. pc'[w] = "sent" /\ Current(w)' = Current(w)
        BY <1>2, <1>4, <3>1 DEF Current
      <4>2. Staged(e)
        <5>1. batch[w] \in Seq(Record) /\ batch[w] # <<>>
          BY <1>0, <1>1 DEF RelayTypeOK
        <5>2. 1 \in DOMAIN batch[w] /\ batch[w][1].event = e
          BY <1>3, <5>1, HeadTail DEF Current
        <5>3. PICK k \in DOMAIN records : records[k].event = e
          BY <2>0, <5>2 DEF InTurns, InHand, Copy
        <5>. QED
          BY <1>0, <5>3 DEF StoreInv, StoredOnce
      <4>3. Settling(e)'
        BY <1>3, <1>7, <4>1, <4>2 DEF Settling
      <4>. QED
        BY <1>5, <2>5, <3>0, <3>1, <4>3
    <3>2. CASE spent' = spent + 1
      BY <1>5, <2>5, <3>0, <3>2
    <3>. QED
      BY <1>1, <3>1, <3>2
  <2>7. Priced'
    BY <2>4, <2>6 DEF Priced
  <2>. QED
    BY <1>7, <2>0, <2>1, <2>2, <2>7 DEF InTurns
<1>. QED
  BY <1>2, <1>7, <1>8 DEF Inductive, StoreInv

\* Fetch hands out copies of distinct records.
LEMMA FetchedCopies ==
  ASSUME MemType, Identified, NEW q \in Fetches
  PROVE  /\ Fetched(q) \in Seq(Record)
         /\ \A i \in DOMAIN Fetched(q) : \E k \in DOMAIN records : Copy(Fetched(q)[i], records[k])
         /\ \A i, j \in DOMAIN Fetched(q) : Fetched(q)[i].token = Fetched(q)[j].token => i = j
<1>1. PICK n \in Nat : q \in [1 .. n -> DueRecords] /\ Due(q)
  BY MemoryAssumption DEF Fetches
<1>2. \A i \in 1 .. n : q[i] \in DOMAIN records /\ records[q[i]] \in MemRecord
  BY <1>1 DEF DueRecords, MemType
<1>. DEFINE F(i) == [event |-> records[q[i]].event, token |-> records[q[i]].id,
                     attempts |-> records[q[i]].attempts]
<1>3. \A i \in 1 .. n : F(i) \in Record /\ Copy(F(i), records[q[i]]) /\ F(i).token = records[q[i]].id
  BY <1>2 DEF Record, MemRecord, Copy
<1>4. Fetched(q) = [i \in 1 .. n |-> F(i)]
  BY <1>1 DEF Fetched
<1>. HIDE DEF F
<1>5. Fetched(q) \in Seq(Record) /\ DOMAIN Fetched(q) = 1 .. n /\ \A i \in 1 .. n : Fetched(q)[i] = F(i)
  BY <1>3, <1>4
<1>6. ASSUME NEW i \in 1 .. n, NEW j \in 1 .. n, F(i).token = F(j).token PROVE i = j
  <2>1. q[i] = q[j]
    BY <1>2, <1>3, <1>6 DEF Identified
  <2>2. \A a, b \in 1 .. n : a < b => q[a] # q[b]
    BY <1>1 DEF Due
  <2>. QED
    BY <2>1, <2>2
<1>. QED
  BY <1>2, <1>3, <1>5, <1>6

LEMMA FetchInv ==
  ASSUME Inductive, NEW w \in Relays, FetchBatch(w)
  PROVE  Inductive'
<1>0. RelayTypeOK /\ StoreInv /\ (~shared => InTurns)
  BY DEF Inductive, StoreInv
<1>1. PICK q \in Fetches : Receive(w, Fetched(q)) /\ UNCHANGED <<memVars, published, spent, shared>>
  BY DEF FetchBatch, envVars
<1>2. PICK b \in Seq(Record) :
        /\ b = Fetched(q)
        /\ \A i \in DOMAIN b : \E k \in DOMAIN records : Copy(b[i], records[k])
        /\ \A i, j \in DOMAIN b : b[i].token = b[j].token => i = j
  BY <1>0, FetchedCopies DEF StoreInv
<1>3. /\ pc[w] = "idle" /\ pc' = [pc EXCEPT ![w] = IF b = <<>> THEN "idle" ELSE "publish"]
      /\ batch' = [batch EXCEPT ![w] = b] /\ cancelled' = cancelled
  BY <1>1, <1>2 DEF Receive
<1>4. RelayTypeOK'
  BY <1>0, <1>3 DEF RelayTypeOK, RelayPC
<1>5. /\ \A v \in Relays : pc[v] = "sent" => pc'[v] = "sent" /\ batch'[v] = batch[v]
      /\ \A v \in Relays : pc'[v] # "down" => pc[v] # "down"
      /\ batch'[w] = b /\ \A v \in Relays : v # w => batch'[v] = batch[v]
  BY <1>0, <1>3 DEF RelayTypeOK
<1>6. StoreInv' /\ (Budgeted => Budgeted') /\ \A e : (Staged(e)' <=> Staged(e)) /\ StoredEvents' = StoredEvents
  BY <1>0, <1>1, StoreSame DEF StoreInv, MemType
<1>7. ASSUME ~shared' PROVE InTurns'
  <2>0. InTurns
    BY <1>0, <1>1, <1>7
  <2>1. Alone'
    BY <1>5, <2>0 DEF InTurns, Alone
  <2>2. ASSUME NEW v \in Relays PROVE InHand(v)'
    <3>0. records' = records
      BY <1>1 DEF memVars
    <3>1. CASE v = w
      BY <1>2, <1>5, <3>0, <3>1 DEF InHand
    <3>2. CASE v # w
      BY <1>5, <2>0, <3>0, <3>2 DEF InHand, InTurns
    <3>. QED
      BY <3>1, <3>2
  <2>3. \A e : Settling(e) => Settling(e)'
    BY <1>5, <1>6, SettlingSame
  <2>4. Priced'
    BY <1>1, <2>0, <2>3 DEF InTurns, Priced
  <2>. QED
    BY <1>6, <2>0, <2>1, <2>2, <2>4 DEF InTurns
<1>. QED
  BY <1>4, <1>6, <1>7 DEF Inductive, StoreInv

-----------------------------------------------------------------------------
(* Stage                                                                   *)

\* Steps of the callers and of the clock leave the relays alone.
LEMMA BesideRelays ==
  ASSUME Inductive, UNCHANGED <<relayVars, envVars>>, StoreInv',
         Budgeted => Budgeted',
         \A w \in Relays : InHand(w) => InHand(w)',
         \A e \in Event : Settling(e) => Settling(e)'
  PROVE  Inductive'
<1>1. UNCHANGED <<pc, batch, cancelled, published, spent, shared>>
  BY DEF relayVars, envVars
<1>2. RelayTypeOK'
  BY <1>1 DEF Inductive, RelayTypeOK
<1>3. ASSUME ~shared' PROVE InTurns'
  <2>0. InTurns
    BY <1>1, <1>3 DEF Inductive
  <2>1. Alone'
    BY <1>1, <2>0 DEF InTurns, Alone
  <2>2. Priced'
    BY <1>1, <2>0 DEF InTurns, Priced
  <2>. QED
    BY <2>0, <2>1, <2>2 DEF InTurns
<1>. QED
  BY <1>2, <1>3 DEF Inductive, StoreInv

\* Whatever keeps the records and what was staged.
LEMMA SameRecords ==
  ASSUME Inductive, UNCHANGED <<relayVars, envVars, records, dlq, lastId>>,
         staging' \in [Batches -> [st : {"new", "open", "done"}, at : Nat]], now' \in Nat,
         \A b \in Batches : staging[b].st = "done" <=> staging'[b].st = "done"
  PROVE  Inductive'
<1>1. \A e : Staged(e)' <=> Staged(e)
  BY DEF Staged
<1>2. StoreInv'
  BY <1>1 DEF Inductive, StoreInv, MemType, Identified, StoredOnce, NeverOverfull, envVars
<1>3. Budgeted => Budgeted'
  BY DEF Budgeted
<1>4. \A w \in Relays : InHand(w) => InHand(w)'
  BY DEF InHand, relayVars
<1>5. StoredEvents' = StoredEvents
  BY DEF StoredEvents
<1>6. \A e \in Event : Settling(e) => Settling(e)'
  BY <1>1, <1>5, SettlingSame DEF relayVars
<1>. QED
  BY <1>2, <1>3, <1>4, <1>6, BesideRelays

\* The stored batch: where its records are.
LEMMA AppendedRecords ==
  ASSUME Inductive, NEW b \in Batches, StageAppend(b)
  PROVE  /\ records' \in Seq(MemRecord) /\ Len(records') = Len(records) + Len(b)
         /\ \A i \in DOMAIN records : i \in DOMAIN records' /\ records'[i] = records[i]
         /\ \A i \in DOMAIN records' :
              \/ i \in DOMAIN records
              \/ \E k \in DOMAIN b : /\ i = Len(records) + k /\ records'[i].event = b[k]
                                     /\ records'[i].id = lastId + k /\ records'[i].attempts = 0
<1>1. /\ records \in Seq(MemRecord) /\ b \in Seq(Event) /\ lastId \in Nat /\ staging[b].at \in Nat
  BY MemoryAssumption DEF Inductive, MemType
<1>. DEFINE R(k) == [id |-> lastId + k, event |-> b[k], available_at |-> staging[b].at, attempts |-> 0]
<1>2. \A k \in DOMAIN b : /\ R(k) \in MemRecord /\ R(k).event = b[k] /\ R(k).id = lastId + k
                          /\ R(k).attempts = 0
  BY <1>1 DEF MemRecord
<1>3. PICK t : t = [k \in DOMAIN b |-> R(k)] /\ records' = records \o t
  BY DEF StageAppend
<1>. HIDE DEF R
<1>4. PICK m \in Nat, n \in Nat : m = Len(records) /\ n = Len(b) /\ DOMAIN records = 1 .. m /\ DOMAIN b = 1 .. n
  BY <1>1
<1>5. t \in Seq(MemRecord) /\ Len(t) = n /\ DOMAIN t = DOMAIN b /\ \A k \in DOMAIN b : t[k] = R(k)
  <2>1. t \in [1 .. n -> MemRecord] /\ \A k \in DOMAIN b : t[k] = R(k)
    BY <1>2, <1>3, <1>4
  <2>2. t \in Seq(MemRecord) /\ Len(t) = n
    BY <2>1
  <2>. QED
    BY <1>4, <2>1, <2>2
<1>6. /\ records' \in Seq(MemRecord) /\ Len(records') = m + n
      /\ \A i \in 1 .. m + n : records'[i] = IF i <= m THEN records[i] ELSE t[i - m]
  BY <1>1, <1>3, <1>5, <1>4, ConcatProperties
<1>7. DOMAIN records' = 1 .. m + n
  BY <1>6
<1>8. \A i \in DOMAIN records : i \in DOMAIN records' /\ records'[i] = records[i]
  BY <1>4, <1>6, <1>7
<1>9. ASSUME NEW i \in DOMAIN records', i \notin DOMAIN records
      PROVE  \E k \in DOMAIN b : /\ i = Len(records) + k /\ records'[i].event = b[k]
                                 /\ records'[i].id = lastId + k /\ records'[i].attempts = 0
  <2>1. i \in 1 .. m + n /\ ~(i <= m) /\ i - m \in 1 .. n /\ i = m + (i - m)
    BY <1>4, <1>7, <1>9
  <2>2. PICK k \in DOMAIN b : k = i - m
    BY <1>4, <2>1
  <2>3. records'[i] = R(k) /\ i = m + k
    BY <1>5, <1>6, <2>1, <2>2
  <2>. QED
    BY <1>2, <1>4, <2>3
<1>. QED
  BY <1>5, <1>4, <1>6, <1>8, <1>9

LEMMA StageAppendInv ==
  ASSUME Inductive, NEW b \in Batches, StageAppend(b), UNCHANGED <<relayVars, envVars>>
  PROVE  Inductive'
<1>0. StoreInv /\ MemType /\ Identified /\ StoredOnce
  BY DEF Inductive, StoreInv
<1>1. /\ records' \in Seq(MemRecord) /\ Len(records') = Len(records) + Len(b)
      /\ \A i \in DOMAIN records : i \in DOMAIN records' /\ records'[i] = records[i]
      /\ \A i \in DOMAIN records' :
           \/ i \in DOMAIN records
           \/ \E k \in DOMAIN b : /\ i = Len(records) + k /\ records'[i].event = b[k]
                                  /\ records'[i].id = lastId + k /\ records'[i].attempts = 0
  BY AppendedRecords
<1>2. /\ b \in Seq(Event) /\ Len(b) \in Nat /\ DOMAIN b = 1 .. Len(b) /\ lastId \in Nat
      /\ lastId' = lastId + Len(b) /\ dlq' = dlq /\ now' = now
  BY <1>0, MemoryAssumption DEF StageAppend, MemType
<1>3. /\ staging[b].st = "open" /\ staging'[b].st = "done"
      /\ \A c \in Batches : c # b => staging'[c] = staging[c]
      /\ staging' \in [Batches -> [st : {"new", "open", "done"}, at : Nat]]
  BY <1>0 DEF StageAppend, MemType
<1>4. \A k \in DOMAIN b : ~Staged(b[k]) /\ Staged(b[k])'
  BY <1>3, MemoryAssumption DEF Staged
<1>5. \A e : Staged(e) => Staged(e)'
  BY <1>3 DEF Staged
<1>6. MemType'
  BY <1>0, <1>1, <1>2, <1>3 DEF MemType, envVars
<1>7. Identified'
  <2>1. ASSUME NEW i \in DOMAIN records' PROVE records'[i].id \in Nat /\ records'[i].id <= lastId'
    <3>1. CASE i \in DOMAIN records
      <4>1. records[i].id \in Nat /\ records[i].id <= lastId
        <5>1. records[i] \in MemRecord
          BY <1>0, <3>1 DEF MemType
        <5>2. records[i].id \in Nat
          BY <5>1 DEF MemRecord
        <5>. QED
          BY <1>0, <3>1, <5>2 DEF Identified
      <4>. QED
        BY <1>1, <1>2, <3>1, <4>1
    <3>2. CASE i \notin DOMAIN records
      <4>1. PICK k \in DOMAIN b : records'[i].id = lastId + k
        BY <1>1, <3>2
      <4>. QED
        BY <1>2, <4>1
    <3>. QED
      BY <3>1, <3>2
  <2>2. ASSUME NEW i \in DOMAIN records, NEW j \in DOMAIN records', j \notin DOMAIN records
        PROVE  records'[i].id # records'[j].id
    <3>1. PICK k \in DOMAIN b : records'[j].id = lastId + k
      BY <1>1, <2>2
    <3>2. records[i].id \in Nat /\ records[i].id <= lastId
      <4>1. records[i] \in MemRecord
        BY <1>0 DEF MemType
      <4>2. records[i].id \in Nat
        BY <4>1 DEF MemRecord
      <4>. QED
        BY <1>0, <4>2 DEF Identified
    <3>. QED
      BY <1>1, <1>2, <3>1, <3>2
  <2>3. ASSUME NEW i \in DOMAIN records', NEW j \in DOMAIN records', i \notin DOMAIN records,
               j \notin DOMAIN records, records'[i].id = records'[j].id
        PROVE  i = j
    <3>1. PICK k \in DOMAIN b : records'[i].id = lastId + k /\ i = Len(records) + k
      BY <1>1, <2>3
    <3>2. PICK l \in DOMAIN b : records'[j].id = lastId + l /\ j = Len(records) + l
      BY <1>1, <2>3
    <3>3. k \in Nat /\ l \in Nat /\ lastId + k = lastId + l
      <4>1. k \in 1 .. Len(b) /\ l \in 1 .. Len(b)
        BY <1>2, <3>1, <3>2
      <4>2. lastId + k = lastId + l
        BY <2>3, <3>1, <3>2, Zenon
      <4>. QED
        BY <1>2, <4>1, <4>2
    <3>4. k = l
      BY <1>2, <3>3
    <3>. QED
      BY <3>1, <3>2, <3>4
  <2>4. ASSUME NEW i \in DOMAIN records, NEW j \in DOMAIN records, records'[i].id = records'[j].id PROVE i = j
    BY <1>0, <1>1, <2>4 DEF Identified
  <2>. QED
    BY <2>1, <2>2, <2>3, <2>4 DEF Identified
<1>8. StoredOnce'
  <2>1. ASSUME NEW i \in DOMAIN records' PROVE Staged(records[i].event)'
    <3>1. CASE i \in DOMAIN records
      <4>1. PICK e : e = records[i].event /\ e = records'[i].event
        BY <1>1, <3>1
      <4>2. Staged(e)
        BY <1>0, <3>1, <4>1 DEF StoredOnce
      <4>3. Staged(e)'
        BY <1>5, <4>2
      <4>. QED
        BY <4>1, <4>3 DEF Staged
    <3>2. CASE i \notin DOMAIN records
      <4>1. PICK k \in DOMAIN b : records'[i].event = b[k]
        BY <1>1, <3>2
      <4>. QED
        BY <1>4, <4>1 DEF Staged
    <3>. QED
      BY <3>1, <3>2
  <2>2. ASSUME NEW i \in DOMAIN records, NEW j \in DOMAIN records', j \notin DOMAIN records
        PROVE  records'[i].event # records'[j].event
    <3>1. PICK k \in DOMAIN b : records'[j].event = b[k]
      BY <1>1, <2>2
    <3>2. Staged(records[i].event)
      BY <1>0 DEF StoredOnce
    <3>3. ~Staged(b[k])
      BY <1>4
    <3>. QED
      BY <1>1, <3>1, <3>2, <3>3
  <2>3. ASSUME NEW i \in DOMAIN records', NEW j \in DOMAIN records', i \notin DOMAIN records,
               j \notin DOMAIN records, records'[i].event = records'[j].event
        PROVE  i = j
    <3>1. PICK k \in DOMAIN b : records'[i].event = b[k] /\ i = Len(records) + k
      BY <1>1, <2>3
    <3>2. PICK l \in DOMAIN b : records'[j].event = b[l] /\ j = Len(records) + l
      BY <1>1, <2>3
    <3>3. b[k] = b[l]
      BY <2>3, <3>1, <3>2
    <3>4. k = l
      BY <3>3, MemoryAssumption, Zenon
    <3>. QED
      BY <3>1, <3>2, <3>4
  <2>4. ASSUME NEW i \in DOMAIN records, NEW j \in DOMAIN records, records'[i].event = records'[j].event PROVE i = j
    BY <1>0, <1>1, <2>4 DEF StoredOnce
  <2>. QED
    BY <2>1, <2>2, <2>3, <2>4 DEF StoredOnce
<1>9. NeverOverfull'
  <2>1. Len(records) \in Nat /\ MaxSize \in Nat /\ Fits(b)
    BY <1>0, MemoryAssumption DEF MemType, StageAppend
  <2>. QED
    BY <1>1, <1>2, <2>1 DEF NeverOverfull, Fits
<1>10. Budgeted => Budgeted'
  BY <1>1, <1>2 DEF Budgeted
<1>11. ASSUME NEW w \in Relays, InHand(w) PROVE InHand(w)'
  <2>1. batch' = batch
    BY DEF relayVars
  <2>. QED
    BY <1>1, <1>11, <2>1 DEF InHand
<1>12. ASSUME NEW e \in Event, Settling(e) PROVE Settling(e)'
  <2>1. Staged(e) /\ Staged(e)'
    BY <1>5, <1>12 DEF Settling
  <2>2. e \notin StoredEvents => e \notin StoredEvents'
    <3>1. ASSUME NEW i \in DOMAIN records', e = records'[i].event PROVE e \in StoredEvents
      <4>1. CASE i \in DOMAIN records
        BY <1>1, <3>1, <4>1 DEF StoredEvents
      <4>2. CASE i \notin DOMAIN records
        BY <1>1, <1>4, <2>1, <3>1, <4>2
      <4>. QED
        BY <4>1, <4>2
    <3>. QED
      BY <3>1 DEF StoredEvents
  <2>. QED
    BY <1>12, <2>1, <2>2 DEF Settling, relayVars, Current
<1>13. StoreInv'
  BY <1>6, <1>7, <1>8, <1>9 DEF StoreInv
<1>. QED
  BY <1>10, <1>11, <1>12, <1>13, BesideRelays

LEMMA StageInv ==
  ASSUME Inductive, NEW b \in Batches, Stage(b)
  PROVE  Inductive'
<1>0. UNCHANGED <<relayVars, envVars>> /\ MemType
  BY DEF Stage, Inductive
<1>1. CASE StageEncode(b) \/ StageFull(b)
  <2>1. /\ UNCHANGED <<records, dlq, lastId, now>>
        /\ \E x \in {[st |-> "open", at |-> now], [st |-> "new", at |-> 0]} :
             staging' = [staging EXCEPT ![b] = x]
        /\ staging[b].st # "done"
    BY <1>1 DEF StageEncode, StageFull
  <2>2. PICK x \in [st : {"new", "open", "done"}, at : Nat] :
          staging' = [staging EXCEPT ![b] = x] /\ x.st # "done"
    <3>1. PICK x \in {[st |-> "open", at |-> now], [st |-> "new", at |-> 0]} :
            staging' = [staging EXCEPT ![b] = x]
      BY <2>1
    <3>2. x \in [st : {"new", "open", "done"}, at : Nat] /\ x.st # "done"
      <4>1. now \in Nat
        BY <1>0 DEF MemType
      <4>. QED
        BY <3>1, <4>1
    <3>. QED
      BY <3>1, <3>2
  <2>3. /\ staging' \in [Batches -> [st : {"new", "open", "done"}, at : Nat]]
        /\ \A c \in Batches : staging[c].st = "done" <=> staging'[c].st = "done"
    BY <1>0, <2>1, <2>2 DEF MemType
  <2>. QED
    BY <1>0, <2>1, <2>3, SameRecords DEF MemType
<1>2. CASE StageAppend(b)
  BY <1>0, <1>2, StageAppendInv
<1>. QED
  BY <1>1, <1>2 DEF Stage

LEMMA TickInv ==
  ASSUME Inductive, Tick
  PROVE  Inductive'
<1>1. MemType /\ now' \in Nat /\ UNCHANGED <<relayVars, envVars, staging, records, dlq, lastId>>
  BY DEF Inductive, MemType, Tick, AdvanceClock
<1>. QED
  BY <1>1, SameRecords DEF MemType

-----------------------------------------------------------------------------
(* The Mark calls                                                          *)

\* A removal takes one record out and keeps the others.
LEMMA RemoveIdKeeps ==
  ASSUME MemType, Identified, NEW id, records' = RemoveId(id)
  PROVE  /\ records' \in Seq(MemRecord) /\ Len(records') <= Len(records)
         /\ \A i \in DOMAIN records' : \E k \in DOMAIN records : records'[i] = records[k] /\ records[k].id # id
         /\ \A k \in DOMAIN records : records[k].id # id => \E i \in DOMAIN records' : records'[i] = records[k]
         /\ \A i, j \in DOMAIN records' : i # j =>
              \E k, l \in DOMAIN records : k # l /\ records'[i] = records[k] /\ records'[j] = records[l]
<1>0. records \in Seq(MemRecord) /\ Len(records) \in Nat
  BY DEF MemType
<1>1. CASE ~HasId(id)
  <2>1. records' = records
    BY <1>1 DEF RemoveId
  <2>2. \A k \in DOMAIN records : records[k].id # id
    BY <1>1 DEF HasId
  <2>. QED
    BY <1>0, <2>1, <2>2
<1>2. CASE HasId(id)
  <2>1. PICK n \in Nat : n = Len(records) /\ DOMAIN records = 1 .. n
    BY <1>0
  <2>2. PICK p \in 1 .. n : p = At(id) /\ records[p].id = id
    BY <1>2, <2>1 DEF HasId, At
  <2>3. PICK s, t : /\ s = SubSeq(records, 1, p - 1) /\ t = SubSeq(records, p + 1, n)
                    /\ records' = s \o t
    BY <1>2, <2>1, <2>2 DEF RemoveId
  <2>4. /\ s \in Seq(MemRecord) /\ Len(s) = p - 1
        /\ \A i \in 1 .. p - 1 : s[i] = records[i]
    BY <1>0, <2>1, <2>2, <2>3
  <2>5. /\ t \in Seq(MemRecord) /\ Len(t) = n - p
        /\ \A i \in 1 .. n - p : t[i] = records[p + i]
    <3>1. PICK m \in Nat : m = n - p /\ n - (p + 1) + 1 = m
      BY <2>1, <2>2
    <3>2. p + 1 \in 1 .. Len(records) + 1 /\ n \in (p + 1) - 1 .. Len(records)
      BY <2>1, <2>2
    <3>3. /\ t \in Seq(MemRecord) /\ Len(t) = n - (p + 1) + 1
          /\ \A i \in 1 .. n - (p + 1) + 1 : t[i] = records[(p + 1) + i - 1]
      BY <1>0, <2>3, <3>2, SubSeqProperties
    <3>4. \A i \in 1 .. m : (p + 1) + i - 1 = p + i
      BY <2>2
    <3>. QED
      BY <3>1, <3>3, <3>4
  <2>6. /\ records' \in Seq(MemRecord) /\ Len(records') = n - 1 /\ DOMAIN records' = 1 .. n - 1
        /\ \A i \in 1 .. n - 1 : records'[i] = IF i < p THEN records[i] ELSE records[i + 1]
    <3>1. /\ records' \in Seq(MemRecord) /\ Len(records') = Len(s) + Len(t)
          /\ \A i \in 1 .. Len(s) + Len(t) : records'[i] = IF i <= Len(s) THEN s[i] ELSE t[i - Len(s)]
      <4>1. s \in Seq(MemRecord) /\ t \in Seq(MemRecord)
        BY <2>4, <2>5
      <4>2. records' = s \o t
        BY <2>3
      <4>3. /\ s \o t \in Seq(MemRecord) /\ Len(s \o t) = Len(s) + Len(t)
            /\ \A i \in 1 .. Len(s) + Len(t) : (s \o t)[i] = IF i <= Len(s) THEN s[i] ELSE t[i - Len(s)]
        BY <4>1, ConcatProperties, Zenon
      <4>. QED
        BY <4>2, <4>3, Zenon
    <3>2. (p - 1) + (n - p) = n - 1
      BY <2>1, <2>2
    <3>3. Len(records') = n - 1 /\ \A i \in 1 .. n - 1 : records'[i] = IF i <= p - 1 THEN s[i] ELSE t[i - (p - 1)]
      BY <2>4, <2>5, <3>1, <3>2
    <3>4. ASSUME NEW i \in 1 .. n - 1 PROVE records'[i] = IF i < p THEN records[i] ELSE records[i + 1]
      <4>1. CASE i < p
        <5>1. i <= p - 1 /\ i \in 1 .. p - 1
          BY <2>1, <2>2, <4>1
        <5>. QED
          BY <2>4, <3>3, <4>1, <5>1
      <4>2. CASE ~(i < p)
        <5>1. ~(i <= p - 1) /\ i - (p - 1) \in 1 .. n - p /\ p + (i - (p - 1)) = i + 1
          BY <2>1, <2>2, <4>2
        <5>. QED
          BY <2>5, <3>3, <4>2, <5>1
      <4>. QED
        BY <4>1, <4>2
    <3>5. records' \in Seq(MemRecord) /\ Len(records') = n - 1
      BY <3>1, <3>3
    <3>6. DOMAIN records' = 1 .. n - 1
      BY <3>5
    <3>. QED
      BY <3>4, <3>5, <3>6
  <2>. DEFINE o(i) == IF i < p THEN i ELSE i + 1
  <2>7. \A i \in DOMAIN records' : o(i) \in DOMAIN records /\ o(i) # p /\ records'[i] = records[o(i)]
    BY <2>1, <2>2, <2>6
  <2>8. \A i, j \in DOMAIN records' : i # j => o(i) # o(j)
    BY <2>1, <2>2, <2>6
  <2>9. \A k \in DOMAIN records : k # p => \E i \in DOMAIN records' : o(i) = k
    <3>1. ASSUME NEW k \in 1 .. n, k # p PROVE \E i \in 1 .. n - 1 : o(i) = k
      <4>1. CASE k < p
        <5>1. k \in 1 .. n - 1 /\ o(k) = k
          BY <2>1, <2>2, <4>1
        <5>. QED
          BY <5>1
      <4>2. CASE ~(k < p)
        <5>1. k - 1 \in 1 .. n - 1 /\ o(k - 1) = k
          BY <2>1, <2>2, <3>1, <4>2
        <5>. QED
          BY <5>1
      <4>. QED
        BY <4>1, <4>2
    <3>. QED
      BY <2>1, <2>6, <3>1
  <2>. HIDE DEF o
  <2>10. \A k \in DOMAIN records : k # p => records[k].id # id
    BY <2>1, <2>2 DEF Identified
  <2>11. Len(records') <= Len(records)
    BY <2>1, <2>6
  <2>12. \A i \in DOMAIN records' : \E k \in DOMAIN records : records'[i] = records[k] /\ records[k].id # id
    BY <2>7, <2>10
  <2>13. \A k \in DOMAIN records : records[k].id # id => \E i \in DOMAIN records' : records'[i] = records[k]
    BY <2>2, <2>7, <2>9
  <2>14. \A i, j \in DOMAIN records' : i # j =>
           \E k, l \in DOMAIN records : k # l /\ records'[i] = records[k] /\ records'[j] = records[l]
    BY <2>7, <2>8
  <2>. QED
    BY <2>6, <2>11, <2>12, <2>13, <2>14
<1>. QED
  BY <1>1, <1>2

\* A rescheduled record keeps its place, its id and its event.
LEMMA MarkFailedKeeps ==
  ASSUME MemType, Identified, NEW r \in Record, NEW a \in Nat, MarkFailed(r, a)
  PROVE  /\ records' \in Seq(MemRecord) /\ Len(records') = Len(records) /\ DOMAIN records' = DOMAIN records
         /\ \A k \in DOMAIN records :
              /\ records'[k].id = records[k].id /\ records'[k].event = records[k].event
              /\ records'[k].attempts = IF records[k].id = r.token THEN records[k].attempts + 1
                                        ELSE records[k].attempts
<1>0. records \in Seq(MemRecord) /\ Len(records) \in Nat /\ DOMAIN records = 1 .. Len(records)
  BY DEF MemType
<1>1. CASE ~HasId(r.token)
  <2>1. records' = records
    BY <1>1 DEF MarkFailed
  <2>2. \A k \in DOMAIN records : records[k].id # r.token
    BY <1>1 DEF HasId
  <2>. QED
    BY <1>0, <2>1, <2>2
<1>2. CASE HasId(r.token)
  <2>1. PICK p \in DOMAIN records : p = At(r.token) /\ records[p].id = r.token
    BY <1>2 DEF HasId, At
  <2>2. records[p] \in MemRecord
    BY <1>0
  <2>3. PICK n \in Nat : n = records[p].attempts + 1
    BY <2>2 DEF MemRecord
  <2>4. records' = [records EXCEPT ![p].attempts = n, ![p].available_at = a]
    BY <1>2, <2>1, <2>3 DEF MarkFailed
  <2>5. /\ records'[p].id = records[p].id /\ records'[p].event = records[p].event
        /\ records'[p].attempts = n
    BY <1>0, <2>2, <2>4 DEF MemRecord
  <2>6. records'[p] \in MemRecord
    BY <1>0, <2>2, <2>4 DEF MemRecord
  <2>7. DOMAIN records' = DOMAIN records /\ \A k \in DOMAIN records : k # p => records'[k] = records[k]
    BY <1>0, <2>4
  <2>8. records' \in [1 .. Len(records) -> MemRecord]
    BY <1>0, <2>4, <2>6, <2>7
  <2>9. records' \in Seq(MemRecord) /\ Len(records') = Len(records)
    BY <1>0, <2>8
  <2>10. \A k \in DOMAIN records : k # p => records[k].id # r.token
    BY <2>1 DEF Identified
  <2>. QED
    BY <2>1, <2>3, <2>5, <2>7, <2>9, <2>10
<1>. QED
  BY <1>1, <1>2

LEMMA AdvanceFacts ==
  ASSUME RelayTypeOK, NEW w \in Relays, pc[w] \in {"sent", "fail"}, Advance(w)
  PROVE  /\ RelayTypeOK' /\ Current(w) \in Record /\ Current(w) = batch[w][1] /\ 1 \in DOMAIN batch[w]
         /\ \A i \in DOMAIN batch'[w] : i \in Nat /\ i + 1 \in DOMAIN batch[w] /\ i + 1 # 1
                                        /\ batch'[w][i] = batch[w][i + 1]
         /\ pc'[w] \in {"idle", "publish"}
         /\ \A v \in Relays : v # w => pc'[v] = pc[v] /\ batch'[v] = batch[v]
<1>1. batch[w] \in Seq(Record) /\ batch[w] # <<>>
  BY DEF RelayTypeOK
<1>2. PICK t \in Seq(Record) : t = Tail(batch[w])
  BY <1>1, HeadTail
<1>3. /\ batch' = [batch EXCEPT ![w] = t] /\ cancelled' = cancelled
      /\ pc' = [pc EXCEPT ![w] = IF t = <<>> THEN "idle" ELSE "publish"]
  BY <1>2 DEF Advance
<1>4. RelayTypeOK'
  BY <1>3 DEF RelayTypeOK, RelayPC
<1>5. batch'[w] = t /\ \A v \in Relays : v # w => pc'[v] = pc[v] /\ batch'[v] = batch[v]
  BY <1>3 DEF RelayTypeOK
<1>6. pc'[w] \in {"idle", "publish"}
  BY <1>3 DEF RelayTypeOK
<1>7. \A i \in DOMAIN t : i \in Nat /\ i + 1 \in DOMAIN batch[w] /\ i + 1 # 1 /\ t[i] = batch[w][i + 1]
  BY <1>1, <1>2, HeadTail
<1>8. Current(w) \in Record /\ Current(w) = batch[w][1] /\ 1 \in DOMAIN batch[w]
  BY <1>1, HeadTail DEF Current
<1>. QED
  BY <1>4, <1>5, <1>6, <1>7, <1>8

\* What a Mark call of a relay does to the invariant, given what it does to
\* the records: the rest of the batch stays a copy of the store.
LEMMA MarkInv ==
  ASSUME Inductive, NEW w \in Relays, pc[w] \in {"sent", "fail"}, Advance(w),
         UNCHANGED <<staging, lastId, now, envVars>>, StoreInv',
         \A k \in DOMAIN records : records[k].id # Current(w).token =>
           \E i \in DOMAIN records' : /\ records'[i].id = records[k].id
                                      /\ records'[i].event = records[k].event
                                      /\ records'[i].attempts = records[k].attempts,
         StoredEvents' \subseteq StoredEvents,
         ~shared /\ pc[w] = "sent" => Current(w).event \notin StoredEvents',
         ~shared => Budgeted'
  PROVE  Inductive'
<1>0. RelayTypeOK /\ (~shared => InTurns)
  BY DEF Inductive
<1>1. /\ RelayTypeOK' /\ Current(w) \in Record /\ Current(w) = batch[w][1] /\ 1 \in DOMAIN batch[w]
      /\ \A i \in DOMAIN batch'[w] : i \in Nat /\ i + 1 \in DOMAIN batch[w] /\ i + 1 # 1
                                     /\ batch'[w][i] = batch[w][i + 1]
      /\ pc'[w] \in {"idle", "publish"}
      /\ \A v \in Relays : v # w => pc'[v] = pc[v] /\ batch'[v] = batch[v]
  BY <1>0, AdvanceFacts
<1>2. ASSUME ~shared' PROVE InTurns'
  <2>0. ~shared /\ InTurns /\ spent' = spent /\ published' = published
    BY <1>0, <1>2 DEF envVars
  <2>1. \A v \in Relays : v # w => pc[v] = "down" /\ DOMAIN batch[v] = {}
    BY <1>0, <2>0, SoleBatch DEF InTurns
  <2>2. Alone'
    BY <1>1, <2>1 DEF Alone
  <2>3. ASSUME NEW v \in Relays, v # w PROVE InHand(v)'
    <3>1. DOMAIN batch'[v] = {}
      BY <1>1, <2>1, <2>3
    <3>. QED
      BY <3>1 DEF InHand
  <2>4. InHand(w)'
    <3>0. InHand(w)
      BY <2>0 DEF InTurns
    <3>1. ASSUME NEW i \in DOMAIN batch'[w] PROVE \E k \in DOMAIN records' : Copy(batch'[w][i], records'[k])
      <4>1. i + 1 \in DOMAIN batch[w] /\ i + 1 # 1 /\ batch'[w][i] = batch[w][i + 1]
        BY <1>1
      <4>2. PICK k \in DOMAIN records : Copy(batch[w][i + 1], records[k])
        BY <3>0, <4>1 DEF InHand
      <4>3. batch[w][i + 1].token # Current(w).token
        BY <1>1, <3>0, <4>1 DEF InHand
      <4>. QED
        BY <4>1, <4>2, <4>3 DEF Copy
    <3>2. ASSUME NEW i \in DOMAIN batch'[w], NEW j \in DOMAIN batch'[w], batch'[w][i].token = batch'[w][j].token
          PROVE  i = j
      <4>1. i \in Nat /\ j \in Nat /\ i + 1 = j + 1
        BY <1>1, <3>0, <3>2 DEF InHand
      <4>. QED
        BY <4>1
    <3>. QED
      BY <3>1, <3>2 DEF InHand
  <2>5. ASSUME NEW e \in Event, Settling(e) PROVE Settling(e)'
    <3>1. Staged(e) /\ (Staged(e)' <=> Staged(e))
      BY <2>5 DEF Settling, Staged
    <3>2. e \notin StoredEvents'
      <4>1. CASE e \notin StoredEvents
        BY <4>1
      <4>2. CASE \E v \in Relays : pc[v] = "sent" /\ Current(v).event = e
        <5>1. pc[w] = "sent" /\ Current(w).event = e
          BY <2>1, <4>2
        <5>. QED
          BY <2>0, <5>1
      <4>. QED
        BY <2>5, <4>1, <4>2 DEF Settling
    <3>. QED
      BY <3>1, <3>2 DEF Settling
  <2>6. Priced'
    BY <2>0, <2>5 DEF InTurns, Priced
  <2>. QED
    BY <2>0, <2>2, <2>3, <2>4, <2>6 DEF InTurns
<1>. QED
  BY <1>1, <1>2 DEF Inductive, StoreInv

\* The record a relay that runs alone is about to mark.
LEMMA MarkedRecord ==
  ASSUME Inductive, ~shared, NEW w \in Relays, pc[w] \in {"sent", "fail"}
  PROVE  \E k \in DOMAIN records : Copy(Current(w), records[k])
<1>1. batch[w] \in Seq(Record) /\ batch[w] # <<>>
  BY DEF Inductive, RelayTypeOK
<1>2. 1 \in DOMAIN batch[w] /\ Current(w) = batch[w][1]
  BY <1>1, HeadTail DEF Current
<1>. QED
  BY <1>2 DEF Inductive, InTurns, InHand

LEMMA RemoveInv ==
  ASSUME Inductive, NEW w \in Relays, pc[w] \in {"sent", "fail"}, Advance(w),
         UNCHANGED <<staging, lastId, now, envVars>>, records' = RemoveId(Current(w).token),
         ~shared => Budgeted'
  PROVE  Inductive'
<1>0. MemType /\ Identified /\ StoredOnce /\ NeverOverfull /\ RelayTypeOK
  BY DEF Inductive
<1>1. PICK r : r = Current(w)
  OBVIOUS
<1>2. /\ records' \in Seq(MemRecord) /\ Len(records') <= Len(records)
      /\ \A i \in DOMAIN records' : \E k \in DOMAIN records : records'[i] = records[k] /\ records[k].id # r.token
      /\ \A k \in DOMAIN records : records[k].id # r.token => \E i \in DOMAIN records' : records'[i] = records[k]
      /\ \A i, j \in DOMAIN records' : i # j =>
           \E k, l \in DOMAIN records : k # l /\ records'[i] = records[k] /\ records'[j] = records[l]
  <2>1. PICK id : id = r.token /\ records' = RemoveId(id)
    BY <1>1
  <2>. QED
    BY <1>0, <2>1, RemoveIdKeeps
<1>3. MemType'
  BY <1>0, <1>2 DEF MemType, envVars
<1>4. Identified'
  <2>1. ASSUME NEW i \in DOMAIN records' PROVE records'[i].id <= lastId'
    BY <1>0, <1>2 DEF Identified
  <2>2. ASSUME NEW i \in DOMAIN records', NEW j \in DOMAIN records', i # j PROVE records'[i].id # records'[j].id
    <3>1. PICK k \in DOMAIN records, l \in DOMAIN records :
            k # l /\ records'[i] = records[k] /\ records'[j] = records[l]
      BY <1>2, <2>2
    <3>. QED
      BY <1>0, <3>1 DEF Identified
  <2>. QED
    BY <2>1, <2>2 DEF Identified
<1>5. StoredOnce'
  <2>1. \A e : Staged(e)' <=> Staged(e)
    BY DEF Staged
  <2>2. ASSUME NEW i \in DOMAIN records' PROVE Staged(records[i].event)'
    <3>1. PICK k \in DOMAIN records : records'[i] = records[k]
      BY <1>2
    <3>2. PICK e : e = records'[i].event /\ e = records[k].event
      BY <3>1
    <3>3. Staged(e)'
      BY <1>0, <2>1, <3>2 DEF StoredOnce
    <3>. QED
      BY <3>2, <3>3 DEF Staged
  <2>3. ASSUME NEW i \in DOMAIN records', NEW j \in DOMAIN records', i # j
        PROVE  records'[i].event # records'[j].event
    <3>1. PICK k \in DOMAIN records, l \in DOMAIN records :
            k # l /\ records'[i] = records[k] /\ records'[j] = records[l]
      BY <1>2, <2>3
    <3>. QED
      BY <1>0, <3>1 DEF StoredOnce
  <2>. QED
    BY <2>2, <2>3 DEF StoredOnce
<1>6. NeverOverfull'
  <2>1. Len(records) \in Nat /\ Len(records') \in Nat /\ MaxSize \in Nat
    BY <1>0, <1>2, MemoryAssumption DEF MemType
  <2>. QED
    BY <1>0, <1>2, <2>1 DEF NeverOverfull
<1>7. StoredEvents' \subseteq StoredEvents
  BY <1>2 DEF StoredEvents
<1>8. ASSUME ~shared PROVE r.event \notin StoredEvents'
  <2>1. PICK k \in DOMAIN records : records[k].id = r.token /\ records[k].event = r.event
    BY <1>1, <1>8, MarkedRecord DEF Copy
  <2>2. ASSUME NEW i \in DOMAIN records' PROVE records'[i].event # r.event
    <3>1. PICK l \in DOMAIN records : records'[i] = records[l] /\ records[l].id # r.token
      BY <1>2
    <3>. QED
      BY <1>0, <2>1, <3>1 DEF StoredOnce
  <2>. QED
    BY <2>2 DEF StoredEvents
<1>9. StoreInv'
  BY <1>3, <1>4, <1>5, <1>6 DEF StoreInv
<1>10. \A k \in DOMAIN records : records[k].id # Current(w).token =>
         \E i \in DOMAIN records' : /\ records'[i].id = records[k].id
                                    /\ records'[i].event = records[k].event
                                    /\ records'[i].attempts = records[k].attempts
  BY <1>1, <1>2
<1>. QED
  BY <1>1, <1>7, <1>8, <1>9, <1>10, MarkInv

LEMMA SentInv ==
  ASSUME Inductive, NEW w \in Relays, Sent(w)
  PROVE  Inductive'
<1>0. /\ MemType /\ Identified /\ pc[w] \in {"sent", "fail"} /\ Advance(w)
      /\ records' = RemoveId(Current(w).token) /\ dlq' = dlq
      /\ UNCHANGED <<staging, lastId, now, envVars>>
  BY DEF Inductive, Sent, MarkSent
<1>1. ASSUME ~shared PROVE Budgeted'
  <2>1. Budgeted
    BY <1>1 DEF Inductive, InTurns
  <2>2. \A i \in DOMAIN records' : \E k \in DOMAIN records : records'[i] = records[k]
    BY <1>0, RemoveIdKeeps
  <2>. QED
    BY <1>0, <2>1, <2>2 DEF Budgeted
<1>. QED
  BY <1>0, <1>1, RemoveInv

LEMMA DeadLetterInv ==
  ASSUME Inductive, NEW w \in Relays, DeadLetter(w)
  PROVE  Inductive'
<1>0. /\ MemType /\ Identified /\ pc[w] \in {"sent", "fail"} /\ Advance(w) /\ Exhausted(Current(w))
      /\ records' = RemoveId(Current(w).token) /\ Terminate(Current(w))
      /\ UNCHANGED <<staging, lastId, now, envVars>>
  BY DEF Inductive, DeadLetter, Terminate
<1>1. ASSUME ~shared PROVE Budgeted'
  <2>1. Budgeted
    BY <1>1 DEF Inductive, InTurns
  <2>2. \A i \in DOMAIN records' : \E k \in DOMAIN records : records'[i] = records[k]
    BY <1>0, RemoveIdKeeps
  <2>3. PICK r \in Record : r = Current(w)
    BY <1>0, AdvanceFacts DEF Inductive
  <2>4. PICK k \in DOMAIN records : Copy(r, records[k])
    BY <1>0, <1>1, <2>3, MarkedRecord
  <2>5. HasId(r.token) /\ At(r.token) = k
    BY <1>0, <2>4 DEF HasId, At, Copy, Identified
  <2>6. MaxAttempts \in Nat /\ MaxAttempts > 0 /\ r.attempts + 1 = MaxAttempts
    <3>1. r.attempts \in Nat /\ MaxAttempts \in Nat
      BY RelayAssumption DEF Record
    <3>2. MaxAttempts > 0 /\ r.attempts + 1 >= MaxAttempts
      BY <1>0, <2>3 DEF Exhausted
    <3>3. r.attempts < MaxAttempts
      BY <2>1, <2>4, <3>2 DEF Budgeted, Copy
    <3>. QED
      BY <3>1, <3>2, <3>3
  <2>7. /\ DOMAIN dlq' = DOMAIN dlq \cup {r.token}
        /\ dlq'[r.token].attempts = records[k].attempts + 1
        /\ \A i \in DOMAIN dlq : i # r.token => dlq'[i] = dlq[i]
    <3>1. dlq' = [i \in DOMAIN dlq \cup {r.token} |->
                    IF i = r.token
                    THEN [event |-> records[At(i)].event, attempts |-> records[At(i)].attempts + 1]
                    ELSE dlq[i]]
      BY <1>0, <2>3, <2>5 DEF Terminate
    <3>2. dlq'[r.token] = [event |-> records[k].event, attempts |-> records[k].attempts + 1]
      BY <2>5, <3>1
    <3>. QED
      BY <3>1, <3>2
  <2>8. \A i \in DOMAIN dlq' : dlq'[i].attempts = MaxAttempts
    BY <2>1, <2>4, <2>6, <2>7 DEF Budgeted, Copy
  <2>9. \A i \in DOMAIN records' : records'[i].attempts < MaxAttempts
    BY <2>1, <2>2, <2>6 DEF Budgeted
  <2>. QED
    BY <2>8, <2>9 DEF Budgeted
<1>. QED
  BY <1>0, <1>1, RemoveInv

LEMMA RescheduleInv ==
  ASSUME Inductive, NEW w \in Relays, Reschedule(w)
  PROVE  Inductive'
<1>0. /\ MemType /\ Identified /\ StoredOnce /\ NeverOverfull
      /\ pc[w] = "fail" /\ pc[w] \in {"sent", "fail"} /\ Advance(w) /\ ~Exhausted(Current(w))
      /\ UNCHANGED <<staging, dlq, lastId, now, envVars>>
  BY DEF Inductive, Reschedule, MarkFailed
<1>1. PICK r \in Record : r = Current(w)
  BY <1>0, AdvanceFacts DEF Inductive
<1>2. PICK a \in Nat : MarkFailed(r, a)
  BY <1>0, <1>1, MemoryOutboxAssumption DEF Reschedule, MemType
<1>3. /\ records' \in Seq(MemRecord) /\ Len(records') = Len(records) /\ DOMAIN records' = DOMAIN records
      /\ \A k \in DOMAIN records :
           /\ records'[k].id = records[k].id /\ records'[k].event = records[k].event
           /\ records'[k].attempts = IF records[k].id = r.token THEN records[k].attempts + 1
                                     ELSE records[k].attempts
  BY <1>0, <1>2, MarkFailedKeeps
<1>4. StoreInv'
  <2>1. MemType' /\ Identified' /\ NeverOverfull'
    BY <1>0, <1>3 DEF MemType, Identified, NeverOverfull, envVars
  <2>2. \A e : Staged(e)' <=> Staged(e)
    BY <1>0 DEF Staged
  <2>3. ASSUME NEW i \in DOMAIN records' PROVE Staged(records[i].event)'
    <3>1. PICK e : e = records'[i].event /\ e = records[i].event
      BY <1>3
    <3>2. Staged(e)'
      BY <1>0, <1>3, <2>2, <3>1 DEF StoredOnce
    <3>. QED
      BY <3>1, <3>2 DEF Staged
  <2>4. StoredOnce'
    BY <1>0, <1>3, <2>3 DEF StoredOnce
  <2>. QED
    BY <2>1, <2>4 DEF StoreInv
<1>5. StoredEvents' \subseteq StoredEvents
  BY <1>3 DEF StoredEvents
<1>6. ASSUME ~shared PROVE Budgeted'
  <2>1. Budgeted
    BY <1>6 DEF Inductive, InTurns
  <2>2. PICK k \in DOMAIN records : Copy(r, records[k])
    BY <1>0, <1>1, <1>6, MarkedRecord
  <2>3. ASSUME MaxAttempts > 0, NEW i \in DOMAIN records' PROVE records'[i].attempts < MaxAttempts
    <3>1. CASE i = k
      <4>1. r.attempts \in Nat /\ MaxAttempts \in Nat
        BY RelayAssumption DEF Record
      <4>2. ~(r.attempts + 1 >= MaxAttempts)
        BY <1>0, <1>1, <2>3 DEF Exhausted
      <4>3. records'[i].attempts = r.attempts + 1
        BY <1>3, <2>2, <3>1 DEF Copy
      <4>. QED
        BY <4>1, <4>2, <4>3
    <3>2. CASE i # k
      <4>1. records[i].id # r.token
        BY <1>0, <1>3, <2>2, <3>2 DEF Identified, Copy
      <4>. QED
        BY <1>3, <2>1, <2>3, <4>1 DEF Budgeted
    <3>. QED
      BY <3>1, <3>2
  <2>. QED
    BY <1>0, <2>1, <2>3 DEF Budgeted
<1>7. \A k \in DOMAIN records : records[k].id # Current(w).token =>
        \E i \in DOMAIN records' : /\ records'[i].id = records[k].id
                                   /\ records'[i].event = records[k].event
                                   /\ records'[i].attempts = records[k].attempts
  BY <1>1, <1>3
<1>. QED
  BY <1>0, <1>4, <1>5, <1>6, <1>7, MarkInv

-----------------------------------------------------------------------------
(* The theorems                                                            *)

LEMMA SameInductive ==
  ASSUME Inductive, UNCHANGED vars
  PROVE  Inductive'
<1>1. UNCHANGED <<relayVars, envVars, staging, records, dlq, lastId, now>> /\ MemType
  BY DEF vars, memVars, Inductive
<1>. QED
  BY <1>1, SameRecords DEF MemType

LEMMA NextInductive == Inductive /\ [Next]_vars => Inductive'
<1>. SUFFICES ASSUME Inductive, [Next]_vars PROVE Inductive'
  OBVIOUS
<1>. QED
  BY StageInv, StartInv, QuietInv, FetchInv, PublishInv, SentInv, RescheduleInv, DeadLetterInv, TickInv,
     SameInductive DEF Next, RelayStep

LEMMA InductiveAlways == Spec => []Inductive
BY InitInductive, NextInductive, PTL DEF Spec

\* WithMaxSize is a bound whatever the Stage calls, their interleaving with
\* each other and with the relays' Mark calls are (memory.go Stage).
THEOREM LimitHolds == Spec => []NeverOverfull
<1>1. Inductive => NeverOverfull
  BY DEF Inductive
<1>. QED
  BY <1>1, InductiveAlways, PTL

\* Relays that take turns publish an event once, plus once per lost
\* acknowledgement, and dead-letter it after exactly MaxAttempts failures, for
\* any number of relays, stops and records (relay.go process and fail over
\* memory.go, which has no claims).
THEOREM TurnsAreExact == Spec => []SoleRelayExact
<1>1. Inductive => SoleRelayExact
  BY DEF Inductive, InTurns, Priced, Budgeted, SoleRelayExact
<1>. QED
  BY <1>1, InductiveAlways, PTL

-----------------------------------------------------------------------------
(* The contract                                                            *)

\* A copy in a batch is of a staged event, and names that event's record or
\* none at all: ids are not given out twice.  This also holds while several
\* relays work on copies of the same record.
InFlight(r) ==
  /\ Staged(r.event)
  /\ r.token <= lastId
  /\ \A k \in DOMAIN records : records[k].id = r.token => records[k].event = r.event

\* A dead-lettered id is in the store no more, so nothing is dead-lettered
\* over it.
DeadApart ==
  \A i \in DOMAIN dlq : i \in Nat /\ i <= lastId /\ \A k \in DOMAIN records : records[k].id # i

Contract ==
  /\ \A w \in Relays : \A i \in DOMAIN batch[w] : InFlight(batch[w][i])
  /\ DeadApart
  /\ \A w \in Relays : pc[w] = "sent" => published[Current(w).event] > 0

\* What every step of the store leaves true of its earlier contents.
StoreGrows ==
  /\ \A e : Staged(e) => Staged(e)'
  /\ lastId' \in Nat /\ lastId <= lastId'
  /\ \A k \in DOMAIN records' :
       \/ records'[k].id \in Nat /\ records'[k].id > lastId
       \/ \E j \in DOMAIN records : /\ records'[k].id = records[j].id
                                    /\ records'[k].event = records[j].event

LEMMA InFlightStays ==
  ASSUME Inductive, StoreGrows, NEW r \in Record, InFlight(r)
  PROVE  InFlight(r)'
<1>1. r.token \in Nat /\ lastId \in Nat
  BY DEF Record, Inductive, MemType
<1>. QED
  BY <1>1 DEF InFlight, StoreGrows

\* The records of the steps that keep batches or cut them off at the front.
LEMMA FlightStays ==
  ASSUME Inductive, Contract, StoreGrows,
         \A w \in Relays : \A i \in DOMAIN batch'[w] :
           \E j \in DOMAIN batch[w] : batch'[w][i] = batch[w][j]
  PROVE  \A w \in Relays : \A i \in DOMAIN batch'[w] : InFlight(batch[w][i])'
<1>. SUFFICES ASSUME NEW w \in Relays, NEW i \in DOMAIN batch'[w]
              PROVE  InFlight(batch[w][i])'
  OBVIOUS
<1>1. PICK j \in DOMAIN batch[w] : batch'[w][i] = batch[w][j]
  OBVIOUS
<1>2. PICK r \in Record : r = batch[w][j]
  BY DEF Inductive, RelayTypeOK
<1>3. InFlight(r)'
  BY <1>2, InFlightStays DEF Contract
<1>. QED
  BY <1>1, <1>2, <1>3 DEF InFlight, Staged

\* A step that changes neither the records nor what was staged.
LEMMA SameGrows ==
  ASSUME Inductive, UNCHANGED <<records, lastId>>,
         \A b \in Batches : staging[b].st = "done" <=> staging'[b].st = "done"
  PROVE  StoreGrows /\ \A e : Staged(e)' <=> Staged(e)
<1>1. \A e : Staged(e)' <=> Staged(e)
  BY DEF Staged
<1>. QED
  BY <1>1 DEF StoreGrows, Inductive, MemType

\* The record a relay works on is the first of its batch.
LEMMA CurrentInFlight ==
  ASSUME Inductive, Contract, NEW w \in Relays, pc[w] \in {"publish", "sent", "fail"}
  PROVE  Current(w) \in Record /\ Current(w).event \in Event /\ InFlight(Current(w))
<1>1. batch[w] \in Seq(Record) /\ batch[w] # <<>>
  BY DEF Inductive, RelayTypeOK
<1>2. Current(w) \in Record /\ Current(w) = batch[w][1] /\ 1 \in DOMAIN batch[w]
  BY <1>1, HeadTail DEF Current
<1>. QED
  BY <1>2 DEF Contract, Record

\* Steps of the callers, the clock and the relays' own halves.
QuietStep ==
  /\ UNCHANGED <<records, dlq, lastId, published>>
  /\ \A b \in Batches : staging[b].st = "done" <=> staging'[b].st = "done"
  /\ UNCHANGED batch
  /\ \A w \in Relays : pc'[w] = "sent" => pc[w] = "sent"

LEMMA QuietContract ==
  ASSUME Inductive, Contract, QuietStep
  PROVE  Contract' /\ UNCHANGED Delivery!vars
<1>1. StoreGrows /\ \A e : Staged(e)' <=> Staged(e)
  BY SameGrows DEF QuietStep
<1>2. \A w \in Relays : \A i \in DOMAIN batch'[w] : InFlight(batch[w][i])'
  BY <1>1, FlightStays DEF QuietStep
<1>3. DeadApart'
  BY DEF QuietStep, Contract, DeadApart
<1>4. \A w \in Relays : pc'[w] = "sent" => published'[Head(batch'[w]).event] > 0
  BY DEF QuietStep, Contract, Current
<1>5. {c \in Batches : staging[c].st = "done"}' = {c \in Batches : staging[c].st = "done"}
  BY DEF QuietStep
<1>6. UNCHANGED Delivery!vars
  BY <1>5 DEF Delivery!vars, QuietStep, StoredEvents, DeadEvents
<1>. QED
  BY <1>2, <1>3, <1>4, <1>6 DEF Contract, Current

LEMMA QuietSteps ==
  ASSUME Inductive,
         \/ \E b \in Batches : (StageEncode(b) \/ StageFull(b)) /\ UNCHANGED <<relayVars, envVars>>
         \/ \E w \in Relays : StartRelay(w) \/ ExitRelay(w) \/ CancelRelay(w) \/ PublishErr(w)
         \/ Tick \/ UNCHANGED vars
  PROVE  QuietStep
<1>0. RelayTypeOK /\ staging \in [Batches -> [st : {"new", "open", "done"}, at : Nat]]
  BY DEF Inductive, MemType
<1>1. ASSUME NEW b \in Batches, StageEncode(b) \/ StageFull(b), UNCHANGED <<relayVars, envVars>>
      PROVE  QuietStep
  <2>1. \A c \in Batches : staging[c].st = "done" <=> staging'[c].st = "done"
    BY <1>0, <1>1 DEF StageEncode, StageFull
  <2>. QED
    BY <1>1, <2>1 DEF StageEncode, StageFull, QuietStep, relayVars, envVars
<1>2. ASSUME NEW w \in Relays, StartRelay(w) \/ ExitRelay(w) \/ CancelRelay(w) \/ PublishErr(w)
      PROVE  QuietStep
  BY <1>0, <1>2 DEF StartRelay, ExitRelay, CancelRelay, PublishErr, Start, Exit, Cancel, PublishFails,
                    QuietStep, RelayTypeOK, memVars, envVars
<1>3. CASE Tick \/ UNCHANGED vars
  BY <1>3 DEF Tick, AdvanceClock, vars, QuietStep, relayVars, memVars, envVars
<1>. QED
  BY <1>1, <1>2, <1>3

\* A fetch hands out copies of what is stored.
LEMMA FetchContract ==
  ASSUME Inductive, Contract, NEW w \in Relays, FetchBatch(w)
  PROVE  Contract' /\ UNCHANGED Delivery!vars
<1>0. /\ MemType /\ Identified /\ StoredOnce /\ RelayTypeOK
      /\ UNCHANGED <<staging, records, dlq, lastId, published>>
  BY DEF Inductive, FetchBatch, memVars, envVars
<1>1. PICK q \in Fetches : Receive(w, Fetched(q))
  BY DEF FetchBatch
<1>2. PICK b \in Seq(Record) : b = Fetched(q) /\ \A i \in DOMAIN b : \E k \in DOMAIN records : Copy(b[i], records[k])
  BY <1>0, FetchedCopies
<1>3. /\ batch'[w] = b /\ \A v \in Relays : v # w => batch'[v] = batch[v]
      /\ \A v \in Relays : pc'[v] = "sent" => v # w /\ pc[v] = "sent"
  BY <1>0, <1>1, <1>2 DEF Receive, RelayTypeOK
<1>4. StoreGrows /\ \A e : Staged(e)' <=> Staged(e)
  BY <1>0, SameGrows
<1>5. ASSUME NEW v \in Relays, NEW i \in DOMAIN batch'[v] PROVE InFlight(batch[v][i])'
  <2>1. CASE v # w
    <3>1. PICK r \in Record : r = batch[v][i] /\ i \in DOMAIN batch[v] /\ r = batch'[v][i]
      BY <1>0, <1>3, <2>1 DEF RelayTypeOK
    <3>2. InFlight(r)'
      BY <1>4, <3>1, InFlightStays DEF Contract
    <3>. QED
      BY <3>1, <3>2 DEF InFlight, Staged
  <2>2. CASE v = w
    <3>1. PICK r \in Record : r = batch'[v][i] /\ i \in DOMAIN b /\ r = b[i]
      BY <1>3, <2>2
    <3>2. PICK k \in DOMAIN records : Copy(r, records[k])
      BY <1>2, <3>1
    <3>3. Staged(r.event) /\ r.token <= lastId
      BY <1>0, <3>2 DEF Copy, StoredOnce, Identified
    <3>4. \A j \in DOMAIN records : records[j].id = r.token => records[j].event = r.event
      BY <1>0, <3>2 DEF Copy, Identified
    <3>5. InFlight(r)
      BY <3>3, <3>4 DEF InFlight
    <3>6. InFlight(r)'
      BY <1>4, <3>5, InFlightStays
    <3>. QED
      BY <3>1, <3>6 DEF InFlight, Staged
  <2>. QED
    BY <2>1, <2>2
<1>6. DeadApart'
  BY <1>0 DEF Contract, DeadApart
<1>7. \A v \in Relays : pc'[v] = "sent" => published'[Head(batch'[v]).event] > 0
  BY <1>0, <1>3 DEF Contract, Current
<1>8. UNCHANGED Delivery!vars
  BY <1>0 DEF Delivery!vars, StoredEvents, DeadEvents
<1>. QED
  BY <1>5, <1>6, <1>7, <1>8 DEF Contract, Current

\* The events of the Stage calls that succeeded.
LEMMA AcceptedIsStaged ==
  \A e : e \in UNION {{b[i] : i \in DOMAIN b} : b \in {c \in Batches : staging[c].st = "done"}}
           <=> Staged(e)
BY DEF Staged

\* The broker takes an event that was staged.
LEMMA PublishContract ==
  ASSUME Inductive, Contract, NEW w \in Relays, PublishOk(w) \/ PublishAckLost(w)
  PROVE  Contract' /\ Delivery!Next
<1>0. /\ RelayTypeOK /\ published \in [Event -> Nat] /\ pc[w] = "publish" /\ UNCHANGED batch
      /\ UNCHANGED <<staging, records, dlq, lastId>>
      /\ Accept(Current(w).event)
      /\ \A v \in Relays : v # w /\ pc'[v] = "sent" => pc[v] = "sent"
  BY DEF Inductive, MemType, RelayTypeOK, PublishOk, PublishAckLost, PublishReturns, PublishFails, memVars
<1>1. PICK e \in Event : e = Current(w).event /\ Staged(e)
  BY <1>0, CurrentInFlight DEF InFlight
<1>2. published' \in [Event -> Nat] /\ \A f \in Event : published'[f] > 0 <=> published[f] > 0 \/ f = e
  BY <1>0, <1>1 DEF Accept
<1>3. StoreGrows
  BY <1>0, SameGrows
<1>4. \A v \in Relays : \A i \in DOMAIN batch'[v] : InFlight(batch[v][i])'
  BY <1>0, <1>3, FlightStays
<1>5. DeadApart'
  BY <1>0 DEF Contract, DeadApart
<1>6. ASSUME NEW v \in Relays, pc'[v] = "sent"
      PROVE  published'[Head(batch'[v]).event] > 0
  <2>1. CASE v = w
    BY <1>0, <1>1, <1>2, <2>1 DEF Current
  <2>2. CASE v # w
    <3>1. pc[v] = "sent"
      BY <1>0, <1>6, <2>2
    <3>2. published[Current(v).event] > 0 /\ Current(v).event \in Event
      BY <3>1, CurrentInFlight DEF Contract
    <3>. QED
      BY <1>0, <1>2, <3>2 DEF Current
  <2>. QED
    BY <2>1, <2>2
<1>7. Delivery!Deliver(e)
  <2>1. {f \in Event : published[f] > 0}' = {f \in Event : published[f] > 0} \cup {e}
    BY <1>2
  <2>. QED
    BY <1>0, <1>1, <2>1, AcceptedIsStaged DEF Delivery!Deliver, StoredEvents, DeadEvents
<1>. QED
  BY <1>4, <1>5, <1>6, <1>7 DEF Contract, Current, Delivery!Next

\* A Stage call that fits is accepted as a whole.
LEMMA AppendContract ==
  ASSUME Inductive, Contract, NEW b \in Batches, StageAppend(b), UNCHANGED <<relayVars, envVars>>
  PROVE  Contract' /\ Delivery!Next
<1>0. /\ MemType /\ UNCHANGED <<pc, batch, cancelled, published, dlq>>
      /\ staging \in [Batches -> [st : {"new", "open", "done"}, at : Nat]]
      /\ staging[b].st = "open" /\ staging' = [staging EXCEPT ![b].st = "done"]
      /\ b \in Seq(Event) /\ Len(b) \in Nat /\ DOMAIN b = 1 .. Len(b)
      /\ lastId \in Nat /\ lastId' = lastId + Len(b)
      /\ records \in Seq(MemRecord) /\ Len(records) \in Nat /\ DOMAIN records = 1 .. Len(records)
  BY MemoryAssumption DEF Inductive, MemType, StageAppend, relayVars, envVars
<1>1. /\ records' \in Seq(MemRecord) /\ Len(records') = Len(records) + Len(b)
      /\ \A i \in DOMAIN records : i \in DOMAIN records' /\ records'[i] = records[i]
      /\ \A i \in DOMAIN records' :
           \/ i \in DOMAIN records
           \/ \E k \in DOMAIN b : /\ i = Len(records) + k /\ records'[i].event = b[k]
                                  /\ records'[i].id = lastId + k /\ records'[i].attempts = 0
  BY AppendedRecords
<1>2. \A c \in Batches : staging'[c].st = "done" <=> staging[c].st = "done" \/ c = b
  BY <1>0
<1>3. \A e : Staged(e)' <=> Staged(e) \/ \E i \in DOMAIN b : b[i] = e
  BY <1>2 DEF Staged
<1>4. StoreGrows
  <2>1. lastId' \in Nat /\ lastId <= lastId'
    BY <1>0
  <2>2. ASSUME NEW k \in DOMAIN records'
        PROVE  \/ records'[k].id \in Nat /\ records'[k].id > lastId
               \/ \E j \in DOMAIN records : /\ records'[k].id = records[j].id
                                            /\ records'[k].event = records[j].event
    <3>1. CASE k \in DOMAIN records
      BY <1>1, <3>1
    <3>2. CASE k \notin DOMAIN records
      <4>1. PICK n \in DOMAIN b : records'[k].id = lastId + n
        BY <1>1, <3>2
      <4>. QED
        BY <1>0, <4>1
    <3>. QED
      BY <3>1, <3>2
  <2>. QED
    BY <1>3, <2>1, <2>2 DEF StoreGrows
<1>5. \A v \in Relays : \A i \in DOMAIN batch'[v] : InFlight(batch[v][i])'
  BY <1>0, <1>4, FlightStays
<1>6. DeadApart'
  <2>. SUFFICES ASSUME NEW i \in DOMAIN dlq
                PROVE  i \in Nat /\ i <= lastId' /\ \A k \in DOMAIN records' : records'[k].id # i
    BY <1>0 DEF DeadApart
  <2>1. i \in Nat /\ i <= lastId /\ \A k \in DOMAIN records : records[k].id # i
    BY DEF Contract, DeadApart
  <2>2. i <= lastId'
    BY <1>0, <2>1
  <2>3. ASSUME NEW k \in DOMAIN records' PROVE records'[k].id # i
    BY <1>0, <1>4, <2>1 DEF StoreGrows
  <2>. QED
    BY <2>1, <2>2, <2>3
<1>7. \A v \in Relays : pc'[v] = "sent" => published'[Head(batch'[v]).event] > 0
  BY <1>0 DEF Contract, Current
<1>. DEFINE S == {b[i] : i \in DOMAIN b}
<1>8. S \in SUBSET Event
  BY <1>0
<1>9. ASSUME NEW e \in S, Staged(e) PROVE FALSE
  <2>1. PICK i \in DOMAIN b : b[i] = e
    OBVIOUS
  <2>2. PICK c \in Batches : staging[c].st = "done" /\ \E j \in DOMAIN c : c[j] = e
    BY <1>9 DEF Staged
  <2>3. b = c
    BY <2>1, <2>2, MemoryAssumption
  <2>. QED
    BY <1>0, <2>2, <2>3
<1>10. StoredEvents' = StoredEvents \cup S
  <2>1. \A i \in DOMAIN records : records[i].event \in StoredEvents'
    BY <1>1 DEF StoredEvents
  <2>2. ASSUME NEW k \in DOMAIN b PROVE b[k] \in StoredEvents'
    <3>1. PICK i : i = Len(records) + k
      OBVIOUS
    <3>2. i \in DOMAIN records' /\ i \notin DOMAIN records
      BY <1>0, <1>1, <3>1
    <3>3. PICK n \in DOMAIN b : i = Len(records) + n /\ records'[i].event = b[n]
      BY <1>1, <3>2
    <3>4. n = k
      BY <1>0, <3>1, <3>3
    <3>. QED
      BY <3>2, <3>3, <3>4 DEF StoredEvents
  <2>3. \A i \in DOMAIN records' : records'[i].event \in StoredEvents \cup S
    BY <1>1 DEF StoredEvents
  <2>. QED
    BY <2>1, <2>2, <2>3 DEF StoredEvents
<1>11. Delivery!Accept(S)
  <2>. DEFINE A == UNION {{c[i] : i \in DOMAIN c} : c \in {d \in Batches : staging[d].st = "done"}}
  <2>1. \A e : e \in A <=> Staged(e)
    BY AcceptedIsStaged
  <2>2. \A e : e \in A' <=> Staged(e)'
    BY DEF Staged
  <2>3. A' = A \cup S
    BY <1>3, <2>1, <2>2
  <2>4. S \cap A = {}
    BY <1>9, <2>1
  <2>5. UNCHANGED {e \in Event : published[e] > 0} /\ UNCHANGED DeadEvents
    BY <1>0 DEF DeadEvents
  <2>. QED
    BY <1>10, <2>3, <2>4, <2>5 DEF Delivery!Accept
<1>. QED
  BY <1>5, <1>6, <1>7, <1>8, <1>11 DEF Contract, Current, Delivery!Next

\* What a relay removes is the record of the event it works on, if it is still
\* there: nothing else leaves the queue.
LEMMA RemovedRecord ==
  ASSUME Inductive, Contract, NEW w \in Relays, pc[w] \in {"sent", "fail"},
         records' = RemoveId(Current(w).token), UNCHANGED <<staging, lastId>>
  PROVE  /\ StoreGrows
         /\ \A i \in DOMAIN records' : records'[i].id # Current(w).token
         /\ StoredEvents' = IF HasId(Current(w).token) THEN StoredEvents \ {Current(w).event}
                           ELSE StoredEvents
         /\ HasId(Current(w).token) => Current(w).event \in StoredEvents
<1>0. MemType /\ Identified /\ StoredOnce /\ lastId \in Nat
  BY DEF Inductive, MemType
<1>1. PICK r \in Record : r = Current(w) /\ InFlight(r)
  BY CurrentInFlight
<1>2. /\ \A i \in DOMAIN records' : \E k \in DOMAIN records : records'[i] = records[k] /\ records[k].id # r.token
      /\ \A k \in DOMAIN records : records[k].id # r.token => \E i \in DOMAIN records' : records'[i] = records[k]
  BY <1>0, <1>1, RemoveIdKeeps
<1>3. StoreGrows
  <2>1. \A e : Staged(e)' <=> Staged(e)
    BY DEF Staged
  <2>. QED
    BY <1>0, <1>2, <2>1 DEF StoreGrows
<1>4. \A k \in DOMAIN records : records[k].id = r.token => records[k].event = r.event
  BY <1>1 DEF InFlight
<1>5. CASE HasId(r.token)
  <2>1. PICK p \in DOMAIN records : records[p].id = r.token /\ records[p].event = r.event
    BY <1>4, <1>5 DEF HasId
  <2>2. \A k \in DOMAIN records : records[k].id # r.token <=> records[k].event # r.event
    BY <1>0, <1>4, <2>1 DEF StoredOnce
  <2>3. StoredEvents' = StoredEvents \ {r.event}
    <3>1. \A e \in StoredEvents' : e \in StoredEvents /\ e # r.event
      BY <1>2, <2>2 DEF StoredEvents
    <3>2. \A e \in StoredEvents : e # r.event => e \in StoredEvents'
      BY <1>2, <2>2 DEF StoredEvents
    <3>. QED
      BY <3>1, <3>2
  <2>4. r.event \in StoredEvents
    BY <2>1 DEF StoredEvents
  <2>. QED
    BY <1>1, <1>2, <1>3, <1>5, <2>3, <2>4
<1>6. CASE ~HasId(r.token)
  <2>1. records' = records
    BY <1>1, <1>6 DEF RemoveId
  <2>. QED
    BY <1>1, <1>2, <1>3, <1>6, <2>1 DEF StoredEvents
<1>. QED
  BY <1>5, <1>6

\* The Mark calls: batches lose their first record, nobody new is at MarkSent.
LEMMA MarkFlight ==
  ASSUME Inductive, Contract, StoreGrows, NEW w \in Relays, pc[w] \in {"sent", "fail"}, Advance(w),
         UNCHANGED published, DeadApart'
  PROVE  Contract'
<1>1. /\ \A i \in DOMAIN batch'[w] : i \in Nat /\ i + 1 \in DOMAIN batch[w] /\ i + 1 # 1
                                     /\ batch'[w][i] = batch[w][i + 1]
      /\ pc'[w] \in {"idle", "publish"}
      /\ \A v \in Relays : v # w => pc'[v] = pc[v] /\ batch'[v] = batch[v]
  BY AdvanceFacts DEF Inductive
<1>2. \A v \in Relays : \A i \in DOMAIN batch'[v] : InFlight(batch[v][i])'
  <2>1. ASSUME NEW v \in Relays, NEW i \in DOMAIN batch'[v]
        PROVE  \E j \in DOMAIN batch[v] : batch'[v][i] = batch[v][j]
    <3>1. CASE v = w
      BY <1>1, <3>1
    <3>2. CASE v # w
      BY <1>1, <3>2
    <3>. QED
      BY <3>1, <3>2
  <2>. QED
    BY <2>1, FlightStays
<1>3. \A v \in Relays : pc'[v] = "sent" => published'[Head(batch'[v]).event] > 0
  BY <1>1 DEF Contract, Current
<1>. QED
  BY <1>2, <1>3 DEF Contract, Current

LEMMA SentContract ==
  ASSUME Inductive, Contract, NEW w \in Relays, Sent(w)
  PROVE  Contract' /\ [Delivery!Next]_(Delivery!vars)
<1>0. /\ pc[w] = "sent" /\ Advance(w) /\ records' = RemoveId(Current(w).token)
      /\ UNCHANGED <<staging, lastId, dlq, published>>
  BY DEF Sent, MarkSent, envVars
<1>1. PICK r \in Record : r = Current(w) /\ r.event \in Event /\ InFlight(r)
  BY <1>0, CurrentInFlight
<1>2. /\ StoreGrows
      /\ StoredEvents' = IF HasId(r.token) THEN StoredEvents \ {r.event} ELSE StoredEvents
      /\ HasId(r.token) => r.event \in StoredEvents
  BY <1>0, <1>1, RemovedRecord
<1>3. DeadApart'
  <2>1. \A k \in DOMAIN records' : \E j \in DOMAIN records : records'[k].id = records[j].id
    BY <1>0, RemoveIdKeeps DEF Inductive
  <2>. QED
    BY <1>0, <2>1 DEF Contract, DeadApart
<1>4. Contract'
  BY <1>0, <1>2, <1>3, MarkFlight
<1>5. published[r.event] > 0
  BY <1>0, <1>1 DEF Contract
<1>6. CASE HasId(r.token)
  <2>1. Delivery!Settle(r.event)
    BY <1>0, <1>1, <1>2, <1>5, <1>6 DEF Delivery!Settle, DeadEvents
  <2>. QED
    BY <1>1, <1>4, <2>1 DEF Delivery!Next
<1>7. CASE ~HasId(r.token)
  <2>1. UNCHANGED Delivery!vars
    BY <1>0, <1>2, <1>7 DEF Delivery!vars, DeadEvents
  <2>. QED
    BY <1>4, <2>1
<1>. QED
  BY <1>6, <1>7

LEMMA DeadLetterContract ==
  ASSUME Inductive, Contract, NEW w \in Relays, DeadLetter(w)
  PROVE  Contract' /\ [Delivery!Next]_(Delivery!vars)
<1>0. /\ pc[w] = "fail" /\ Advance(w) /\ records' = RemoveId(Current(w).token)
      /\ Terminate(Current(w)) /\ UNCHANGED <<staging, lastId, published>>
      /\ MemType /\ Identified /\ lastId \in Nat
  BY DEF DeadLetter, Terminate, envVars, Inductive, MemType
<1>1. PICK r \in Record : r = Current(w) /\ r.event \in Event /\ InFlight(r) /\ r.token \in Nat
  BY <1>0, CurrentInFlight DEF Record
<1>2. /\ StoreGrows
      /\ \A i \in DOMAIN records' : records'[i].id # r.token
      /\ StoredEvents' = IF HasId(r.token) THEN StoredEvents \ {r.event} ELSE StoredEvents
      /\ HasId(r.token) => r.event \in StoredEvents
  BY <1>0, <1>1, RemovedRecord
<1>3. \A k \in DOMAIN records' : \E j \in DOMAIN records : records'[k].id = records[j].id
  BY <1>0, RemoveIdKeeps
<1>4. CASE ~HasId(r.token)
  <2>1. dlq' = dlq
    BY <1>0, <1>1, <1>4 DEF Terminate
  <2>2. DeadApart'
    BY <1>0, <1>3, <2>1 DEF Contract, DeadApart
  <2>3. UNCHANGED Delivery!vars
    BY <1>0, <1>2, <1>4, <2>1 DEF Delivery!vars, DeadEvents
  <2>. QED
    BY <1>0, <1>2, <2>2, <2>3, MarkFlight
<1>5. CASE HasId(r.token)
  <2>1. PICK p \in DOMAIN records : p = At(r.token) /\ records[p].id = r.token
    BY <1>5 DEF HasId, At
  <2>2. records[p].event = r.event
    BY <1>1, <2>1 DEF InFlight
  <2>3. dlq' = [i \in DOMAIN dlq \cup {r.token} |->
                  IF i = r.token
                  THEN [event |-> records[At(i)].event, attempts |-> records[At(i)].attempts + 1]
                  ELSE dlq[i]]
    BY <1>0, <1>1, <1>5 DEF Terminate
  <2>4. /\ DOMAIN dlq' = DOMAIN dlq \cup {r.token}
        /\ dlq'[r.token].event = r.event
        /\ \A i \in DOMAIN dlq : i # r.token => dlq'[i] = dlq[i]
    BY <2>1, <2>2, <2>3
  <2>5. r.token \notin DOMAIN dlq
    BY <2>1 DEF Contract, DeadApart
  <2>6. DeadEvents' = DeadEvents \cup {r.event}
    <3>1. \A e \in DeadEvents' : e \in DeadEvents \/ e = r.event
      BY <2>4 DEF DeadEvents
    <3>2. \A i \in DOMAIN dlq : i \in DOMAIN dlq' /\ dlq'[i] = dlq[i]
      BY <2>4, <2>5
    <3>3. DeadEvents \subseteq DeadEvents'
      BY <3>2 DEF DeadEvents
    <3>4. r.event \in DeadEvents'
      BY <2>4 DEF DeadEvents
    <3>. QED
      BY <3>1, <3>3, <3>4
  <2>7. DeadApart'
    <3>1. r.token <= lastId
      BY <1>1 DEF InFlight
    <3>. QED
      BY <1>0, <1>1, <1>2, <1>3, <2>4, <3>1 DEF Contract, DeadApart
  <2>8. Delivery!Bury(r.event)
    BY <1>0, <1>2, <1>5, <2>6 DEF Delivery!Bury
  <2>. QED
    BY <1>0, <1>1, <1>2, <2>7, <2>8, MarkFlight DEF Delivery!Next
<1>. QED
  BY <1>4, <1>5

LEMMA RescheduleContract ==
  ASSUME Inductive, Contract, NEW w \in Relays, Reschedule(w)
  PROVE  Contract' /\ UNCHANGED Delivery!vars
<1>0. /\ pc[w] = "fail" /\ Advance(w) /\ UNCHANGED <<staging, lastId, dlq, published>>
      /\ MemType /\ Identified /\ lastId \in Nat
  BY DEF Reschedule, MarkFailed, envVars, Inductive, MemType
<1>1. PICK r \in Record : r = Current(w)
  BY <1>0, CurrentInFlight
<1>2. PICK a \in Nat : MarkFailed(r, a)
  BY <1>0, <1>1, MemoryOutboxAssumption DEF Reschedule, MemType
<1>3. /\ DOMAIN records' = DOMAIN records
      /\ \A k \in DOMAIN records : records'[k].id = records[k].id /\ records'[k].event = records[k].event
  BY <1>0, <1>2, MarkFailedKeeps
<1>4. StoreGrows
  <2>1. \A e : Staged(e)' <=> Staged(e)
    BY <1>0 DEF Staged
  <2>. QED
    BY <1>0, <1>3, <2>1 DEF StoreGrows
<1>5. DeadApart'
  BY <1>0, <1>3 DEF Contract, DeadApart
<1>6. StoredEvents' = StoredEvents
  BY <1>3 DEF StoredEvents
<1>7. UNCHANGED Delivery!vars
  BY <1>0, <1>6 DEF Delivery!vars, DeadEvents
<1>. QED
  BY <1>0, <1>4, <1>5, <1>7, MarkFlight

LEMMA ContractStep ==
  ASSUME Inductive, Contract, [Next]_vars
  PROVE  Contract' /\ [Delivery!Next]_(Delivery!vars)
<1>1. ASSUME NEW b \in Batches, Stage(b)
      PROVE  Contract' /\ [Delivery!Next]_(Delivery!vars)
  BY <1>1, QuietSteps, QuietContract, AppendContract DEF Stage
<1>2. ASSUME NEW w \in Relays, StartRelay(w) \/ RelayStep(w) \/ CancelRelay(w) \/ PublishAckLost(w)
      PROVE  Contract' /\ [Delivery!Next]_(Delivery!vars)
  BY <1>2, QuietSteps, QuietContract, FetchContract, PublishContract, SentContract, RescheduleContract,
     DeadLetterContract DEF RelayStep
<1>3. CASE Tick \/ UNCHANGED vars
  BY <1>3, QuietSteps, QuietContract
<1>. QED
  BY <1>1, <1>2, <1>3 DEF Next

LEMMA ContractInit ==
  ASSUME Init
  PROVE  Contract /\ Delivery!Init
<1>1. /\ \A w \in Relays : DOMAIN batch[w] = {} /\ pc[w] = "down"
      /\ DOMAIN dlq = {} /\ DOMAIN records = {}
  BY DEF Init, RelayInit, MemInit
<1>2. Contract
  BY <1>1 DEF Contract, DeadApart
<1>3. {c \in Batches : staging[c].st = "done"} = {} /\ {e \in Event : published[e] > 0} = {}
  BY DEF Init, MemInit
<1>4. StoredEvents = {} /\ DeadEvents = {}
  BY <1>1 DEF StoredEvents, DeadEvents
<1>. QED
  BY <1>2, <1>3, <1>4 DEF Delivery!Init

\* The in-process store and its relays, which have no claims and may work on
\* copies of the same record at once, implement the safety part of the outbox
\* contract as well: an event leaves the queue only delivered or
\* dead-lettered, and what one relay removed no other one dead-letters.
THEOREM MemoryRefinement == Spec => Delivery!Spec
BY ContractInit, ContractStep, InductiveAlways, PTL DEF Spec, Delivery!Spec
=============================================================================
