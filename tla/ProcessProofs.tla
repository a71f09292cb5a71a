---------------------------- MODULE ProcessProofs ---------------------------
(***************************************************************************)
(* Proofs about Process, and so about the consumer group module, the inbox *)
(* and the HTTP servers inside it, for any topics, messages, failures,     *)
(* requests and keys.                                                      *)
(***************************************************************************)
EXTENDS Process, InboxProofs

-----------------------------------------------------------------------------
(* The consumer group                                                      *)

ConsumerType ==
  /\ sub \in [Topics -> {"none", "recv", "hand", "closed"}]
  /\ con \in [Topics -> {"none", "wait", "handle", "done"}]
  /\ raw \in [Topics -> {"ready", "taken", "nacked"}]
  /\ offset \in [Topics -> Nat]
  /\ handled \in [Topics -> SUBSET Nat]

\* The two goroutines of a topic begin together, the consumer outlives the
\* Subscriber's, and the message watermill waits for is with one of them.
TopicSound(t) ==
  /\ con[t] = "none" <=> sub[t] = "none"
  /\ con[t] = "done" => sub[t] = "closed"
  /\ sub[t] = "hand" => con[t] = "wait"
  /\ raw[t] = "taken" <=> sub[t] = "hand" \/ con[t] = "handle"
  /\ raw[t] = "taken" => Message(t) <= Messages

ConsumerInv ==
  /\ ConsumerType
  /\ \A t \in Topics : TopicSound(t)
  /\ AcknowledgedIsHandled
  /\ EndedIsClean

TopicStep(t) ==
  \/ Subscribe(t) \/ SubscribeFails(t)
  \/ Take(t) \/ HandOver(t) \/ SubscriberEnds(t) \/ SubscriberDrops(t)
  \/ HandleOk(t) \/ HandleErr(t) \/ ConsumerEnds(t) \/ Resend(t)

GroupStep == StartReturnsError \/ StopConsumer \/ StopReturns \/ StopDeadline \/ CloseSubscriber

ConsumerStep == (\E t \in Topics : TopicStep(t)) \/ GroupStep \/ UNCHANGED consumerVars

LEMMA ConsumerInitInv ==
  ASSUME NEW list, ConsumerInit(list)
  PROVE  ConsumerInv
<1>1. ConsumerType
  BY DEF ConsumerInit, ConsumerType
<1>2. ASSUME NEW t \in Topics PROVE TopicSound(t)
  BY <1>2 DEF ConsumerInit, TopicSound
<1>3. AcknowledgedIsHandled
  <2>1. \A t \in Topics : offset[t] = 0
    BY DEF ConsumerInit
  <2>2. 1..0 = {}
    OBVIOUS
  <2>. QED
    BY <2>1, <2>2 DEF AcknowledgedIsHandled
<1>. QED
  BY <1>1, <1>2, <1>3 DEF ConsumerInv, ConsumerInit, EndedIsClean

\* A step of one topic leaves the others alone.
LEMMA OtherTopics ==
  ASSUME ConsumerType, NEW t \in Topics, TopicStep(t), NEW u \in Topics, u # t
  PROVE  /\ sub'[u] = sub[u] /\ con'[u] = con[u] /\ raw'[u] = raw[u]
         /\ offset'[u] = offset[u] /\ handled'[u] = handled[u]
<1>1. CASE Subscribe(t) \/ SubscribeFails(t)
  BY <1>1 DEF Subscribe, SubscribeFails, ConsumerType
<1>2. CASE Take(t) \/ HandOver(t)
  BY <1>2 DEF Take, HandOver, Nack, Hold, ConsumerType
<1>3. CASE SubscriberEnds(t) \/ SubscriberDrops(t)
  BY <1>3 DEF SubscriberEnds, SubscriberDrops, Nack, Hold, ConsumerType
<1>4. CASE HandleOk(t)
  BY <1>4 DEF HandleOk, Ack, ConsumerType
<1>5. CASE HandleErr(t)
  BY <1>5 DEF HandleErr, Fail, Nack, Hold, ConsumerType
<1>6. CASE ConsumerEnds(t) \/ Resend(t)
  BY <1>6 DEF ConsumerEnds, Resend, Hold, ConsumerType
<1>. QED
  BY <1>1, <1>2, <1>3, <1>4, <1>5, <1>6 DEF TopicStep

\* What a step does to its own topic.
LEMMA TopicStepSound ==
  ASSUME ConsumerInv, NEW t \in Topics, TopicStep(t)
  PROVE  /\ ConsumerType'
         /\ TopicSound(t)'
         /\ offset'[t] = offset[t] \/ (offset'[t] = offset[t] + 1 /\ offset[t] + 1 \in handled'[t])
         /\ handled[t] \subseteq handled'[t]
         /\ phase \in {"stopped", "failed"} => sub' = sub /\ con' = con
         /\ phase' \in {"stopped", "failed"} => phase' = phase
<1>0. ConsumerType /\ TopicSound(t)
  BY DEF ConsumerInv
<1>1. phase \in {"stopped", "failed"} => sub[t] \in {"none", "closed"} /\ con[t] \in {"none", "done"}
  BY DEF ConsumerInv, EndedIsClean
<1>2. CASE Subscribe(t)
  <2>1. con[t] = "none"
    BY <1>2 DEF Subscribe, Pending
  <2>. QED
    BY <1>0, <1>2, <2>1 DEF Subscribe, Pending, ConsumerType, TopicSound, Message
<1>3. CASE SubscribeFails(t)
  BY <1>0, <1>3 DEF SubscribeFails, Pending, ConsumerType, TopicSound, Message
<1>4. CASE Take(t)
  BY <1>0, <1>1, <1>4 DEF Take, Nack, Hold, ConsumerType, TopicSound, Message
<1>5. CASE HandOver(t)
  BY <1>0, <1>1, <1>5 DEF HandOver, ConsumerType, TopicSound, Message
<1>6. CASE SubscriberEnds(t)
  BY <1>0, <1>1, <1>6 DEF SubscriberEnds, ConsumerType, TopicSound, Message
<1>7. CASE SubscriberDrops(t)
  BY <1>0, <1>1, <1>7 DEF SubscriberDrops, Nack, Hold, ConsumerType, TopicSound, Message
<1>8. CASE HandleOk(t)
  BY <1>0, <1>1, <1>8 DEF HandleOk, Ack, ConsumerType, TopicSound, Message
<1>9. CASE HandleErr(t)
  BY <1>0, <1>1, <1>9 DEF HandleErr, Fail, Nack, Hold, ConsumerType, TopicSound, Message
<1>10. CASE ConsumerEnds(t)
  BY <1>0, <1>1, <1>10 DEF ConsumerEnds, ConsumerType, TopicSound, Message
<1>11. CASE Resend(t)
  BY <1>0, <1>1, <1>11 DEF Resend, Hold, ConsumerType, TopicSound, Message
<1>. QED
  BY <1>2, <1>3, <1>4, <1>5, <1>6, <1>7, <1>8, <1>9, <1>10, <1>11 DEF TopicStep

LEMMA ConsumerStepInv == ConsumerInv /\ ConsumerStep => ConsumerInv'
<1>. SUFFICES ASSUME ConsumerInv, ConsumerStep PROVE ConsumerInv'
  OBVIOUS
<1>1. ASSUME NEW t \in Topics, TopicStep(t) PROVE ConsumerInv'
  <2>0. /\ ConsumerType'
        /\ TopicSound(t)'
        /\ offset'[t] = offset[t] \/ (offset'[t] = offset[t] + 1 /\ offset[t] + 1 \in handled'[t])
        /\ handled[t] \subseteq handled'[t]
        /\ phase \in {"stopped", "failed"} => sub' = sub /\ con' = con
        /\ phase' \in {"stopped", "failed"} => phase' = phase
    BY <1>1, TopicStepSound
  <2>1. ASSUME NEW u \in Topics PROVE TopicSound(u)' /\ 1..offset'[u] \subseteq handled'[u]
    <3>0. TopicSound(u) /\ 1..offset[u] \subseteq handled[u] /\ offset[u] \in Nat
      BY DEF ConsumerInv, AcknowledgedIsHandled, ConsumerType
    <3>1. CASE u = t
      BY <2>0, <3>0, <3>1
    <3>2. CASE u # t
      <4>1. /\ sub'[u] = sub[u] /\ con'[u] = con[u] /\ raw'[u] = raw[u]
            /\ offset'[u] = offset[u] /\ handled'[u] = handled[u]
        BY <1>1, <3>2, OtherTopics DEF ConsumerInv
      <4>. QED
        BY <3>0, <4>1 DEF TopicSound, Message
    <3>. QED
      BY <3>1, <3>2
  <2>2. EndedIsClean'
    BY <2>0 DEF ConsumerInv, EndedIsClean
  <2>. QED
    BY <2>0, <2>1, <2>2 DEF ConsumerInv, AcknowledgedIsHandled
<1>2. CASE GroupStep \/ UNCHANGED consumerVars
  <2>1. /\ UNCHANGED <<sub, con, raw, offset, handled>>
        /\ phase' = phase \/ phase' \notin {"stopped", "failed"} \/ Drained
    BY <1>2 DEF GroupStep, StartReturnsError, StopConsumer, StopReturns, StopDeadline, CloseSubscriber, consumerVars
  <2>2. EndedIsClean'
    BY <2>1 DEF ConsumerInv, ConsumerType, TopicSound, EndedIsClean, Drained
  <2>. QED
    BY <2>1, <2>2 DEF ConsumerInv, ConsumerType, TopicSound, Message, AcknowledgedIsHandled
<1>. QED
  BY <1>1, <1>2 DEF ConsumerStep

-----------------------------------------------------------------------------
(* The HTTP server                                                         *)

\* Once Shutdown was called nothing is accepted any more.
HttpInv ==
  /\ down \in BOOLEAN
  /\ active \in Nat
  /\ serve = "none" => active = 0
  /\ down => ~(serve = "accept" /\ listener = "open")

HttpWork == Listen \/ Serve \/ Accept \/ Answered \/ ServeReturns

LEMMA HttpInitInv ==
  ASSUME HttpInit
  PROVE  HttpInv
BY DEF HttpInit, HttpInv

LEMMA HttpWorkInv ==
  ASSUME HttpInv, HttpWork
  PROVE  /\ HttpInv'
         /\ serve # "none"
         /\ down' = down
         /\ down /\ active = 0 => active' = 0
<1>1. CASE Listen
  BY <1>1 DEF Listen, HttpInv
<1>2. CASE Serve
  BY <1>2 DEF Serve, HttpInv
<1>3. CASE Accept
  BY <1>3 DEF Accept, HttpInv
<1>4. CASE Answered
  BY <1>4 DEF Answered, HttpInv
<1>5. CASE ServeReturns
  BY <1>5 DEF ServeReturns, HttpInv
<1>. QED
  BY <1>1, <1>2, <1>3, <1>4, <1>5 DEF HttpWork

LEMMA HttpControlInv ==
  ASSUME HttpInv, StartBound \/ StartUnbound \/ Shutdown \/ UNCHANGED httpVars
  PROVE  HttpInv'
<1>1. CASE StartBound
  BY <1>1 DEF StartBound, HttpInv
<1>2. CASE StartUnbound
  BY <1>2 DEF StartUnbound, HttpInv
<1>3. CASE Shutdown
  BY <1>3 DEF Shutdown, HttpInv
<1>4. CASE UNCHANGED httpVars
  BY <1>4 DEF httpVars, HttpInv
<1>. QED
  BY <1>1, <1>2, <1>3, <1>4

-----------------------------------------------------------------------------
(* The programs                                                            *)

Programs == {api, worker, relayCmd, reader, projector, service}

ClientModules == {"otel", "subscriber", "publisher"}
Servers == {"http", "server"}
WorkModules == {"consumer", "relay"} \cup Servers

\* What the programs have in common: every client is a module, before the
\* modules that do the work, and no two modules keep the same state.
WellFormed(p) ==
  /\ p.setup \in Seq(ClientModules \cup {"pool"}) /\ p.setup # <<>>
  /\ p.modules \in Seq(ClientModules \cup WorkModules) /\ p.modules # <<>>
  /\ \A i, j \in DOMAIN p.modules : p.modules[i] = p.modules[j] => i = j
  /\ \A i, j \in DOMAIN p.modules : p.modules[i] \in Servers /\ p.modules[j] \in Servers => i = j
  /\ \A k \in DOMAIN p.setup : p.setup[k] # "pool" => \E h \in DOMAIN p.modules : p.modules[h] = p.setup[k]
  /\ \A i \in DOMAIN p.modules, k \in DOMAIN p.setup : p.modules[i] \in WorkModules /\ p.setup[k] # "pool" =>
       \E h \in 1..(i - 1) : p.modules[h] = p.setup[k]

LEMMA ProgramsWellFormed == \A p \in Programs : WellFormed(p)
<1>1. WellFormed(api)
  BY DEF WellFormed, api, ClientModules, WorkModules, Servers
<1>2. WellFormed(worker)
  BY DEF WellFormed, worker, ClientModules, WorkModules, Servers
<1>3. WellFormed(relayCmd)
  BY DEF WellFormed, relayCmd, ClientModules, WorkModules, Servers
<1>4. WellFormed(reader)
  BY DEF WellFormed, reader, ClientModules, WorkModules, Servers
<1>5. WellFormed(projector)
  BY DEF WellFormed, projector, ClientModules, WorkModules, Servers
<1>6. WellFormed(service)
  BY DEF WellFormed, service, ClientModules, WorkModules, Servers
<1>. QED
  BY <1>1, <1>2, <1>3, <1>4, <1>5, <1>6 DEF Programs

-----------------------------------------------------------------------------
(* The invariant of the process                                            *)

Opened == {program.setup[k] : k \in DOMAIN program.setup}

\* Where run() and bootstrap are, and what is open there.
Shape ==
  /\ program \in Programs
  /\ mode \in {"setup", "failed", "start", "run", "stop", "return", "exit"}
  /\ at \in Nat
  /\ mode = "setup" => at \in DOMAIN program.setup /\ open = {program.setup[k] : k \in 1..(at - 1)}
  /\ mode \in {"start", "run"} => at \in DOMAIN program.modules /\ open = Opened
  /\ mode = "run" => at = Len(program.modules)
  /\ mode = "stop" => /\ at <= Len(program.modules)
                      /\ open = {x \in Opened : x = "pool" \/ \E h \in 1..at : program.modules[h] = x}
  /\ mode \in {"return", "exit"} => at = 0 /\ open = {}

\* A module whose Start was not called, and one that has come to rest for good.
NotBegun(m) ==
  /\ m = "consumer" => phase = "new" /\ \A t \in Topics : con[t] = "none"
  /\ m \in Servers => serve = "none" /\ active = 0
  /\ m = "relay" => relay = "none"

AtRest(m) ==
  /\ m = "consumer" => Drained
  /\ m \in Servers => active = 0 /\ (down \/ serve = "none")
  /\ m = "relay" => relay \in {"none", "done"}

\* Bootstrap has not come to module i yet.
Ahead(i) ==
  \/ mode = "setup"
  \/ mode = "start" /\ (i > at \/ (i = at /\ program.modules[i] # "consumer"))

\* Bootstrap is done with module i.
Behind(i) == mode \in {"stop", "return", "exit"} /\ i > at

ModuleSound(i) ==
  LET m == program.modules[i] IN
  m \in WorkModules =>
    /\ Ahead(i) => NotBegun(m)
    /\ Behind(i) /\ m \notin forced => AtRest(m)

Inductive ==
  /\ ConsumerInv
  /\ HttpInv
  /\ InboxInv
  /\ Shape
  /\ \A i \in DOMAIN program.modules : ModuleSound(i)

-----------------------------------------------------------------------------
(* Moves of bootstrap                                                      *)

LEMMA StartedSound ==
  ASSUME Shape, mode = "start", Started,
         \A i \in DOMAIN program.modules :
           i > at /\ program.modules[i] \in WorkModules => NotBegun(program.modules[i])'
  PROVE  Shape' /\ \A i \in DOMAIN program'.modules : ModuleSound(i)'
<1>0. WellFormed(program) /\ Len(program.modules) \in Nat /\ DOMAIN program.modules = 1..Len(program.modules)
  BY ProgramsWellFormed DEF Shape, WellFormed
<1>1. Shape'
  BY <1>0 DEF Started, Shape, Opened
<1>2. ASSUME NEW i \in DOMAIN program.modules PROVE ModuleSound(i)'
  <2>1. Ahead(i)' => i > at
    BY <1>0, <1>2 DEF Started, Shape, Ahead
  <2>2. ~Behind(i)'
    BY DEF Started, Behind
  <2>. QED
    BY <2>1, <2>2 DEF Started, ModuleSound
<1>. QED
  BY <1>1, <1>2 DEF Started

LEMMA StartFailsSound ==
  ASSUME Shape, mode = "start", StartFails, program.modules[at] \in WorkModules,
         \A i \in DOMAIN program.modules :
           i >= at /\ program.modules[i] \in WorkModules => AtRest(program.modules[i])'
  PROVE  Shape' /\ \A i \in DOMAIN program'.modules : ModuleSound(i)'
<1>0. /\ WellFormed(program) /\ Len(program.modules) \in Nat /\ DOMAIN program.modules = 1..Len(program.modules)
      /\ at \in DOMAIN program.modules
  BY ProgramsWellFormed DEF Shape, WellFormed
<1>1. \A x \in Opened : x = "pool" \/ \E h \in 1..(at - 1) : program.modules[h] = x
  <2>1. \A k \in DOMAIN program.setup : program.setup[k] # "pool" =>
          \E h \in 1..(at - 1) : program.modules[h] = program.setup[k]
    BY <1>0, Zenon DEF WellFormed
  <2>. QED
    BY <2>1, Zenon DEF Opened
<1>2. Shape'
  <2>1. open' = {x \in Opened : x = "pool" \/ \E h \in 1..(at - 1) : program.modules[h] = x}
    BY <1>1 DEF StartFails, Shape
  <2>. QED
    BY <1>0, <2>1 DEF StartFails, Shape, Opened
<1>3. ASSUME NEW i \in DOMAIN program.modules PROVE ModuleSound(i)'
  <2>1. Behind(i)' => i >= at
    BY <1>0, <1>3 DEF StartFails, Behind
  <2>2. ~Ahead(i)'
    BY DEF StartFails, Ahead
  <2>. QED
    BY <2>1, <2>2 DEF StartFails, ModuleSound
<1>. QED
  BY <1>2, <1>3 DEF StartFails

LEMMA StoppedSound ==
  ASSUME Shape, mode = "stop", NEW m, Turn(m), NEW abandoned, Stopped(abandoned),
         open' = IF m \in ClientModules THEN open \ {m} ELSE open,
         \A i \in DOMAIN program.modules :
           i >= at /\ program.modules[i] \in WorkModules /\ program.modules[i] \notin forced'
             => AtRest(program.modules[i])'
  PROVE  Shape' /\ \A i \in DOMAIN program'.modules : ModuleSound(i)'
<1>0. /\ WellFormed(program) /\ Len(program.modules) \in Nat /\ DOMAIN program.modules = 1..Len(program.modules)
      /\ at \in 1..Len(program.modules) /\ program.modules[at] = m
  BY ProgramsWellFormed DEF Shape, WellFormed, Turn, Module
<1>1. open' = {x \in Opened : x = "pool" \/ \E h \in 1..(at - 1) : program.modules[h] = x}
  <2>1. open = {x \in Opened : x = "pool" \/ \E h \in 1..at : program.modules[h] = x}
    BY DEF Shape
  <2>2. \A h \in 1..at : h = at \/ h \in 1..(at - 1)
    BY <1>0
  <2>3. CASE m \in ClientModules
    <3>1. m # "pool" /\ \A h \in 1..(at - 1) : program.modules[h] # m
      BY <1>0, <2>3 DEF WellFormed, ClientModules
    <3>. QED
      BY <1>0, <2>1, <2>2, <2>3, <3>1
  <2>4. CASE m \notin ClientModules
    <3>1. \A x \in Opened : x = "pool" \/ x \in ClientModules
      BY <1>0 DEF WellFormed, Opened
    <3>. QED
      BY <1>0, <2>1, <2>2, <2>4, <3>1
  <2>. QED
    BY <2>3, <2>4
<1>2. Shape'
  BY <1>0, <1>1 DEF Stopped, Shape, Opened
<1>3. ASSUME NEW i \in DOMAIN program.modules PROVE ModuleSound(i)'
  <2>1. Behind(i)' => i >= at
    BY <1>0, <1>3 DEF Stopped, Behind
  <2>2. ~Ahead(i)'
    BY DEF Stopped, Ahead
  <2>. QED
    BY <2>1, <2>2 DEF Stopped, ModuleSound
<1>. QED
  BY <1>2, <1>3 DEF Stopped

\* Bootstrap stays where it is.
LEMMA StaysSound ==
  ASSUME Shape, UNCHANGED <<program, mode, at, open, forced>>,
         \A i \in DOMAIN program.modules : program.modules[i] \in WorkModules =>
           /\ Ahead(i) => NotBegun(program.modules[i])'
           /\ Behind(i) /\ program.modules[i] \notin forced => AtRest(program.modules[i])'
  PROVE  Shape' /\ \A i \in DOMAIN program'.modules : ModuleSound(i)'
<1>1. Shape'
  BY DEF Shape, Opened
<1>2. ASSUME NEW i \in DOMAIN program.modules PROVE ModuleSound(i)'
  BY DEF ModuleSound, Ahead, Behind
<1>. QED
  BY <1>1, <1>2

-----------------------------------------------------------------------------
(* Steps of the components                                                 *)

\* The message a handler has is one of the topic, so it has an event.
LEMMA EventIsKey ==
  ASSUME ConsumerInv, NEW t \in Topics, con[t] = "handle"
  PROVE  Event(t) \in Keys
<1>1. Message(t) \in 1..Messages
  BY KafkaConsumerAssumption DEF ConsumerInv, ConsumerType, TopicSound, Message
<1>. QED
  BY <1>1, ProcessAssumption DEF Event

LEMMA HandleSteps ==
  ASSUME ConsumerInv, NEW t \in Topics, Handle(t) \/ Goroutine(t)
  PROVE  ConsumerStep /\ InboxStep
<1>0. t \in Callers
  BY ProcessAssumption
<1>1. CASE Goroutine(t)
  BY <1>1 DEF Goroutine, Pump, Close, ConsumerStep, TopicStep, InboxStep
<1>2. CASE HandleOk(t) /\ (UNCHANGED inboxVars \/ Record(t))
  BY <1>0, <1>2 DEF ConsumerStep, TopicStep, InboxStep
<1>3. CASE con[t] = "handle" /\ SeenFalse(t, Event(t)) /\ UNCHANGED consumerVars
  BY <1>0, <1>3, EventIsKey DEF ConsumerStep, InboxStep
<1>4. CASE HandleErr(t) /\ GiveUp(t)
  BY <1>0, <1>4 DEF ConsumerStep, TopicStep, InboxStep
<1>5. CASE ConsumerEnds(t) /\ UNCHANGED inboxVars
  BY <1>5 DEF ConsumerStep, TopicStep, InboxStep
<1>. QED
  BY <1>1, <1>2, <1>3, <1>4, <1>5 DEF Handle

LEMMA ComponentSteps ==
  ASSUME ConsumerInv, [Next]_vars
  PROVE  /\ ConsumerStep
         /\ InboxStep
         /\ HttpWork \/ StartBound \/ StartUnbound \/ Shutdown \/ UNCHANGED httpVars
<1>1. CASE Setup \/ SetupFails \/ Signal \/ Return \/ Exit
  BY <1>1 DEF Setup, SetupFails, Signal, Return, Exit, ConsumerStep, InboxStep
<1>2. CASE StartClient \/ StartServer \/ StartHttp \/ StartRelay
  BY <1>2 DEF StartClient, StartServer, StartHttp, StartRelay, ConsumerStep, InboxStep
<1>3. CASE StartConsumer
  BY <1>3 DEF StartConsumer, ConsumerStep, TopicStep, GroupStep, InboxStep
<1>4. CASE StopClient
  BY <1>4 DEF StopClient, ConsumerStep, GroupStep, InboxStep
<1>5. CASE StopConsumers
  BY <1>5 DEF StopConsumers, ConsumerStep, GroupStep, InboxStep
<1>6. CASE StopHttp \/ StopRelay
  BY <1>6 DEF StopHttp, StopRelay, ConsumerStep, InboxStep
<1>7. CASE Work
  <2>1. ASSUME NEW t \in Topics, Goroutine(t) \/ Handle(t), UNCHANGED <<httpVars, procVars>>
        PROVE  /\ ConsumerStep
               /\ InboxStep
               /\ HttpWork \/ StartBound \/ StartUnbound \/ Shutdown \/ UNCHANGED httpVars
    BY <2>1, HandleSteps
  <2>. QED
    BY <1>7, <2>1 DEF Work, HttpWork, ConsumerStep, InboxStep
<1>8. CASE UNCHANGED vars
  BY <1>8 DEF vars, ConsumerStep, InboxStep
<1>. QED
  BY <1>1, <1>2, <1>3, <1>4, <1>5, <1>6, <1>7, <1>8 DEF Next, Bootstrap

LEMMA ComponentsKeep ==
  ASSUME Inductive, [Next]_vars
  PROVE  ConsumerInv' /\ InboxInv' /\ HttpInv'
BY ComponentSteps, ConsumerStepInv, InboxStepInv, HttpWorkInv, HttpControlInv DEF Inductive

\* Nothing that a goroutine does begins a module or wakes one that rests.
LEMMA WorkKeeps ==
  ASSUME Inductive, Work, NEW m \in WorkModules
  PROVE  (NotBegun(m) => NotBegun(m)') /\ (AtRest(m) => AtRest(m)')
<1>0. ConsumerInv /\ HttpInv
  BY DEF Inductive
<1>1. ASSUME NEW t \in Topics, Goroutine(t) \/ Handle(t), UNCHANGED <<httpVars, procVars>>
      PROVE  (NotBegun(m) => NotBegun(m)') /\ (AtRest(m) => AtRest(m)')
  <2>1. ConsumerType /\ TopicSound(t)
    BY <1>0 DEF ConsumerInv
  <2>2. /\ phase' = phase
        /\ con' = con \/ (con[t] \in {"wait", "handle"} /\ con' = [con EXCEPT ![t] = con'[t]])
    <3>1. CASE Goroutine(t)
      BY <2>1, <3>1 DEF Goroutine, Pump, Close, Take, HandOver, SubscriberEnds, SubscriberDrops, Resend, ConsumerType
    <3>2. CASE Handle(t)
      BY <2>1, <3>2 DEF Handle, HandleOk, HandleErr, ConsumerEnds, ConsumerType, consumerVars
    <3>. QED
      BY <1>1, <3>1, <3>2
  <2>3. Drained => con' = con
    BY <2>2 DEF Drained
  <2>4. (\A u \in Topics : con[u] = "none") => con' = con
    BY <2>2
  <2>. QED
    BY <1>1, <2>2, <2>3, <2>4 DEF NotBegun, AtRest, Drained, httpVars, procVars
<1>2. CASE HttpWork /\ UNCHANGED <<consumerVars, procVars>>
  BY <1>0, <1>2, HttpWorkInv DEF NotBegun, AtRest, Drained, consumerVars, procVars, HttpInv
<1>3. CASE (RelayLoop \/ RelayEnds) /\ UNCHANGED <<consumerVars, httpVars>>
  BY <1>3 DEF RelayLoop, RelayEnds, NotBegun, AtRest, Drained, consumerVars, httpVars
<1>4. CASE UNCHANGED <<consumerVars, httpVars, procVars>>
  BY <1>4 DEF NotBegun, AtRest, Drained, consumerVars, httpVars, procVars
<1>. QED
  BY <1>1, <1>2, <1>3, <1>4 DEF Work, HttpWork

-----------------------------------------------------------------------------
(* The invariant is kept                                                   *)

Sound == Shape /\ \A i \in DOMAIN program.modules : ModuleSound(i)

\* A module that has not begun is at rest.
LEMMA NotBegunRests ==
  ASSUME NEW m \in WorkModules, NotBegun(m)
  PROVE  AtRest(m)
BY DEF NotBegun, AtRest, Drained

\* What the invariant says of the modules beside the one bootstrap is at.
LEMMA Beside ==
  ASSUME Sound, NEW m, Turn(m), NEW i \in DOMAIN program.modules, program.modules[i] \in WorkModules
  PROVE  /\ at \in DOMAIN program.modules /\ program.modules[at] = m /\ i \in Nat /\ at \in Nat
         /\ i # at => program.modules[i] # m /\ (m \in Servers => program.modules[i] \notin Servers)
         /\ mode = "start" /\ i > at => NotBegun(program.modules[i])
         /\ mode = "start" /\ i = at /\ m # "consumer" => NotBegun(m)
         /\ mode = "stop" /\ i > at /\ program.modules[i] \notin forced => AtRest(program.modules[i])
<1>0. WellFormed(program) /\ at \in DOMAIN program.modules /\ program.modules[at] = m
  BY ProgramsWellFormed DEF Sound, Shape, Turn, Module
<1>1. ModuleSound(i)
  BY DEF Sound
<1>2. i # at => program.modules[i] # m /\ (m \in Servers => program.modules[i] \notin Servers)
  BY <1>0 DEF WellFormed
<1>3. i \in Nat /\ at \in Nat
  BY <1>0 DEF WellFormed
<1>. QED
  BY <1>0, <1>1, <1>2, <1>3 DEF ModuleSound, Ahead, Behind

LEMMA StartSteps ==
  ASSUME Inductive, StartClient \/ StartConsumer \/ StartServer \/ StartHttp \/ StartRelay
  PROVE  Sound'
<1>0. Sound /\ Shape /\ mode = "start"
  BY DEF Inductive, Sound, StartClient, StartConsumer, StartServer, StartHttp, StartRelay
<1>1. CASE StartClient
  <2>1. PICK m \in ClientModules : Turn(m)
    BY <1>1 DEF StartClient, ClientModules
  <2>2. Started /\ UNCHANGED <<phase, con, serve, active, down, relay>>
    BY <1>1 DEF StartClient, consumerVars, httpVars
  <2>3. ASSUME NEW i \in DOMAIN program.modules, i > at, program.modules[i] \in WorkModules
        PROVE  NotBegun(program.modules[i])'
    <3>1. NotBegun(program.modules[i])
      BY <1>0, <2>1, <2>3, Beside
    <3>. QED
      BY <2>2, <3>1 DEF NotBegun, Started
  <2>. QED
    BY <1>0, <2>2, <2>3, StartedSound DEF Sound
<1>2. CASE StartConsumer
  <2>0. Turn("consumer") /\ UNCHANGED httpVars
    BY <1>2 DEF StartConsumer
  <2>1. ASSUME NEW i \in DOMAIN program.modules, i > at, program.modules[i] \in WorkModules,
               relay' = relay, program' = program
        PROVE  NotBegun(program.modules[i])'
    <3>1. program.modules[i] # "consumer" /\ NotBegun(program.modules[i])
      BY <1>0, <2>0, <2>1, Beside
    <3>. QED
      BY <2>0, <2>1, <3>1 DEF NotBegun, httpVars
  <2>2. CASE UNCHANGED procVars
    <3>1. ASSUME NEW i \in DOMAIN program.modules, program.modules[i] \in WorkModules
          PROVE  (Ahead(i) => NotBegun(program.modules[i])') /\ ~Behind(i)
      <4>1. i \in Nat /\ at \in Nat /\ program.modules[at] = "consumer"
        BY <1>0, <2>0, <3>1, Beside
      <4>. QED
        BY <1>0, <2>1, <2>2, <3>1, <4>1 DEF Ahead, Behind, procVars
    <3>. QED
      BY <1>0, <2>2, <3>1, StaysSound DEF Sound, procVars
  <2>3. CASE StartReturnsError /\ StartFails
    <3>1. ASSUME NEW i \in DOMAIN program.modules, i >= at, program.modules[i] \in WorkModules
          PROVE  AtRest(program.modules[i])'
      <4>0. i \in Nat /\ at \in Nat /\ program.modules[at] = "consumer"
        BY <1>0, <2>0, <3>1, Beside
      <4>1. CASE i = at
        BY <2>3, <4>0, <4>1 DEF StartReturnsError, StartFails, AtRest, Drained, Servers
      <4>2. CASE i > at
        BY <2>1, <2>3, <3>1, <4>2, NotBegunRests DEF StartFails, NotBegun, AtRest, Drained
      <4>. QED
        BY <3>1, <4>0, <4>1, <4>2
    <3>2. program.modules[at] \in WorkModules
      BY <2>0 DEF Turn, Module, WorkModules
    <3>. QED
      BY <1>0, <2>3, <3>1, <3>2, StartFailsSound DEF Sound
  <2>4. CASE Started /\ relay' = relay
    <3>1. program' = program
      BY <2>4 DEF Started
    <3>. QED
      BY <1>0, <2>1, <2>4, <3>1, StartedSound DEF Sound
  <2>. QED
    BY <1>2, <2>2, <2>3, <2>4 DEF StartConsumer
<1>3. CASE StartServer
  <2>0. Turn("server") /\ UNCHANGED consumerVars /\ relay' = relay /\ program' = program
    BY <1>3 DEF StartServer, StartFails, Started
  <2>1. ASSUME NEW i \in DOMAIN program.modules, i > at, program.modules[i] \in WorkModules
        PROVE  NotBegun(program.modules[i])'
    <3>1. program.modules[i] \notin Servers /\ NotBegun(program.modules[i])
      BY <1>0, <2>0, <2>1, Beside DEF Servers
    <3>. QED
      BY <2>0, <3>1 DEF NotBegun, Started, consumerVars
  <2>2. CASE Started
    BY <1>0, <2>1, <2>2, StartedSound DEF Sound
  <2>3. CASE StartFails /\ UNCHANGED httpVars
    <3>1. ASSUME NEW i \in DOMAIN program.modules, i >= at, program.modules[i] \in WorkModules
          PROVE  AtRest(program.modules[i])'
      <4>0. i \in Nat /\ at \in Nat /\ program.modules[at] = "server"
        BY <1>0, <2>0, <3>1, Beside
      <4>1. NotBegun(program.modules[i])
        BY <1>0, <2>0, <3>1, <4>0, Beside
      <4>2. AtRest(program.modules[i])
        BY <3>1, <4>1, NotBegunRests
      <4>. QED
        BY <2>0, <2>3, <4>2 DEF AtRest, Drained, consumerVars, httpVars
    <3>2. program.modules[at] \in WorkModules
      BY <2>0 DEF Turn, Module, WorkModules, Servers
    <3>. QED
      BY <1>0, <2>3, <3>1, <3>2, StartFailsSound DEF Sound
  <2>. QED
    BY <1>3, <2>2, <2>3 DEF StartServer
<1>4. CASE StartHttp
  <2>0. Turn("http") /\ UNCHANGED consumerVars /\ relay' = relay /\ Started
    BY <1>4 DEF StartHttp
  <2>1. ASSUME NEW i \in DOMAIN program.modules, i > at, program.modules[i] \in WorkModules
        PROVE  NotBegun(program.modules[i])'
    <3>1. program.modules[i] \notin Servers /\ NotBegun(program.modules[i])
      BY <1>0, <2>0, <2>1, Beside DEF Servers
    <3>. QED
      BY <2>0, <3>1 DEF NotBegun, Started, consumerVars
  <2>. QED
    BY <1>0, <2>0, <2>1, StartedSound DEF Sound
<1>5. CASE StartRelay
  <2>0. Turn("relay") /\ UNCHANGED <<consumerVars, httpVars>> /\ Started
    BY <1>5 DEF StartRelay
  <2>1. ASSUME NEW i \in DOMAIN program.modules, i > at, program.modules[i] \in WorkModules
        PROVE  NotBegun(program.modules[i])'
    <3>1. program.modules[i] # "relay" /\ NotBegun(program.modules[i])
      BY <1>0, <2>0, <2>1, Beside
    <3>. QED
      BY <2>0, <3>1 DEF NotBegun, Started, consumerVars, httpVars
  <2>. QED
    BY <1>0, <2>0, <2>1, StartedSound DEF Sound
<1>. QED
  BY <1>1, <1>2, <1>3, <1>4, <1>5

LEMMA StopSteps ==
  ASSUME Inductive, StopClient \/ StopConsumers \/ StopHttp \/ StopRelay
  PROVE  Sound'
<1>0. Sound /\ Shape /\ mode = "stop" /\ program' = program /\ forced \subseteq forced'
  BY DEF Inductive, Sound, StopClient, StopConsumers, StopHttp, StopRelay, Stopped, procVars
<1>1. CASE StopClient
  <2>1. PICK m \in ClientModules : Turn(m) /\ open' = open \ {m}
    BY <1>1 DEF StopClient, ClientModules
  <2>2. Stopped({}) /\ UNCHANGED <<phase, con, serve, active, down, relay>>
    BY <1>1 DEF StopClient, CloseSubscriber, consumerVars, httpVars
  <2>3. ASSUME NEW i \in DOMAIN program.modules, i >= at, program.modules[i] \in WorkModules,
               program.modules[i] \notin forced'
        PROVE  AtRest(program.modules[i])'
    <3>1. program.modules[at] = m /\ i \in Nat /\ at \in Nat /\ m \notin WorkModules
      BY <1>0, <2>1, <2>3, Beside DEF ClientModules, WorkModules, Servers
    <3>2. AtRest(program.modules[i])
      BY <1>0, <2>1, <2>3, <3>1, Beside
    <3>. QED
      BY <1>0, <2>2, <3>2 DEF AtRest, Drained
  <2>. QED
    BY <1>0, <2>1, <2>2, <2>3, StoppedSound DEF Sound
<1>2. CASE StopConsumers
  <2>0. Turn("consumer") /\ UNCHANGED httpVars /\ relay' = relay
    BY <1>2 DEF StopConsumers, procVars
  <2>1. ASSUME NEW i \in DOMAIN program.modules, i > at, program.modules[i] \in WorkModules,
               program.modules[i] \notin forced
        PROVE  AtRest(program.modules[i])'
    <3>1. program.modules[i] # "consumer" /\ AtRest(program.modules[i])
      BY <1>0, <2>0, <2>1, Beside
    <3>. QED
      BY <1>0, <2>0, <3>1 DEF AtRest, httpVars
  <2>2. CASE UNCHANGED procVars
    <3>1. ASSUME NEW i \in DOMAIN program.modules, program.modules[i] \in WorkModules
          PROVE  ~Ahead(i) /\ (Behind(i) /\ program.modules[i] \notin forced => AtRest(program.modules[i])')
      BY <1>0, <2>1, <3>1 DEF Ahead, Behind
    <3>. QED
      BY <1>0, <2>2, <3>1, StaysSound DEF Sound, procVars
  <2>3. ASSUME NEW abandoned, Stopped(abandoned), open' = open, Drained' \/ "consumer" \in abandoned
        PROVE  Sound'
    <3>1. ASSUME NEW i \in DOMAIN program.modules, i >= at, program.modules[i] \in WorkModules,
                 program.modules[i] \notin forced'
          PROVE  AtRest(program.modules[i])'
      <4>0. i \in Nat /\ at \in Nat /\ program.modules[at] = "consumer"
        BY <1>0, <2>0, <3>1, Beside
      <4>1. CASE i = at
        BY <1>0, <2>3, <3>1, <4>0, <4>1 DEF Stopped, AtRest, Servers
      <4>2. CASE i > at
        BY <1>0, <2>1, <3>1, <4>2
      <4>. QED
        BY <3>1, <4>0, <4>1, <4>2
    <3>2. "consumer" \notin ClientModules
      BY DEF ClientModules
    <3>. QED
      BY <1>0, <2>0, <2>3, <3>1, <3>2, StoppedSound DEF Sound
  <2>4. CASE StopReturns /\ Stopped({}) /\ open' = open
    BY <2>3, <2>4 DEF StopReturns, Drained
  <2>5. CASE Stopped({"consumer"}) /\ open' = open
    BY <2>3, <2>5
  <2>. QED
    BY <1>2, <2>2, <2>4, <2>5 DEF StopConsumers
<1>3. CASE StopHttp
  <2>0. UNCHANGED consumerVars /\ relay' = relay
    BY <1>3 DEF StopHttp, procVars
  <2>1. PICK m \in Servers :
          /\ Turn(m)
          /\ \/ Shutdown /\ UNCHANGED procVars
             \/ Quiet /\ Stopped({}) /\ UNCHANGED <<httpVars, open, relay, stopped>>
             \/ down /\ ~Quiet /\ Stopped({m}) /\ UNCHANGED <<httpVars, open, relay, stopped>>
    BY <1>3 DEF StopHttp, Servers
  <2>2. ASSUME NEW i \in DOMAIN program.modules, i > at, program.modules[i] \in WorkModules,
               program.modules[i] \notin forced
        PROVE  AtRest(program.modules[i])'
    <3>1. program.modules[i] \notin Servers /\ AtRest(program.modules[i])
      BY <1>0, <2>1, <2>2, Beside
    <3>. QED
      BY <1>0, <2>0, <3>1 DEF AtRest, Drained, consumerVars
  <2>3. CASE UNCHANGED procVars
    <3>1. ASSUME NEW i \in DOMAIN program.modules, program.modules[i] \in WorkModules
          PROVE  ~Ahead(i) /\ (Behind(i) /\ program.modules[i] \notin forced => AtRest(program.modules[i])')
      BY <1>0, <2>2, <3>1 DEF Ahead, Behind
    <3>. QED
      BY <1>0, <2>3, <3>1, StaysSound DEF Sound, procVars
  <2>4. ASSUME NEW abandoned, Stopped(abandoned), open' = open, Quiet' \/ m \in abandoned
        PROVE  Sound'
    <3>1. ASSUME NEW i \in DOMAIN program.modules, i >= at, program.modules[i] \in WorkModules,
                 program.modules[i] \notin forced'
          PROVE  AtRest(program.modules[i])'
      <4>0. i \in Nat /\ at \in Nat /\ program.modules[at] = m
        BY <1>0, <2>1, <3>1, Beside
      <4>1. CASE i = at
        BY <1>0, <2>4, <3>1, <4>0, <4>1 DEF Stopped, AtRest, Quiet, Servers
      <4>2. CASE i > at
        BY <1>0, <2>2, <3>1, <4>2
      <4>. QED
        BY <3>1, <4>0, <4>1, <4>2
    <3>2. m \notin ClientModules
      BY DEF ClientModules, Servers
    <3>. QED
      BY <1>0, <2>1, <2>4, <3>1, <3>2, StoppedSound DEF Sound
  <2>5. CASE Quiet /\ Stopped({}) /\ UNCHANGED <<httpVars, open>>
    BY <2>4, <2>5 DEF Quiet, httpVars
  <2>6. CASE Stopped({m}) /\ open' = open
    BY <2>4, <2>6
  <2>. QED
    BY <2>1, <2>3, <2>5, <2>6
<1>4. CASE StopRelay
  <2>0. Turn("relay") /\ UNCHANGED <<consumerVars, httpVars>> /\ relay' = relay
    BY <1>4 DEF StopRelay
  <2>1. ASSUME NEW i \in DOMAIN program.modules, i > at, program.modules[i] \in WorkModules,
               program.modules[i] \notin forced
        PROVE  AtRest(program.modules[i])'
    <3>1. AtRest(program.modules[i])
      BY <1>0, <2>0, <2>1, Beside
    <3>. QED
      BY <1>0, <2>0, <3>1 DEF AtRest, Drained, consumerVars, httpVars
  <2>2. CASE UNCHANGED <<program, mode, at, open, forced>>
    <3>1. ASSUME NEW i \in DOMAIN program.modules, program.modules[i] \in WorkModules
          PROVE  ~Ahead(i) /\ (Behind(i) /\ program.modules[i] \notin forced => AtRest(program.modules[i])')
      BY <1>0, <2>1, <3>1 DEF Ahead, Behind
    <3>. QED
      BY <1>0, <2>2, <3>1, StaysSound DEF Sound
  <2>3. ASSUME NEW abandoned, Stopped(abandoned), open' = open, relay' = "done" \/ "relay" \in abandoned
        PROVE  Sound'
    <3>1. ASSUME NEW i \in DOMAIN program.modules, i >= at, program.modules[i] \in WorkModules,
                 program.modules[i] \notin forced'
          PROVE  AtRest(program.modules[i])'
      <4>0. i \in Nat /\ at \in Nat /\ program.modules[at] = "relay"
        BY <1>0, <2>0, <3>1, Beside
      <4>1. CASE i = at
        BY <1>0, <2>3, <3>1, <4>0, <4>1 DEF Stopped, AtRest, Servers
      <4>2. CASE i > at
        BY <1>0, <2>1, <3>1, <4>2
      <4>. QED
        BY <3>1, <4>0, <4>1, <4>2
    <3>2. "relay" \notin ClientModules
      BY DEF ClientModules
    <3>. QED
      BY <1>0, <2>0, <2>3, <3>1, <3>2, StoppedSound DEF Sound
  <2>4. CASE relay = "done" /\ Stopped({}) /\ open' = open
    BY <2>0, <2>3, <2>4
  <2>5. CASE Stopped({"relay"}) /\ open' = open
    BY <2>3, <2>5
  <2>. QED
    BY <1>4, <2>2, <2>4, <2>5 DEF StopRelay
<1>. QED
  BY <1>1, <1>2, <1>3, <1>4

LEMMA RunSteps ==
  ASSUME Inductive, Setup \/ SetupFails \/ Signal \/ Return \/ Exit
  PROVE  Sound'
<1>0. /\ Shape /\ WellFormed(program)
      /\ Len(program.modules) \in Nat /\ DOMAIN program.modules = 1..Len(program.modules)
      /\ Len(program.setup) \in Nat /\ DOMAIN program.setup = 1..Len(program.setup)
      /\ Len(program.modules) > 0
  BY ProgramsWellFormed DEF Inductive, Shape, WellFormed
<1>1. UNCHANGED <<consumerVars, httpVars, program, forced, relay>>
  BY DEF Setup, SetupFails, Signal, Return, Exit
<1>2. Shape'
  <2>1. CASE Setup
    <3>0. /\ at \in 1..Len(program.setup) /\ open = {program.setup[k] : k \in 1..(at - 1)} /\ program' = program
      BY <1>0, <1>1, <2>1 DEF Setup, Shape
    <3>1. open' = {program.setup[k] : k \in 1..at}
      BY <2>1, <3>0 DEF Setup
    <3>2. CASE at = Len(program.setup)
      BY <1>0, <2>1, <3>0, <3>1, <3>2 DEF Setup, Shape, Opened
    <3>3. CASE at # Len(program.setup)
      BY <1>0, <2>1, <3>0, <3>1, <3>3 DEF Setup, Shape, Opened
    <3>. QED
      BY <3>2, <3>3
  <2>2. CASE SetupFails
    BY <1>0, <2>2 DEF SetupFails, Shape
  <2>3. CASE Signal
    <3>1. \A x \in Opened : x = "pool" \/ \E h \in 1..Len(program.modules) : program.modules[h] = x
      BY <1>0 DEF WellFormed, Opened
    <3>2. open = {x \in Opened : x = "pool" \/ \E h \in 1..at : program.modules[h] = x}
      BY <1>0, <2>3, <3>1 DEF Signal, Shape
    <3>. QED
      BY <1>0, <2>3, <3>2 DEF Signal, Shape, Opened
  <2>4. CASE Return
    <3>1. open' = {}
      BY <1>0, <2>4 DEF Return, Shape
    <3>. QED
      BY <1>0, <2>4, <3>1 DEF Return, Shape
  <2>5. CASE Exit
    BY <1>0, <2>5 DEF Exit, Shape
  <2>. QED
    BY <2>1, <2>2, <2>3, <2>4, <2>5
<1>3. ASSUME NEW i \in DOMAIN program.modules PROVE ModuleSound(i)'
  <2>1. ModuleSound(i)
    BY DEF Inductive
  <2>2. program.modules[i] \in WorkModules /\ Ahead(i)' => Ahead(i)
    BY DEF Setup, SetupFails, Signal, Return, Exit, Ahead
  <2>3. Behind(i)' => Behind(i)
    BY <1>0 DEF Setup, SetupFails, Signal, Return, Exit, Behind, Shape
  <2>. QED
    BY <1>1, <2>1, <2>2, <2>3 DEF ModuleSound, NotBegun, AtRest, Drained, consumerVars, httpVars
<1>. QED
  BY <1>1, <1>2, <1>3 DEF Sound

LEMMA InductiveInit == Init => Inductive
<1>. SUFFICES ASSUME Init PROVE Inductive
  OBVIOUS
<1>0. program \in Programs /\ WellFormed(program)
  BY ProgramsWellFormed DEF Init, Programs
<1>1. ConsumerInv /\ HttpInv /\ InboxInv
  BY ConsumerInitInv, HttpInitInv, InboxInitInv DEF Init
<1>2. Shape
  <2>1. 1 \in DOMAIN program.setup /\ 1..(1 - 1) = {}
    BY <1>0 DEF WellFormed
  <2>. QED
    BY <1>0, <2>1 DEF Init, Shape
<1>3. ASSUME NEW i \in DOMAIN program.modules PROVE ModuleSound(i)
  BY DEF Init, ConsumerInit, HttpInit, ModuleSound, Behind, NotBegun
<1>. QED
  BY <1>1, <1>2, <1>3 DEF Inductive

LEMMA InductiveNext == Inductive /\ [Next]_vars => Inductive'
<1>. SUFFICES ASSUME Inductive, [Next]_vars PROVE Inductive'
  OBVIOUS
<1>1. ConsumerInv' /\ InboxInv' /\ HttpInv'
  BY ComponentsKeep
<1>2. CASE Work
  <2>0. UNCHANGED <<program, mode, at, open, forced>>
    BY <1>2 DEF Work, procVars, RelayLoop, RelayEnds
  <2>1. \A m \in WorkModules : (NotBegun(m) => NotBegun(m)') /\ (AtRest(m) => AtRest(m)')
    BY <1>2, WorkKeeps
  <2>2. ASSUME NEW i \in DOMAIN program.modules, program.modules[i] \in WorkModules
        PROVE  /\ Ahead(i) => NotBegun(program.modules[i])'
               /\ Behind(i) /\ program.modules[i] \notin forced => AtRest(program.modules[i])'
    <3>1. PICK m \in WorkModules : m = program.modules[i]
      BY <2>2
    <3>2. /\ Ahead(i) => NotBegun(m)'
          /\ Behind(i) /\ m \notin forced => AtRest(m)'
      BY <2>1, <3>1 DEF Inductive, ModuleSound
    <3>3. (NotBegun(m)' => NotBegun(program.modules[i])') /\ (AtRest(m)' => AtRest(program.modules[i])')
      BY <2>0, <3>1 DEF NotBegun, AtRest
    <3>. QED
      BY <3>1, <3>2, <3>3
  <2>. QED
    BY <1>1, <2>0, <2>2, StaysSound DEF Inductive
<1>3. CASE UNCHANGED vars
  <2>1. Shape' /\ program' = program
    BY <1>3 DEF Inductive, vars, procVars, Shape, Opened
  <2>2. ASSUME NEW i \in DOMAIN program.modules PROVE ModuleSound(i)'
    BY <1>3 DEF Inductive, vars, procVars, consumerVars, httpVars, ModuleSound, Ahead, Behind, NotBegun, AtRest, Drained
  <2>. QED
    BY <1>1, <2>1, <2>2 DEF Inductive
<1>. QED
  BY <1>1, <1>2, <1>3, StartSteps, StopSteps, RunSteps DEF Next, Bootstrap, Sound, Inductive

LEMMA InductiveHolds == Spec => []Inductive
BY InductiveInit, InductiveNext, PTL DEF Spec

-----------------------------------------------------------------------------
(* Theorems                                                                *)

\* Start and Stop of the consumer group: when Stop returned nil, and when Start
\* returned an error, no goroutine of any topic is left.
THEOREM EndsAreClean == Spec => []EndedIsClean
<1>1. Inductive => EndedIsClean
  BY DEF Inductive, ConsumerInv
<1>. QED
  BY <1>1, InductiveHolds, PTL

\* processEnvelope: only messages whose handler returned nil are acknowledged.
THEOREM AcknowledgedWereHandled == Spec => []AcknowledgedIsHandled
<1>1. Inductive => AcknowledgedIsHandled
  BY DEF Inductive, ConsumerInv
<1>. QED
  BY <1>1, InductiveHolds, PTL

\* The message watermill waits for is always with a goroutine that will Ack or
\* Nack it, across hand-over, cancellation and panic.
THEOREM EveryMessageIsHeld == Spec => []NobodyForgets
<1>1. Inductive => NobodyForgets
  BY DEF Inductive, ConsumerInv, TopicSound, NobodyForgets
<1>. QED
  BY <1>1, InductiveHolds, PTL

\* Seen and Record: the inbox lets a key be handled again only when it forgot
\* it or when two callers overlapped, and its map respects MaxSize.
THEOREM DuplicatesAreExcused == Spec => []DuplicatesExcused
<1>1. Inductive => DuplicatesExcused
  BY InboxInvSuffices DEF Inductive
<1>. QED
  BY <1>1, InductiveHolds, PTL

\* The order of Use in the commands: in each of the programs no module works
\* with a client that was closed under it, unless its Stop gave up waiting, and
\* run returns with everything closed.
THEOREM ClientsOutliveTheirUsers == Spec => []ClosedAfterUse
<1>1. ASSUME Inductive PROVE ClosedAfterUse
  <2>0. Shape /\ HttpInv /\ program \in Programs
    BY <1>1 DEF Inductive, Shape
  <2>1. mode = "exit" => open = {}
    BY <2>0 DEF Shape
  <2>2. ASSUME NEW i \in DOMAIN program.modules, NEW m, m = program.modules[i],
               Alive, m \in DOMAIN Uses, Working(m), m \notin forced
        PROVE  /\ \A j \in DOMAIN program.setup : program.setup[j] \in Uses[m] => program.setup[j] \in open
               /\ mode \in {"stop", "return"} => at >= i
    <3>0. /\ WellFormed(program) /\ m \in WorkModules /\ i \in Nat /\ at \in Nat
      BY <2>0, <2>2, ProgramsWellFormed DEF WellFormed, Uses, WorkModules, Servers, Shape
    <3>1. ~AtRest(m)
      BY <2>0, <2>2, <3>0 DEF Working, AtRest, Drained, WorkModules, Servers, HttpInv
    <3>2. ~Behind(i)
      BY <1>1, <2>2, <3>0, <3>1 DEF Inductive, ModuleSound
    <3>3. mode \in {"stop", "return"} => at >= i
      BY <3>0, <3>2 DEF Behind
    <3>4. ASSUME NEW j \in DOMAIN program.setup PROVE program.setup[j] \in open
      <4>1. program.setup[j] \in Opened
        BY DEF Opened
      <4>2. CASE mode \in {"start", "run"}
        BY <2>0, <4>1, <4>2 DEF Shape
      <4>3. CASE mode = "stop"
        <5>1. program.setup[j] = "pool" \/ \E h \in 1..(i - 1) : program.modules[h] = program.setup[j]
          BY <2>2, <3>0 DEF WellFormed
        <5>2. \A h \in 1..(i - 1) : h \in 1..at
          BY <3>0, <3>3, <4>3
        <5>. QED
          BY <2>0, <4>1, <4>3, <5>1, <5>2 DEF Shape
      <4>4. mode # "return"
        <5>1. i >= 1
          BY <3>0 DEF WellFormed
        <5>. QED
          BY <2>0, <3>0, <3>3, <5>1 DEF Shape
      <4>. QED
        BY <2>2, <4>2, <4>3, <4>4 DEF Alive
    <3>. QED
      BY <3>3, <3>4
  <2>. QED
    BY <2>1, <2>2 DEF ClosedAfterUse
<1>. QED
  BY <1>1, InductiveHolds, PTL
=============================================================================
