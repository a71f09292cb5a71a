------------------------------- MODULE Process ------------------------------
(***************************************************************************)
(* One process from run() to its exit: setup opens the clients, bootstrap  *)
(* (external) starts the modules one after another in the order of Use and *)
(* stops them in reverse, each Stop bounded by the shutdown context; the   *)
(* deferred pool.Close comes last.  The programs are the four commands of  *)
(* the orders example and a projector put together from the repository's   *)
(* README: a consumer group whose handler deduplicates through the inbox,  *)
(* and the stdlib HTTP server.  Inside run the goroutines of               *)
(* KafkaConsumer, HttpServer and the relay loop.                           *)
(***************************************************************************)
EXTENDS KafkaConsumer, HttpServer, Inbox

CONSTANT EventOf   \* the event of each message: the relay may publish it twice

ASSUME ProcessAssumption == EventOf \in [Topics \X (1..Messages) -> Keys] /\ Callers = Topics

\* What run() opens, in order; the modules, in the order of Use; the topics.
api == [setup |-> <<"otel", "pool">>,
        modules |-> <<"otel", "http">>, topics |-> <<>>]
worker == [setup |-> <<"otel", "pool", "subscriber">>,
           modules |-> <<"otel", "subscriber", "consumer">>, topics |-> <<"placed">>]
relayCmd == [setup |-> <<"otel", "pool", "publisher">>,
             modules |-> <<"otel", "publisher", "relay">>, topics |-> <<>>]

\* Mutation: the consumers are registered before the subscriber they use.
readerMisordered ==
  [setup |-> <<"otel", "subscriber">>,
   modules |-> <<"otel", "consumer", "subscriber", "http">>, topics |-> <<"placed", "shipped">>]

reader == [setup |-> <<"otel", "subscriber">>,
           modules |-> <<"otel", "subscriber", "consumer", "http">>, topics |-> <<"placed", "shipped">>]
projector == [setup |-> <<"otel", "subscriber">>,
              modules |-> <<"otel", "subscriber", "consumer">>, topics |-> <<"placed", "shipped">>]
service == [setup |-> <<"otel">>, modules |-> <<"otel", "server">>, topics |-> <<>>]

\* What the work of a module needs open.
Uses == [consumer |-> {"otel", "pool", "subscriber"}, http |-> {"otel", "pool"},
         server |-> {"otel"}, relay |-> {"otel", "pool", "publisher"}]

VARIABLES program,   \* one of the records above
          mode,      \* "setup", "start", "run", "stop", "return" or "exit"
          at,        \* the setup step, or the module bootstrap is at
          open,      \* the clients that are open
          forced,    \* the modules whose Stop gave up waiting
          relay,     \* the relay loop: "none", "idle", "busy" or "done"
          stopped    \* the relay's run context was cancelled

procVars == <<program, mode, at, open, forced, relay, stopped>>
vars == <<consumerVars, httpVars, inboxVars, procVars>>

Init ==
  /\ program \in {api, worker, relayCmd, reader, projector, service}
  /\ mode = "setup"
  /\ at = 1
  /\ open = {}
  /\ forced = {}
  /\ relay = "none"
  /\ stopped = FALSE
  /\ ConsumerInit(program.topics)
  /\ HttpInit
  /\ InboxInit

-----------------------------------------------------------------------------
(* run() and bootstrap                                                     *)

\* One constructor of run() after another.
Setup ==
  /\ mode = "setup"
  /\ open' = open \cup {program.setup[at]}
  /\ at' = IF at = Len(program.setup) THEN 1 ELSE at + 1
  /\ mode' = IF at = Len(program.setup) THEN "start" ELSE "setup"
  /\ UNCHANGED <<consumerVars, httpVars, inboxVars, program, forced, relay, stopped>>

\* A constructor fails: run returns, closing the pool and nothing else.
SetupFails ==
  /\ mode = "setup"
  /\ open' = open \ {"pool"}
  /\ mode' = "failed"
  /\ UNCHANGED <<consumerVars, httpVars, inboxVars, program, at, forced, relay, stopped>>

Module == program.modules[at]

Turn(m) == at \in DOMAIN program.modules /\ Module = m

\* Start of the current module returned nil.
Started ==
  /\ at' = IF at = Len(program.modules) THEN at ELSE at + 1
  /\ mode' = IF at = Len(program.modules) THEN "run" ELSE "start"
  /\ UNCHANGED <<program, open, forced>>

\* Start of the current module failed: the ones before it are stopped.
StartFails ==
  /\ at' = at - 1
  /\ mode' = "stop"
  /\ UNCHANGED <<program, open, forced, relay, stopped>>

\* Stop of the current module returned; one that gave up waiting is abandoned.
Stopped(abandoned) ==
  /\ at' = at - 1
  /\ forced' = forced \cup abandoned
  /\ UNCHANGED <<program, mode>>

StartClient ==
  /\ mode = "start"
  /\ \E m \in {"otel", "subscriber", "publisher"} : Turn(m)
  /\ Started
  /\ UNCHANGED <<consumerVars, httpVars, inboxVars, relay, stopped>>

StartConsumer ==
  /\ mode = "start"
  /\ Turn("consumer")
  /\ \/ /\ \E t \in Topics : Subscribe(t) \/ SubscribeFails(t)
        /\ UNCHANGED procVars
     \/ StartReturnsError /\ StartFails
     \/ phase = "started" /\ Started /\ UNCHANGED <<consumerVars, relay, stopped>>
  /\ UNCHANGED <<httpVars, inboxVars>>

StartServer ==
  /\ mode = "start"
  /\ Turn("server")
  /\ \/ StartBound /\ Started /\ UNCHANGED <<relay, stopped>>
     \/ StartFails /\ UNCHANGED httpVars
  /\ UNCHANGED <<consumerVars, inboxVars>>

StartHttp ==
  /\ mode = "start"
  /\ Turn("http")
  /\ StartUnbound
  /\ Started
  /\ UNCHANGED <<consumerVars, inboxVars, relay, stopped>>

StartRelay ==
  /\ mode = "start"
  /\ Turn("relay")
  /\ relay' = "idle"
  /\ Started
  /\ UNCHANGED <<consumerVars, httpVars, inboxVars, stopped>>

\* The process is asked to end.
Signal ==
  /\ mode = "run"
  /\ mode' = "stop"
  /\ UNCHANGED <<consumerVars, httpVars, inboxVars, program, at, open, forced, relay, stopped>>

StopClient ==
  /\ mode = "stop"
  /\ \E m \in {"otel", "subscriber", "publisher"} :
       /\ Turn(m)
       /\ open' = open \ {m}
       /\ IF m = "subscriber" THEN CloseSubscriber ELSE UNCHANGED consumerVars
  /\ Stopped({})
  /\ UNCHANGED <<httpVars, inboxVars, relay, stopped>>

StopConsumers ==
  /\ mode = "stop"
  /\ Turn("consumer")
  /\ \/ StopConsumer /\ UNCHANGED procVars
     \/ StopReturns /\ Stopped({}) /\ UNCHANGED <<open, relay, stopped>>
     \/ StopDeadline /\ Stopped({"consumer"}) /\ UNCHANGED <<open, relay, stopped>>
  /\ UNCHANGED <<httpVars, inboxVars>>

StopHttp ==
  /\ mode = "stop"
  /\ \E m \in {"http", "server"} :
       /\ Turn(m)
       /\ \/ Shutdown /\ UNCHANGED procVars
          \/ Quiet /\ Stopped({}) /\ UNCHANGED <<httpVars, open, relay, stopped>>
          \/ down /\ ~Quiet /\ Stopped({m}) /\ UNCHANGED <<httpVars, open, relay, stopped>>
  /\ UNCHANGED <<consumerVars, inboxVars>>

StopRelay ==
  /\ mode = "stop"
  /\ Turn("relay")
  /\ \/ ~stopped /\ stopped' = TRUE /\ UNCHANGED <<program, mode, at, open, forced>>
     \/ stopped /\ relay = "done" /\ Stopped({}) /\ UNCHANGED <<open, stopped>>
     \/ stopped /\ relay # "done" /\ Stopped({"relay"}) /\ UNCHANGED <<open, stopped>>
  /\ UNCHANGED <<consumerVars, httpVars, inboxVars, relay>>

\* App.Run returns and run's deferred pool.Close runs; then the process ends.
Return ==
  /\ mode = "stop" /\ at = 0
  /\ mode' = "return"
  /\ open' = open \ {"pool"}
  /\ UNCHANGED <<consumerVars, httpVars, inboxVars, program, at, forced, relay, stopped>>

Exit ==
  /\ mode = "return"
  /\ mode' = "exit"
  /\ UNCHANGED <<consumerVars, httpVars, inboxVars, program, at, open, forced, relay, stopped>>

-----------------------------------------------------------------------------
(* Goroutines                                                              *)

Alive == mode \in {"start", "run", "stop", "return"}

Event(t) == EventOf[<<t, Message(t)>>]

\* The handler: one call in the examples; Seen, work and Record in projector.
Handle(t) ==
  \/ /\ program # projector
     /\ HandleOk(t)
     /\ UNCHANGED inboxVars
  \/ /\ program = projector
     /\ \/ con[t] = "handle" /\ SeenFalse(t, Event(t)) /\ UNCHANGED consumerVars
        \/ con[t] = "handle" /\ working[t] = {} /\ Seen(Event(t)) /\ HandleOk(t) /\ UNCHANGED inboxVars
        \/ HandleOk(t) /\ Record(t)
  \/ HandleErr(t) /\ GiveUp(t)
  \/ ConsumerEnds(t) /\ UNCHANGED inboxVars

Goroutine(t) == (Resend(t) \/ Pump(t) \/ Close(t)) /\ UNCHANGED inboxVars

RelayLoop ==
  /\ \/ relay = "idle" /\ relay' = "busy"
     \/ relay = "busy" /\ relay' = "idle"
  /\ UNCHANGED <<program, mode, at, open, forced, stopped>>

RelayEnds ==
  /\ relay = "idle" /\ stopped
  /\ relay' = "done"
  /\ UNCHANGED <<program, mode, at, open, forced, stopped>>

Work ==
  /\ Alive
  /\ \/ \E t \in Topics : (Goroutine(t) \/ Handle(t)) /\ UNCHANGED <<httpVars, procVars>>
     \/ (Listen \/ Serve \/ Accept \/ Answered \/ ServeReturns) /\ UNCHANGED <<consumerVars, inboxVars, procVars>>
     \/ (RelayLoop \/ RelayEnds) /\ UNCHANGED <<consumerVars, httpVars, inboxVars>>
     \/ InboxTick /\ program = projector /\ UNCHANGED <<consumerVars, httpVars, procVars>>

Bootstrap ==
  \/ StartClient \/ StartConsumer \/ StartServer \/ StartHttp \/ StartRelay
  \/ StopClient \/ StopConsumers \/ StopHttp \/ StopRelay \/ Return \/ Exit

Next == Setup \/ SetupFails \/ Bootstrap \/ Signal \/ Work

Spec == Init /\ [][Next]_vars

\* run and bootstrap proceed, goroutines run, handlers and requests end, and a
\* select whose context is done takes that case in the end, since it picks
\* among the ready ones at random.  Nobody is obliged to send the signal, and
\* no Stop may count on its deadline.
OnTime == forced' = forced

Fairness ==
  /\ WF_vars((Setup \/ Bootstrap) /\ OnTime)
  /\ \A t \in Topics :
       /\ WF_vars(Alive /\ (Goroutine(t) \/ Handle(t)) /\ UNCHANGED <<httpVars, procVars>>)
       /\ WF_vars(Alive /\ Close(t) /\ UNCHANGED <<httpVars, inboxVars, procVars>>)
  /\ WF_vars(Alive /\ Answered /\ UNCHANGED <<consumerVars, inboxVars, procVars>>)
  /\ WF_vars(Alive /\ RelayLoop /\ UNCHANGED <<consumerVars, httpVars, inboxVars>>)
  /\ SF_vars(Alive /\ RelayEnds /\ UNCHANGED <<consumerVars, httpVars, inboxVars>>)

FairSpec == Spec /\ Fairness

-----------------------------------------------------------------------------
(* Properties                                                              *)

Working(m) ==
  CASE m = "consumer" -> \E t \in Topics : con[t] = "handle"
    [] m = "relay" -> relay = "busy"
    [] OTHER -> active > 0

\* "Stop order (reverse Use)": no handler, request or relay batch is at work
\* while a client it uses is closed, the pool and the exporter included, unless
\* the Stop of its module gave up waiting for it.  A Stop that returned in time
\* leaves nothing at work and nothing begins afterwards.  Whatever module failed
\* to start and whatever Stop ran into its deadline, run returns with every
\* client closed.
ClosedAfterUse ==
  /\ mode = "exit" => open = {}
  /\ \A i \in DOMAIN program.modules :
       LET m == program.modules[i] IN
       Alive /\ m \in DOMAIN Uses /\ Working(m) /\ m \notin forced =>
         /\ \A j \in DOMAIN program.setup : program.setup[j] \in Uses[m] => program.setup[j] \in open
         /\ mode \in {"stop", "return"} => at >= i

\* Shutting down ends without the help of a deadline: no Stop hook waits for
\* ever for a goroutine, whichever module failed to start or was at work.
ShutdownCompletes ==
  mode = "stop" \/ phase = "failing" ~> mode = "exit"
=============================================================================
