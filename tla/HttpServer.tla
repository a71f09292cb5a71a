----------------------------- MODULE HttpServer -----------------------------
(***************************************************************************)
(* The HTTP server modules: transport/http/stdlib binds its socket in      *)
(* Start and serves in a goroutine; the HTTPModule of the examples binds   *)
(* in the goroutine as well.  Both stop through http.Server.Shutdown,      *)
(* which is external: it closes the listeners Serve has registered, refuses*)
(* later calls of Serve, and waits for the requests in progress.           *)
(***************************************************************************)
EXTENDS Integers

CONSTANT MaxRequests   \* bound on the requests in progress at a time

ASSUME HttpAssumption == MaxRequests \in Nat

VARIABLES listener,   \* "none", "open" or "closed"
          serve,      \* the goroutine that calls ListenAndServe or Serve
          down,       \* Shutdown was called
          active      \* requests in progress

httpVars == <<listener, serve, down, active>>

HttpInit ==
  /\ listener = "none"
  /\ serve = "none"
  /\ down = FALSE
  /\ active = 0

\* start: the socket is bound before Start returns.
StartBound ==
  /\ serve = "none"
  /\ listener' = "open"
  /\ serve' = "serve"
  /\ UNCHANGED <<down, active>>

\* HTTPModule: Start only launches the goroutine.
StartUnbound ==
  /\ serve = "none"
  /\ serve' = "listen"
  /\ UNCHANGED <<listener, down, active>>

\* The goroutine: net.Listen within ListenAndServe; an error is only logged.
Listen ==
  /\ serve = "listen"
  /\ \/ ~down /\ listener' = "open" /\ serve' = "serve"
     \/ serve' = "ended" /\ UNCHANGED listener
  /\ UNCHANGED <<down, active>>

\* Serve registers the listener, or finds the server shut down and closes it.
Serve ==
  /\ serve = "serve"
  /\ IF down THEN serve' = "ended" /\ listener' = "closed"
             ELSE serve' = "accept" /\ UNCHANGED listener
  /\ UNCHANGED <<down, active>>

Accept ==
  /\ serve = "accept"
  /\ listener = "open"
  /\ active < MaxRequests
  /\ active' = active + 1
  /\ UNCHANGED <<listener, serve, down>>

Answered ==
  /\ active > 0
  /\ active' = active - 1
  /\ UNCHANGED <<listener, serve, down>>

\* Serve returns: ErrServerClosed, or an error of the socket, only logged.
ServeReturns ==
  /\ serve = "accept"
  /\ serve' = "ended"
  /\ listener' = "closed"
  /\ UNCHANGED <<down, active>>

\* stop: Shutdown closes a listener that Serve has registered.
Shutdown ==
  /\ ~down
  /\ down' = TRUE
  /\ listener' = IF serve = "accept" THEN "closed" ELSE listener
  /\ UNCHANGED <<serve, active>>

\* Shutdown returns nil.
Quiet == down /\ active = 0
=============================================================================
