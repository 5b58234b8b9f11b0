------------------------------ MODULE Lifecycle ------------------------------
(***************************************************************************)
(* The life of the process: main and its application goroutine             *)
(* (cmd/main.go), the HTTP server with its signal and deadline goroutines  *)
(* (internal/web/server.go), the store's collector, and the requests.      *)
(*                                                                         *)
(* log.Fatal ends the process at once, without running what was deferred.  *)
(* http.Server is a library: its Shutdown closes the listener at once, so  *)
(* that ListenAndServe returns, and itself returns when no request is left *)
(* or its context is done.                                                 *)
(***************************************************************************)
CONSTANT Requests    \* HTTP requests, each made at most once

VARIABLES
  app,        \* the application goroutine, see Init
  main,       \* the main goroutine: "wait"s, "sleep"s a second
  sig,        \* the signal goroutine of setupContextWithShutdown
  pending,    \* a signal is in its channel, which holds one
  closed,     \* Shutdown has closed the listener
  deadline,   \* of stopCtx: "none" yet, "armed", "expired"
  stopped,    \* the server's context is cancelled
  cancelled,  \* the root context is cancelled
  collector,  \* the collector goroutine of the store: "runs", "ended"
  request,    \* of each request: "new", "active", "done"
  exit        \* how the process ended: "no", or the reason

vars == <<app, main, sig, pending, closed, deadline, stopped, cancelled,
          collector, request, exit>>

Init ==
  /\ app = "boot"       \* then "start", "listen", "await", "end"
  /\ main = "wait"
  /\ sig = "none"       \* then "wait", "close", "drain", "drained", "end"
  /\ pending = FALSE
  /\ closed = FALSE
  /\ deadline = "none"
  /\ stopped = FALSE
  /\ cancelled = FALSE
  /\ collector = "runs"
  /\ request = [r \in Requests |-> "new"]
  /\ exit = "no"

Alive == exit = "no"

\* os.Exit, or a crash: no goroutine goes on.
Exit(why) ==
  /\ exit' = why
  /\ UNCHANGED <<app, main, sig, pending, closed, deadline, stopped, cancelled,
                 collector, request>>

-----------------------------------------------------------------------------
(* The application goroutine *)

Booting == Alive /\ app = "boot"

\* log.Fatal on the way.
BootFatal == Booting /\ Exit("boot failed")

\* A panic crashes the process, after running the deferred shutdown().
BootPanic ==
  /\ Booting
  /\ exit' = "panic" /\ cancelled' = TRUE
  /\ UNCHANGED <<app, main, sig, pending, closed, deadline, stopped, collector,
                 request>>

\* All is set up: startCore has called signal.Notify and starts to listen.
BootDone ==
  /\ Booting
  /\ app' = "start" /\ sig' = "wait"
  /\ UNCHANGED <<main, pending, closed, deadline, stopped, cancelled, collector,
                 request, exit>>

\* Services, configuration and routes are set up: RouterBoot has the steps.
Boot == BootFatal \/ BootPanic \/ BootDone

\* ListenAndServe opens the listener, fails to, or finds the server shut down.
Listen ==
  /\ Alive /\ app = "start"
  /\ \/ ~closed /\ Exit("listen failed")
     \/ /\ app' = IF closed THEN "await" ELSE "listen"
        /\ UNCHANGED <<main, sig, pending, closed, deadline, stopped, cancelled,
                       collector, request, exit>>

\* ListenAndServe returns ErrServerClosed.
ServerClosed ==
  /\ Alive /\ app = "listen" /\ closed
  /\ app' = "await"
  /\ UNCHANGED <<main, sig, pending, closed, deadline, stopped, cancelled,
                 collector, request, exit>>

\* The listener fails while it is open, and ListenAndServe returns that error.
ServeFails ==
  /\ Alive /\ app = "listen" /\ ~closed
  /\ Exit("listen failed")

\* Mutated: nobody waits for the server's context.
FinishEarly ==
  /\ Alive /\ app = "await"
  /\ app' = "end" /\ cancelled' = TRUE
  /\ UNCHANGED <<main, sig, pending, closed, deadline, stopped, collector,
                 request, exit>>

\* startCore waits for the server's context; then everything returns, and the
\* deferred shutdown() cancels the root context.
Finish ==
  /\ Alive /\ app = "await" /\ stopped
  /\ app' = "end" /\ cancelled' = TRUE
  /\ UNCHANGED <<main, sig, pending, closed, deadline, stopped, collector,
                 request, exit>>

-----------------------------------------------------------------------------
(* The signal goroutine, and the one that watches its deadline *)

\* Mutated: Shutdown is given a context without a deadline.
ReceiveSignalForever ==
  /\ Alive /\ sig = "wait" /\ pending
  /\ pending' = FALSE
  /\ sig' = "close"
  /\ UNCHANGED <<app, main, closed, deadline, stopped, cancelled, collector,
                 request, exit>>

\* The first signal is received, and the time for the shutdown starts to run.
ReceiveSignal ==
  /\ Alive /\ sig = "wait" /\ pending
  /\ pending' = FALSE
  /\ sig' = "close"
  /\ deadline' = "armed"
  /\ UNCHANGED <<app, main, closed, stopped, cancelled, collector, request, exit>>

CloseListener ==
  /\ Alive /\ sig = "close"
  /\ sig' = "drain" /\ closed' = TRUE
  /\ UNCHANGED <<app, main, pending, deadline, stopped, cancelled, collector,
                 request, exit>>

\* Shutdown returns once no request is active: nil, or the error of closing the
\* listener.  Before that it may return the context's error.
Drain ==
  /\ Alive /\ sig = "drain"
  /\ \/ /\ \A r \in Requests : request[r] # "active"
        /\ sig' = "drained"
        /\ UNCHANGED <<app, main, pending, closed, deadline, stopped, cancelled,
                       collector, request, exit>>
     \/ /\ deadline = "expired" \/ \A r \in Requests : request[r] # "active"
        /\ Exit("shutdown failed")

\* stop() cancels the server's context.
Stop ==
  /\ Alive /\ sig = "drained"
  /\ sig' = "end" /\ stopped' = TRUE
  /\ UNCHANGED <<app, main, pending, closed, deadline, cancelled, collector,
                 request, exit>>

\* Time runs out, unless stopCtx was cancelled with the server's context.
Expire ==
  /\ Alive /\ deadline = "armed" /\ ~stopped
  /\ deadline' = "expired"
  /\ UNCHANGED <<app, main, sig, pending, closed, stopped, cancelled, collector,
                 request, exit>>

\* The watcher sees stopCtx done, its deadline exceeded.
TimeOut ==
  /\ Alive /\ deadline = "expired"
  /\ Exit("timed out")

-----------------------------------------------------------------------------
(* The main goroutine, the collector, the requests and the signals *)

Wake ==
  /\ Alive /\ main = "wait" /\ cancelled
  /\ main' = "sleep"
  /\ UNCHANGED <<app, sig, pending, closed, deadline, stopped, cancelled,
                 collector, request, exit>>

Return == Alive /\ main = "sleep" /\ Exit("clean")

EndCollector ==
  /\ Alive /\ collector = "runs" /\ cancelled
  /\ collector' = "ended"
  /\ UNCHANGED <<app, main, sig, pending, closed, deadline, stopped, cancelled,
                 request, exit>>

\* A request comes in on a new connection, or during the shutdown on one that
\* was kept alive.
Accept(r) ==
  /\ Alive /\ request[r] = "new"
  /\ \/ app = "listen" /\ ~closed
     \/ sig = "drain" /\ \E q \in Requests : request[q] # "new"
  /\ request' = [request EXCEPT ![r] = "active"]
  /\ UNCHANGED <<app, main, sig, pending, closed, deadline, stopped, cancelled,
                 collector, exit>>

Answer(r) ==
  /\ Alive /\ request[r] = "active"
  /\ request' = [request EXCEPT ![r] = "done"]
  /\ UNCHANGED <<app, main, sig, pending, closed, deadline, stopped, cancelled,
                 collector, exit>>

\* SIGINT or SIGTERM: it kills the process before signal.Notify; after that it
\* goes to the channel, or is dropped when one is there already.
Signal ==
  /\ Alive
  /\ \/ sig = "none" /\ Exit("killed")
     \/ /\ sig # "none" /\ pending' = TRUE
        /\ UNCHANGED <<app, main, sig, closed, deadline, stopped, cancelled,
                       collector, request, exit>>

-----------------------------------------------------------------------------

Application == Boot \/ Listen \/ ServerClosed \/ Finish
Signalling  == ReceiveSignal \/ CloseListener \/ Drain \/ Stop

Next ==
  \/ Application \/ Signalling \/ Expire \/ TimeOut
  \/ ServeFails \/ Wake \/ Return \/ EndCollector \/ Signal
  \/ \E r \in Requests : Accept(r) \/ Answer(r)

Spec == Init /\ [][Next]_vars

(***************************************************************************)
(* The goroutines go on and time passes.  A request need never be          *)
(* answered, no signal need ever come, and no listener ever fail.          *)
(***************************************************************************)
FairSpec ==
  /\ Spec
  /\ WF_vars(Application) /\ WF_vars(Signalling)
  /\ WF_vars(Expire) /\ WF_vars(TimeOut)
  /\ WF_vars(Wake) /\ WF_vars(Return) /\ WF_vars(EndCollector)

-----------------------------------------------------------------------------
(* Properties *)

\* The root context is cancelled - the store stops collecting, the process is
\* about to end well - only when every request that came in was answered.
CancelledAfterLastRequest ==
  cancelled => \A r \in Requests : request[r] # "active"

\* main takes for the regular end (main.go:62-68) only an orderly one: no panic,
\* no failure and no shutdown under way lets it return.
CleanExitIsOrderly ==
  exit = "clean" =>
    closed /\ stopped /\ \A r \in Requests : request[r] # "active"

\* Whatever the requests do, a signal ends the process.
SignalEndsProcess == pending ~> ~Alive

\* "Shutdown timed out. Terminating." (server.go:132): the process does not end
\* with this message after Shutdown has returned without an error.
TimedOutBeforeDrained == exit = "timed out" => sig # "drained"
=============================================================================
