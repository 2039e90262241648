----------------------------- MODULE Lifecycle -----------------------------
(***************************************************************************)
(* Start and stop of the gateway process: main (cmd/gogateway/main.go),    *)
(* Server.Start and Server.Shutdown (internal/server/server.go), and the   *)
(* metrics server (internal/metrics/prometheus.go).                        *)
(*                                                                         *)
(* Three goroutines matter: main, which waits for a signal or an error and *)
(* then shuts the servers down one after the other; the one that runs      *)
(* Server.Start and reports its error on errCh; the metrics server's.      *)
(* Requests and scrapes are served meanwhile and may never end.  Each      *)
(* comes on a connection that was accepted before, and closing a listener  *)
(* leaves the connections that it accepted alone.                          *)
(***************************************************************************)
EXTENDS Integers, FiniteSets

CONSTANTS
    Requests,       \* requests to the gateway, each sent at most once
    Scrapes,        \* requests to the metrics server
    ShutdownTimeout \* Gateway.ShutdownTimeout, in ticks

\* config.validate replaces a timeout that is not positive by 15s.
ASSUME ShutdownAssumption == ShutdownTimeout \in Nat \ {0}

VARIABLES
    pc,         \* where main stands
    sigCh,      \* a signal is waiting in the channel (capacity one)
    errCh,      \* what Start reported (capacity one): none, closed, failed
    server,     \* the goroutine of Start, and how it ended
    metrics,    \* the metrics server: off, up, down
    request,    \* per request: new, open (a connection waits for it), active, served, closed, cut
    scrape,     \* per scrape: the same, but for cut
    waited,     \* ticks spent in the current Shutdown call
    elapsed,    \* ticks since Server.Shutdown was called
    closeErr,   \* closing the listener failed: Shutdown will return the error
    code        \* the exit status, 0 until main decides otherwise

vars == <<pc, sigCh, errCh, server, metrics, request, scrape, waited, elapsed, closeErr, code>>

Open == {r \in Requests : request[r] = "open"}
Active == {r \in Requests : request[r] = "active"}
OpenScrapes == {s \in Scrapes : scrape[s] = "open"}
ActiveScrapes == {s \in Scrapes : scrape[s] = "active"}

\* http.Server closes the connections on which no request is active.
CloseIdle(conns) == [c \in DOMAIN conns |-> IF conns[c] = "open" THEN "closed" ELSE conns[c]]

Init ==
    /\ pc = "load"
    /\ sigCh = FALSE
    /\ errCh = "none"
    /\ server = "unborn"
    /\ metrics = "off"
    /\ request = [r \in Requests |-> "new"]
    /\ scrape = [s \in Scrapes |-> "new"]
    /\ waited = 0
    /\ elapsed = 0
    /\ closeErr = FALSE
    /\ code = 0

Exit(c) == pc' = "exited" /\ code' = c

-----------------------------------------------------------------------------
(* main.                                                                   *)

\* config.Load or server.New fails: the process exits with status 1.
LoadFails ==
    /\ pc = "load"
    /\ Exit(1)
    /\ UNCHANGED <<sigCh, errCh, server, metrics, request, scrape, waited, elapsed, closeErr>>

\* server.New starts the metrics server when an address is configured, and
\* main launches the goroutine of Start.
Load ==
    /\ pc = "load"
    /\ pc' = "select"
    /\ server' = "starting"
    /\ metrics' \in {"off", "up"}
    /\ UNCHANGED <<sigCh, errCh, request, scrape, waited, elapsed, closeErr, code>>

\* The select of main; with a signal and an error both ready it takes either.
Select ==
    /\ pc = "select"
    /\ \/ sigCh /\ sigCh' = FALSE /\ UNCHANGED errCh
       \/ errCh # "none" /\ errCh' = "none" /\ UNCHANGED sigCh
    /\ pc' = "metrics"
    /\ waited' = 0
    /\ UNCHANGED <<server, metrics, request, scrape, elapsed, closeErr, code>>

\* Mutant: the metrics server is shut down without a deadline.
ShutdownMetricsServerPatient ==
    /\ pc = "metrics"
    /\ metrics = "up" => ActiveScrapes = {}
    /\ metrics' = IF metrics = "up" THEN "down" ELSE metrics
    /\ pc' = "shutdown"
    /\ waited' = 0
    /\ UNCHANGED <<sigCh, errCh, server, request, scrape, elapsed, closeErr, code>>

\* ShutdownMetricsServer: until the scrapes have ended or the timeout is over,
\* when those that are left are not cut off.
ShutdownMetricsServer ==
    /\ pc = "metrics"
    /\ metrics = "up" => ActiveScrapes = {} \/ waited = ShutdownTimeout
    /\ metrics' = IF metrics = "up" THEN "down" ELSE metrics
    /\ scrape' = IF ActiveScrapes = {} THEN CloseIdle(scrape) ELSE scrape
    /\ pc' = "shutdown"
    /\ waited' = 0
    /\ UNCHANGED <<sigCh, errCh, server, request, elapsed, closeErr, code>>

\* Mutant: the listener is left open while the requests drain.
ShutdownKeepsListening ==
    /\ pc = "shutdown"
    /\ pc' = "drain"
    /\ UNCHANGED <<sigCh, errCh, server, metrics, request, scrape, waited, elapsed, closeErr, code>>

\* httpServer.Shutdown closes the listener first: Start returns, or will return
\* as soon as it tries to listen.  The error of closing an open listener is kept.
Shutdown ==
    /\ pc = "shutdown"
    /\ pc' = "drain"
    /\ server' = IF server \in {"starting", "listening"} THEN "closing" ELSE server
    /\ closeErr' \in {FALSE, server = "listening"}
    /\ UNCHANGED <<sigCh, errCh, metrics, request, scrape, waited, elapsed, code>>

\* Server.Shutdown returns: main goes on, or exits with the error it got.
Return ==
    \/ closeErr /\ Exit(1)
    \/ ~closeErr /\ pc' = "errors" /\ UNCHANGED code

\* The last request has ended, and the idle connections are closed.
Drained ==
    /\ pc = "drain"
    /\ Active = {}
    /\ request' = CloseIdle(request)
    /\ Return
    /\ UNCHANGED <<sigCh, errCh, server, metrics, scrape, waited, elapsed, closeErr>>

\* Mutant: a deadline that is exceeded starts another wait.
ForceCloseRetries ==
    /\ pc = "drain"
    /\ Active # {}
    /\ waited = ShutdownTimeout
    /\ waited' = 0
    /\ UNCHANGED <<pc, sigCh, errCh, server, metrics, request, scrape, elapsed, closeErr, code>>

\* context.DeadlineExceeded takes the place of the listener's error, and
\* httpServer.Close, which finds no listener any more, cuts the requests off.
\* A connection on which nothing has come yet also keeps Shutdown waiting.
ForceClose ==
    /\ pc = "drain"
    /\ Active \cup Open # {}
    /\ waited = ShutdownTimeout
    /\ request' = [r \in Requests |-> IF r \in Active THEN "cut" ELSE CloseIdle(request)[r]]
    /\ pc' = "errors"
    /\ UNCHANGED <<sigCh, errCh, server, metrics, scrape, waited, elapsed, closeErr, code>>

\* Mutant: http.ErrServerClosed counts as an error.
DrainErrorsStrict ==
    /\ pc = "errors"
    /\ \/ errCh # "none" /\ Exit(1)
       \/ errCh = "none" /\ Exit(0)
    /\ UNCHANGED <<sigCh, errCh, server, metrics, request, scrape, waited, elapsed, closeErr>>

\* The last select: an error that has arrived, or 100ms without one.
DrainErrors ==
    /\ pc = "errors"
    /\ \/ errCh = "failed" /\ Exit(1)
       \/ errCh # "failed" /\ Exit(0)
    /\ UNCHANGED <<sigCh, errCh, server, metrics, request, scrape, waited, elapsed, closeErr>>

-----------------------------------------------------------------------------
(* The goroutine of Start.                                                 *)

\* ListenAndServe binds the address, or fails to.
Listen ==
    /\ server = "starting"
    /\ \/ server' = "listening" /\ UNCHANGED errCh
       \/ server' = "failed" /\ errCh' = "failed"
    /\ UNCHANGED <<pc, sigCh, metrics, request, scrape, waited, elapsed, closeErr, code>>

\* A listener that is open may fail for good while it accepts connections.
ServeFails ==
    /\ server = "listening"
    /\ server' = "failed"
    /\ errCh' = "failed"
    /\ UNCHANGED <<pc, sigCh, metrics, request, scrape, waited, elapsed, closeErr, code>>

\* It returns http.ErrServerClosed once the server is shutting down.
ServerClosed ==
    /\ server = "closing"
    /\ server' = "stopped"
    /\ errCh' = "closed"
    /\ UNCHANGED <<pc, sigCh, metrics, request, scrape, waited, elapsed, closeErr, code>>

-----------------------------------------------------------------------------
(* The world outside.                                                      *)

Running == pc \notin {"load", "exited"}

\* A second signal finds the channel full, or nobody reads it any more.
Signal ==
    /\ Running /\ ~sigCh
    /\ sigCh' = TRUE
    /\ UNCHANGED <<pc, errCh, server, metrics, request, scrape, waited, elapsed, closeErr, code>>

\* A connection is accepted, or kept alive, for request r.
Accept(r) ==
    /\ Running /\ server = "listening"
    /\ request[r] = "new"
    /\ request' = [request EXCEPT ![r] = "open"]
    /\ UNCHANGED <<pc, sigCh, errCh, server, metrics, scrape, waited, elapsed, closeErr, code>>

\* The request comes, also when the listener has been closed meanwhile.
Begin(r) ==
    /\ Running
    /\ request[r] = "open"
    /\ request' = [request EXCEPT ![r] = "active"]
    /\ UNCHANGED <<pc, sigCh, errCh, server, metrics, scrape, waited, elapsed, closeErr, code>>

Serve(r) ==
    /\ Running
    /\ request[r] = "active"
    /\ request' = [request EXCEPT ![r] = "served"]
    /\ UNCHANGED <<pc, sigCh, errCh, server, metrics, scrape, waited, elapsed, closeErr, code>>

\* Its listener, too, is closed first.
AcceptScrape(s) ==
    /\ Running /\ metrics = "up" /\ pc # "metrics"
    /\ scrape[s] = "new"
    /\ scrape' = [scrape EXCEPT ![s] = "open"]
    /\ UNCHANGED <<pc, sigCh, errCh, server, metrics, request, waited, elapsed, closeErr, code>>

BeginScrape(s) ==
    /\ Running
    /\ scrape[s] = "open"
    /\ scrape' = [scrape EXCEPT ![s] = "active"]
    /\ UNCHANGED <<pc, sigCh, errCh, server, metrics, request, waited, elapsed, closeErr, code>>

ServeScrape(s) ==
    /\ Running
    /\ scrape[s] = "active"
    /\ scrape' = [scrape EXCEPT ![s] = "served"]
    /\ UNCHANGED <<pc, sigCh, errCh, server, metrics, request, waited, elapsed, closeErr, code>>

\* Mutant: the deadline fires a tick late.
TickLate ==
    /\ \/ pc = "metrics" /\ metrics = "up" /\ ActiveScrapes \cup OpenScrapes # {}
       \/ pc = "drain" /\ Active \cup Open # {}
    /\ waited <= ShutdownTimeout
    /\ waited' = waited + 1
    /\ elapsed' = elapsed + 1
    /\ UNCHANGED <<pc, sigCh, errCh, server, metrics, request, scrape, closeErr, code>>

\* Time matters while a Shutdown call waits; its deadline fires when it is due.
Tick ==
    /\ \/ pc = "metrics" /\ metrics = "up" /\ ActiveScrapes \cup OpenScrapes # {}
       \/ pc = "drain" /\ Active \cup Open # {}
    /\ waited < ShutdownTimeout
    /\ waited' = waited + 1
    /\ elapsed' = elapsed + 1
    /\ UNCHANGED <<pc, sigCh, errCh, server, metrics, request, scrape, closeErr, code>>

MainStep ==
    Load \/ LoadFails \/ Select \/ ShutdownMetricsServer \/ Shutdown \/ Drained \/ ForceClose
      \/ DrainErrors

Next ==
    \/ MainStep
    \/ Listen \/ ServeFails \/ ServerClosed
    \/ Signal \/ Tick
    \/ \E r \in Requests : Accept(r) \/ Begin(r) \/ Serve(r)
    \/ \E s \in Scrapes : AcceptScrape(s) \/ BeginScrape(s) \/ ServeScrape(s)

Spec == Init /\ [][Next]_vars

\* The goroutines are scheduled and time passes.  Requests and scrapes may
\* hang, and the signal may never come.
Fairness == WF_vars(MainStep) /\ WF_vars(Listen \/ ServerClosed) /\ WF_vars(Tick)

FairSpec == Spec /\ Fairness
-----------------------------------------------------------------------------
(* Safety.                                                                 *)

TypeOK ==
    /\ pc \in {"load", "select", "metrics", "shutdown", "drain", "errors", "exited"}
    /\ sigCh \in BOOLEAN
    /\ errCh \in {"none", "closed", "failed"}
    /\ server \in {"unborn", "starting", "listening", "closing", "stopped", "failed"}
    /\ metrics \in {"off", "up", "down"}
    /\ request \in [Requests -> {"new", "open", "active", "served", "closed", "cut"}]
    /\ scrape \in [Scrapes -> {"new", "open", "active", "served", "closed"}]
    /\ waited \in 0..ShutdownTimeout
    /\ elapsed \in Nat
    /\ closeErr \in BOOLEAN
    /\ code \in {0, 1}

\* "drains in-flight requests before stopping" (README.md:184): when the process
\* has stopped, no request that began is unfinished, except those that were cut
\* off after a whole timeout of waiting, and no connection is left on which
\* another could come.
GracefulStop ==
    pc \in {"errors", "exited"} =>
        /\ Active \cup Open = {}
        /\ (\E r \in Requests : request[r] = "cut") => waited = ShutdownTimeout

\* Hanging requests and scrapes delay the stop by two timeouts at most: the
\* metrics server and the gateway are shut down one after the other, each with
\* a timeout of its own.
StopBounded == elapsed <= 2 * ShutdownTimeout

\* A process that was told to stop and whose listener never failed exits with
\* status 0, whichever of Shutdown and Start returns first.
CleanExit == pc = "exited" /\ code = 1 => server \in {"unborn", "failed"} \/ closeErr

-----------------------------------------------------------------------------
(* Liveness.                                                               *)

\* Once a signal has arrived or Start has failed, the process exits, whatever
\* its clients do.
StopsEventually == (pc = "select" /\ (sigCh \/ errCh = "failed")) ~> pc = "exited"
=============================================================================
