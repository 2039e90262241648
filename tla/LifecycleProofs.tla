-------------------------- MODULE LifecycleProofs --------------------------
(***************************************************************************)
(* What Lifecycle promises about a stop, for every set of requests and of  *)
(* scrapes, finite or not, and every timeout.                              *)
(*                                                                         *)
(* None of the promises is inductive alone.  GracefulStop needs to know    *)
(* that nothing is accepted any more once the requests drain (NotServing), *)
(* StopBounded how much of the time went to each of the two Shutdown calls *)
(* (TimeSpent), and CleanExit that an error on errCh comes from a listener *)
(* that failed for good (ErrorsReported).                                  *)
(***************************************************************************)
EXTENDS Lifecycle, TLAPS

-----------------------------------------------------------------------------
(* The inductive invariant.                                                *)

\* Before server.New returns there is nothing to stop.
NotStarted == pc = "load" => server = "unborn" /\ Active \cup Open = {}

\* Once Server.Shutdown has begun to drain, the listener is closed for good.
NotServing == pc \in {"drain", "errors"} => server \notin {"starting", "listening"}

\* httpServer.Close cuts requests off at the deadline and at no other time.
CutAtDeadline ==
    (\E r \in Requests : request[r] = "cut") => pc \in {"errors", "exited"} /\ waited = ShutdownTimeout

\* The ticks since Server.Shutdown was called, by the call they were spent in.
TimeSpent ==
    /\ pc \in {"load", "select"} => elapsed = 0
    /\ pc = "metrics" => elapsed = waited
    /\ pc = "shutdown" => elapsed <= ShutdownTimeout /\ waited = 0
    /\ pc \in {"drain", "errors", "exited"} => elapsed <= ShutdownTimeout + waited

\* What errCh and the exit status say of the goroutine of Start.
ErrorsReported ==
    /\ errCh = "failed" => server = "failed"
    /\ code = 1 => pc = "exited"

Inv ==
    /\ TypeOK
    /\ NotStarted /\ NotServing /\ CutAtDeadline /\ TimeSpent /\ ErrorsReported
    /\ GracefulStop /\ CleanExit

-----------------------------------------------------------------------------
\* The process starts with nothing running.
LEMMA InvInit == Init => Inv
<1> SUFFICES ASSUME Init PROVE Inv
  OBVIOUS
<1>1. TypeOK
  <2>1. sigCh \in BOOLEAN /\ closeErr \in BOOLEAN
    BY Zenon DEF Init
  <2> QED
    BY <2>1, ShutdownAssumption, SMT DEF ShutdownAssumption, Init, TypeOK
<1>2. Active \cup Open = {} /\ ~ \E r \in Requests : request[r] = "cut"
  BY DEF Init, Active, Open
<1> QED
  BY <1>1, <1>2
     DEF Init, Inv, NotStarted, NotServing, CutAtDeadline, TimeSpent, ErrorsReported,
         GracefulStop, CleanExit

\* A step of main, with the exits it takes.
LEMMA MainKeepsInv == ASSUME Inv, MainStep PROVE Inv'
<1> USE ShutdownAssumption
    DEF ShutdownAssumption, Inv, TypeOK, NotStarted, NotServing, CutAtDeadline, TimeSpent,
        ErrorsReported, GracefulStop, CleanExit, Active, Open
<1>1. CASE Load
  BY <1>1 DEF Load
<1>2. CASE LoadFails
  BY <1>2 DEF LoadFails, Exit
<1>3. CASE Select
  <2>1. sigCh' \in BOOLEAN
    BY <1>3, Zenon DEF Select
  <2>2. errCh' \in {errCh, "none"}
    BY <1>3 DEF Select
  <2>3. /\ pc = "select" /\ pc' = "metrics" /\ waited' = 0
        /\ UNCHANGED <<server, metrics, request, scrape, elapsed, closeErr, code>>
    BY <1>3 DEF Select
  <2> QED
    BY <2>1, <2>2, <2>3
<1>4. CASE ShutdownMetricsServer
  <2>1. scrape' \in [Scrapes -> {"new", "open", "active", "served", "closed"}]
    BY <1>4 DEF ShutdownMetricsServer, CloseIdle
  <2> QED
    BY <1>4, <2>1 DEF ShutdownMetricsServer
<1>5. CASE Shutdown
  <2>1. closeErr' \in BOOLEAN
    BY <1>5, Zenon DEF Shutdown
  <2>2. /\ pc = "shutdown" /\ pc' = "drain"
        /\ server' = IF server \in {"starting", "listening"} THEN "closing" ELSE server
        /\ UNCHANGED <<sigCh, errCh, metrics, request, scrape, waited, elapsed, code>>
    BY <1>5 DEF Shutdown
  <2> QED
    BY <2>1, <2>2
<1>6. CASE Drained
  <2>1. /\ request' \in [Requests -> {"new", "open", "active", "served", "closed", "cut"}]
        /\ (Active \cup Open)' = {}
        /\ \A r \in Requests : request'[r] = "cut" <=> request[r] = "cut"
    BY <1>6 DEF Drained, CloseIdle
  <2>2. /\ pc = "drain" /\ pc' \in {"errors", "exited"} /\ code' \in {0, 1}
        /\ (code' = 1 /\ code # 1 => closeErr /\ pc' = "exited")
        /\ UNCHANGED <<sigCh, errCh, server, metrics, scrape, waited, elapsed, closeErr>>
    BY <1>6 DEF Drained, Return, Exit
  <2> QED
    BY <2>1, <2>2
<1>7. CASE ForceClose
  <2>1. /\ request' \in [Requests -> {"new", "open", "active", "served", "closed", "cut"}]
        /\ (Active \cup Open)' = {}
    BY <1>7 DEF ForceClose, CloseIdle
  <2> QED
    BY <1>7, <2>1 DEF ForceClose
<1>8. CASE DrainErrors
  BY <1>8 DEF DrainErrors, Exit
<1> QED
  BY <1>1, <1>2, <1>3, <1>4, <1>5, <1>6, <1>7, <1>8 DEF MainStep

\* A step of the goroutine of Start, of a client, or of time.
LEMMA OthersKeepInv ==
    ASSUME Inv, 
           \/ Listen \/ ServeFails \/ ServerClosed
           \/ Signal \/ Tick
           \/ \E r \in Requests : Accept(r) \/ Begin(r) \/ Serve(r)
           \/ \E s \in Scrapes : AcceptScrape(s) \/ BeginScrape(s) \/ ServeScrape(s)
    PROVE  Inv'
<1> USE ShutdownAssumption
    DEF ShutdownAssumption, Inv, TypeOK, NotStarted, NotServing, CutAtDeadline, TimeSpent,
        ErrorsReported, GracefulStop, CleanExit, Active, Open
<1>1. CASE Listen
  BY <1>1 DEF Listen
<1>2. CASE ServeFails
  BY <1>2 DEF ServeFails
<1>3. CASE ServerClosed
  BY <1>3 DEF ServerClosed
<1>4. CASE Signal
  BY <1>4 DEF Signal
<1>5. CASE Tick
  BY <1>5 DEF Tick
<1>6. ASSUME NEW r \in Requests, Accept(r)
      PROVE  Inv'
  BY <1>6 DEF Accept, Running
<1>7. ASSUME NEW r \in Requests, Begin(r)
      PROVE  Inv'
  BY <1>7 DEF Begin, Running
<1>8. ASSUME NEW r \in Requests, Serve(r)
      PROVE  Inv'
  BY <1>8 DEF Serve, Running
<1>9. ASSUME NEW s \in Scrapes, AcceptScrape(s) \/ BeginScrape(s) \/ ServeScrape(s)
      PROVE  Inv'
  BY <1>9 DEF AcceptScrape, BeginScrape, ServeScrape
<1> QED
  BY <1>1, <1>2, <1>3, <1>4, <1>5, <1>6, <1>7, <1>8, <1>9

\* Inv holds in every reachable state of the process.
THEOREM Invariance == Spec => []Inv
<1>1. Inv /\ [Next]_vars => Inv'
  <2>1. ASSUME Inv, UNCHANGED vars
        PROVE  Inv'
    BY <2>1 DEF vars, Inv, TypeOK, NotStarted, NotServing, CutAtDeadline, TimeSpent,
       ErrorsReported, GracefulStop, CleanExit, Active, Open
  <2> QED
    BY <2>1, MainKeepsInv, OthersKeepInv DEF Next
<1> QED
  BY <1>1, InvInit, PTL DEF Spec

\* The variables of the process keep their types: no deadline is passed by
\* more than it allows.
THEOREM TypeCorrect == Spec => []TypeOK
BY Invariance, PTL DEF Inv

\* When the process has stopped, no request is unfinished but those cut off
\* after a whole timeout (Server.Shutdown).
THEOREM StopsGracefully == Spec => []GracefulStop
BY Invariance, PTL DEF Inv

\* However many requests and scrapes hang, the stop takes two timeouts at most
\* (ShutdownMetricsServer, then httpServer.Shutdown).
THEOREM StopsInTime == Spec => []StopBounded
<1>1. Inv => StopBounded
  BY ShutdownAssumption DEF ShutdownAssumption, Inv, TypeOK, TimeSpent, StopBounded
<1> QED
  BY <1>1, Invariance, PTL

\* Status 1 means that the start or the listener failed, or its closing (main).
THEOREM ExitsCleanly == Spec => []CleanExit
BY Invariance, PTL DEF Inv

\* No connection is accepted while the requests drain, not even when a signal came
\* before Start listened; and once Server.Shutdown has returned, no request begins
\* on a connection that was accepted before, none ends and none is cut off.
NoLateRequests ==
    [][/\ pc \in {"drain", "errors", "exited"} =>
              \A r \in Requests : request[r] = "new" => request'[r] = "new"
       /\ pc \in {"errors", "exited"} => UNCHANGED request]_vars

\* What main does after Server.Shutdown has returned happens with all requests
\* settled: the code after it (main.go:87-102) has none to wait for.
THEOREM ClosedForGood == Spec => NoLateRequests
<1> DEFINE Late == /\ pc \in {"drain", "errors", "exited"} =>
                         \A r \in Requests : request[r] = "new" => request'[r] = "new"
                   /\ pc \in {"errors", "exited"} => UNCHANGED request
<1>1. ASSUME Inv, [Next]_vars
      PROVE  Late
  <2>1. request \in [Requests -> {"new", "open", "active", "served", "closed", "cut"}]
    BY <1>1 DEF Inv, TypeOK
  <2>2. ASSUME NEW q \in Requests, Accept(q)
        PROVE  pc \in {"select", "metrics", "shutdown"}
    BY <1>1, <2>2 DEF Inv, TypeOK, NotServing, Accept, Running
  <2>3. ASSUME NEW q \in Requests, Begin(q) \/ Serve(q)
        PROVE  Late
    <3>1. q \in Active \cup Open /\ pc # "exited"
      BY <2>3 DEF Begin, Serve, Active, Open, Running
    <3>2. pc # "errors"
      BY <1>1, <3>1 DEF Inv, GracefulStop
    <3>3. \A r \in Requests : request[r] = "new" => request'[r] = "new"
      BY <2>1, <2>3 DEF Begin, Serve
    <3> QED
      BY <3>1, <3>2, <3>3
  <2>4. CASE Drained
    BY <2>1, <2>4 DEF Drained, CloseIdle
  <2>5. CASE ForceClose
    BY <2>1, <2>5 DEF ForceClose, CloseIdle, Active
  <2>6. CASE UNCHANGED request
    BY <2>6
  <2> QED
    BY <1>1, <2>2, <2>3, <2>4, <2>5, <2>6 DEF Next, vars, MainStep, Load, LoadFails, Select,
       ShutdownMetricsServer, Shutdown, DrainErrors, Listen, ServeFails, ServerClosed, Signal, Tick,
       AcceptScrape, BeginScrape, ServeScrape
<1>2. Inv /\ [Next]_vars => [Late]_vars
  BY <1>1
<1> QED
  BY <1>2, Invariance, PTL DEF Spec, NoLateRequests
=============================================================================
