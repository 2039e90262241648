--------------------------- MODULE CircuitBreaker ---------------------------
(***************************************************************************)
(* The breaker of one upstream endpoint and the handlers that use it.      *)
(*                                                                         *)
(* A handler goroutine of serveRoute (internal/server/server.go:230-266)   *)
(* asks Allow, proxies the request, and then calls RecordFailure (status   *)
(* 500 and above), RecordSuccess (any other status) or neither (the proxy  *)
(* panics with http.ErrAbortHandler, which unwinds past the recording).    *)
(* Nothing orders the handlers between these two calls, so an outcome may  *)
(* be recorded long after the circuit has moved on.  `Requests' are the    *)
(* handler slots; a slot serves one request after another.                 *)
(***************************************************************************)
EXTENDS Breaker, FiniteSets

CONSTANTS
    Requests    \* handler slots

ASSUME RequestsAssumption == IsFiniteSet(Requests) /\ Requests # {}

VARIABLES
    cb,         \* the breaker's fields
    admitted    \* per slot: idle, or the state the breaker admitted it in

vars == <<cb, admitted>>

Idle == "idle"

Pending == {r \in Requests : admitted[r] # Idle}

Init ==
    /\ cb = NewCircuitBreaker
    /\ admitted = [r \in Requests |-> Idle]

\* A rejected request is answered 503 at once: the slot stays idle.
Allow(r) ==
    /\ admitted[r] = Idle
    /\ cb' = AfterAllow(cb)
    /\ admitted' = IF Allowed(cb)
                   THEN [admitted EXCEPT ![r] = AfterAllow(cb).State]
                   ELSE admitted

RecordFailure(r) ==
    /\ admitted[r] # Idle
    /\ cb' = AfterFailure(cb)
    /\ admitted' = [admitted EXCEPT ![r] = Idle]

RecordSuccess(r) ==
    /\ admitted[r] # Idle
    /\ cb' = AfterSuccess(cb)
    /\ admitted' = [admitted EXCEPT ![r] = Idle]

\* The handler unwinds from the proxy without recording an outcome.
Abort(r) ==
    /\ admitted[r] # Idle
    /\ admitted' = [admitted EXCEPT ![r] = Idle]
    /\ UNCHANGED cb

Tick ==
    /\ ~Expired(cb)
    /\ cb' = Elapse(cb)
    /\ UNCHANGED admitted

Next ==
    \/ \E r \in Requests : Allow(r) \/ RecordFailure(r) \/ RecordSuccess(r) \/ Abort(r)
    \/ Tick

Spec == Init /\ [][Next]_vars

\* Time passes, handlers finish (the upstream answers or the connection
\* breaks), and clients keep sending requests.
Fairness ==
    /\ WF_vars(Tick)
    /\ \A r \in Requests : WF_vars(RecordFailure(r) \/ RecordSuccess(r) \/ Abort(r))
    /\ WF_vars(\E r \in Requests : Allow(r))

FairSpec == Spec /\ Fairness

-----------------------------------------------------------------------------
(* Safety.                                                                 *)

TypeOK ==
    /\ cb \in Circuit
    /\ admitted \in [Requests -> CircuitState \cup {Idle}]

\* While the timeout of the last opening runs, the circuit is open: no late
\* success of a request admitted earlier, and no probe, ends it sooner
\* (Allow, RecordSuccess).
CooldownMeansOpen == cb.OpenAge < Timeout => cb.State = StateOpen

\* FailureCount serves three purposes; in each state it has the value the next
\* transition relies on, whatever order late outcomes arrive in: a closed
\* circuit is below the threshold, a half-open one starts from nothing, an
\* open one has counted the failure that opened it and remembers its time.
CountFitsState ==
    /\ cb.State = StateClosed => cb.FailureCount < TripAt
    /\ cb.State = StateHalfOpen => cb.FailureCount = 0 /\ cb.LastFailure = ZeroTime
    /\ cb.State = StateOpen => cb.FailureCount >= 1 /\ cb.LastFailure = SomeTime

\* Late failures keep counting on an open circuit, but only the requests that
\* were in flight when it opened can add to it: FailureCount stays below the
\* threshold plus the number of handlers, so it can neither grow without
\* bound nor wrap (RecordFailure, case StateOpen).
LateFailuresBounded ==
    cb.FailureCount + Cardinality(Pending) < TripAt + Cardinality(Requests)

-----------------------------------------------------------------------------
(* The breaker implements its contract.                                    *)

Contract == INSTANCE BreakerContract WITH
    state    <- cb.State,
    run      <- IF cb.State = StateClosed THEN cb.FailureCount ELSE 0,
    cooldown <- Timeout - cb.OpenAge,
    pending  <- Pending

\* Seen from outside, the breaker behaves as BreakerContract says.
ImplementsContract == Contract!Spec

-----------------------------------------------------------------------------
(* Liveness.                                                               *)

\* The upstream is healthy: from some point on no failure is recorded, and
\* probes that could succeed again and again do not all break off.
ProbeSucceeds == cb.State = StateHalfOpen /\ \E r \in Requests : RecordSuccess(r)

HealthyUpstream ==
    /\ <>[][\A r \in Requests : ~RecordFailure(r)]_vars
    /\ SF_vars(ProbeSucceeds)

\* Once the upstream is healthy the circuit closes and stays closed: no
\* history of failures and no set of late outcomes leaves it open or
\* half-open for good.
Recovery == HealthyUpstream => <>[](cb.State = StateClosed)
=============================================================================
