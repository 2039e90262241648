------------------------------ MODULE Breaker ------------------------------
(***************************************************************************)
(* One circuit breaker of internal/middleware/circuitbreaker.go, as        *)
(* operators on the record that holds its fields.  Every method of the Go  *)
(* type runs under cb.mu, so each is one atomic function of the record.    *)
(*                                                                         *)
(* Time.  The code compares time.Since(OpenTime) with the timeout and does *)
(* nothing else with OpenTime, so the record keeps that age, counted in    *)
(* ticks and saturated at Timeout.  The zero OpenTime lies centuries back: *)
(* its age is saturated.  Of LastFailure only "is it the zero time?" is    *)
(* kept.                                                                   *)
(***************************************************************************)
EXTENDS Integers

CONSTANTS
    Threshold,  \* CircuitBrkCfg.Threshold: failures in a row that open a circuit
    Timeout     \* CircuitBrkCfg.Timeout: ticks an open circuit rejects requests

\* Neither field is validated: zero is a legal value of both, and a negative
\* one behaves as zero does.
ASSUME BreakerAssumption == Threshold \in Nat /\ Timeout \in Nat

StateClosed   == "closed"
StateOpen     == "open"
StateHalfOpen == "half-open"
CircuitState  == {StateClosed, StateOpen, StateHalfOpen}

ZeroTime == "zero"
SomeTime == "set"

\* The fields a method can change; OpenAge stands for OpenTime.
Circuit ==
    [State: CircuitState, FailureCount: Nat, LastFailure: {ZeroTime, SomeTime}, OpenAge: 0..Timeout]

NewCircuitBreaker ==
    [State |-> StateClosed, FailureCount |-> 0, LastFailure |-> ZeroTime, OpenAge |-> Timeout]

-----------------------------------------------------------------------------
(* Allow: what it answers, and the breaker it leaves.                      *)

Expired(cb) == cb.OpenAge >= Timeout

Allowed(cb) == cb.State = StateOpen => Expired(cb)

\* Mutant: the failure count survives the move to half-open.
AfterAllowKeepsCount(cb) ==
    IF cb.State = StateOpen /\ Expired(cb)
    THEN [cb EXCEPT !.State = StateHalfOpen]
    ELSE cb

AfterAllow(cb) ==
    IF cb.State = StateOpen /\ Expired(cb)
    THEN [cb EXCEPT !.State = StateHalfOpen, !.FailureCount = 0, !.LastFailure = ZeroTime]
    ELSE cb

-----------------------------------------------------------------------------
(* RecordFailure counts in every state.  It opens a closed circuit at the  *)
(* threshold and a half-open one at once, and leaves the age of an open    *)
(* circuit alone.                                                          *)

\* The failures that open a closed circuit: a threshold of zero acts as one.
TripAt == IF Threshold = 0 THEN 1 ELSE Threshold

Trips(cb) ==
    \/ cb.State = StateClosed /\ cb.FailureCount + 1 >= Threshold
    \/ cb.State = StateHalfOpen

\* Mutant: off by one at the threshold.
AfterFailureLate(cb) ==
    LET trips == \/ cb.State = StateClosed /\ cb.FailureCount >= Threshold
                 \/ cb.State = StateHalfOpen
    IN  [cb EXCEPT !.FailureCount = @ + 1, !.LastFailure = SomeTime,
                   !.State = IF trips THEN StateOpen ELSE @,
                   !.OpenAge = IF trips THEN 0 ELSE @]

\* Mutant: a failed probe opens the circuit without a fresh timeout.
AfterFailureStaleTimeout(cb) ==
    [cb EXCEPT !.FailureCount = @ + 1, !.LastFailure = SomeTime,
               !.State = IF Trips(cb) THEN StateOpen ELSE @,
               !.OpenAge = IF cb.State = StateClosed /\ Trips(cb) THEN 0 ELSE @]

AfterFailure(cb) ==
    [State        |-> IF Trips(cb) THEN StateOpen ELSE cb.State,
     FailureCount |-> cb.FailureCount + 1,
     LastFailure  |-> SomeTime,
     OpenAge      |-> IF Trips(cb) THEN 0 ELSE cb.OpenAge]

-----------------------------------------------------------------------------
(* RecordSuccess closes a half-open circuit, resets the count of a closed  *)
(* one and ignores an open one (a late answer to a request admitted        *)
(* before the circuit opened).                                             *)

\* Mutant: a late success closes an open circuit during its timeout.
AfterSuccessClosesOpen(cb) ==
    IF cb.State = StateClosed
    THEN [cb EXCEPT !.FailureCount = 0]
    ELSE [NewCircuitBreaker EXCEPT !.OpenAge = cb.OpenAge]

\* Mutant: a success takes one failure back instead of all of them.
AfterSuccessDecrements(cb) ==
    IF cb.State = StateClosed THEN [cb EXCEPT !.FailureCount = @ - 1] ELSE cb

\* Mutant: a successful probe leaves the circuit half-open.
AfterSuccessStaysHalfOpen(cb) ==
    IF cb.State = StateClosed THEN [cb EXCEPT !.FailureCount = 0] ELSE cb

AfterSuccess(cb) ==
    CASE cb.State = StateHalfOpen -> NewCircuitBreaker
      [] cb.State = StateClosed   -> [cb EXCEPT !.FailureCount = 0]
      [] cb.State = StateOpen     -> cb

-----------------------------------------------------------------------------
(* Time passes for every breaker alike.                                    *)

Elapse(cb) == [cb EXCEPT !.OpenAge = IF Expired(cb) THEN @ ELSE @ + 1]
=============================================================================
