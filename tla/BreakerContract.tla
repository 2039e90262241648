-------------------------- MODULE BreakerContract --------------------------
(***************************************************************************)
(* What a circuit breaker promises the gateway and the upstream, following *)
(* the state machine in the comment of CircuitBreaker                      *)
(* (internal/middleware/circuitbreaker.go:33-42):                          *)
(*                                                                         *)
(*   - a closed circuit opens exactly when Threshold failures have been    *)
(*     recorded in a row;                                                  *)
(*   - once it opens, no request is admitted for Timeout ticks;            *)
(*   - the next request to ask after that makes it half-open and is        *)
(*     admitted; from then on the first outcome recorded decides: success  *)
(*     closes the circuit, failure opens it for another full timeout.      *)
(*                                                                         *)
(* There is no failure counter that outlives its meaning and no time       *)
(* stamp: `run' is the length of the current run of failures of a closed   *)
(* circuit and `cooldown' the ticks that are left to wait.                 *)
(***************************************************************************)
EXTENDS Integers

CONSTANTS Requests, Threshold, Timeout

VARIABLES
    state,      \* "closed", "open" or "half-open"
    run,        \* failures recorded in a row while closed
    cooldown,   \* ticks before an open circuit may be probed
    pending     \* requests that were admitted and have not finished

vars == <<state, run, cooldown, pending>>

Init ==
    /\ state = "closed"
    /\ run = 0
    /\ cooldown = 0
    /\ pending = {}

Admit(r) ==
    /\ r \notin pending
    /\ cooldown = 0
    /\ state' = IF state = "open" THEN "half-open" ELSE state
    /\ pending' = pending \cup {r}
    /\ UNCHANGED <<run, cooldown>>

Open ==
    /\ state' = "open"
    /\ run' = 0
    /\ cooldown' = Timeout

\* A failure that is not the last of a full run only lengthens the run.
Fail(r) ==
    /\ r \in pending
    /\ pending' = pending \ {r}
    /\ \/ state = "closed" /\ run + 1 >= Threshold /\ Open
       \/ state = "half-open" /\ Open
       \/ /\ state = "closed" /\ run + 1 < Threshold
          /\ run' = run + 1
          /\ UNCHANGED <<state, cooldown>>
       \/ state = "open" /\ UNCHANGED <<state, run, cooldown>>

Succeed(r) ==
    /\ r \in pending
    /\ pending' = pending \ {r}
    /\ run' = 0
    /\ state' = IF state = "half-open" THEN "closed" ELSE state
    /\ UNCHANGED cooldown

\* The request ends without an outcome.
Drop(r) ==
    /\ r \in pending
    /\ pending' = pending \ {r}
    /\ UNCHANGED <<state, run, cooldown>>

Tick ==
    /\ cooldown > 0
    /\ cooldown' = cooldown - 1
    /\ UNCHANGED <<state, run, pending>>

Next ==
    \/ \E r \in Requests : Admit(r) \/ Fail(r) \/ Succeed(r) \/ Drop(r)
    \/ Tick

Spec == Init /\ [][Next]_vars
=============================================================================
