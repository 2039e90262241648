--------------------------- MODULE MCBreakerStore ---------------------------
(***************************************************************************)
(* BreakerStore for TLC, with the check that its states move as the        *)
(* breakers of module Breaker do.                                          *)
(***************************************************************************)
EXTENDS BreakerStore

CB == INSTANCE Breaker WITH Threshold <- 2, Timeout <- 1

SmallCircuits ==
    [State: CB!CircuitState, FailureCount: 0..2, LastFailure: {CB!ZeroTime, CB!SomeTime}, OpenAge: 0..1]

\* Every move of a breaker is one of the store's, and the store's are all its.
ASSUME MovesAreTheBreakers ==
    \A s \in States :
        LET here == {cb \in SmallCircuits : cb.State = s}
        IN  /\ {CB!AfterAllow(cb).State : cb \in {c \in here : CB!Allowed(c)}} = {AfterAllow(s)}
            /\ UNION {{CB!AfterFailure(cb).State, CB!AfterSuccess(cb).State, s} : cb \in here}
                 = AfterRecord(s)
=============================================================================
