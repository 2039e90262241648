-------------------------- MODULE MCCircuitBreaker --------------------------
(***************************************************************************)
(* CircuitBreaker for TLC.  Handler slots are interchangeable.             *)
(***************************************************************************)
EXTENDS CircuitBreaker, TLC

HandlerSymmetry == Permutations(Requests)
=============================================================================
