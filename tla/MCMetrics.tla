----------------------------- MODULE MCMetrics -----------------------------
(***************************************************************************)
(* Metrics for TLC.  Requests are interchangeable.                         *)
(***************************************************************************)
EXTENDS Metrics, TLC

RequestSymmetry == Permutations(Requests)
=============================================================================
