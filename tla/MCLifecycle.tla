---------------------------- MODULE MCLifecycle ----------------------------
(***************************************************************************)
(* Lifecycle for TLC: two requests and one scrape, any of which may hang.  *)
(***************************************************************************)
EXTENDS Lifecycle
=============================================================================
