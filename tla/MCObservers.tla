---------------------------- MODULE MCObservers ----------------------------
(***************************************************************************)
(* Observers for TLC.  Nothing is symmetric, for the liveness properties.  *)
(***************************************************************************)
EXTENDS Observers
=============================================================================
