----------------------------- MODULE MCSessions -----------------------------
(***************************************************************************)
(* Sessions for TLC.  Calls are alike until they are made.                 *)
(***************************************************************************)
EXTENDS Sessions, TLC

CallSymmetry == Permutations(Calls)
=============================================================================
