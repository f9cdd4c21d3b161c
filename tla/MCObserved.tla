----------------------------- MODULE MCObserved -----------------------------
(***************************************************************************)
(* ObservedTransfer for TLC: one key, sent twice, the second time with a   *)
(* transaction id.                                                         *)
(***************************************************************************)
EXTENDS ObservedTransfer, MCTransfer

Repeated == r1 :> Send(k1, A, B, 5) @@ r2 :> [Send(k1, A, B, 5) EXCEPT !.txId = TRUE]
=============================================================================
