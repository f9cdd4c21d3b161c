----------------------------- MODULE MCTransfer -----------------------------
(***************************************************************************)
(* Small instances of Transfer for TLC.  Requests r1..r4, keys k1..k4 and  *)
(* wallets A, B are model values; each operator below is the value that a  *)
(* configuration gives to Body, Opening or Rate.                           *)
(***************************************************************************)
EXTENDS TransferProperties, TLC

CONSTANTS r1, r2, r3, r4, k1, k2, k3, k4, A, B

Send(key, from, to, amount) ==
  [key |-> key, from |-> from, to |-> to, amount |-> amount, owns |-> TRUE, txId |-> FALSE]

\* A client's retry under the same key, then the key reused with another payload,
\* which carries a transaction id.
Reused == r1 :> Send(k1, A, B, 5) @@ r2 :> Send(k1, A, B, 5)
            @@ r3 :> [Send(k1, A, B, 7) EXCEPT !.txId = TRUE]

\* The two requests that are the same may be exchanged.
Twins == Permutations({r1, r2})

\* MaxReruns bounds the executions that fail or crash, over all jobs.
MaxReruns == 3
FewReruns == MapThenSumSet(LAMBDA r : tries[r] + stalls[r], Requests) <= MaxReruns

\* Two payments out of one wallet that covers only one of them.
Doubled == r1 :> Send(k1, A, B, 5) @@ r2 :> Send(k2, A, B, 5)

\* Payments both ways, one to its own wallet, and one that exceeds the opening balance
\* (10 against 9: the API compares them as strings and lets it pass).
Crossed == r1 :> Send(k1, A, B, 5) @@ r2 :> Send(k2, B, A, 3)
             @@ r3 :> Send(k3, B, B, 5) @@ r4 :> Send(k4, A, B, 10)

\* A payment with the client's own transaction id.
Identified == r1 :> [Send(k1, A, B, 5) EXCEPT !.txId = TRUE]

Funds == A :> 9 @@ B :> 8

AtPar == [p \in {A, B} \X {A, B} |-> 1]
=============================================================================
