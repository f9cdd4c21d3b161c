------------------------- MODULE IdempotentTransfer -------------------------
(***************************************************************************)
(* What the transfer service promises about an idempotency key, without    *)
(* its queue, its workers, its locks and its retries: money moves for a    *)
(* key at most once, it moves in the very step that turns the key from     *)
(* pending to completed, and no later step takes the transfer back.  The   *)
(* module Transfer implements this one.                                    *)
(*                                                                         *)
(* A key's status may be overwritten after the money moved: a late failure *)
(* report turns "completed" into "failed", and a later reconciliation      *)
(* turns it back.  Only the transfer itself is write-once.                 *)
(***************************************************************************)
EXTENDS Naturals

CONSTANT Keys               \* idempotency keys

VARIABLES status,           \* status[k]: the row of table idempotency
          moved             \* moved[k]: the ids of the transfers made for k

vars == <<status, moved>>

Status == {"absent", "pending", "completed", "failed"}

TypeOK == /\ status \in [Keys -> Status]
          /\ moved \in [Keys -> SUBSET Nat]

Init == /\ status = [k \in Keys |-> "absent"]
        /\ moved = [k \in Keys |-> {}]

\* The API creates the record of a key it has not seen.
Register(k) == /\ status[k] = "absent"
               /\ status' = [status EXCEPT ![k] = "pending"]
               /\ UNCHANGED moved

\* One transfer, with some new id, is booked and its key completed, at once.
Move(k) == /\ status[k] = "pending"
           /\ moved[k] = {}
           /\ status' = [status EXCEPT ![k] = "completed"]
           /\ \E id \in moved'[k] : moved' = [moved EXCEPT ![k] = {id}]

\* Something reports failure; the report may be late.
Fail(k) == /\ status[k] # "absent"
           /\ status' = [status EXCEPT ![k] = "failed"]
           /\ UNCHANGED moved

\* Reconciliation finds the transfer already made.
Settle(k) == /\ moved[k] # {}
             /\ status' = [status EXCEPT ![k] = "completed"]
             /\ UNCHANGED moved

Next == \E k \in Keys : \/ Register(k)
                        \/ Move(k)
                        \/ Fail(k)
                        \/ Settle(k)

Spec == Init /\ [][Next]_vars
=============================================================================
