-------------------------- MODULE ObservedTransfer --------------------------
(***************************************************************************)
(* The transfers as they are, with queue, workers and transactions, and    *)
(* what clients see of them meanwhile: status streams read the committed   *)
(* rows of table idempotency, analytics the committed ledger.              *)
(***************************************************************************)
EXTENDS TransferProperties

CONSTANTS
  Streams, Callers, NoCaller, Nothing, Currencies,     \* as in StatusStream and Analytics
  MaxStrays, Looks \* as in Analytics, which calls Looks Tries

ASSUME ObservedConstants ==
  /\ NoCaller \notin Callers /\ Nothing \notin [total : SUBSET Keys, parts : SUBSET Keys]
  /\ IsFiniteSet(Callers)
  /\ Looks \in Nat /\ MaxStrays \in Nat

VARIABLES
  subject, stream, reading, told,                      \* as in StatusStream
  system, currency, where, total, parts, cache, lock, strays, newest,    \* as in Analytics
  looks,           \* tries of Analytics
  heard            \* as in Observers

\* The observers, who see of a key its status and whether its transfer is in the ledger.
Watch == INSTANCE Observers WITH
  status <- idem,
  moved  <- [k \in Keys |-> IF Recorded(k) THEN {0} ELSE {}],
  tries  <- looks,
  Tries  <- Looks

watchers == <<subject, stream, reading, told, system, currency, where, looks, total, parts,
              cache, lock, strays, newest, heard>>

watched == <<vars, watchers>>

ObservedInit == Init /\ Watch!WatchInit

ObservedNext ==
  \/ Next /\ UNCHANGED watchers
  \/ Watch!WatchNext /\ UNCHANGED vars

ObservedSpec ==
  /\ ObservedInit /\ [][ObservedNext]_watched
  /\ Watch!StreamFairness /\ Watch!AnalyticsFairness

-----------------------------------------------------------------------------
\* A client whose stream has told it that the transfer is completed finds it in the ledger:
\* through attempts, crashes, lost COMMIT answers and late failures of the jobs of its key,
\* and polls that overtake each other.
ToldIsPosted ==
  \A s \in Streams : told[s] = "completed" =>
    \E i \in DOMAIN posted : Body[posted[i].req].key = subject[s]

\* An answer that is not from the cache has in every part what the jobs had booked when
\* a stream told of it.
AnswersHavePosted ==
  \A c \in Callers : where[c] \in {"wonAll", "lostAll"} => \A k \in heard[c] :
    k \in total[c] \cap parts[c] /\ \E i \in DOMAIN posted : Body[posted[i].req].key = k

\* The server ends the stream of a key that the jobs leave completed for good, though a late
\* failure may have turned it to failed, and a reconciliation back, while callbacks were
\* under way (streamStatus, reconcile).
StreamsEnd == Watch!StreamsEnd

\* The client of a stream is told of a key that the listener leaves failed for good, after
\* attempts that were pending, completed or failed on the same key (streamStatus).
FailuresAreHeard == Watch!FailuresAreHeard
=============================================================================
