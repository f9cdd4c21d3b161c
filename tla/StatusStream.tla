---------------------------- MODULE StatusStream ----------------------------
(***************************************************************************)
(* The server-sent events that tell a client how the transfer of a key is  *)
(* doing (services/idempotent.services.ts), beside the transfers as        *)
(* IdempotentTransfer promises them.                                       *)
(*                                                                         *)
(* A timer fires every second and does not wait for the query of its last  *)
(* callback: the statuses that several callbacks have read are handled in  *)
(* any order, and clearInterval does not stop those that are under way.    *)
(* The timer is set exactly while the stream is open.                      *)
(***************************************************************************)
EXTENDS IdempotentTransfer

CONSTANT
  Streams          \* requests for a stream

VARIABLES
  subject,         \* subject[s]: the key the stream is about
  stream,          \* stream[s]: "new", "open", "ended" by the server or "closed"
  reading,         \* reading[s]: the statuses that callbacks have read and not handled
  told             \* told[s]: the status last written to a client that is still there, or "none"

streamVars == <<subject, stream, reading, told>>

\* Mutant: a failed key is shown with the progress it has made.
ShownAsProgress(k) ==
  CASE status[k] = "failed" -> "completed"
    [] status[k] = "absent" -> "pending"
    [] OTHER -> status[k]

\* Mutant: a failed key counts as pending, because its job may be tried again.
ShownAsPending(k) == IF status[k] \in {"absent", "failed"} THEN "pending" ELSE status[k]

\* The record as getStatus shows it: there need not be one yet.
Shown(k) == IF status[k] = "absent" THEN "pending" ELSE status[k]

StreamInit ==
  /\ subject \in [Streams -> Keys]
  /\ stream = [s \in Streams |-> "new"]
  /\ reading = [s \in Streams |-> {}]
  /\ told = [s \in Streams |-> "none"]

\* The headers are flushed and the timer is set.
Open(s) ==
  /\ stream[s] = "new"
  /\ stream' = [stream EXCEPT ![s] = "open"]
  /\ UNCHANGED <<subject, reading, told>>

\* The timer fires and the callback's query reads the record.
Poll(s) ==
  /\ stream[s] = "open"
  /\ reading' = [reading EXCEPT ![s] = @ \cup {Shown(subject[s])}]
  /\ UNCHANGED <<subject, stream, told>>

\* Mutant: the end is looked for in a status that no record has.
EndsOnSuccess(st) == st = "success"

Ends(st) == st = "completed"

\* The rest of the callback, in one turn of the event loop; another one may have read
\* the same.  A status is written when it is not the one written before.
Handle(s, st) ==
  /\ stream[s] = "open" /\ st \in reading[s]
  /\ reading' \in {reading, [reading EXCEPT ![s] = @ \ {st}]}
  /\ told' = [told EXCEPT ![s] = st]
  /\ stream' = IF Ends(st) THEN [stream EXCEPT ![s] = "ended"] ELSE stream
  /\ UNCHANGED subject

\* The client goes away; what callbacks have read is written to nobody.
Close(s) ==
  /\ stream[s] \in {"open", "ended"}
  /\ stream' = [stream EXCEPT ![s] = "closed"]
  /\ reading' = [reading EXCEPT ![s] = {}]
  /\ told' = [told EXCEPT ![s] = "none"]
  /\ UNCHANGED subject

\* A query fails, or a callback writes to a response that has been ended: nobody handles
\* the rejection or the error event, and the process exits with every stream it has.
Uncaught(s) == stream[s] = "open" \/ (stream[s] = "ended" /\ reading[s] # {})

ProcessExit ==
  /\ \E s \in Streams : Uncaught(s)
  /\ stream' = [s \in Streams |-> IF stream[s] = "new" THEN "new" ELSE "closed"]
  /\ reading' = [s \in Streams |-> {}]
  /\ told' = [s \in Streams |-> "none"]
  /\ UNCHANGED subject

StreamStep(s) == Open(s) \/ Poll(s) \/ (\E st \in Status : Handle(s, st)) \/ Close(s)

\* The timer fires as long as it is set, and a callback goes on when its query has read the
\* record.
StreamFairness ==
  \A s \in Streams :
    WF_streamVars(Poll(s)) /\ \A st \in {"completed", "failed"} : WF_streamVars(Handle(s, st))

-----------------------------------------------------------------------------
StreamTypeOK ==
  /\ subject \in [Streams -> Keys]
  /\ stream \in [Streams -> {"new", "open", "ended", "closed"}]
  /\ reading \in [Streams -> SUBSET (Status \ {"absent"})]
  /\ told \in [Streams -> (Status \ {"absent"}) \cup {"none"}]

\* A client is told that its transfer is completed only once the money has moved, and
\* that is the last it hears: a callback that read an older status and is late does not
\* contradict it, and neither does a late failure.
ToldTheTruth ==
  \A s \in Streams :
    /\ told[s] = "completed" => moved[subject[s]] # {}
    /\ told[s] = "completed" <=> stream[s] = "ended"

\* The stream of a key that completes for good does not stay open, whatever else its
\* callbacks read on the way: the server ends it unless the client goes or the process exits.
StreamsEnd ==
  \A s \in Streams :
    <>[](status[subject[s]] = "completed") => (stream[s] = "open" ~> stream[s] # "open")

\* The stream of a key that fails for good may stay open for ever, but its client is told:
\* again and again, whatever older statuses late callbacks tell it in between.
FailuresAreHeard ==
  \A s \in Streams :
    <>[](status[subject[s]] = "failed") =>
      (stream[s] = "open" ~> told[s] = "failed" \/ stream[s] # "open")
=============================================================================
