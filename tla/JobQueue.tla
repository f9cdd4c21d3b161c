------------------------------ MODULE JobQueue ------------------------------
(***************************************************************************)
(* The queues of BullMQ as the audit log and the mails use them: a job is  *)
(* added, a worker runs it, and an attempt that throws is repeated after a *)
(* delay until the attempts are used up.                                   *)
(*                                                                         *)
(* A job that a worker has taken counts as waiting: when the worker dies   *)
(* the job has stalled and is run again, with as many attempts as before.  *)
(* That a job has been run twice, and that BullMQ gives up one that stalls *)
(* twice, is left out.                                                     *)
(***************************************************************************)
EXTENDS Naturals

CONSTANTS
  Jobs,            \* jobs there may be
  Attempts         \* attempts of a job

ASSUME JobConstants == Attempts \in Nat \ {0}

VARIABLES
  job,             \* job[j]: the state of the job
  attempts         \* attempts[j]: attempts that have thrown, while it is waiting

jobVars == <<job, attempts>>

JobState == {"none", "adding", "lost", "waiting", "done", "failed"}

JobsInit ==
  /\ job = [j \in Jobs |-> "none"]
  /\ attempts = [j \in Jobs |-> 0]

Becomes(j, state) == job' = [job EXCEPT ![j] = state]

\* queue.add has been answered.
Enqueue(j) ==
  /\ job[j] = "adding"
  /\ Becomes(j, "waiting")
  /\ UNCHANGED attempts

\* The processor returns.
Complete(j) ==
  /\ job[j] = "waiting"
  /\ Becomes(j, "done")
  /\ attempts' = [attempts EXCEPT ![j] = 0]

\* Mutant: a job that throws is always tried again.
OneMore(j) == TRUE

MayTryAgain(j) == attempts[j] + 1 < Attempts

\* The processor throws; a job that has used its attempts up is kept as failed.
Throw(j) ==
  /\ job[j] = "waiting"
  /\ IF MayTryAgain(j)
     THEN attempts' = [attempts EXCEPT ![j] = 1 + (@ % Attempts)] /\ UNCHANGED job
     ELSE attempts' = [attempts EXCEPT ![j] = 0] /\ Becomes(j, "failed")

\* The process that adds and works exits: Redis keeps what has been added.
ExitJobs ==
  /\ job' = [j \in Jobs |-> IF job[j] = "adding" THEN "lost" ELSE job[j]]
  /\ UNCHANGED attempts
=============================================================================
