------------------------------ MODULE Transfer ------------------------------
(***************************************************************************)
(* Money transfers, from the HTTP request to the last status mail          *)
(* (services/transfer.services.ts, workers/transfer.worker.ts and the      *)
(* idempotency, ledger, transfer and wallet repositories they call).       *)
(*                                                                         *)
(* The API checks a request, creates the row of its idempotency key and    *)
(* queues a job.  A worker runs the job inside one PostgreSQL transaction  *)
(* (READ COMMITTED): claim the key, look for an earlier transfer, validate *)
(* the funds, read both wallets, insert the ledger entries and the         *)
(* transfer, bump both wallet versions if nobody else did, complete the    *)
(* key, commit.  One action is one query, or a group of queries that no    *)
(* other process can come between with a different outcome.                *)
(*                                                                         *)
(* The rows a transaction writes are visible to the others at its commit;  *)
(* until then it holds the rows it updated (keyLock, walletLock), and      *)
(* another transaction's UPDATE of the same row waits.                     *)
(***************************************************************************)
EXTENDS Integers, Sequences, FiniteSets, FiniteSetsExt

CONSTANTS
  Requests,        \* HTTP transfer requests; the job of a request has its name
  Keys,            \* idempotency keys
  Wallets,         \* wallets, accounts of the ledger
  NoWallet,        \* the id of a wallet that does not exist
  NoJob,           \* the owner of a row nobody has locked
  Body,            \* Body[r]: what the client sent
  Opening,         \* Opening[w]: balance from the ledger entries already there
  Rate,            \* Rate[<<w, v>>]: what the rate service says of w's and v's currency
  Attempts,        \* runs a job may fail in before BullMQ gives up (0 counts as 1)
  MaxStalls,       \* worker crashes a job survives (BullMQ's maxStalledCount)
  MaxOptimistic,   \* TRANSFER_OPTIMISTIC_RETRIES
  Concurrency,     \* jobs running at once, over all workers
  Faults           \* which faults happen: subset of FaultKinds

FaultKinds == {"api", "worker", "db", "mail", "commit"}

ASSUME ConstantsOK ==
  /\ NoJob \notin Requests
  /\ NoWallet \notin Wallets
  /\ Body \in [Requests -> [key : Keys, from : Wallets, to : Wallets \cup {NoWallet},
                            amount : Int, owns : BOOLEAN, txId : BOOLEAN]]
  /\ Opening \in [Wallets -> Int]
  /\ Rate \in [Wallets \X Wallets -> Nat]
  /\ Attempts \in Nat \ {0} /\ Concurrency \in Nat \ {0}
  /\ MaxStalls \in Nat /\ MaxOptimistic \in Nat
  /\ Faults \subseteq FaultKinds

VARIABLES
  http,            \* http[r]: where enqueueTransfer is
  idem,            \* idem[k]: committed status of the key
  posted,          \* committed transfers in order; each is a transfer row and its two ledger rows
  version,         \* version[w]: committed column wallet.version
  keyLock,         \* keyLock[k]: the job whose transaction holds the idempotency row
  walletLock,      \* walletLock[w]: the job whose transaction holds the wallet row
  seen,            \* seen[r]: wallet versions the running transaction has read
  job,             \* job[r]: where the job is, in the queue or in process()
  tries,           \* tries[r]: failed attempts (BullMQ's attemptsMade)
  stalls,          \* stalls[r]: attempts lost to a crash
  opt,             \* opt[r]: optimistic retries in this attempt
  handlers,        \* "failed" events the worker's listener has not finished with
  notices          \* status mails queued, as <<request, status>>

api   == http
store == <<idem, posted, version>>
txn   == <<keyLock, walletLock, seen>>
queue == <<job, tries, stalls, opt>>
out   == <<handlers, notices>>
vars  == <<api, store, txn, queue, out>>

HttpState == {"new", "lookup", "record", "add", "accepted", "rejected", "lost"}

KeyStatus == {"absent", "pending", "completed", "failed"}

\* Steps at which the transaction holds the row of the key it claimed.
Claimed == {"check", "validate", "readFrom", "readTo", "insert", "inner",
            "bumpFrom", "bumpTo", "commit"}

\* Steps of process() at which it queues a mail.
Mailing == {"permMail", "notify"}

Running == Claimed \cup Mailing \cup {"claim", "miss", "recheck", "settle", "reconcile", "permMark"}

JobState == Running \cup {"none", "waiting", "finished", "failed"}

Unseen == [at |-> 0, from |-> 0, to |-> 0]

-----------------------------------------------------------------------------
\* Mutant: every submission draws a key of its own.
FreshKey(r) == (CHOOSE f \in [Requests -> Keys] :
                  \A p, q \in Requests : p # q => f[p] # f[q])[r]

Key(r) == Body[r].key

\* The rows of the ledger and of the transfer table that carry key k.  They are
\* inserted by one transaction, so one lookup stands for the lookup in both.
Recorded(k) == \E i \in DOMAIN posted : Key(posted[i].req) = k

Debit(p, w)  == IF Body[p.req].from = w THEN Body[p.req].amount ELSE 0
Credit(p, w) == IF Body[p.req].to = w THEN p.credit ELSE 0

\* getBalance and getBalanceForWallet: SUM over the committed ledger entries.
Balance(w) ==
  Opening[w] + MapThenSumSet(LAMBDA i : Credit(posted[i], w) - Debit(posted[i], w),
                             DOMAIN posted)

CreditAmount(r) == Body[r].amount * Rate[<<Body[r].from, Body[r].to>>]

\* Balance and amount as the strings that enqueueTransfer compares: decimal
\* digits, -1 for the minus sign (which sorts before every digit).
\* NumeralBound: |n| < 100.
Digits(n)  == IF n < 10 THEN <<n>> ELSE <<n \div 10, n % 10>>
Numeral(n) == IF n < 0 THEN <<-1>> \o Digits(-n) ELSE Digits(n)

StringLess(s, t) ==
  \E i \in 1..Len(t) : /\ \A j \in 1..(i - 1) : j <= Len(s) /\ s[j] = t[j]
                       /\ i > Len(s) \/ s[i] < t[i]

KeyFree(k)        == keyLock[k] = NoJob
WalletFree(r, w)  == walletLock[w] \in {NoJob, r}

\* Mutant: the UPDATE does not compare the version.
MatchesAny(r, w, v) == TRUE

\* The UPDATE that matches version v sees r's own uncommitted increment.
Matches(r, w, v) == version[w] + (IF walletLock[w] = r THEN 1 ELSE 0) = v

Goto(r, step) == job' = [job EXCEPT ![r] = step]

-----------------------------------------------------------------------------
Init ==
  /\ http = [r \in Requests |-> "new"]
  /\ idem = [k \in Keys |-> "absent"]
  /\ posted = <<>>
  /\ version = [w \in Wallets |-> 0]
  /\ keyLock = [k \in Keys |-> NoJob]
  /\ walletLock = [w \in Wallets |-> NoJob]
  /\ seen = [r \in Requests |-> Unseen]
  /\ job = [r \in Requests |-> "none"]
  /\ tries = [r \in Requests |-> 0]
  /\ stalls = [r \in Requests |-> 0]
  /\ opt = [r \in Requests |-> 0]
  /\ handlers = {}
  /\ notices = {}

(***************************************************************************)
(* The API process: enqueueTransfer.                                       *)
(***************************************************************************)

\* The wallet's owner, then its balance against the amount, as strings.
CheckFunds(r) ==
  /\ http[r] = "new"
  /\ http' = [http EXCEPT ![r] =
       IF /\ Body[r].owns
          /\ ~StringLess(Numeral(Balance(Body[r].from)), Numeral(Body[r].amount))
       THEN "lookup" ELSE "rejected"]
  /\ UNCHANGED <<store, txn, queue, out>>

\* handleIdempotencyForEnqueue reads the committed status.
LookupKey(r) ==
  /\ http[r] = "lookup"
  /\ http' = [http EXCEPT ![r] =
       CASE idem[Key(r)] = "absent"  -> "record"
         [] idem[Key(r)] = "pending" -> "add"
         [] OTHER                    -> "rejected"]
  /\ UNCHANGED <<store, txn, queue, out>>

\* INSERT ... ON CONFLICT DO NOTHING: another request may have been faster.
CreateRecord(r) ==
  /\ http[r] = "record"
  /\ http' = [http EXCEPT ![r] = "add"]
  /\ idem' = [idem EXCEPT ![Key(r)] = IF @ = "absent" THEN "pending" ELSE @]
  /\ UNCHANGED <<posted, version, txn, queue, out>>

AddJob(r) ==
  /\ http[r] = "add"
  /\ http' = [http EXCEPT ![r] = "accepted"]
  /\ Goto(r, "waiting")
  /\ UNCHANGED <<store, txn, tries, stalls, opt, out>>

\* The API process dies, or queue.add fails, between two of those steps.
ApiCrash(r) ==
  /\ "api" \in Faults
  /\ http[r] \in {"lookup", "record", "add"}
  /\ http' = [http EXCEPT ![r] = "lost"]
  /\ UNCHANGED <<store, txn, queue, out>>

(***************************************************************************)
(* How an execution ends.                                                  *)
(***************************************************************************)

\* COMMIT or ROLLBACK gives up the rows r's transaction holds.
Release(r) ==
  /\ keyLock' = [k \in Keys |-> IF keyLock[k] = r THEN NoJob ELSE keyLock[k]]
  /\ walletLock' = [w \in Wallets |-> IF walletLock[w] = r THEN NoJob ELSE walletLock[w]]
  /\ seen' = [seen EXCEPT ![r] = Unseen]

\* Mutant: the limit is taken as the number of retries after the first attempt.
MayRetryOnceMore(r) == tries[r] < Attempts

MayRetry(r) == tries[r] + 1 < Attempts

\* process() throws: BullMQ counts the attempt, queues the job again or gives
\* it up, and in both cases emits "failed" on the worker.
FailAttempt(r) ==
  /\ Goto(r, IF MayRetry(r) THEN "waiting" ELSE "failed")
  /\ tries' = [tries EXCEPT ![r] = @ + 1]
  /\ opt' = [opt EXCEPT ![r] = 0]
  /\ handlers' = handlers \cup {[req |-> r, try |-> tries[r], step |-> "mail"]}
  /\ UNCHANGED <<stalls, notices>>

\* An error that is neither permanent, nor an optimistic conflict to retry, nor
\* a duplicate key.
Throw(r) == Release(r) /\ FailAttempt(r) /\ UNCHANGED <<api, store>>

\* A PermanentError: rolled back, then reported outside the transaction.
Reject(r) ==
  /\ Release(r) /\ Goto(r, "permMark")
  /\ UNCHANGED <<api, store, tries, stalls, opt, out>>

Publish(r) == Append(posted, [req |-> r, credit |-> CreditAmount(r)])

Touches(r, w) == w \in {Body[r].from, Body[r].to}

\* What COMMIT makes visible of a transfer.
Book(r) ==
  /\ posted' = Publish(r)
  /\ version' = [w \in Wallets |-> IF Touches(r, w) THEN version[w] + 1 ELSE version[w]]
  /\ idem' = [idem EXCEPT ![Key(r)] = "completed"]
  /\ Release(r)

-----------------------------------------------------------------------------
(***************************************************************************)
(* A worker: one execution of process().                                   *)
(***************************************************************************)

Take(r) ==
  /\ job[r] = "waiting"
  /\ Cardinality({q \in Requests : job[q] \in Running}) < Concurrency
  /\ Goto(r, "claim")
  /\ UNCHANGED <<api, store, txn, tries, stalls, opt, out>>

\* Mutant: a failed key may be claimed again, so that BullMQ's retry has an effect.
ClaimableAgain(k) == idem[k] \in {"pending", "failed"}

Claimable(k) == idem[k] = "pending"

\* markProcessingRecord: UPDATE ... WHERE key AND status = 'pending'.  It waits
\* for the row, then tests the committed status.  The new status "processing"
\* is replaced or rolled back before anybody can see it.
Claim(r) ==
  /\ job[r] = "claim"
  /\ KeyFree(Key(r))
  /\ IF Claimable(Key(r))
     THEN keyLock' = [keyLock EXCEPT ![Key(r)] = r] /\ Goto(r, "check")
     ELSE UNCHANGED keyLock /\ Goto(r, "miss")
  /\ UNCHANGED <<api, store, walletLock, seen, tries, stalls, opt, out>>

\* Mutant: any key that is not pending counts as processed.
DoneAnyhow(k) == idem[k] # "pending"

AlreadyDone(k) == idem[k] = "completed"

\* processIdempotencyRecord after it updated no row; what it returns is ignored.
ReadMiss(r) ==
  /\ job[r] = "miss"
  /\ IF AlreadyDone(Key(r))
     THEN Goto(r, "recheck") /\ UNCHANGED <<api, store, txn, tries, stalls, opt, out>>
     ELSE Throw(r)

\* checkExistingTransactions.  When nothing is found its INSERT of the key is
\* a no-op: the row exists.
CheckExisting(r) ==
  /\ job[r] \in {"check", "recheck"}
  /\ Goto(r, IF Recorded(Key(r)) THEN "settle" ELSE "validate")
  /\ UNCHANGED <<api, store, txn, tries, stalls, opt, out>>

\* It found the transfer: markCompleted and COMMIT.
Settle(r) ==
  /\ job[r] = "settle"
  /\ keyLock[Key(r)] \in {NoJob, r}
  /\ idem' = [idem EXCEPT ![Key(r)] = "completed"]
  /\ Release(r) /\ Goto(r, "notify")
  /\ UNCHANGED <<api, posted, version, tries, stalls, opt, out>>

\* Mutant: the worker trusts the API's check of the funds.
AcceptableUnfunded(r) == Body[r].owns /\ Body[r].amount > 0

Acceptable(r) == /\ Body[r].owns
                 /\ Body[r].amount > 0
                 /\ Balance(Body[r].from) >= Body[r].amount

\* validateTransferRequest.  seen.at is not read by the code: it is the version
\* the source wallet had when its balance was read, kept for the properties.
Validate(r) ==
  /\ job[r] = "validate"
  /\ IF Acceptable(r)
     THEN /\ seen' = [seen EXCEPT ![r].at = version[Body[r].from]]
          /\ Goto(r, "readFrom")
          /\ UNCHANGED <<api, store, keyLock, walletLock, tries, stalls, opt, out>>
     ELSE Reject(r)

\* getWallets: two queries on the transaction's connection, each with its own
\* snapshot.
ReadFrom(r) ==
  /\ job[r] = "readFrom"
  /\ seen' = [seen EXCEPT ![r].from = version[Body[r].from]]
  /\ Goto(r, "readTo")
  /\ UNCHANGED <<api, store, keyLock, walletLock, tries, stalls, opt, out>>

ReadTo(r) ==
  /\ job[r] = "readTo"
  /\ IF Body[r].to \in Wallets
     THEN /\ seen' = [seen EXCEPT ![r].to = version[Body[r].to]]
          /\ Goto(r, "insert")
          /\ UNCHANGED <<api, store, keyLock, walletLock, tries, stalls, opt, out>>
     ELSE Throw(r)

\* Both ledger rows carry the txId of the request, which is unique in the table.
Conflicts(r) == Body[r].txId \/ Recorded(Key(r))

\* createLedgerEntries and createTransferRecord.  The unique index on the key
\* waits for a transaction that inserted the same key and has not ended.
Insert(r) ==
  /\ job[r] = "insert"
  /\ \A q \in Requests \ {r} :
       Key(q) = Key(r) => job[q] \notin {"inner", "bumpFrom", "bumpTo", "commit"}
  /\ Goto(r, IF Conflicts(r) THEN "inner" ELSE "bumpFrom")
  /\ UNCHANGED <<api, store, txn, tries, stalls, opt, out>>

\* The insert failed, and reconcile looks for the transfer on another connection
\* while the failed transaction is still open.  It finds none (a job that got
\* here holds a pending key), so the error is thrown again and the outer
\* reconcile runs after the rollback.
InnerReconcile(r) ==
  /\ job[r] = "inner"
  /\ ~Recorded(Key(r))
  /\ Release(r) /\ Goto(r, "reconcile")
  /\ UNCHANGED <<api, store, tries, stalls, opt, out>>

\* updateWalletVersions: both UPDATEs run even if the first matches no row.
BumpFrom(r) ==
  LET w == Body[r].from IN
  /\ job[r] = "bumpFrom"
  /\ WalletFree(r, w)
  /\ walletLock' = IF Matches(r, w, seen[r].from)
                   THEN [walletLock EXCEPT ![w] = r] ELSE walletLock
  /\ Goto(r, "bumpTo")
  /\ UNCHANGED <<api, store, keyLock, seen, tries, stalls, opt, out>>

MayRepeat(r) == opt[r] < MaxOptimistic

\* OptimisticLockError: roll back, then run the transaction again or give up.
Conflict(r) ==
  IF MayRepeat(r)
  THEN /\ Release(r) /\ Goto(r, "claim")
       /\ opt' = [opt EXCEPT ![r] = @ + 1]
       /\ UNCHANGED <<api, store, tries, stalls, out>>
  ELSE Throw(r)

BumpTo(r) ==
  LET w == Body[r].to IN
  /\ job[r] = "bumpTo"
  /\ WalletFree(r, w)
  /\ IF walletLock[Body[r].from] = r /\ Matches(r, w, seen[r].to)
     THEN /\ walletLock' = [walletLock EXCEPT ![w] = r]
          /\ Goto(r, "commit")
          /\ UNCHANGED <<api, store, keyLock, seen, tries, stalls, opt, out>>
     ELSE Conflict(r)

Commit(r) ==
  /\ job[r] = "commit"
  /\ Book(r) /\ Goto(r, "notify")
  /\ UNCHANGED <<api, tries, stalls, opt, out>>

\* Mutant: a duplicate key is taken as proof that the transfer was made.
ReconciledBlindly(r) == TRUE

Reconciled(r) == Recorded(Key(r))

\* The duplicate-key branch of process(), outside any transaction.  Nothing
\* found: the job ends without a word.
Reconcile(r) ==
  /\ job[r] = "reconcile"
  /\ IF Reconciled(r)
     THEN /\ KeyFree(Key(r))
          /\ idem' = [idem EXCEPT ![Key(r)] = "completed"]
          /\ Goto(r, "notify")
     ELSE Goto(r, "finished") /\ UNCHANGED idem
  /\ UNCHANGED <<api, posted, version, txn, tries, stalls, opt, out>>

\* Mutant: the mail about a permanent error is forgotten.
PermMarkSilently(r) ==
  /\ job[r] = "permMark" /\ KeyFree(Key(r))
  /\ idem' = [idem EXCEPT ![Key(r)] = "failed"] /\ Goto(r, "finished")
  /\ UNCHANGED <<api, posted, version, txn, tries, stalls, opt, out>>

\* The permanent-error branch: markAsFailed whatever the status is, then mail.
PermMark(r) ==
  /\ job[r] = "permMark"
  /\ KeyFree(Key(r))
  /\ idem' = [idem EXCEPT ![Key(r)] = "failed"]
  /\ Goto(r, "permMail")
  /\ UNCHANGED <<api, posted, version, txn, tries, stalls, opt, out>>

Mail(r, status) == notices' = notices \cup {<<r, status>>}

PermMail(r) ==
  /\ job[r] = "permMail"
  /\ Mail(r, "failed") /\ Goto(r, "finished")
  /\ UNCHANGED <<api, store, txn, tries, stalls, opt, handlers>>

Notify(r) ==
  /\ job[r] = "notify"
  /\ Mail(r, "completed") /\ Goto(r, "finished")
  /\ UNCHANGED <<api, store, txn, tries, stalls, opt, handlers>>

-----------------------------------------------------------------------------
(***************************************************************************)
(* Faults.                                                                 *)
(***************************************************************************)

\* A query or the rate service fails: process() throws.
DbError(r) ==
  /\ "db" \in Faults
  /\ job[r] \in Running \ Mailing
  /\ Throw(r)

\* sendTransferStatusEmail throws, for instance because the sender was deleted;
\* the sender's own mail may have been queued before the recipient's failed.
MailError(r) ==
  /\ "mail" \in Faults
  /\ job[r] \in Mailing
  /\ Throw(r)

\* PostgreSQL commits but the connection breaks before the worker is told.
CommitUnknown(r) ==
  /\ "commit" \in Faults
  /\ job[r] = "commit"
  /\ Book(r) /\ FailAttempt(r)
  /\ UNCHANGED api

\* r waits in its second UPDATE for a row held by another transaction of a cycle
\* that wait for each other in the same way.
InWaitCycle(r) ==
  \E S \in SUBSET {q \in Requests : job[q] = "bumpTo" /\ ~WalletFree(q, Body[q].to)} :
    r \in S /\ {walletLock[Body[q].to] : q \in S} = S

\* PostgreSQL aborts one transaction of the cycle; process() does not know the error.
DeadlockAbort(r) == InWaitCycle(r) /\ Throw(r)

\* The worker process dies.  BullMQ finds the job stalled and queues it again,
\* up to MaxStalls times, then fails it.
Crash(r) ==
  /\ "worker" \in Faults
  /\ job[r] \in Running
  /\ Release(r)
  /\ stalls' = [stalls EXCEPT ![r] = @ + 1]
  /\ opt' = [opt EXCEPT ![r] = 0]
  /\ IF stalls[r] < MaxStalls
     THEN Goto(r, "waiting") /\ UNCHANGED handlers
     ELSE /\ Goto(r, "failed")
          /\ handlers' = handlers \cup {[req |-> r, try |-> tries[r], step |-> "mail"]}
  /\ UNCHANGED <<api, store, tries, notices>>

(***************************************************************************)
(* The worker's "failed" listener, once for every failed attempt, beside   *)
(* whatever the queue does with the job meanwhile.                         *)
(***************************************************************************)

HandlerMail(h) ==
  /\ h.step = "mail"
  /\ Mail(h.req, "failed")
  /\ handlers' = (handlers \ {h}) \cup {[h EXCEPT !.step = "mark"]}
  /\ UNCHANGED <<api, store, txn, queue>>

\* Mutant: the listener resets the key for the next attempt (markAsPending).
HandlerReset(h) ==
  /\ h.step = "mark" /\ KeyFree(Key(h.req))
  /\ idem' = [idem EXCEPT ![Key(h.req)] = "pending"]
  /\ handlers' = handlers \ {h}
  /\ UNCHANGED <<api, posted, version, txn, queue, notices>>

HandlerMark(h) ==
  /\ h.step = "mark"
  /\ KeyFree(Key(h.req))
  /\ idem' = [idem EXCEPT ![Key(h.req)] = "failed"]
  /\ handlers' = handlers \ {h}
  /\ UNCHANGED <<api, posted, version, txn, queue, notices>>

\* Its await rejects, or its process dies: the rest of it never happens.
HandlerLost(h) ==
  /\ Faults \cap {"worker", IF h.step = "mail" THEN "mail" ELSE "db"} # {}
  /\ handlers' = handlers \ {h}
  /\ UNCHANGED <<api, store, txn, queue, notices>>

-----------------------------------------------------------------------------
Api(r) == CheckFunds(r) \/ LookupKey(r) \/ CreateRecord(r) \/ AddJob(r)

Work(r) == \/ Take(r) \/ Claim(r) \/ ReadMiss(r) \/ CheckExisting(r) \/ Settle(r)
           \/ Validate(r) \/ ReadFrom(r) \/ ReadTo(r) \/ Insert(r) \/ InnerReconcile(r)
           \/ BumpFrom(r) \/ BumpTo(r) \/ Commit(r) \/ Reconcile(r) \/ PermMark(r)
           \/ PermMail(r) \/ Notify(r) \/ DeadlockAbort(r)

Fault(r) == ApiCrash(r) \/ DbError(r) \/ MailError(r) \/ CommitUnknown(r) \/ Crash(r)

Listen(h) == HandlerMail(h) \/ HandlerMark(h)

\* Every request was answered, every job has ended, no listener is busy.
Quiescent ==
  /\ \A r \in Requests : /\ http[r] \in {"accepted", "rejected", "lost"}
                         /\ job[r] \in {"none", "finished", "failed"}
  /\ handlers = {}
  /\ UNCHANGED vars

Next == \/ \E r \in Requests : Api(r) \/ Work(r) \/ Fault(r)
        \/ \E h \in handlers : Listen(h) \/ HandlerLost(h)
        \/ Quiescent

Spec == Init /\ [][Next]_vars

\* The API's and the workers' event loops go on, Redis hands out waiting jobs,
\* PostgreSQL wakes the transactions that wait for a row.  Faults need not happen.
Fairness ==
  /\ \A r \in Requests : WF_vars(Api(r)) /\ WF_vars(Work(r))
  /\ WF_vars(\E h \in handlers : Listen(h))

FairSpec == Spec /\ Fairness
=============================================================================
