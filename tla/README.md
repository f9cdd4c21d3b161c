# bukia-hft in TLA+

A verification project for the multi-currency transfer service in `src/`.  It models the
code, checks the models with TLC on small instances, and proves theorems about them with
TLAPS for all instances.  Section 1 is the inventory of the system, 2 the plan, 3 what the
modules say, 4 what TLC checks, 5 what is proved, 6 what the code does otherwise than its
documentation says, 7 what is left out.  Paths are relative to the repository.

## 1. The system

An Express API and a set of BullMQ workers share one PostgreSQL database (TypeORM, isolation
READ COMMITTED) and one Redis (queues, one-time passwords, lockouts, locks, caches).  Any
number of processes of either kind may run; inside one, every `await` is a point where
another request or job goes on.

| component | state | operations | hard because | correct when |
|---|---|---|---|---|
| transfers (`services/transfer.services.ts`, `workers/transfer.worker.ts`) | job queue, transaction in progress | enqueueTransfer, process, executeTransaction, reconcile, the `failed` listener | two retry layers, crashes, lost acknowledgements, deadlocks, three processes writing one status | money moves once per key; no wallet overdrawn; every request settled and answered |
| idempotency records | status per key | createRecord, markProcessingRecord, markCompleted, markAsFailed | conditional and unconditional writers of one column | the status tells the truth about the ledger |
| ledger, transfers, wallets | append-only entries, transfer rows, wallet version | createTransferEntries, getBalance, incrementVersionIfMatch | balance and version are read in different snapshots | entries never change; the version counts what touched the wallet |
| currency conversion | – | convert | an HTTP call in the middle of a transaction | – |
| status stream (`services/idempotent.services.ts`) | a timer per client | streamStatus | overlapping polls | what is told is true, and the last that is told; the stream ends when the key is completed |
| wallet service | wallets per user | createWallet, default wallets | several inserts in somebody else's transaction | an account has the wallets of its country, or is not there |
| login, OTP, reset (`services/auth.services.ts`) | otp and otp_verified keys, password | getOtp, validateOtp, loginUser, resetPassword | read, compare and delete are three commands | a verification stands for a code of the same purpose; what has been deleted opens nothing later |
| lockout (`utils/lockout.ts`, `lockout.lua`) | failure counter and lock with TTLs | a decorated call | checks and counting are apart; TTLs run meanwhile | after `threshold` failures in a window nobody gets in until the lock ends |
| rate limit by key | counter with TTL | a decorated call | counter and answer are apart | at most `max` calls in a window |
| sessions (`middleware/auth.ts`, `User.jwtVersion`) | the user's row, tokens issued | login, refresh, logout, authenticateJWT | whole entities are read, changed in memory and saved | a token revoked stays revoked |
| administration of users | the user's row, lock keys | lockUser, unlockUser, deactivateUser, resetPassword, updateUser | Redis and PostgreSQL change one after the other | the last decision of an administrator holds |
| authorization | otp_verified key | isAuthorized, RoleGuard | the verification is consumed first | one verification, one login of an administrator |
| analytics cache (`utils/cache-decorator.ts`) | cached value and lock with TTLs | a decorated call | a lock that is deleted without a check of its owner | no more computations at a time than locks have gone too early, and one; counts and breakdowns disagree one way only |
| email queue, audit log | two queues, an append-only table | send, addLog, processJob, sanitizeAudit | fire and forget | no administrator acts unlogged, no password is saved without its mail, no secret is logged |
| requests: routing, validation, guards, transactions, error handling | the pool of connections | every route | async middleware that nobody catches, a second connection inside a transaction | an answer means what it says; every request ends |
| health check, configuration, start-up, migrations, views | – | – | – | – |

How they interact: a controller calls `enqueueTransfer`, which reads wallet and ledger, writes
the idempotency row and adds a BullMQ job; a worker's `process` runs one transaction over
idempotency, ledger, transfer and wallet tables, then queues mails; BullMQ's `failed` event runs a
listener in the worker beside the queue's own retry; the status stream polls the idempotency
row.  Login goes through `isAuthorized` (Redis), `lockout` (Redis) and the user's row;
administration writes the same row and the same Redis keys.  Analytics read the ledger beside the
transfers.  All requests and both small queues share one pool of connections and one process.

`PROJECT.json` lists every component with its status, and under "hazards" each place where
this code is hard to test.

## 2. Plan

Most important first.  Done:

1. `IdempotentTransfer`, `Transfer`, `TransferProperties`, `MCTransfer`: transfers with the
   idempotency, ledger, transfer and wallet repositories, and the abstract promise they
   implement; proofs in `TransferProofs` (types, keys, refinement) and
   `TransferWalletProofs`.
2. `Sessions`, `MCSessions`, `SessionsProofs`: the user's row as an entity that is read,
   changed and saved whole, and the tokens issued meanwhile.
3. `Lockout`: two keys with times to live, the script as one step, calls in
   flight, the administrator's lock and unlock.
4. `Otp`, `MCOtp`: codes, verifications and the rate limit in front of the methods, extending
   `Lockout`, whose actions are used as they are; `OtpProofs` is about both.
5. `StatusStream` and `Analytics`, composed in `Observers` (`MCObservers`) with the transfers
   that `IdempotentTransfer` promises; `ObserversProofs`.
6. `JobQueue` and `Requests` (`MCRequests`), with `AuditSanitizer`: every route through
   middleware, transaction, pool and queue; `RequestsProofs`, `AuditSanitizerProofs`.
7. `ObservedTransfer` (`MCObserved`): streams and analytics beside the transfers as they are;
   `ObservedProofs`.

Left: the liveness properties, which TLC checks and the provers cannot reach.

## 3. The modules

**`IdempotentTransfer`** is the promise about a key: it is registered, money moves for it at
most once, in the step that turns it from pending to completed, and the transfer stays.  Its
status may later be overwritten by a failure report, and settled again.

**`Transfer`** is the code.  One action is one query, or a group of queries between which no
other process can make a difference.

| actions | code |
|---|---|
| CheckFunds, LookupKey, CreateRecord, AddJob, ApiCrash | `enqueueTransfer`, `handleIdempotencyForEnqueue`, `addTransferJob` |
| Take | the worker's concurrency |
| Claim, ReadMiss | `processIdempotencyRecord`, `markProcessingRecord` |
| CheckExisting, Settle | `checkExistingTransactions` |
| Validate, ReadFrom, ReadTo | `validateTransferRequest`, `getWallets` |
| Insert, InnerReconcile | `createLedgerEntries`, `createTransferRecord` |
| BumpFrom, BumpTo, Commit | `updateWalletVersions`, `markCompleted`, COMMIT |
| Reconcile, PermMark, PermMail, Notify, and Throw within the others | the branches of `process` |
| HandlerMail, HandlerMark, HandlerLost | the worker's `failed` listener |
| DbError, MailError, CommitUnknown, Crash, DeadlockAbort | faults |

State: `http` (where the API is with a request), `idem`, `posted`, `version` (what is
committed), `keyLock`, `walletLock`, `seen` (the open transactions), `job`, `tries`, `stalls`,
`opt` (the queue and where each execution stands), `handlers`, `notices`.  A transaction's
writes are not visible before its COMMIT; what the others notice of it before is that they wait
for the rows it updated.  So the status "processing", which exists only inside a transaction,
is not a state of `idem`.

Abstractions.  The two ledger rows and the transfer row of a transfer are one element of
`posted`: one transaction writes them.  A rate is a constant per pair of wallets.  A mail is
either queued or throws.  Redis keeps the jobs; BullMQ is external and modelled by what it
does: attempts are counted, a stalled job runs again, `failed` is emitted for each failed
attempt.  PostgreSQL too: row locks, unique indexes, the deadlock detector.  The
API's comparison of balance and amount, which are both strings, is modelled as a comparison of
numerals digit by digit.  Two transactions that insert the same key wait for each other by the
unique index.  `seen.at` is not read by the code; it records when the balance was read.

**`TransferProperties`** states what Transfer guarantees, **`MCTransfer`** the small instances.

**`Sessions`** is one user's row and the calls of the API about it.  A call is admitted, loads the
user, and then answers (login, refresh) or saves.  TypeORM's save() is three steps: it selects
the row again, updates the columns in which the entity differs from it, and commits.

| actions | code |
|---|---|
| Admit | the routes and `authenticateJWT`; the method is chosen here |
| Load | `findOne` / `findWithProfile` at the start of every method |
| Answer | `loginUser`, `refreshToken`, `generateUserTokens` |
| Select, Write, Commit | `logout`, `resetPassword`, `handleOtpType`, `deactivateUser`, `lockUser`, `unlockUser`, the administrator's `resetPassword`, `updateUser`: `Changed` is what they do to the entity, the three steps are save() |
| Fail | a wrong password, a taken email, a failing query, Redis command or mail |

State: `row` (what is committed; `ver` is jwtVersion, a password and an email are named by the call
that set them), `rowLock`, `call`, `kind`, `entity` and `stored` (what a call loaded and what its
save selected), `tokens` (the versions signed so far).  `before` and `revoked` are not in the
code: they record what a logout, or another call that is to end sessions, was to revoke.
`rewound` is not either: it records that a save has set jwtVersion back.  Tokens do not expire,
which only makes more of them acceptable.  The lockout and the OTP in front of a login or a reset are
left open: any such call may come.  Calls overlap as they like, as nothing in the code keeps them
apart.

**`Lockout`** is the decorator around `loginUser`, for one identifier.

| actions | code |
|---|---|
| Check | the look at the lock (`lockout.ts:97`) |
| Body | the method: it returns, throws Unauthorized, or throws anything else |
| Clear | a success deletes the counter |
| Count | `runLuaScript` and `lockout.lua`, one step; or the script runs and is sent again |
| LockUser, UnlockUser | the administrator's SET and DEL of the lock's key (their jwtVersion is in Sessions) |
| Tick | Redis expires keys |

State: `lock` and `left`, the seconds that TTL reports of the two keys, `fails`, `call`.  `counted`,
`again`, `told` record what happened in the life of the counter there is, which a success or the
end of its window ends.  TTL rounds to seconds, so a lock in its last half second reports 0: the code then lets a
call in, but SET NX still finds the key, and so does the model.  The two keys' seconds tick
together.  Other identifiers have keys of their own.  `lockout.lua` is taken to be where the code looks
for it; the build script copies only templates.

**`Otp`** extends `Lockout` with one user's codes (`otp:*`), verifications (`otp_verified:*`) and rate
counter (`rl:*`).

| actions | code |
|---|---|
| Limit, Store | `RateLimitByKey` (its script may be sent again), `getOtp` |
| Match, Mark, DeleteCode | `validateOtp`: GET and compare, SET, DEL |
| Allow, SavePassword, DeleteVerification | `resetPassword`: GET, save, DEL |
| Authorize, Consume | `isAuthorized`: GET, DEL |
| Login | `loginUser` behind the lockout: the actions of `Lockout`, with the check of administrators |
| Lapse | Redis expires a key |

A code is named by the call that made it and a verification by the call that set it: that is how
a property can say which one a call has used.  `has` and `purpose` are local variables of the
calls; `spent` and `windows` are not in the code, they record deletions and lives of the counter.
Any step may be the last of its call.  What the methods do to the user's row is in `Sessions`.
A getOtp that finds no user, or whose mail fails, is a call that stops: the window is spent all the
same.

**`StatusStream`** and **`Analytics`** see the transfers through `IdempotentTransfer` only; what they say
holds for `Transfer` because it implements that.  In `StatusStream`, Open, Poll, Handle and Close are
`streamStatus`: a callback is Poll (its query) and Handle (the rest), and several are under
way at once.  ProcessExit is Node's: a rejected query, or a write to a response that has
ended, is handled by nobody.  In `Analytics`, Look, TryLock, LookAgain, Store, Return and Unlock are
`cacheable`; Query1 and Query2 the two kinds of query of `computeAnalytics` (count, then
breakdown) and `getSystemSummary` (breakdown, then count); Throw, Die, LockExpires and
CacheExpires the faults; StoreAgain and UnlockAgain are commands that the Redis client sends again
because their answer was lost, and a SET NX sent again finds the key that it has set itself (TryLock).
A result is the set of transfers that each query has seen: amounts and
their conversion are a function of it and of the rates of the moment.  `strays`, `newest` and, in
**`Observers`**, which composes the two, `heard` are recorded for the properties.

**`JobQueue`** is a BullMQ queue as audit and mail use it, **`Requests`** the requests in one process.
A request is the list of steps it still has to do, by route.

| actions | code |
|---|---|
| Arrive, Authenticate, Admit | the routes, `authenticateJWT`, the validation, `auditMiddleware` and `RoleGuard` |
| Find, Change, Again | queries of handlers without a transaction |
| CreateWallet | `createWallet` |
| Begin, Look, Load, Claim, SaveWallet, Reread, AddMail, Commit | `Transactional` around `registerUser`, `updateUser`, the administrator's `resetPassword` |
| Reply, and Refuse within the others | `sendJsonResponse`, `errorHandler` |
| Enqueue, Complete, Throw | the queues and workers |
| Exit | an unhandled rejection ends the process |

State: `todo`, `answer` and `pool` (who keeps a connection), `claim` (who holds a row or a value of
the unique index), `owner`, `wallets` and `done` (what is committed), `job` and `attempts`.  `owner`
starts with addresses that are free or of deleted accounts.  The routes of transfers, the status
stream and getOtp, validateOtp, resetPassword and login are in the other modules; they hold a connection for
single queries only.  The transaction of the transfer worker, which shares the pool when the
workers run in the API's process, is in `Transfer`, without the pool.  `MayGo` and `MayRun` say what the next step of a request or a job
needs: they repeat the guards of the actions, because ENABLED is out of the provers' reach.

**`AuditSanitizer`** is `sanitizeAudit` on JSON values whose nesting (`Depth`) and arrays (`Width`) are bounded
by any numbers; keys are sequences of words, so that a match inside one word ("shipping" has "pin") is
left out.  What is replaced by `<<"hmac", v>>` is the value v that stood there: the hash is one-way,
and equal for equal values.  `Parts` lists what a value consists of, with paths; `Sanitized` compares
the parts before and after.

**`ObservedTransfer`** puts the observers beside `Transfer` itself: they read `idem` and the committed log.
A step of a stream or of an analytics call leaves Transfer's variables alone, and the other way
round.  ApiCrash and ProcessExit are steps of their own, so that a stream may end without the
request that is being enqueued, as it may when several processes run.

Definitions marked "Mutant:" are slips that a change of the code could make; each
property of a passing run is violated when one of them replaces the definition after it.

## 4. What TLC checks

| run | instance | shows |
|---|---|---|
| transfer_same_key | three requests with one key, one of them with another payload and a txId; two workers, two attempts, one stall per job, at most three executions that fail or crash; every fault | TypeOK, AtMostOnce, CompletedMeansMoved, NoticeTruthful, MovesUnderClaim, ImplementsPromise |
| transfer_contend | four requests with four keys on two wallets: one each way, one of a wallet to itself, one too large; two workers, one optimistic retry, no faults | CommitSerialised, NoOverdraftIfFresh; EveryoneHears: every accepted request is settled and its sender told |
| transfer_overdraft, transfer_late_failure, transfer_tx_id, transfer_retry | the smallest instance that shows each | the violations of section 6 |
| sessions | four calls, each any of eight methods, which overlap in every way | TypeOK; RevokedUnlessRewound: revoked tokens come back only by a save that sets jwtVersion back |
| sessions_overlap | a login, a logout and a reset | the violation of section 6 |
| lockout | four calls of any method of `Otp`, threshold 2, window 1, lock 2, an administrator's lock of 3, one script sent again, one code per window, two windows | GuessesBounded, LockEarned, CallsKeepLocks; CodesPerWindow, VerifiedForPurpose, NothingUsedLater |
| observers | one key that is registered, fails, is settled, completes; one stream; two analytics calls, one lock that goes too early | ToldTheTruth, TornOneWay, LockProtects, ComputedAnswersKnow; CallsEnd |
| requests | two requests, each a registration, an update, a reset, a lock or a createWallet; two connections, two attempts, one address, one exit | OkMeansDone, Accountable, ResetIsMailed, AccountsWhole, NoSecretLogged, PoolAloneBlocks; OnlyPoolStops |
| observed | one key sent twice, the second time with a txId; two workers, one attempt, lost COMMIT answers and mails that throw; one stream, one analytics call | ToldIsPosted, AnswersHavePosted; StreamsEnd, FailuresAreHeard |

Bounds.  A property about one key needs two jobs that compete for it and a third that comes
after either; one about a wallet needs two debits and one credit, which wait for each other's rows.
With a wallet to itself, whose second UPDATE never matches, that is four requests.  They run without
faults, because a listener that is lost tells nobody; all faults are in transfer_same_key, where
`MaxReruns` bounds the executions that fail or crash, over all jobs, so that each of two jobs may run
again and one of them once more.  Its two requests that are the same are symmetric.
No instance pays to a wallet that does not exist (ReadTo throws); the proofs cover it, as `ConstantsOK`
allows it.
`Attempts` = 2 lets an execution follow a failed one, `MaxStalls` = 1 a crashed one,
`MaxOptimistic` = 1 a conflict be repeated and then given up.  `NumeralBound`: amounts and
balances are below 100, two digits being enough for string order to differ from numeric order.
`tries`, `stalls` and `opt` are bounded by the queue's and the code's own limits; nothing else
counts.  In `Sessions` a token has to be issued, revoked, and brought back by a third call; a
fourth lets two revocations, or two stale saves, meet.  Of the ten methods two are left to the proof,
because they do to the row what others do (lockUser what unlockUser does) or less (update has a
column of its own).  The version is bounded by the calls.  Calls are
symmetric: they differ only in the method chosen when they are made.

In `Otp` four calls are two more than lock, so that two are in flight when the lock falls, and
they are also getOtp, validateOtp and two that use the verification; the lock outlives the window, the
administrator's lock both, as 900 s and 30 min do 60 s.  `MaxResends` bounds the scripts sent again,
`MaxWindows` the lives of the rate counter: in the second one a code is newer than one used.

In `observers` one transfer suffices for a torn read, as a transfer is either in a snapshot or
not; two calls compete for the lock, and a call whose lock has expired still deletes the other's.
`MaxStrays` is 1: one lock goes while its call computes.  Three calls would be needed to show that two
at once is then the most; the theorem LockIsEnough covers them.
`Tries` is 1 (5 in the code): a call without the lock finds the cache empty, and may find it full
later.  In `requests` two connections and two registrations are the smallest pool that transactions
can exhaust (`pg` has ten connections by default); the two requests compete for the one address.  One
exit leaves requests before, during and after it.  `Attempts` is 2 (5 in the code).  The bodies
sanitized have a leaf, arrays of one element and objects with two keys, one of which contains a denied
word, nested three times: enough for a secret below an array below an object, or above one.

In `observed` the second request meets the unique index with its txId and is reconciled while the
first may be at any step; a mail that throws after the commit turns the status to "failed" late.
The analytics call does not repeat its look (`Looks` is 0); `observers` has that.

Fairness.  `FairSpec` assumes weak fairness of the API's handler and of each job's next step, and
of the listener: event loops go on, Redis hands out waiting jobs, PostgreSQL grants a row when its
holder ends and breaks a deadlock.  No fault is assumed to happen.  Weak fairness suffices: a
step of a job that waits for a row is enabled from the holder's end on unless another job takes the
row, and a job takes a row a bounded number of times.

In `Observers` the timer of an open stream fires, a callback that has read "completed" or "failed"
goes on, and an analytics call goes on unless it dies: event loops and the two stores.  This takes it
for granted that a query gets a connection of the pool at last; when it may not is what
`Requests` says (PoolAloneBlocks, OnlyPoolStops).  Expiries, exits
and the steps of transfers are not fair; the same in `ObservedTransfer`.  In `Requests` a request and a job go on whenever they can: a
connection that is free is given to who has waited longest, and only two requests compete, so
that weak fairness is enough.  Where a request waits for a connection that is kept for ever, nothing
is assumed; that is what OnlyPoolStops says.

Deadlock is checked in the runs of transfers, sessions and lockout: `Quiescent` is the legitimate
end, and in `Lockout` time goes on.  In `observers`, `observed` and `requests` everything may have
ended, or be stuck in the pool; there StreamsEnd, FailuresAreHeard, CallsEnd, PoolAloneBlocks and
OnlyPoolStops say what must not stop.

## 5. What is proved

For every value of the constants that the assumptions allow: every set of requests, keys and wallets,
every payload, rate and opening balance, and all limits (`ConstantsOK`); every finite set of calls
(`SessionsConstants`); every threshold, window and duration (`LockoutConstants`) and every rate
limit (`OtpConstants`); any finite set of callers, any streams and currencies
(`AnalyticsConstants`); every finite set of
requests, any addresses and any pool (`RequestConstants`, `JobConstants`); any keys, words, depth and
width of bodies (`SanitizerConstants`); what Transfer and Observers may be (`ObservedConstants`):

| theorem | property |
|---|---|
| TypeCorrect (`TransferProofs`) | TypeOK |
| MovedOnce, CompletedIsTrue, NoticesAreTrue (`TransferProofs`) | AtMostOnce, CompletedMeansMoved, NoticeTruthful |
| KeepsPromise (`TransferProofs`) | ImplementsPromise: Transfer implements IdempotentTransfer |
| CommitsAreSerialised, MovesOnlyUnderClaim (`TransferWalletProofs`) | CommitSerialised, MovesUnderClaim |
| FreshIsCovered (`TransferWalletProofs`) | NoOverdraftIfFresh |
| OneWorkerNoOverdraft (`TransferWalletProofs`) | NoOverdraft, if `Concurrency` = 1 and no opening balance is negative |
| SessionsTypeCorrect (`SessionsProofs`) | TypeOK of Sessions, overlapping or not |
| RevokedForGood (`SessionsProofs`) | RevokedUnlessRewound |
| LockoutTypeCorrect, FewGuesses, LocksAreEarned, LocksStay (`OtpProofs`) | TypeOK of Lockout, GuessesBounded, LockEarned, CallsKeepLocks |
| FewGuessesWithCodes, LocksWithCodes (`OtpProofs`) | GuessesBounded, LockEarned, CallsKeepLocks of Otp |
| OtpTypeCorrect, SpentForGood, OpenedForPurpose, CodesAreRated (`OtpProofs`) | OtpTypeOK, NothingUsedLater, VerifiedForPurpose, CodesPerWindow |
| ObserversTypeCorrect (`ObserversProofs`) | ObserversTypeOK |
| StreamsTellTheTruth, TornInOneDirection, AnswersAreInformed, LockIsEnough (`ObserversProofs`) | ToldTheTruth, TornOneWay, ComputedAnswersKnow, LockProtects |
| RequestsTypeCorrect (`RequestsProofs`) | RequestsTypeOK |
| ToldTransfersArePosted, AnswersArePosted (`ObservedProofs`) | ToldIsPosted, AnswersHavePosted |
| AnswersMeanWhatTheySay, ChangesAreLogged, ResetsAreMailed, AccountsAreWhole (`RequestsProofs`) | OkMeansDone, Accountable, ResetIsMailed, AccountsWhole |
| OnlyThePoolBlocks (`RequestsProofs`) | PoolAloneBlocks |
| SanitizedWhole (`AuditSanitizerProofs`), NoSecretIsLogged (`RequestsProofs`) | Sanitized, NoSecretLogged |

The argument.  `Shape` (TypeOK and QueueOK) is inductive; QueueOK is needed because a failed
attempt keeps `tries` in range only for a job that has attempts left, and because a mark must find
a row.  AtMostOnce is not inductive: nothing in it says why the job that commits is alone.
`KeyDiscipline` does: whoever holds a key's row claimed it pending and it stays pending to the
end, because every other writer of the status needs the row; a pending key has no transfer; so a
commit adds the first one.  `KInv` is Shape, KeyDiscipline, AtMostOnce and NoticeTruthful.  Every
step then has one of five effects on statuses and log (`KeyEffect`), which are the steps of
IdempotentTransfer and a stutter: that is the refinement.  For the wallets, `WalletDiscipline`
says that a row is held only by a transaction that has bumped it at the version it read, and that
a version read is never ahead of the row; hence a transfer of a wallet to itself can never
commit, and a job before its commit holds both rows at the versions it read.

Funds.  NoOverdraftIfFresh needs `Covered`: a job past its check asks for a positive amount, and as
long as the paying wallet has the version that it had at the check, the balance covers the amount.  A
commit by anybody who touches the wallet raises its version, so it ends the premise; CommitSerialised
brings the version at the check to the commit.  For NoOverdraft the premise has to go, and with it the
other workers: `Alone` says that one job runs, that nothing is booked between its check and its
commit, and hence that its funds are still there.  The hypothesis `Concurrency` = 1 is one about the
deployment (one worker process with `WORKER_CONCURRENCY` 1, where 5 is the default); with two jobs the run transfer_overdraft
shows the overdraft.

Both need to know what one more transfer does to a balance, which is a fold over the log in the order
in which CHOOSE takes its entries.  Induction over data is out of the provers' reach as a rule, because
the library's induction theorems take an operator; its theorem that a well-founded relation has minimal
elements does not (`NatMin`, `SubsetMin`).  So each of these facts is shown by a minimal
counterexample: that the recursion has a solution (`SumExists`) and only one (`SumUnique`), and that
a sum over a set is any element of it and the sum over the rest (`SumAdds`).  `BookMoves` is what follows
for balances.

RevokedStaysRevoked does not hold: section 6 has a save that brings an old version back.
RevokedUnlessRewound says that nothing else does.  It follows from `Behind`: until a save has set the
version back, no entity, selected row or token is ahead of the row, so what an overlapping login or refresh
signs is not either, and a call has loaded a row no older than the tokens it is to revoke.  The one
delicate step is a revocation that writes no version, because another has stored the one it wants:
`RevocationCounts` shows that the row it leaves is still ahead of the one it loaded.

For the lockout, `Counting` says that the counter is at most the number of calls that have left the
script (`Settled`) plus the scripts sent again.  A call whose script is sent again is counted before
it has left, so the calls counted so far would not do.

What is proved of `Lockout` holds of `Otp` because each of its steps leaves Lockout's variables alone
or is one of Lockout (`OtpStep`, `LockoutInside`).  `KeysInv` is about the keys: what one
holds was made for the purpose of the key, a verification by a call that had read a code of it, and
nothing in a key has been spent; a call that has read a verification holds one of its own purpose.  `Entries` says
that nobody is inside the lockout except through `isAuthorized`, which is what VerifiedForPurpose needs for
administrators.  CodesPerWindow is not inductive, because it does not count what the present counter may
still let through: `Rated` adds that `Reserve` to the codes sent.  It shrinks when a code is sent, and
a new counter comes with a new window.

For the observers, `Truth` says that a status read as completed is one of money that has moved, and
`Seen` that no query has seen more than the ledger; both last because a promise about a key allows
only steps that add to the ledger.  TornOneWay and ComputedAnswersKnow then compare what two
queries have seen with what was there between (`Informed`).  ComputedAnswersKnow is about answers that
a call computes itself: one that waits for another's lock may find a result in the cache that was
computed before its client was told (`cache-decorator.ts:51`).  LockProtects has two halves.  `Owned`:
while no lock has gone too early, whoever computes for the cache has the lock, nobody deletes another's,
and what it has seen is not older than what was cached.  `Strayed`: of those who compute for the cache
without the lock there are no more than locks have gone too early, which a deletion of another's lock
does not change, because the one who deletes is through.

For the requests, a step is one of eight effects (`StepEffects`): it goes on, changes, begins,
claims, saves wallets, commits, commits without an answer, or stops.  What has been done follows from what is
left to do: `todo` is a suffix of its route's steps, and each route's order is stated once
(`Follows`, `ProgramsOrdered`), so that the step at hand tells what lies behind.  The
invariant has five parts besides the shapes: who keeps a connection still has a commit before it
(`InTransaction`), who has passed its change has made it (`Progress`), a registration has its address and
its wallets (`Registration`), a claim is on a free address and one transaction's (`Locks`), and an address
that is taken is its taker's (`Owners`); `Trails` adds the jobs that a request has queued on its way.
AccountsWhole by itself would not do: it says nothing of two transactions that have claimed and not
committed.

PoolAloneBlocks is the safety in OnlyPoolStops.  Who waits for a row waits for a transaction that holds
it, and by `Locks` nobody else holds the row, so that the holder waits for no row (`HoldersDoNotWait`).
Hence with a connection free somebody can go on; with none, whoever keeps one is inside a
transaction (`PoolIsInside`), and if none of them can go on one asks for a second connection,
which only registrations and updates do.

For bodies, `Values`, `Walk` and `Parts` are recursive functions, and a recursive function is only
CHOSEN: that there is one that solves its equation has to be shown before anything can be said of it.
`ValuesSolve`, `WalkSolve` and `PartsSolve` build solutions for values of each depth from those of the
depth before, by a minimal counterexample again (`LevelInduction`).  Sanitized then follows along
the nesting: a part of an array or object is a part of one of its elements behind one more step of
the path, a denied key ends the walk with one hash, and other steps make no path secret.

`ObservedTransfer` is composition.  A step of Transfer has one of the five effects above, each
of which is, to who sees only statuses and whether a key is in the ledger, a step of the transfers in
Observers, or none (`StepObserved`); the steps of the observers are literally the same.  What is proved in `ObserversProofs` is then cited for this instance (`Proved`), and its invariants
`Types`, `Truth`, `Seen` and `Informed` speak of the log of Transfer.

Only model-checked: liveness, that is EveryoneHears (and KeysSettle, its half, which section 6
refutes for a txId), StreamsEnd, FailuresAreHeard, CallsEnd and OnlyPoolStops, which the provers cannot reach.
NoOverdraft with one worker is only proved: no run repeats it.

## 6. Where code and documentation part

Each is a run that expects a violation, with the quotation in `PROJECT.json`:

- *Overdraft.* The balance is summed before the version is read.  A debit that commits in between
  is in the version but not in the sum; the conditional UPDATE matches, and the wallet goes below
  zero.  NoOverdraftIfFresh says that this is the only way.
- *Late failure.* A mail that throws after the commit fails the job, and the listener turns
  "completed" into "failed": the money has moved and the client is told it has not.
- *Transaction id.* Both ledger rows carry the request's txId under a unique index: a transfer
  with a txId always fails, as a duplicate of itself, and its key stays pending.
- *Retry.* The listener marks the key failed after every attempt, and the next attempt can claim
  only a pending key: BullMQ's retries can succeed only if they overtake the listener.
- *Stale save.* `resetPassword` saves the user it loaded before a logout, and with it the old
  jwtVersion: the tokens that the logout revoked are accepted again.

Noticed while modelling, without a run of their own, because nothing in the documentation says
otherwise or because the model would only restate the code:

- *The pool.* `registerUser` and `updateUser` make a query outside their transaction while it keeps a
  connection (`auth.services.ts:195`, `admin-user.services.ts:174`).  When every connection is kept by such
  a transaction, all wait for ever: `pg` has no limit to the wait by default.  OnlyPoolStops
  says that nothing else stops the requests.
- *Unhandled rejections.* Express 4 does not wait for `authenticateJWT`, nobody for `addLog` or
  for a poll of the status stream: when one of them rejects, the process exits.
- *createWallet.* `WalletRepository.create` without a manager calls itself, and the
  service saves the promise it gets instead of a wallet: the route never creates one.  The unit test
  mocks `create` with a function that returns a wallet.
- *updateUser* (`admin-user.controller.ts:341`) changes the administrator who asks, not the user of the
  path, and answers what it has read before its commit.
- *Mail before commit.* The administrator's `resetPassword` queues the mail with the new password
  before it commits; a commit that fails leaves a mail with a password that does not hold.
- *Audit entries.* An entry is made before `RoleGuard` and the handler run, so that it tells what
  was tried; `targetUserId` looks for a parameter that no route has; the entry "Logged In" is never made,
  because the route does not authenticate.
- *Failed transfers.* The stream of a failed key does not end (`idempotent.services.ts:54`);
  FailuresAreHeard says that it tells of the failure.
- *Cached answers.* An analytics answer from the cache, also one found while waiting for another's
  lock, may miss a transfer whose completion the client has been told.

## 7. What is not modelled

The limiter per IP address, mail templates, configuration, start-up and the layout of tables; the
wording of mails and logs, and the bodies of HTTP answers.  Analytics' amounts, conversions and largest
transfer, and the balances that `listWallets` shows.  A check for a super administrator that two
registrations pass at once: what is stored then depends on TypeORM's discriminator.  Audit
entries that a job inserts twice.  A connection of Redis or PostgreSQL that is lost and comes back
is a query that throws, or a command or script that is sent again; commands that wait for Redis for ever are
calls that stop.  A worker that is declared stalled while it is alive and goes on beside its second
execution is not modelled either: Crash ends the first one.
