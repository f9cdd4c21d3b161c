------------------------------ MODULE Requests ------------------------------
(***************************************************************************)
(* HTTP requests from the router to the answer: authentication, validation *)
(* and audit log, the guard of the role, the handler, and the error        *)
(* handler, all of one process, with its pool of database connections and  *)
(* the queues it adds to (routes/*.ts, middleware/*.ts, controllers/*.ts,  *)
(* utils/authorization.ts, utils/db.ts and the services they call).        *)
(*                                                                         *)
(* A request is a program: the steps it has still to do.  A query takes a  *)
(* connection for its own step; a transaction keeps one from "begin" to    *)
(* "commit", and a query that does not go through its manager needs a      *)
(* second.  pg queues those who wait for a connection, for ever.           *)
(***************************************************************************)
EXTENDS JobQueue, AuditSanitizer, FiniteSets, Sequences, SequencesExt

CONSTANTS
  Requests,        \* requests
  Offered,         \* the routes they may take
  Emails,          \* new addresses, of registrations and updates
  Countries,       \* countries of registrations
  PoolSize,        \* connections of the pool
  MaxExits         \* bound on the exits of the process

\* Jobs: the audit entry of a request, and its mail.
Entry(r) == <<"entry", r>>
Mail(r) == <<"mail", r>>

VARIABLES
  route,           \* route[r]: the route of the request, or "none"
  subject,         \* subject[r]: the address that it claims, or "user", and its country
  todo,            \* todo[r]: the steps it has still to do
  answer,          \* answer[r]: what its client gets
  pool,            \* the requests that keep a connection
  claim,           \* claim[r]: the row its transaction has locked, or "none"
  wallets,         \* wallets[r]: currencies of the wallets that its transaction saved
  owner,           \* owner[e]: the request whose account has the address, or "nobody"
  done,            \* the requests that have changed the database for good
  exits            \* exits of the process

requestVars ==
  <<route, subject, todo, answer, pool, claim, wallets, owner, done, exits>>

allVars == <<jobVars, requestVars>>

-----------------------------------------------------------------------------
\* The routes, by what is in front of their handlers.

AdminReads == {"getUser", "getUserTransactions", "getUserWallets", "listUsers",
               "getSystemSummary"}
AdminChanges == {"deactivateUser", "lockUser", "unlockUser"}
AdminRoutes == AdminReads \cup AdminChanges \cup {"adminResetPassword", "updateUser"}
UserReads == {"getMe", "getUserAnalytics", "listWallets"}
UserRoutes == UserReads \cup {"logoutUser", "createWallet"}
PublicRoutes == {"registerUser", "refreshToken", "healthCheck"}
Routes == AdminRoutes \cup UserRoutes \cup PublicRoutes

Authenticated == AdminRoutes \cup UserRoutes
Audited == AdminRoutes
Guarded == AdminRoutes

\* Addresses and requests are none of the words that stand in their place below.
ASSUME RequestConstants ==
  /\ Jobs = {"entry", "mail"} \X Requests
  /\ IsFiniteSet(Requests) /\ Offered \subseteq Routes
  /\ {"none", "user"} \cap Emails = {} /\ {"nobody", "deleted"} \cap Requests = {}
  /\ PoolSize \in Nat \ {0} /\ MaxExits \in Nat

\* UserRole.
Roles == {"User", "Admin", "Superadmin"}

\* Mutant: super administrators are not logged.
LogsAdmins(who) == who = "Admin"

Logs(who) == who \in {"Admin", "Superadmin"}

\* RoleGuard(ADMIN).
Allows(who) == who \in {"Admin", "Superadmin"}

\* COUNTRY_DEFAULTS.
DefaultWallets(country) ==
  CASE country = "EU" -> {"EUR", "USD"}
    [] country = "NG" -> {"NGN", "USD"}
    [] country = "UK" -> {"GBP", "USD"}
    [] OTHER -> {"USD"}

\* Mutant: a registration is answered before its transaction is over.
RegisterReplyingFirst == <<"begin", "look", "claim", "wallets", "reply", "commit">>

RegisterSteps == <<"begin", "look", "claim", "wallets", "commit", "reply">>

UpdateSteps == <<"begin", "load", "claim", "reread", "commit", "reply">>

\* Mutant: the mail is queued when the password has been saved.
ResetMailingLast == <<"begin", "claim", "commit", "mail", "reply">>

\* Mutant: the account is read again for the answer, as updateUser does.
ResetRereading == <<"begin", "claim", "mail", "reread", "commit", "reply">>

ResetSteps == <<"begin", "claim", "mail", "commit", "reply">>

\* What the handlers do, in their services: "find" is a query that may find nobody,
\* "load" one with the check of the new address, "change" a save, "again" a query, and
\* "look" and "reread" are queries outside the transaction that is going on, and "create"
\* never succeeds.
Handler(rt) ==
  CASE rt = "registerUser" -> RegisterSteps
    [] rt = "updateUser" -> UpdateSteps
    [] rt = "adminResetPassword" -> ResetSteps
    [] rt \in AdminChanges -> <<"find", "change", "again", "reply">>
    [] rt = "logoutUser" -> <<"find", "change", "reply">>
    [] rt = "createWallet" -> <<"find", "create">>
    [] OTHER -> <<"find", "reply">>

Program(rt) == (IF rt \in Authenticated THEN <<"token">> ELSE <<>>) \o <<"admit">> \o Handler(rt)

Changing == {rt \in Routes : \E i \in DOMAIN Handler(rt) : Handler(rt)[i] \in {"change", "commit"}}

-----------------------------------------------------------------------------
RequestsInit ==
  /\ JobsInit
  /\ route = [r \in Requests |-> "none"]
  /\ subject = [r \in Requests |-> <<"none", "none">>]
  /\ todo = [r \in Requests |-> <<>>]
  /\ answer = [r \in Requests |-> "none"]
  /\ pool = {}
  /\ claim = [r \in Requests |-> "none"]
  /\ wallets = [r \in Requests |-> {}]
  /\ owner \in [Emails -> {"nobody", "deleted"}]
  /\ done = {}
  /\ exits = 0

At(r, step) == todo[r] # <<>> /\ Head(todo[r]) = step

Proceed(r) == todo' = [todo EXCEPT ![r] = Tail(@)]

Free == PoolSize - Cardinality(pool)

\* HttpErrors have a status of their own; the error handler answers "error", 500, for
\* all others.
Refused == {"unauthorized", "forbidden", "missing", "conflict", "invalid"}
Answers == Refused \cup {"ok", "error", "none", "dead"}

\* Mutant: a transaction that throws keeps its connection.
KeepConnection(r) == UNCHANGED pool

Release(r) == pool' = pool \ {r}

\* The handler or a middleware throws, which rolls a transaction back.
Refuse(r, why) ==
  /\ todo' = [todo EXCEPT ![r] = <<>>]
  /\ answer' = [answer EXCEPT ![r] = why]
  /\ claim' = [claim EXCEPT ![r] = "none"]
  /\ wallets' = [wallets EXCEPT ![r] = {}]
  /\ Release(r)

\* A step goes well, and leaves the transaction as it is.
Succeed(r) == Proceed(r) /\ UNCHANGED <<answer, pool, claim, wallets>>

Arrive(r) ==
  /\ route[r] = "none"
  /\ \E rt \in Offered :
       /\ route' = [route EXCEPT ![r] = rt]
       /\ todo' = [todo EXCEPT ![r] = Program(rt)]
       /\ \E s \in CASE rt = "registerUser" -> Emails \X Countries
                     [] rt = "updateUser" -> (Emails \cup {"user"}) \X {"none"}
                     [] OTHER -> {<<"user", "none">>} :
            subject' = [subject EXCEPT ![r] = s]
  /\ UNCHANGED <<jobVars, answer, pool, claim, wallets, owner, done, exits>>

\* The query of authenticateJWT.
Authenticate(r) ==
  /\ At(r, "token") /\ Free > 0
  /\ Succeed(r) \/ Refuse(r, "unauthorized")
  /\ UNCHANGED <<jobVars, route, subject, owner, done, exits>>

\* In one go: the body is validated, the entry of the audit log begins to be added, which
\* nobody waits for, and RoleGuard looks at the role in the token.
Admit(r) ==
  /\ At(r, "admit")
  /\ \/ Refuse(r, "invalid") /\ UNCHANGED jobVars
     \/ \E who \in Roles :
          /\ IF route[r] \in Audited /\ Logs(who)
             THEN Becomes(Entry(r), "adding") ELSE UNCHANGED job
          /\ IF route[r] \in Guarded /\ ~Allows(who)
             THEN Refuse(r, "forbidden") ELSE Succeed(r)
          /\ UNCHANGED attempts
  /\ UNCHANGED <<route, subject, owner, done, exits>>

-----------------------------------------------------------------------------
\* Queries outside of transactions.

\* How the first query of a handler may disappoint it; the others answer what there is.
Missing(rt) ==
  CASE rt \in AdminChanges \cup {"getUser"} -> {"missing"}
    [] rt \in {"logoutUser", "refreshToken"} -> {"unauthorized"}
    [] rt = "createWallet" -> {"conflict"}
    [] OTHER -> {}

\* The health check's error is a 503.
Find(r) ==
  /\ At(r, "find") /\ Free > 0
  /\ Succeed(r) \/ \E why \in Missing(route[r]) \cup {"error"} : Refuse(r, why)
  /\ UNCHANGED <<jobVars, route, subject, owner, done, exits>>

\* What lockUser and unlockUser have by then changed in Redis is in Lockout: an error may
\* come after it.
Change(r) ==
  /\ At(r, "change") /\ Free > 0
  /\ \/ Succeed(r) /\ done' = done \cup {r}
     \/ Refuse(r, "error") /\ done' \in {done, done \cup {r}}
  /\ UNCHANGED <<jobVars, route, subject, owner, exits>>

Again(r) ==
  /\ At(r, "again") /\ Free > 0
  /\ Succeed(r) \/ Refuse(r, "error")
  /\ UNCHANGED <<jobVars, route, subject, owner, done, exits>>

\* createWallet saves the promise of a wallet, which has no currency, instead of a wallet.
CreateWallet(r) ==
  /\ At(r, "create") /\ Free > 0
  /\ Refuse(r, "error")
  /\ UNCHANGED <<jobVars, route, subject, owner, done, exits>>

-----------------------------------------------------------------------------
\* Transactions.

Begin(r) ==
  /\ At(r, "begin") /\ Free > 0
  /\ \/ Proceed(r) /\ pool' = pool \cup {r} /\ UNCHANGED <<answer, claim, wallets>>
     \/ Refuse(r, "error")
  /\ UNCHANGED <<jobVars, route, subject, owner, done, exits>>

Email(r) == subject[r][1]

\* A row that is not deleted has the address.
Taken(e) == e \in Emails /\ owner[e] \notin {"nobody", "deleted"}

\* registerUser looks for the address through the repository, on a second connection, ...
Look(r) ==
  /\ At(r, "look") /\ Free > 0
  /\ IF Taken(Email(r)) THEN Refuse(r, "conflict") ELSE Succeed(r) \/ Refuse(r, "error")
  /\ UNCHANGED <<jobVars, route, subject, owner, done, exits>>

\* ... updateUser on the one it has.
Load(r) ==
  /\ At(r, "load")
  /\ \/ IF Taken(Email(r)) THEN Refuse(r, "conflict") ELSE Succeed(r)
     \/ Refuse(r, "missing") \/ Refuse(r, "error")
  /\ UNCHANGED <<jobVars, route, subject, owner, done, exits>>

\* Another transaction holds the row, or the address in the unique index.
Held(r) == \E q \in Requests \ {r} : claim[q] = Email(r)

\* Mutant: there is no unique index.
ClaimableBlindly(r) == TRUE

\* The unique index counts deleted rows too.
Claimable(r) == Email(r) \in Emails => owner[Email(r)] = "nobody"

\* The row of the user is inserted or updated, once nobody else holds it; there may be no
\* such user, or a super administrator already.
Claim(r) ==
  /\ At(r, "claim") /\ ~Held(r)
  /\ \/ /\ Claimable(r)
        /\ claim' = [claim EXCEPT ![r] = Email(r)]
        /\ Proceed(r) /\ UNCHANGED <<answer, pool, wallets>>
     \/ route[r] = "adminResetPassword" /\ Refuse(r, "missing")
     \/ route[r] = "registerUser" /\ Refuse(r, "invalid")
     \/ Refuse(r, "error")
  /\ UNCHANGED <<jobVars, route, subject, owner, done, exits>>

\* One default wallet after the other, in the transaction.
SaveWallet(r) ==
  /\ At(r, "wallets")
  /\ LET missing == DefaultWallets(subject[r][2]) \ wallets[r]
     IN  \/ \E currency \in missing :
              /\ wallets' = [wallets EXCEPT ![r] = @ \cup {currency}]
              /\ UNCHANGED <<todo, answer, pool, claim>>
         \/ missing = {} /\ Succeed(r)
         \/ Refuse(r, "error")
  /\ UNCHANGED <<jobVars, route, subject, owner, done, exits>>

\* Before it commits, updateUser reads what it answers, on a second connection.
Reread(r) ==
  /\ At(r, "reread") /\ Free > 0
  /\ Succeed(r) \/ Refuse(r, "error")
  /\ UNCHANGED <<jobVars, route, subject, owner, done, exits>>

\* Before it commits, resetPassword waits until its mail is queued.  A mail whose adding
\* throws may be queued all the same.
AddMail(r) ==
  /\ At(r, "mail")
  /\ \/ Succeed(r) /\ Becomes(Mail(r), "waiting")
     \/ Refuse(r, "error") /\ (UNCHANGED job \/ Becomes(Mail(r), "waiting"))
  /\ UNCHANGED <<attempts, route, subject, owner, done, exits>>

Committed(r) ==
  /\ done' = done \cup {r}
  /\ owner' = [e \in Emails |-> IF e = claim[r] THEN r ELSE owner[e]]

\* A COMMIT whose answer is lost may have been done.
Commit(r) ==
  /\ At(r, "commit")
  /\ \/ /\ Committed(r)
        /\ Proceed(r) /\ claim' = [claim EXCEPT ![r] = "none"]
        /\ pool' = pool \ {r} /\ UNCHANGED <<answer, wallets>>
     \/ /\ todo' = [todo EXCEPT ![r] = <<>>]
        /\ answer' = [answer EXCEPT ![r] = "error"]
        /\ claim' = [claim EXCEPT ![r] = "none"]
        /\ Release(r)
        /\ \/ Committed(r) /\ UNCHANGED wallets
           \/ wallets' = [wallets EXCEPT ![r] = {}] /\ UNCHANGED <<done, owner>>
  /\ UNCHANGED <<jobVars, route, subject, exits>>

Reply(r) ==
  /\ At(r, "reply")
  /\ Proceed(r)
  /\ answer' = [answer EXCEPT ![r] = "ok"]
  /\ UNCHANGED <<jobVars, route, subject, pool, claim, wallets, owner, done, exits>>

RequestStep(r) ==
  \/ Authenticate(r) \/ Admit(r) \/ Find(r) \/ Change(r) \/ Again(r)
  \/ CreateWallet(r)
  \/ Begin(r) \/ Look(r) \/ Load(r) \/ Claim(r) \/ SaveWallet(r) \/ Reread(r)
  \/ AddMail(r) \/ Commit(r) \/ Reply(r)

-----------------------------------------------------------------------------
\* processJob inserts an entry through the same pool; for a mail, an error that SES calls
\* permanent is a success.
Process(j) ==
  /\ j[1] = "entry" => Free > 0
  /\ Complete(j) \/ Throw(j)

JobStep(j) == (Enqueue(j) \/ Process(j)) /\ UNCHANGED requestVars

\* addLog is rejected, or the query of authenticateJWT is, or the promise of a wallet, as
\* WalletRepository.create calls itself without end: nobody handles it, and the process
\* exits.  Its transactions are rolled back and its clients get no answer.
Rejected ==
  \/ \E r \in Requests : job[Entry(r)] = "adding"
  \/ \E r \in Requests : (At(r, "token") \/ At(r, "create")) /\ Free > 0

Exit ==
  /\ exits < MaxExits /\ Rejected
  /\ exits' = exits + 1
  /\ LET alive == {r \in Requests : todo[r] # <<>>}
     IN  /\ todo' = [r \in Requests |-> <<>>]
         /\ answer' = [r \in Requests |-> IF r \in alive THEN "dead" ELSE answer[r]]
         /\ claim' = [r \in Requests |-> "none"]
         /\ wallets' = [r \in Requests |-> IF r \in done THEN wallets[r] ELSE {}]
  /\ pool' = {}
  /\ ExitJobs
  /\ UNCHANGED <<route, subject, owner, done>>

RequestsNext ==
  \/ \E r \in Requests : Arrive(r) \/ RequestStep(r)
  \/ \E j \in Jobs : JobStep(j)
  \/ Exit

\* What has a connection and its locks goes on, the database and Redis answer, and the
\* workers run.
Fairness ==
  /\ \A r \in Requests : WF_allVars(RequestStep(r))
  /\ \A j \in Jobs : WF_allVars(JobStep(j))

RequestsSpec == RequestsInit /\ [][RequestsNext]_allVars /\ Fairness

-----------------------------------------------------------------------------
\* Every variable keeps its shape, and those who keep a connection or a lock are in a
\* transaction: none is leaked, whatever throws.
RequestsTypeOK ==
  /\ job \in [Jobs -> JobState] /\ attempts \in [Jobs -> 0..Attempts]
  /\ route \in [Requests -> Routes \cup {"none"}]
  /\ \A r \in Requests : todo[r] = <<>> \/ IsSuffix(todo[r], Program(route[r]))
  /\ answer \in [Requests -> Answers]
  /\ \A r \in Requests : answer[r] # "none" => todo[r] = <<>>
  /\ owner \in [Emails -> Requests \cup {"nobody", "deleted"}]
  /\ done \subseteq Requests /\ exits \in 0..MaxExits
  /\ Cardinality(pool) <= PoolSize
  /\ \A r \in Requests :
       /\ r \in pool => "commit" \in ToSet(todo[r])
       /\ claim[r] # "none" => r \in pool

\* An answer means what it says, after failures of any step and lost acknowledgements:
\* ok that the change is made, a refusal that it is not; only a 500, and no answer,
\* leave it open.
OkMeansDone ==
  \A r \in Requests :
    /\ answer[r] = "ok" /\ route[r] \in Changing => r \in done
    /\ answer[r] \in Refused => r \notin done

\* No account is changed with the rights of an administrator unless an entry was on its
\* way to the audit log before: the middleware that logs and the guard behind it agree on
\* who is an administrator.
Accountable ==
  \A r \in done : route[r] \in AdminRoutes => job[Entry(r)] # "none"

\* No entry on its way to the audit log shows a secret of the request it is about,
\* whatever its body: of what is below a denied key only a hash is left, at any depth, and the
\* entry tells everything else (auditMiddleware, sanitizeAudit).
NoSecretLogged == \A r \in Requests : job[Entry(r)] # "none" => Sanitized

\* The mail with a password that an administrator has reset is in the queue, or has been
\* tried as often as the queue does, by the time the new password holds: no failure and no
\* exit between them saves a password that nobody has been sent.
ResetIsMailed ==
  \A r \in done : route[r] = "adminResetPassword" => job[Mail(r)] \notin {"none", "lost"}

\* Two requests that claim one address at the same time do not both get it, deleted
\* accounts keep theirs, and an account that is there has all the wallets of its country.
AccountsWhole ==
  /\ \A r, q \in done :
       Email(r) \in Emails /\ Email(r) = Email(q) => r = q
  /\ \A r \in done : route[r] = "registerUser" =>
       owner[Email(r)] = r /\ wallets[r] = DefaultWallets(subject[r][2])

\* What waits inside a transaction for something others have.
Waits(r) ==
  \/ At(r, "look") \/ At(r, "reread")
  \/ At(r, "claim") /\ Held(r)

\* All connections are kept by transactions, and each waits for a second or for another.
Stuck == Free = 0 /\ \A r \in pool : Waits(r)

\* Every request has ended, with or without an answer, and every job is done or failed.
Quiet ==
  /\ \A r \in Requests : todo[r] = <<>>
  /\ \A j \in Jobs : job[j] \notin {"adding", "waiting"}

\* What a request or a job needs for its next step is there.
MayGo(r) ==
  /\ todo[r] # <<>>
  /\ Head(todo[r]) \in {"token", "find", "change", "again", "create", "begin", "look", "reread"} =>
       Free > 0
  /\ At(r, "claim") => ~Held(r)

MayRun(j) == job[j] = "adding" \/ (job[j] = "waiting" /\ (j[1] = "entry" => Free > 0))

\* Those who wait for a connection, a row or a worker never wait for each other in any way
\* but one: transactions that ask for a second connection, which are registrations and
\* updates, have taken them all.  Without that somebody can go on until all is done.
PoolAloneBlocks ==
  /\ Stuck => \E r \in pool : route[r] \in {"registerUser", "updateUser"}
  /\ ~Stuck => Quiet \/ (\E r \in Requests : MayGo(r)) \/ (\E j \in Jobs : MayRun(j))

\* The pool is the only thing that everyone can wait for: unless transactions wait for
\* second connections for ever, every request ends and every job is done or has failed.
OnlyPoolStops == <>[]Stuck \/ <>[]Quiet
=============================================================================
