------------------------- MODULE TransferWalletProofs -------------------------
(***************************************************************************)
(* Optimistic locking, proved: commits that touch a wallet are serialised, *)
(* and money moves only for a job that holds its key and both its wallets. *)
(* And what it gives: a balance that was read no later than the version    *)
(* covers its transfer, and one worker that runs one job at a time         *)
(* overdraws no wallet.                                                    *)
(***************************************************************************)
EXTENDS TransferProofs, FiniteSetTheorems

USE DEF api, store, txn, queue, out, Goto, Mail

WalletOK == WalletDiscipline /\ CommitSerialised

\* Steps that say something of a wallet's row.
Bumping == {"bumpTo", "commit"}

LEMMA WalletTypes ==
  ASSUME Shape, NEW q \in Requests
  PROVE  /\ Body[q].from \in Wallets /\ version[Body[q].from] \in Nat
         /\ Body[q].to \in Wallets => version[Body[q].to] \in Nat
         /\ seen[q].from \in Nat /\ seen[q].to \in Nat
         /\ q # NoJob
         /\ job[q] \in Bumping => Body[q].to \in Wallets
<1>1. /\ Body[q].from \in Wallets /\ q # NoJob
  BY BodyShape
<1>2. seen[q] \in [at : Nat, from : Nat, to : Nat]
  BY DEF Shape, TypeOK
<1>3. job[q] \in Bumping => Body[q].to \in Wallets
  BY DEF Shape, QueueOK, Writing, Bumping
<1> QED BY <1>1, <1>2, <1>3 DEF Shape, TypeOK

-----------------------------------------------------------------------------
(***************************************************************************)
(* What the kinds of step do to the wallets.                               *)
(***************************************************************************)

\* A step that neither takes nor gives up a wallet's row; it may read versions.
LEMMA KeepsWallets ==
  ASSUME Shape, WalletOK, NEW r \in Requests, NEW s,
         job' = [job EXCEPT ![r] = s], UNCHANGED <<version, walletLock>>,
         job[r] \notin Bumping, s \notin Bumping,
         \A q \in Requests \ {r} : seen'[q] = seen[q],
         seen'[r].from \in {seen[r].from, version[Body[r].from]},
         \/ seen'[r].to = seen[r].to
         \/ Body[r].to \in Wallets /\ seen'[r].to = version[Body[r].to]
  PROVE  WalletOK'
<1>1. /\ \A q \in Requests : job'[q] = IF q = r THEN s ELSE job[q]
      /\ \A w \in Wallets : walletLock[w] \in Requests \cup {NoJob}
  BY DEF Shape, TypeOK
<1>2. WalletDiscipline'
  <2>1. ASSUME NEW w \in Wallets, walletLock'[w] # NoJob
        PROVE  LET q == walletLock'[w] IN
               \/ job'[q] \in {"bumpTo", "commit"} /\ w = Body[q].from
               \/ job'[q] = "commit" /\ w = Body[q].to
    BY <1>1, <2>1 DEF WalletOK, WalletDiscipline, Bumping
  <2>2. ASSUME NEW q \in Requests
        PROVE  /\ job'[q] = "bumpTo" /\ walletLock'[Body[q].from] = q =>
                    version'[Body[q].from] = seen'[q].from
               /\ job'[q] = "commit" => Body[q].from # Body[q].to
               /\ seen'[q].from <= version'[Body[q].from]
               /\ Body[q].to \in Wallets => seen'[q].to <= version'[Body[q].to]
    <3>1. CASE q = r
      BY <1>1, <3>1, WalletTypes DEF WalletOK, WalletDiscipline, Bumping
    <3>2. CASE q # r
      BY <1>1, <3>2 DEF WalletOK, WalletDiscipline
    <3> QED BY <3>1, <3>2
  <2> QED BY <2>1, <2>2 DEF WalletDiscipline
<1>3. CommitSerialised'
  BY <1>1 DEF WalletOK, CommitSerialised, Bumping
<1> QED BY <1>2, <1>3 DEF WalletOK

\* A transaction that rolls back, or ends having written no wallet.
LEMMA LeavesWallets ==
  ASSUME Shape, WalletOK, NEW r \in Requests, NEW s,
         job' = [job EXCEPT ![r] = s], version' = version, Release(r), s \notin Bumping
  PROVE  WalletOK'
<1>1. /\ \A q \in Requests : job'[q] = IF q = r THEN s ELSE job[q]
      /\ \A w \in Wallets : walletLock[w] \in Requests \cup {NoJob}
      /\ \A w \in Wallets : walletLock'[w] = IF walletLock[w] = r THEN NoJob ELSE walletLock[w]
      /\ \A q \in Requests : seen'[q] = IF q = r THEN Unseen ELSE seen[q]
  BY DEF Shape, TypeOK, Release
<1>2. WalletDiscipline'
  <2>1. ASSUME NEW w \in Wallets, walletLock'[w] # NoJob
        PROVE  LET q == walletLock'[w] IN
               \/ job'[q] \in {"bumpTo", "commit"} /\ w = Body[q].from
               \/ job'[q] = "commit" /\ w = Body[q].to
    BY <1>1, <2>1 DEF WalletOK, WalletDiscipline
  <2>2. ASSUME NEW q \in Requests
        PROVE  /\ job'[q] = "bumpTo" /\ walletLock'[Body[q].from] = q =>
                    version'[Body[q].from] = seen'[q].from
               /\ job'[q] = "commit" => Body[q].from # Body[q].to
               /\ seen'[q].from <= version'[Body[q].from]
               /\ Body[q].to \in Wallets => seen'[q].to <= version'[Body[q].to]
    <3>1. CASE q = r
      BY <1>1, <3>1, WalletTypes DEF Unseen, Bumping
    <3>2. CASE q # r
      BY <1>1, <3>2, WalletTypes DEF WalletOK, WalletDiscipline
    <3> QED BY <3>1, <3>2
  <2> QED BY <2>1, <2>2 DEF WalletDiscipline
<1>3. CommitSerialised'
  <2>1. ASSUME NEW q \in Requests, job'[q] = "commit"
        PROVE  /\ walletLock'[Body[q].from] = q /\ version'[Body[q].from] = seen'[q].from
               /\ walletLock'[Body[q].to] = q   /\ version'[Body[q].to] = seen'[q].to
    <3>1. q # r /\ job[q] = "commit"
      BY <1>1, <2>1 DEF Bumping
    <3>2. Body[q].from \in Wallets /\ Body[q].to \in Wallets
      BY <3>1, WalletTypes DEF Bumping
    <3> QED BY <1>1, <3>1, <3>2 DEF WalletOK, CommitSerialised
  <2> QED BY <2>1 DEF CommitSerialised
<1> QED BY <1>2, <1>3 DEF WalletOK

\* COMMIT: both versions grow, and nobody else had a claim on either row.
LEMMA BooksWallets ==
  ASSUME Shape, WalletOK, NEW r \in Requests, NEW s,
         job[r] = "commit", Book(r), job' = [job EXCEPT ![r] = s], s \notin Bumping
  PROVE  WalletOK'
<1>1. /\ \A q \in Requests : job'[q] = IF q = r THEN s ELSE job[q]
      /\ \A w \in Wallets : walletLock[w] \in Requests \cup {NoJob}
      /\ \A w \in Wallets : walletLock'[w] = IF walletLock[w] = r THEN NoJob ELSE walletLock[w]
      /\ \A q \in Requests : seen'[q] = IF q = r THEN Unseen ELSE seen[q]
      /\ \A w \in Wallets : version'[w] = IF w \in {Body[r].from, Body[r].to}
                                          THEN version[w] + 1 ELSE version[w]
      /\ \A w \in Wallets : version[w] \in Nat
  BY DEF Shape, TypeOK, Book, Release, Touches
<1>2. /\ walletLock[Body[r].from] = r /\ walletLock[Body[r].to] = r
      /\ Body[r].from \in Wallets /\ Body[r].to \in Wallets
  BY WalletTypes DEF WalletOK, CommitSerialised, Bumping
<1>3. \A w \in Wallets : version[w] <= version'[w] /\ version'[w] \in Nat
  BY <1>1
<1>4. \A w \in Wallets : walletLock[w] # r => version'[w] = version[w]
  BY <1>1, <1>2
<1>5. WalletDiscipline'
  <2>1. ASSUME NEW w \in Wallets, walletLock'[w] # NoJob
        PROVE  LET q == walletLock'[w] IN
               \/ job'[q] \in {"bumpTo", "commit"} /\ w = Body[q].from
               \/ job'[q] = "commit" /\ w = Body[q].to
    BY <1>1, <2>1 DEF WalletOK, WalletDiscipline
  <2>2. ASSUME NEW q \in Requests
        PROVE  /\ job'[q] = "bumpTo" /\ walletLock'[Body[q].from] = q =>
                    version'[Body[q].from] = seen'[q].from
               /\ job'[q] = "commit" => Body[q].from # Body[q].to
               /\ seen'[q].from <= version'[Body[q].from]
               /\ Body[q].to \in Wallets => seen'[q].to <= version'[Body[q].to]
    <3>1. CASE q = r
      BY <1>1, <1>3, <3>1, WalletTypes DEF Unseen, Bumping
    <3>2. CASE q # r
      <4>1. /\ seen'[q] = seen[q] /\ job'[q] = job[q]
            /\ seen[q].from <= version[Body[q].from]
            /\ Body[q].to \in Wallets => seen[q].to <= version[Body[q].to]
            /\ job[q] = "commit" => Body[q].from # Body[q].to
        BY <1>1, <3>2 DEF WalletOK, WalletDiscipline
      <4>2. job'[q] = "bumpTo" /\ walletLock'[Body[q].from] = q =>
               version'[Body[q].from] = seen'[q].from
        BY <1>1, <1>4, <3>2, <4>1, WalletTypes DEF WalletOK, WalletDiscipline
      <4> QED BY <1>1, <1>3, <4>1, <4>2, WalletTypes
    <3> QED BY <3>1, <3>2
  <2> QED BY <2>1, <2>2 DEF WalletDiscipline
<1>6. CommitSerialised'
  <2>1. ASSUME NEW q \in Requests, job'[q] = "commit"
        PROVE  /\ walletLock'[Body[q].from] = q /\ version'[Body[q].from] = seen'[q].from
               /\ walletLock'[Body[q].to] = q   /\ version'[Body[q].to] = seen'[q].to
    <3>1. q # r /\ job[q] = "commit"
      BY <1>1, <2>1 DEF Bumping
    <3>2. Body[q].from \in Wallets /\ Body[q].to \in Wallets
      BY <3>1, WalletTypes DEF Bumping
    <3>3. /\ walletLock[Body[q].from] = q /\ version[Body[q].from] = seen[q].from
          /\ walletLock[Body[q].to] = q   /\ version[Body[q].to] = seen[q].to
      BY <3>1 DEF WalletOK, CommitSerialised
    <3> QED BY <1>1, <1>4, <3>1, <3>2, <3>3
  <2> QED BY <2>1 DEF CommitSerialised
<1> QED BY <1>5, <1>6 DEF WalletOK

\* The first UPDATE: it takes the paying wallet's row only at the version read.
LEMMA BumpFromWallets ==
  ASSUME Shape, WalletOK, NEW r \in Requests, BumpFrom(r) PROVE WalletOK'
<1> DEFINE w == Body[r].from
<1>1. /\ \A q \in Requests : job'[q] = IF q = r THEN "bumpTo" ELSE job[q]
      /\ \A v \in Wallets : walletLock[v] \in Requests \cup {NoJob}
      /\ job[r] = "bumpFrom" /\ w \in Wallets /\ walletLock[w] \in {NoJob, r}
      /\ version' = version /\ seen' = seen /\ r # NoJob
  BY WalletTypes DEF Shape, TypeOK, BumpFrom, WalletFree
<1>2. \A v \in Wallets : walletLock[v] # r
  BY <1>1 DEF WalletOK, WalletDiscipline
<1>3. \/ walletLock' = walletLock
      \/ walletLock' = [walletLock EXCEPT ![w] = r] /\ version[w] = seen[r].from
  <2>1. Matches(r, w, seen[r].from) => version[w] = seen[r].from
    BY <1>1, <1>2, WalletTypes DEF Matches
  <2> QED BY <2>1 DEF BumpFrom
<1>4. \A v \in Wallets :
        walletLock'[v] # walletLock[v] => v = w /\ walletLock'[v] = r /\ version[w] = seen[r].from
  BY <1>1, <1>3 DEF Shape, TypeOK
<1>5. WalletDiscipline'
  <2>1. ASSUME NEW v \in Wallets, walletLock'[v] # NoJob
        PROVE  LET q == walletLock'[v] IN
               \/ job'[q] \in {"bumpTo", "commit"} /\ v = Body[q].from
               \/ job'[q] = "commit" /\ v = Body[q].to
    BY <1>1, <1>2, <1>4, <2>1 DEF WalletOK, WalletDiscipline
  <2>2. ASSUME NEW q \in Requests
        PROVE  /\ job'[q] = "bumpTo" /\ walletLock'[Body[q].from] = q =>
                    version'[Body[q].from] = seen'[q].from
               /\ job'[q] = "commit" => Body[q].from # Body[q].to
               /\ seen'[q].from <= version'[Body[q].from]
               /\ Body[q].to \in Wallets => seen'[q].to <= version'[Body[q].to]
    <3>1. CASE q = r
      BY <1>1, <1>2, <1>4, <3>1 DEF WalletOK, WalletDiscipline
    <3>2. CASE q # r
      BY <1>1, <1>4, <3>2, WalletTypes DEF WalletOK, WalletDiscipline
    <3> QED BY <3>1, <3>2
  <2> QED BY <2>1, <2>2 DEF WalletDiscipline
<1>6. CommitSerialised'
  <2>1. ASSUME NEW q \in Requests, job'[q] = "commit"
        PROVE  /\ walletLock'[Body[q].from] = q /\ version'[Body[q].from] = seen'[q].from
               /\ walletLock'[Body[q].to] = q   /\ version'[Body[q].to] = seen'[q].to
    <3>1. q # r /\ job[q] = "commit"
      BY <1>1, <2>1
    <3>2. Body[q].from \in Wallets /\ Body[q].to \in Wallets /\ q # NoJob
      BY <3>1, WalletTypes DEF Bumping
    <3> QED BY <1>1, <1>4, <3>1, <3>2 DEF WalletOK, CommitSerialised
  <2> QED BY <2>1 DEF CommitSerialised
<1> QED BY <1>5, <1>6 DEF WalletOK

\* The second UPDATE succeeds: both rows are held at the versions read.  It cannot
\* be the same wallet twice, for the second UPDATE would see the first one's bump.
LEMMA BumpToWallets ==
  ASSUME Shape, WalletOK, NEW r \in Requests, BumpTo(r),
         walletLock[Body[r].from] = r, Matches(r, Body[r].to, seen[r].to)
  PROVE  WalletOK'
<1> DEFINE w == Body[r].to
<1>1. /\ \A q \in Requests : job'[q] = IF q = r THEN "commit" ELSE job[q]
      /\ \A v \in Wallets : walletLock[v] \in Requests \cup {NoJob}
      /\ job[r] = "bumpTo" /\ w \in Wallets /\ walletLock[w] \in {NoJob, r}
      /\ version' = version /\ seen' = seen /\ r # NoJob /\ Body[r].from \in Wallets
  BY WalletTypes DEF Shape, TypeOK, BumpTo, WalletFree, Bumping
<1>2. version[Body[r].from] = seen[r].from /\ seen[r].to <= version[w]
  BY <1>1 DEF WalletOK, WalletDiscipline
<1>3. Body[r].from # w
  BY <1>1, <1>2, WalletTypes DEF Matches
<1>4. walletLock[w] # r
  BY <1>1, <1>3 DEF WalletOK, WalletDiscipline
<1>5. version[w] = seen[r].to
  BY <1>1, <1>4, WalletTypes DEF Matches
<1>6. \A v \in Wallets : walletLock'[v] = IF v = w THEN r ELSE walletLock[v]
  BY <1>1 DEF BumpTo, Shape, TypeOK
<1>7. WalletDiscipline'
  <2>1. ASSUME NEW v \in Wallets, walletLock'[v] # NoJob
        PROVE  LET q == walletLock'[v] IN
               \/ job'[q] \in {"bumpTo", "commit"} /\ v = Body[q].from
               \/ job'[q] = "commit" /\ v = Body[q].to
    BY <1>1, <1>6, <2>1 DEF WalletOK, WalletDiscipline
  <2>2. ASSUME NEW q \in Requests
        PROVE  /\ job'[q] = "bumpTo" /\ walletLock'[Body[q].from] = q =>
                    version'[Body[q].from] = seen'[q].from
               /\ job'[q] = "commit" => Body[q].from # Body[q].to
               /\ seen'[q].from <= version'[Body[q].from]
               /\ Body[q].to \in Wallets => seen'[q].to <= version'[Body[q].to]
    <3>1. CASE q = r
      BY <1>1, <1>3, <3>1 DEF WalletOK, WalletDiscipline
    <3>2. CASE q # r
      BY <1>1, <1>6, <3>2, WalletTypes DEF WalletOK, WalletDiscipline
    <3> QED BY <3>1, <3>2
  <2> QED BY <2>1, <2>2 DEF WalletDiscipline
<1>8. CommitSerialised'
  <2>1. ASSUME NEW q \in Requests, job'[q] = "commit"
        PROVE  /\ walletLock'[Body[q].from] = q /\ version'[Body[q].from] = seen'[q].from
               /\ walletLock'[Body[q].to] = q   /\ version'[Body[q].to] = seen'[q].to
    <3>1. CASE q = r
      BY <1>1, <1>2, <1>3, <1>5, <1>6, <3>1
    <3>2. CASE q # r
      <4>1. job[q] = "commit" /\ Body[q].from \in Wallets /\ Body[q].to \in Wallets /\ q # NoJob
        BY <1>1, <2>1, <3>2, WalletTypes DEF Bumping
      <4>2. /\ walletLock[Body[q].from] = q /\ version[Body[q].from] = seen[q].from
            /\ walletLock[Body[q].to] = q   /\ version[Body[q].to] = seen[q].to
        BY <4>1 DEF WalletOK, CommitSerialised
      <4> QED BY <1>1, <1>6, <3>2, <4>1, <4>2
    <3> QED BY <3>1, <3>2
  <2> QED BY <2>1 DEF CommitSerialised
<1> QED BY <1>7, <1>8 DEF WalletOK

-----------------------------------------------------------------------------
(***************************************************************************)
(* The wallets' rows through every step.                                   *)
(***************************************************************************)

LEMMA ThrowWallets ==
  ASSUME Shape, WalletOK, NEW r \in Requests, Throw(r) PROVE WalletOK'
<1>1. PICK s \in {"waiting", "failed"} : job' = [job EXCEPT ![r] = s]
  BY DEF Throw, FailAttempt
<1>2. s \notin Bumping /\ version' = version /\ Release(r)
  BY DEF Throw, Bumping
<1> QED BY <1>1, <1>2, LeavesWallets

LEMMA WorkWallets ==
  ASSUME Shape, WalletOK, NEW r \in Requests, Work(r) PROVE WalletOK'
<1>t. seen[r] \in [at : Nat, from : Nat, to : Nat] /\ seen \in [Requests -> [at : Nat, from : Nat, to : Nat]]
  BY DEF Shape, TypeOK
<1>1. CASE \/ Take(r) \/ CheckExisting(r) \/ Insert(r) \/ PermMark(r) \/ PermMail(r) \/ Notify(r)
  BY <1>1, KeepsWallets
  DEF Take, CheckExisting, Insert, PermMark, PermMail, Notify, Bumping
<1>2. CASE Claim(r)
  BY <1>2, KeepsWallets DEF Claim, Bumping
<1>3. CASE Reconcile(r)
  BY <1>3, KeepsWallets DEF Reconcile, Bumping
<1>4. CASE ReadMiss(r)
  <2>1. CASE AlreadyDone(Key(r))
    BY <1>4, <2>1, KeepsWallets DEF ReadMiss, Bumping
  <2>2. CASE ~AlreadyDone(Key(r))
    BY <1>4, <2>2, ThrowWallets DEF ReadMiss
  <2> QED BY <2>1, <2>2
<1>5. CASE Settle(r) \/ InnerReconcile(r)
  BY <1>5, LeavesWallets DEF Settle, InnerReconcile, Bumping
<1>6. CASE Validate(r)
  <2>1. CASE Acceptable(r)
    <3>1. /\ \A q \in Requests \ {r} : seen'[q] = seen[q]
          /\ seen'[r].from = seen[r].from /\ seen'[r].to = seen[r].to
      BY <1>6, <2>1, <1>t DEF Validate
    <3> QED BY <1>6, <2>1, <3>1, KeepsWallets DEF Validate, Bumping
  <2>2. CASE ~Acceptable(r)
    BY <1>6, <2>2, LeavesWallets DEF Validate, Reject, Bumping
  <2> QED BY <2>1, <2>2
<1>7. CASE ReadFrom(r)
  <2>1. /\ \A q \in Requests \ {r} : seen'[q] = seen[q]
        /\ seen'[r].from = version[Body[r].from] /\ seen'[r].to = seen[r].to
    BY <1>7, <1>t DEF ReadFrom
  <2>2. /\ job[r] \notin Bumping /\ "readTo" \notin Bumping
        /\ job' = [job EXCEPT ![r] = "readTo"] /\ UNCHANGED <<version, walletLock>>
    BY <1>7 DEF ReadFrom, Bumping
  <2> QED BY <2>1, <2>2, KeepsWallets
<1>8. CASE ReadTo(r)
  <2>1. CASE Body[r].to \in Wallets
    <3>1. /\ \A q \in Requests \ {r} : seen'[q] = seen[q]
          /\ seen'[r].from = seen[r].from /\ seen'[r].to = version[Body[r].to]
      BY <1>8, <2>1, <1>t DEF ReadTo
    <3> QED BY <1>8, <2>1, <3>1, KeepsWallets DEF ReadTo, Bumping
  <2>2. CASE Body[r].to \notin Wallets
    BY <1>8, <2>2, ThrowWallets DEF ReadTo
  <2> QED BY <2>1, <2>2
<1>9. CASE BumpFrom(r)
  BY <1>9, BumpFromWallets
<1>10. CASE BumpTo(r)
  <2>1. CASE walletLock[Body[r].from] = r /\ Matches(r, Body[r].to, seen[r].to)
    BY <1>10, <2>1, BumpToWallets
  <2>2. CASE Conflict(r) /\ MayRepeat(r)
    BY <2>2, LeavesWallets DEF Conflict, Bumping
  <2>3. CASE Throw(r)
    BY <2>3, ThrowWallets
  <2> QED BY <1>10, <2>1, <2>2, <2>3 DEF BumpTo, Conflict
<1>11. CASE Commit(r)
  <2>1. "notify" \notin Bumping
    BY DEF Bumping
  <2> QED BY <1>11, <2>1, BooksWallets DEF Commit
<1>12. CASE DeadlockAbort(r)
  BY <1>12, ThrowWallets DEF DeadlockAbort
<1> QED BY <1>1, <1>2, <1>3, <1>4, <1>5, <1>6, <1>7, <1>8, <1>9, <1>10, <1>11, <1>12 DEF Work

LEMMA FaultWallets ==
  ASSUME Shape, WalletOK, NEW r \in Requests, Fault(r) PROVE WalletOK'
<1>1. CASE ApiCrash(r)
  BY <1>1 DEF ApiCrash, WalletOK, WalletDiscipline, CommitSerialised
<1>2. CASE DbError(r) \/ MailError(r)
  BY <1>2, ThrowWallets DEF DbError, MailError
<1>3. CASE CommitUnknown(r)
  <2>1. PICK s \in {"waiting", "failed"} : job' = [job EXCEPT ![r] = s]
    BY <1>3 DEF CommitUnknown, FailAttempt
  <2> QED BY <1>3, <2>1, BooksWallets DEF CommitUnknown, Bumping
<1>4. CASE Crash(r)
  <2>1. PICK s \in {"waiting", "failed"} : job' = [job EXCEPT ![r] = s]
    BY <1>4 DEF Crash
  <2> QED BY <1>4, <2>1, LeavesWallets DEF Crash, Bumping
<1> QED BY <1>1, <1>2, <1>3, <1>4 DEF Fault

LEMMA NextWallets == Shape /\ WalletOK /\ [Next]_vars => WalletOK'
<1> SUFFICES ASSUME Shape, WalletOK, [Next]_vars PROVE WalletOK'
  OBVIOUS
<1>1. ASSUME NEW r \in Requests, Api(r) PROVE WalletOK'
  <2>1. CASE AddJob(r)
    <3>1. job[r] = "none"
      BY <2>1 DEF AddJob, Shape, QueueOK
    <3> QED BY <2>1, <3>1, KeepsWallets DEF AddJob, Bumping
  <2>2. CASE ~AddJob(r)
    BY <1>1, <2>2 DEF Api, CheckFunds, LookupKey, CreateRecord, WalletOK, WalletDiscipline, CommitSerialised
  <2> QED BY <2>1, <2>2
<1>2. ASSUME NEW r \in Requests, Work(r) \/ Fault(r) PROVE WalletOK'
  BY <1>2, WorkWallets, FaultWallets
<1>3. ASSUME NEW h \in handlers, Listen(h) \/ HandlerLost(h) PROVE WalletOK'
  BY <1>3 DEF Listen, HandlerMail, HandlerMark, HandlerLost, WalletOK, WalletDiscipline, CommitSerialised
<1>4. CASE UNCHANGED vars
  BY <1>4 DEF vars, WalletOK, WalletDiscipline, CommitSerialised
<1> QED BY <1>1, <1>2, <1>3, <1>4 DEF Next, Quiescent

LEMMA InitWallets == Init => WalletOK
  BY BodyShape DEF Init, Unseen, WalletOK, WalletDiscipline, CommitSerialised

-----------------------------------------------------------------------------
(***************************************************************************)
(* The theorems.                                                           *)
(***************************************************************************)

WInv == KInv /\ WalletOK

LEMMA WalletInvariant == Spec => []WInv
<1>1. Init => WInv
  BY InitKeys, InitWallets DEF WInv
<1>2. WInv /\ [Next]_vars => WInv'
  BY NextShape, NextKeys, NextOutcomes, NextWallets DEF WInv, KInv
<1> QED BY <1>1, <1>2, PTL DEF Spec

\* Two transfers that share a wallet never both stand before their commit: whoever
\* stands there holds both rows at the very versions it read.
THEOREM CommitsAreSerialised == Spec => []CommitSerialised
<1>1. WInv => CommitSerialised
  BY DEF WInv, WalletOK
<1> QED BY <1>1, WalletInvariant, PTL

\* A transfer is booked in the step that completes its pending key, for the job that
\* holds the key and both wallets; the log only grows.
THEOREM MovesOnlyUnderClaim == Spec => MovesUnderClaim
<1>1. WInv /\ [Next]_vars =>
        [/\ Len(posted) <= Len(posted')
         /\ \A i \in DOMAIN posted : posted'[i] = posted[i]
         /\ \A i \in DOMAIN posted' \ DOMAIN posted :
              LET r == posted'[i].req IN
              /\ idem[Body[r].key] = "pending" /\ idem'[Body[r].key] = "completed"
              /\ keyLock[Body[r].key] = r
              /\ walletLock[Body[r].from] = r /\ walletLock[Body[r].to] = r]_vars
  <2> SUFFICES ASSUME WInv, [Next]_vars
               PROVE  /\ Len(posted) <= Len(posted')
                      /\ \A i \in DOMAIN posted : posted'[i] = posted[i]
                      /\ \A i \in DOMAIN posted' \ DOMAIN posted :
                           LET r == posted'[i].req IN
                           /\ idem[Body[r].key] = "pending" /\ idem'[Body[r].key] = "completed"
                           /\ keyLock[Body[r].key] = r
                           /\ walletLock[Body[r].from] = r /\ walletLock[Body[r].to] = r
    OBVIOUS
  <2>1. KeyEffect
    BY StepEffect DEF WInv, KInv
  <2>2. CASE posted' = posted
    <3>1. Len(posted) \in Nat
      BY DEF WInv, KInv, Shape, TypeOK
    <3> QED BY <2>2, <3>1
  <2>3. ASSUME NEW r \in Requests, job[r] = "commit", Book(r), Body[r].to \in Wallets,
               idem[Key(r)] = "pending"
        PROVE  /\ Len(posted) <= Len(posted')
               /\ \A i \in DOMAIN posted : posted'[i] = posted[i]
               /\ \A i \in DOMAIN posted' \ DOMAIN posted : posted'[i].req = r
               /\ idem'[Key(r)] = "completed" /\ keyLock[Key(r)] = r
               /\ walletLock[Body[r].from] = r /\ walletLock[Body[r].to] = r
    <3>1. /\ Len(posted) \in Nat /\ Len(posted') = Len(posted) + 1
          /\ DOMAIN posted = 1..Len(posted) /\ DOMAIN posted' = 1..(Len(posted) + 1)
          /\ \A i \in DOMAIN posted : posted'[i] = posted[i]
          /\ posted'[Len(posted) + 1].req = r
      BY <2>3, PublishRecords DEF Book, WInv, KInv, Shape
    <3>2. \A i \in DOMAIN posted' \ DOMAIN posted : i = Len(posted) + 1
      BY <3>1
    <3>3. idem'[Key(r)] = "completed" /\ keyLock[Key(r)] = r
      BY <2>3, BodyShape DEF Book, WInv, KInv, Shape, TypeOK, KeyDiscipline, Claimed
    <3>4. walletLock[Body[r].from] = r /\ walletLock[Body[r].to] = r
      BY <2>3 DEF WInv, WalletOK, CommitSerialised
    <3> QED BY <3>1, <3>2, <3>3, <3>4
  <2> QED BY <2>1, <2>2, <2>3 DEF KeyEffect, Key
<1> QED BY <1>1, WalletInvariant, PTL DEF Spec, MovesUnderClaim

-----------------------------------------------------------------------------
(***************************************************************************)
(* Sums over a finite set.  The library takes the elements in the order that *)
(* CHOOSE gives; a minimal counterexample shows that the order is all one. *)
(* Induction itself takes an operator as its parameter; that a non-empty set *)
(* of numbers, or of finite sets, has a minimal element does not.          *)
(***************************************************************************)

\* A non-empty set of naturals has a least element.
LEMMA NatMin ==
  ASSUME NEW T, T \subseteq Nat, T # {}
  PROVE  \E n \in T : \A m \in T : n <= m
<1> DEFINE R == {p \in Nat \X Nat : p[1] < p[2]}
<1>1. IsWellFoundedOn(R, Nat)
  BY NatLessThanWellFounded DEF OpToRel
<1>2. PICK x \in T : \A y \in T : ~(<<y, x>> \in R)
  BY <1>1, WFMin
<1>3. ASSUME NEW y \in T, y < x PROVE FALSE
  <2>1. <<y, x>> \in R
    BY <1>3
  <2> QED BY <1>2, <2>1
<1>4. \A y \in T : ~(y < x) /\ y \in Nat /\ x \in Nat
  BY <1>3
<1> QED BY <1>4

\* A non-empty set of subsets of a finite set has a minimal element.
LEMMA SubsetMin ==
  ASSUME NEW S, IsFiniteSet(S), NEW T, T \subseteq SUBSET S, T # {}
  PROVE  \E x \in T : \A y \in T : y \subseteq x => y = x
<1>1. IsWellFoundedOn(StrictSubsetOrdering(S), SUBSET S)
  BY FS_StrictSubsetOrderingWellFounded, FS_FiniteSubsetsOfFinite
<1>2. PICK x \in T : \A y \in T : ~(<<y, x>> \in StrictSubsetOrdering(S))
  BY <1>1, WFMin
<1>3. ASSUME NEW y \in T, y \subseteq x, y # x PROVE FALSE
  <2>1. <<y, x>> \in StrictSubsetOrdering(S)
    BY <1>3 DEF StrictSubsetOrdering
  <2> QED BY <1>2, <2>1
<1> QED BY <1>3

\* The element that the fold takes next.
Pick(s) == CHOOSE x \in s : TRUE

\* F is a solution of the recursion by which the library sums f over subsets of S.
Summing(F, f, S) ==
  F = [s \in SUBSET S |-> IF s = {} THEN 0 ELSE f[Pick(s)] + F[s \ {Pick(s)}]]

LEMMA Picked == \A s : s # {} => Pick(s) \in s
  BY DEF Pick

\* Sums over the same numbers agree.
LEMMA SumUnique ==
  ASSUME NEW S, IsFiniteSet(S), NEW SS, S \subseteq SS, NEW f, NEW g, NEW F, NEW G,
         Summing(F, f, S), Summing(G, g, SS), \A x \in S : f[x] = g[x]
  PROVE  \A s \in SUBSET S : F[s] = G[s]
<1> DEFINE Bad == {s \in SUBSET S : F[s] # G[s]}
<1> SUFFICES ASSUME Bad # {} PROVE FALSE
  OBVIOUS
<1>b. Bad \subseteq SUBSET S
  OBVIOUS
<1>1. PICK s \in Bad : \A t \in Bad : t \subseteq s => t = s
  <2> HIDE DEF Bad
  <2> QED BY <1>b, SubsetMin
<1>2. CASE s = {}
  BY <1>2 DEF Summing
<1>3. CASE s # {}
  <2>1. Pick(s) \in s /\ s \ {Pick(s)} \in SUBSET S /\ s \ {Pick(s)} # s /\ s \in SUBSET S
    BY <1>3, Picked
  <2>2. F[s \ {Pick(s)}] = G[s \ {Pick(s)}]
    BY <1>1, <2>1
  <2>3. F[s] = f[Pick(s)] + F[s \ {Pick(s)}]
    BY <1>3, <2>1 DEF Summing
  <2>4. G[s] = g[Pick(s)] + G[s \ {Pick(s)}]
    BY <1>3, <2>1 DEF Summing
  <2> QED BY <2>1, <2>2, <2>3, <2>4
<1> QED BY <1>2, <1>3

\* The recursion has a solution: by the least size of subsets for which it has none.
LEMMA SumExists ==
  ASSUME NEW S, IsFiniteSet(S), NEW f \in [S -> Int]
  PROVE  \E F \in [SUBSET S -> Int] : Summing(F, f, S)
<1> DEFINE Value(F, s) == IF s = {} THEN 0 ELSE f[Pick(s)] + F[s \ {Pick(s)}]
           Upto(F, n) == \A s \in SUBSET S : Cardinality(s) <= n => F[s] = Value(F, s)
           Bad == {n \in Nat : ~ \E F \in [SUBSET S -> Int] : Upto(F, n)}
<1>1. \A s \in SUBSET S : IsFiniteSet(s) /\ Cardinality(s) \in Nat /\ Cardinality(s) <= Cardinality(S)
  BY FS_Subset, FS_CardinalityType
<1>2. Cardinality(S) \in Nat
  BY FS_CardinalityType
<1>3. \A F \in [SUBSET S -> Int], s \in SUBSET S : Value(F, s) \in Int
  <2> TAKE F \in [SUBSET S -> Int], s \in SUBSET S
  <2>1. s # {} => Pick(s) \in S /\ s \ {Pick(s)} \in SUBSET S
    BY Picked
  <2> QED BY <2>1
<1>4. Bad = {}
  <2> SUFFICES ASSUME Bad # {} PROVE FALSE
    OBVIOUS
  <2>1. PICK n \in Bad : \A m \in Bad : n <= m
    BY NatMin
  <2>2. n # 0
    <3>1. [s \in SUBSET S |-> 0] \in [SUBSET S -> Int]
      OBVIOUS
    <3>2. Upto([s \in SUBSET S |-> 0], 0)
      <4> SUFFICES ASSUME NEW s \in SUBSET S, Cardinality(s) <= 0
                   PROVE  [q \in SUBSET S |-> 0][s] = Value([q \in SUBSET S |-> 0], s)
        OBVIOUS
      <4>1. Cardinality(s) = 0
        BY <1>1
      <4>2. s = {}
        BY <1>1, <4>1, FS_EmptySet
      <4> QED BY <4>2
    <3> QED BY <3>1, <3>2, ZenonT(60)
  <2>3. n - 1 \in Nat /\ n - 1 \notin Bad
    <3>1. n \in Nat /\ (\A m \in Bad : n <= m)
      BY <2>1
    <3> HIDE DEF Bad
    <3> QED BY <2>2, <3>1
  <2>4. PICK F \in [SUBSET S -> Int] : Upto(F, n - 1)
    BY <2>3
  <2> DEFINE G == [s \in SUBSET S |-> IF Cardinality(s) <= n - 1 THEN F[s] ELSE Value(F, s)]
  <2>5. G \in [SUBSET S -> Int]
    BY <1>3
  <2>6. ASSUME NEW s \in SUBSET S, Cardinality(s) <= n
        PROVE  G[s] = Value(G, s)
    <3>1. G[s] = Value(F, s)
      BY <2>4
    <3>2. CASE s = {}
      BY <3>1, <3>2
    <3>3. CASE s # {}
      <4>1. Pick(s) \in s /\ s \ {Pick(s)} \in SUBSET S
        BY <3>3, Picked
      <4>2. Cardinality(s \ {Pick(s)}) = Cardinality(s) - 1
        BY <1>1, <4>1, FS_RemoveElement
      <4>3. Cardinality(s \ {Pick(s)}) <= n - 1
        BY <1>1, <2>3, <2>6, <4>2
      <4>4. G[s \ {Pick(s)}] = F[s \ {Pick(s)}]
        BY <4>1, <4>3
      <4> QED BY <3>1, <3>3, <4>4
    <3> QED BY <3>2, <3>3
  <2>7. Upto(G, n)
    BY <2>6
  <2> HIDE DEF G
  <2> QED BY <2>1, <2>5, <2>7
<1>5. PICK F \in [SUBSET S -> Int] : Upto(F, Cardinality(S))
  BY <1>2, <1>4
<1>6. \A s \in SUBSET S : F[s] = Value(F, s)
  BY <1>1, <1>5
<1> QED BY <1>6 DEF Summing

\* F gives the sums of f over the subsets of S, all of it integers.
Sums(F, f, S) ==
  IsFiniteSet(S) /\ f \in [S -> Int] /\ F \in [SUBSET S -> Int] /\ Summing(F, f, S)

\* A sum does not depend on which element is taken first.
LEMMA SumAdds ==
  ASSUME NEW S, NEW f, NEW F, Sums(F, f, S)
  PROVE  \A a \in S : F[S] = f[a] + F[S \ {a}]
<1> USE DEF Sums
<1> DEFINE Bad == {s \in SUBSET S : \E x \in s : F[s] # f[x] + F[s \ {x}]}
<1>a. SUFFICES Bad = {}
  BY S \in SUBSET S
<1> SUFFICES ASSUME Bad # {} PROVE FALSE
  OBVIOUS
<1>b. Bad \subseteq SUBSET S
  OBVIOUS
<1>1. PICK s \in Bad : \A t \in Bad : t \subseteq s => t = s
  <2> HIDE DEF Bad
  <2> QED BY <1>b, SubsetMin
<1>2. PICK x \in s : F[s] # f[x] + F[s \ {x}]
  OBVIOUS
<1>3. s \in SUBSET S /\ Pick(s) \in s
  BY Picked
<1>4. F[s] = f[Pick(s)] + F[s \ {Pick(s)}]
  BY <1>3 DEF Summing
<1>5. Pick(s) # x
  BY <1>2, <1>4
<1> DEFINE p == Pick(s)
<1> HIDE DEF p
<1>6. s \ {p} \notin Bad /\ s \ {x} \notin Bad
  BY <1>1, <1>3 DEF p
<1>7. F[s \ {p}] = f[x] + F[(s \ {p}) \ {x}]
  BY <1>3, <1>5, <1>6 DEF p
<1>8. F[s \ {x}] = f[p] + F[(s \ {x}) \ {p}]
  BY <1>3, <1>5, <1>6 DEF p
<1>9. (s \ {x}) \ {p} = (s \ {p}) \ {x} /\ (s \ {x}) \ {p} \in SUBSET S
  BY <1>3
<1>10. f[x] \in Int /\ f[p] \in Int /\ F[(s \ {x}) \ {p}] \in Int
  BY <1>3, <1>9 DEF p
<1>11. F[s] = f[p] + (f[x] + F[(s \ {x}) \ {p}])
  BY <1>4, <1>7, <1>9 DEF p
<1>12. F[s] = f[x] + (f[p] + F[(s \ {x}) \ {p}])
  BY <1>10, <1>11
<1> QED BY <1>2, <1>8, <1>12

\* A sum over one element more.
LEMMA SumExtends ==
  ASSUME NEW A, NEW B, A \subseteq B, NEW f, NEW g, NEW F, NEW G,
         Sums(F, f, A), Sums(G, g, B), \A i \in A : f[i] = g[i]
  PROVE  \A b \in B : A = B \ {b} => G[B] = g[b] + F[A]
<1>1. IsFiniteSet(A) /\ Summing(F, f, A) /\ Summing(G, g, B)
  BY DEF Sums
<1>2. \A s \in SUBSET A : F[s] = G[s]
  BY <1>1, SumUnique
<1>3. F[A] = G[A]
  BY <1>2
<1>4. \A b \in B : G[B] = g[b] + G[B \ {b}]
  BY SumAdds
<1> QED BY <1>3, <1>4

-----------------------------------------------------------------------------
(***************************************************************************)
(* Balances.                                                               *)
(***************************************************************************)

\* What each transfer of a log adds to a wallet.
Moves(p, w) == [i \in DOMAIN p |-> Credit(p[i], w) - Debit(p[i], w)]

\* Balance(w), were p the log.
BalanceWith(p, w) ==
  Opening[w] + MapThenSumSet(LAMBDA i : Credit(p[i], w) - Debit(p[i], w), DOMAIN p)

\* A balance is the opening balance and a sum of moves.
LEMMA BalanceIsSum ==
  ASSUME NEW p \in Seq([req : Requests, credit : Int]), NEW w
  PROVE  \E F \in [SUBSET (DOMAIN p) -> Int] :
           /\ Summing(F, Moves(p, w), DOMAIN p)
           /\ BalanceWith(p, w) = Opening[w] + F[DOMAIN p]
           /\ Moves(p, w) \in [DOMAIN p -> Int] /\ IsFiniteSet(DOMAIN p)
<1> DEFINE D == DOMAIN p
           Law(F) == F = [s \in SUBSET D |->
                       IF s = {} THEN 0
                       ELSE (Credit(p[Pick(s)], w) - Debit(p[Pick(s)], w)) + F[s \ {Pick(s)}]]
           C == CHOOSE F : Law(F)
<1>1. BalanceWith(p, w) = Opening[w] + C[D]
  BY DEF BalanceWith, MapThenSumSet, MapThenFoldSet, Pick
<1>2. IsFiniteSet(D)
  <2>1. D = 1..Len(p) /\ Len(p) \in Nat
    OBVIOUS
  <2> QED BY <2>1, FS_Interval
<1>3. Moves(p, w) \in [D -> Int]
  <2>1. ASSUME NEW i \in D PROVE Credit(p[i], w) \in Int /\ Debit(p[i], w) \in Int
    <3>1. p[i] \in [req : Requests, credit : Int]
      <4> DEFINE S == [req : Requests, credit : Int]
      <4>1. p \in Seq(S) /\ i \in DOMAIN p
        OBVIOUS
      <4> HIDE DEF S
      <4>2. p[i] \in S
        BY <4>1
      <4> QED BY <4>2 DEF S
    <3>2. p[i].req \in Requests /\ p[i].credit \in Int
      BY <3>1
    <3>3. Body[p[i].req].amount \in Int
      BY <3>2, ConstantsOK
    <3> QED BY <3>2, <3>3 DEF Credit, Debit
  <2> QED BY <2>1 DEF Moves
<1>4. \A F : Law(F) <=> Summing(F, Moves(p, w), D)
  <2> TAKE F
  <2>1. \A s \in SUBSET D : s # {} => Moves(p, w)[Pick(s)] = Credit(p[Pick(s)], w) - Debit(p[Pick(s)], w)
    BY Picked DEF Moves
  <2>2. [s \in SUBSET D |-> IF s = {} THEN 0 ELSE Moves(p, w)[Pick(s)] + F[s \ {Pick(s)}]] =
        [s \in SUBSET D |-> IF s = {} THEN 0
                            ELSE (Credit(p[Pick(s)], w) - Debit(p[Pick(s)], w)) + F[s \ {Pick(s)}]]
    BY <2>1
  <2> QED BY <2>2 DEF Summing
<1>5. PICK G \in [SUBSET D -> Int] : Summing(G, Moves(p, w), D)
  BY <1>2, <1>3, SumExists
<1> HIDE DEF D
<1>6. Law(C)
  <2>1. \E F : Law(F)
    BY <1>4, <1>5
  <2> HIDE DEF Law
  <2> QED BY <2>1
<1> HIDE DEF Law, C
<1>7. Summing(C, Moves(p, w), D)
  BY <1>4, <1>6
<1>8. C[D] = G[D]
  <2>1. \A s \in SUBSET D : C[s] = G[s]
    BY <1>2, <1>5, <1>7, SumUnique
  <2> QED BY <2>1
<1> QED BY <1>1, <1>2, <1>3, <1>5, <1>8 DEF D

\* A booked transfer changes the balances of its two wallets by what it moves.
LEMMA BookMoves ==
  ASSUME Shape, NEW r \in Requests, Book(r), Body[r].to \in Wallets, NEW w \in Wallets
  PROVE  /\ Balance(w) \in Int /\ Balance(w)' \in Int
         /\ Balance(w)' = Balance(w) + ((IF Body[r].to = w THEN CreditAmount(r) ELSE 0)
                                         - (IF Body[r].from = w THEN Body[r].amount ELSE 0))
<1> DEFINE n == Len(posted)
           e == [req |-> r, credit |-> CreditAmount(r)]
           S == [req : Requests, credit : Int]
<1>1. /\ n \in Nat
      /\ DOMAIN posted = 1..n /\ DOMAIN posted' = 1..(n + 1)
      /\ \A i \in DOMAIN posted : posted'[i] = posted[i]
      /\ posted'[n + 1] = e /\ posted \in Seq(S) /\ posted' \in Seq(S)
  <2>1. posted' = Append(posted, e) /\ e \in S /\ posted \in Seq(S)
    BY BodyShape DEF Book, Publish, Shape, TypeOK
  <2> HIDE DEF e, S
  <2> QED BY <2>1
<1>2. 1..(n + 1) = (1..n) \cup {n + 1} /\ (1..(n + 1)) \ {n + 1} = 1..n
  BY <1>1
<1>3. e.req = r /\ e.credit = CreditAmount(r)
  OBVIOUS
<1>4. Opening[w] \in Int
  BY ConstantsOK
<1> HIDE DEF n, e
<1>4a. \E F \in [SUBSET (DOMAIN posted) -> Int] :
         /\ Summing(F, Moves(posted, w), DOMAIN posted)
         /\ BalanceWith(posted, w) = Opening[w] + F[DOMAIN posted]
         /\ Moves(posted, w) \in [DOMAIN posted -> Int]
  BY <1>1, BalanceIsSum DEF S
<1>4b. \E F \in [SUBSET (DOMAIN posted') -> Int] :
         /\ Summing(F, Moves(posted', w), DOMAIN posted')
         /\ BalanceWith(posted', w) = Opening[w] + F[DOMAIN posted']
         /\ Moves(posted', w) \in [DOMAIN posted' -> Int]
  BY <1>1, BalanceIsSum DEF S
<1>5. PICK F : /\ F \in [SUBSET (1..n) -> Int]
               /\ Summing(F, Moves(posted, w), 1..n)
               /\ BalanceWith(posted, w) = Opening[w] + F[1..n]
               /\ Moves(posted, w) \in [1..n -> Int]
  BY <1>1, <1>4a, Zenon
<1>6. PICK G : /\ G \in [SUBSET (1..(n + 1)) -> Int]
               /\ Summing(G, Moves(posted', w), 1..(n + 1))
               /\ BalanceWith(posted', w) = Opening[w] + G[1..(n + 1)]
               /\ Moves(posted', w) \in [1..(n + 1) -> Int]
  BY <1>1, <1>4b, Zenon
<1>7. \A i \in 1..n : Moves(posted, w)[i] = Moves(posted', w)[i]
  BY <1>1, <1>2 DEF Moves
<1>8. PICK f, g : f = Moves(posted, w) /\ g = Moves(posted', w)
  OBVIOUS
<1>9. G[1..(n + 1)] = g[n + 1] + F[1..n]
  <2>1. IsFiniteSet(1..n) /\ IsFiniteSet(1..(n + 1))
    <3>1. 1 \in Int /\ n \in Int /\ n + 1 \in Int
      BY <1>1
    <3> QED BY <3>1, FS_Interval
  <2>2. PICK A, B, b : A = 1..n /\ B = 1..(n + 1) /\ b = n + 1
    OBVIOUS
  <2>3. Sums(F, f, A) /\ Sums(G, g, B)
    BY <1>5, <1>6, <1>8, <2>1, <2>2, Zenon DEF Sums
  <2>4. A \subseteq B /\ b \in B /\ A = B \ {b}
    BY <1>1, <1>2, <2>2
  <2>5. \A i \in A : f[i] = g[i]
    BY <1>7, <1>8, <2>2
  <2>6. \A x \in B : A = B \ {x} => G[B] = g[x] + F[A]
    BY <2>3, <2>4, <2>5, SumExtends
  <2> QED BY <2>2, <2>4, <2>6
<1>10. Moves(posted', w)[n + 1] = Credit(e, w) - Debit(e, w)
  BY <1>1, <1>2 DEF Moves
<1>11. Credit(e, w) = (IF Body[r].to = w THEN CreditAmount(r) ELSE 0)
       /\ Debit(e, w) = (IF Body[r].from = w THEN Body[r].amount ELSE 0)
  BY <1>3 DEF Credit, Debit
<1>12. Balance(w) = BalanceWith(posted, w) /\ Balance(w)' = BalanceWith(posted', w)
  BY DEF Balance, BalanceWith, MapThenSumSet, MapThenFoldSet, Credit, Debit
<1>13. CreditAmount(r) \in Int /\ Body[r].amount \in Int
  BY BodyShape, ConstantsOK
<1>14. F[1..n] \in Int /\ G[1..(n + 1)] \in Int
  BY <1>2, <1>5, <1>6
<1>15. Balance(w)' = Opening[w] + ((Credit(e, w) - Debit(e, w)) + F[1..n])
  BY <1>6, <1>8, <1>9, <1>10, <1>12
<1>16. Balance(w) = Opening[w] + F[1..n]
  BY <1>5, <1>12
<1>17. PICK c \in Int, d \in Int :
         /\ c = Credit(e, w) /\ c = (IF Body[r].to = w THEN CreditAmount(r) ELSE 0)
         /\ d = Debit(e, w) /\ d = (IF Body[r].from = w THEN Body[r].amount ELSE 0)
  <2>1. (IF Body[r].to = w THEN CreditAmount(r) ELSE 0) \in Int
    BY <1>13
  <2>2. (IF Body[r].from = w THEN Body[r].amount ELSE 0) \in Int
    BY <1>13
  <2> QED BY <1>11, <2>1, <2>2, Zenon
<1>18. Balance(w)' = Balance(w) + (c - d) /\ Balance(w) \in Int /\ Balance(w)' \in Int
  <2>1. PICK o \in Int, m \in Int : o = Opening[w] /\ m = F[1..n]
    BY <1>4, <1>14
  <2>2. Balance(w)' = o + ((c - d) + m) /\ Balance(w) = o + m
    BY <1>15, <1>16, <1>17, <2>1
  <2> QED BY <2>2
<1> QED BY <1>17, <1>18

\* Where nothing is booked, balances stay.
LEMMA BalanceKept ==
  ASSUME UNCHANGED posted, NEW w
  PROVE  Balance(w)' = Balance(w)
  BY DEF Balance, MapThenSumSet, MapThenFoldSet, Credit, Debit

\* Balances begin with the opening ones.
LEMMA BalanceInit ==
  ASSUME Init, NEW w \in Wallets
  PROVE  Balance(w) = Opening[w]
<1>1. posted = <<>> /\ DOMAIN posted = {} /\ posted \in Seq([req : Requests, credit : Int])
  BY DEF Init
<1>2. PICK F \in [SUBSET (DOMAIN posted) -> Int] :
        Summing(F, Moves(posted, w), DOMAIN posted) /\ BalanceWith(posted, w) = Opening[w] + F[DOMAIN posted]
  BY <1>1, BalanceIsSum, ZenonT(60)
<1>3. F[{}] = 0
  BY <1>1, <1>2 DEF Summing
<1>4. Balance(w) = BalanceWith(posted, w)
  BY DEF Balance, BalanceWith
<1> QED BY <1>1, <1>2, <1>3, <1>4, ConstantsOK

-----------------------------------------------------------------------------
(***************************************************************************)
(* What a step does to the jobs and to the ledger.                         *)
(***************************************************************************)

\* Steps at which a transaction has found its funds sufficient.
Validated == {"readFrom", "readTo", "insert", "inner", "bumpFrom", "bumpTo", "commit"}

\* What a step by or for job r does to the jobs, to what they have seen and to the
\* ledger: only Validate lets a job in, with the funds and the version it then sees,
\* only Take adds to the running jobs, and only a commit books.
Track(r) ==
  /\ \A q \in Requests \ {r} : job'[q] = job[q] /\ seen'[q] = seen[q]
  /\ job'[r] \in Validated =>
       \/ job[r] \in Validated /\ seen'[r].at = seen[r].at
       \/ Acceptable(r) /\ seen'[r].at = version[Body[r].from]
  /\ job'[r] \in Running => job[r] \in Running \/ Take(r)
  /\ \/ UNCHANGED <<posted, version>>
     \/ /\ Book(r) /\ Body[r].to \in Wallets
        /\ job[r] = "commit" /\ job'[r] \notin Validated

LEMMA ValidatedRuns == Validated \subseteq Running /\ "commit" \in Validated
  BY DEF Validated, Running, Claimed

\* An execution that goes on or ends, with nothing booked.
LEMMA TrackOn ==
  ASSUME Shape, NEW r \in Requests, NEW s, job' = [job EXCEPT ![r] = s],
         UNCHANGED <<posted, version>>,
         \A q \in Requests \ {r} : seen'[q] = seen[q],
         s \in Running => job[r] \in Running \/ Take(r),
         s \in Validated => job[r] \in Validated /\ seen'[r].at = seen[r].at
  PROVE  Track(r)
  BY DEF Shape, TypeOK, Track

\* An execution that ends for now.
LEMMA TrackEnd ==
  ASSUME Shape, NEW r \in Requests, NEW s \in {"waiting", "failed", "finished"},
         job' = [job EXCEPT ![r] = s], Release(r) \/ UNCHANGED seen, UNCHANGED <<posted, version>>
  PROVE  Track(r)
<1>1. s \notin Running /\ s \notin Validated
  BY DEF Running, Claimed, Mailing, Validated
<1>2. \A q \in Requests \ {r} : seen'[q] = seen[q]
  BY DEF Release, Shape, TypeOK
<1> QED BY <1>1, <1>2, TrackOn

\* process() throws.
LEMMA TrackThrow ==
  ASSUME Shape, NEW r \in Requests, Throw(r) PROVE Track(r)
<1>1. PICK s \in {"waiting", "failed", "finished"} : job' = [job EXCEPT ![r] = s]
  BY DEF Throw, FailAttempt
<1> QED BY <1>1, TrackEnd DEF Throw

\* COMMIT, whether the worker hears of it or not.
LEMMA TrackBook ==
  ASSUME Shape, NEW r \in Requests, NEW s \in {"notify", "waiting", "failed"},
         job[r] = "commit", job' = [job EXCEPT ![r] = s], Book(r)
  PROVE  Track(r)
<1>1. s \notin Validated /\ job[r] \in Running /\ Body[r].to \in Wallets
  BY DEF Validated, Running, Claimed, Shape, QueueOK, Writing
<1>2. \A q \in Requests \ {r} : seen'[q] = seen[q] /\ job'[q] = job[q]
  BY DEF Book, Release, Shape, TypeOK
<1>3. job'[r] = s
  BY DEF Shape, TypeOK
<1> QED BY <1>1, <1>2, <1>3 DEF Track

\* Every step of a worker is one of these.
LEMMA WorkTracks ==
  ASSUME Shape, NEW r \in Requests, Work(r) PROVE Track(r)
<1>t. seen \in [Requests -> [at : Nat, from : Nat, to : Nat]]
      /\ job \in [Requests -> JobState]
  BY DEF Shape, TypeOK
<1>r. /\ {"claim", "miss", "check", "recheck", "validate", "readFrom", "readTo", "insert", "inner",
          "bumpFrom", "bumpTo", "settle", "reconcile", "permMark", "permMail", "notify"} \subseteq Running
      /\ "claim" \notin Validated /\ "miss" \notin Validated /\ "check" \notin Validated
      /\ "settle" \notin Validated /\ "validate" \notin Validated /\ "notify" \notin Validated
      /\ "permMail" \notin Validated /\ "permMark" \notin Validated /\ "reconcile" \notin Validated
      /\ "finished" \notin Validated /\ "recheck" \notin Validated
  BY DEF Running, Claimed, Mailing, Validated
<1>v. Validated = {"readFrom", "readTo", "insert", "inner", "bumpFrom", "bumpTo", "commit"}
  BY DEF Validated
<1>1. CASE Take(r)
  BY <1>1, <1>r, TrackOn DEF Take
<1>2. CASE Claim(r) \/ CheckExisting(r) \/ PermMark(r) \/ Reconcile(r)
  BY <1>2, <1>r, TrackOn DEF Claim, CheckExisting, PermMark, Reconcile
<1>3. CASE PermMail(r) \/ Notify(r)
  BY <1>3, <1>r, TrackOn DEF PermMail, Notify
<1>4. CASE ReadMiss(r)
  BY <1>4, <1>r, TrackOn, TrackThrow DEF ReadMiss
<1>5. CASE Settle(r) \/ InnerReconcile(r)
  <2>1. \A q \in Requests \ {r} : seen'[q] = seen[q]
    BY <1>5, <1>t DEF Settle, InnerReconcile, Release
  <2> QED BY <1>5, <2>1, <1>r, TrackOn DEF Settle, InnerReconcile
<1>6. CASE Validate(r)
  <2>1. CASE Acceptable(r)
    <3>1. \A q \in Requests \ {r} : seen'[q] = seen[q] /\ job'[q] = job[q]
      BY <1>6, <2>1, <1>t DEF Validate
    <3>2. seen'[r].at = version[Body[r].from]
      BY <1>6, <2>1, <1>t DEF Validate
    <3> QED BY <1>6, <2>1, <3>1, <3>2, <1>r DEF Validate, Track
  <2>2. CASE ~Acceptable(r)
    <3>1. \A q \in Requests \ {r} : seen'[q] = seen[q]
      BY <1>6, <2>2, <1>t DEF Validate, Reject, Release
    <3> QED BY <1>6, <2>2, <3>1, <1>r, TrackOn DEF Validate, Reject
  <2> QED BY <2>1, <2>2
<1>7. CASE ReadFrom(r)
  <2>1. (\A q \in Requests \ {r} : seen'[q] = seen[q]) /\ seen'[r].at = seen[r].at
    BY <1>7, <1>t DEF ReadFrom
  <2> QED BY <1>7, <2>1, <1>r, <1>v, TrackOn DEF ReadFrom
<1>8. CASE ReadTo(r)
  <2>1. CASE Body[r].to \in Wallets
    <3>1. (\A q \in Requests \ {r} : seen'[q] = seen[q]) /\ seen'[r].at = seen[r].at
      BY <1>8, <2>1, <1>t DEF ReadTo
    <3> QED BY <1>8, <2>1, <3>1, <1>r, <1>v, TrackOn DEF ReadTo
  <2>2. CASE Body[r].to \notin Wallets
    BY <1>8, <2>2, TrackThrow DEF ReadTo
  <2> QED BY <2>1, <2>2
<1>9. CASE Insert(r) \/ BumpFrom(r)
  BY <1>9, <1>r, <1>v, TrackOn DEF Insert, BumpFrom
<1>10. CASE BumpTo(r)
  <2>1. CASE walletLock[Body[r].from] = r /\ Matches(r, Body[r].to, seen[r].to)
    BY <1>10, <2>1, <1>r, <1>v, TrackOn DEF BumpTo
  <2>2. CASE Conflict(r) /\ MayRepeat(r)
    <3>1. \A q \in Requests \ {r} : seen'[q] = seen[q]
      BY <2>2, <1>t DEF Conflict, Release
    <3> QED BY <1>10, <2>2, <3>1, <1>r, TrackOn DEF BumpTo, Conflict
  <2>3. CASE Throw(r)
    BY <2>3, TrackThrow
  <2> QED BY <1>10, <2>1, <2>2, <2>3 DEF BumpTo, Conflict
<1>11. CASE Commit(r)
  BY <1>11, TrackBook DEF Commit
<1>12. CASE DeadlockAbort(r)
  BY <1>12, TrackThrow DEF DeadlockAbort
<1> QED BY <1>1, <1>2, <1>3, <1>4, <1>5, <1>6, <1>7, <1>8, <1>9, <1>10, <1>11, <1>12 DEF Work

\* Every step of the system is one of these, or leaves jobs and ledger alone.
LEMMA StepTracks ==
  ASSUME Shape, [Next]_vars
  PROVE  \/ UNCHANGED <<job, seen, posted, version>>
         \/ \E r \in Requests : Track(r)
<1>1. ASSUME NEW r \in Requests, Api(r)
      PROVE  Track(r) \/ UNCHANGED <<job, seen, posted, version>>
  BY <1>1, TrackEnd DEF Api, CheckFunds, LookupKey, CreateRecord, AddJob
<1>2. ASSUME NEW r \in Requests, Fault(r)
      PROVE  Track(r) \/ UNCHANGED <<job, seen, posted, version>>
  <2>1. CASE ApiCrash(r)
    BY <2>1 DEF ApiCrash
  <2>2. CASE DbError(r) \/ MailError(r)
    BY <2>2, TrackThrow DEF DbError, MailError
  <2>3. CASE CommitUnknown(r)
    <3>1. PICK s \in {"notify", "waiting", "failed"} : job' = [job EXCEPT ![r] = s]
      BY <2>3 DEF CommitUnknown, FailAttempt
    <3> QED BY <2>3, <3>1, TrackBook DEF CommitUnknown
  <2>4. CASE Crash(r)
    <3>1. PICK s \in {"waiting", "failed", "finished"} : job' = [job EXCEPT ![r] = s]
      BY <2>4 DEF Crash
    <3> QED BY <2>4, <3>1, TrackEnd DEF Crash
  <2> QED BY <1>2, <2>1, <2>2, <2>3, <2>4 DEF Fault
<1>3. ASSUME NEW h \in handlers, Listen(h) \/ HandlerLost(h)
      PROVE  UNCHANGED <<job, seen, posted, version>>
  BY <1>3 DEF Listen, HandlerMail, HandlerMark, HandlerLost
<1>4. CASE UNCHANGED vars
  BY <1>4 DEF vars
<1> QED BY <1>1, <1>2, <1>3, <1>4, WorkTracks DEF Next, Quiescent

-----------------------------------------------------------------------------
(***************************************************************************)
(* Funds.                                                                  *)
(***************************************************************************)

\* A job past its check of the funds asks for a positive amount, and as long as the
\* paying wallet is at the version that the check saw its balance covers the amount.
Covered ==
  \A q \in Requests : job[q] \in Validated =>
    /\ Body[q].amount > 0
    /\ seen[q].at <= version[Body[q].from]
    /\ seen[q].at = version[Body[q].from] => Balance(Body[q].from) >= Body[q].amount

\* A commit never lowers a version, and it leaves the balance of every wallet whose
\* version it leaves.
LEMMA BookTouches ==
  ASSUME Shape, NEW r \in Requests, Book(r), Body[r].to \in Wallets, NEW w \in Wallets
  PROVE  /\ version[w] \in Nat /\ version[w] <= version'[w]
         /\ version'[w] = version[w] => Balance(w)' = Balance(w)
<1>1. /\ version[w] \in Nat
      /\ version'[w] = IF w \in {Body[r].from, Body[r].to} THEN version[w] + 1 ELSE version[w]
  BY DEF Shape, TypeOK, Book, Touches
<1>2. CASE w \in {Body[r].from, Body[r].to}
  BY <1>1, <1>2
<1>3. CASE w \notin {Body[r].from, Body[r].to}
  <2>1. /\ Balance(w) \in Int
        /\ Balance(w)' = Balance(w) + ((IF Body[r].to = w THEN CreditAmount(r) ELSE 0)
                                         - (IF Body[r].from = w THEN Body[r].amount ELSE 0))
    BY BookMoves
  <2>2. PICK b \in Int : b = Balance(w)
    BY <2>1
  <2>3. Balance(w)' = b + (0 - 0)
    BY <1>3, <2>1, <2>2, Zenon
  <2> QED BY <1>1, <1>3, <2>2, <2>3
<1> QED BY <1>2, <1>3

LEMMA CoveredInit == Init => Covered
  BY DEF Init, Covered, Validated

\* A commit that lowers a balance raises its version, so that whoever checked before
\* it is no longer at the version.
LEMMA CoveredStep ==
  ASSUME Shape, Covered, [Next]_vars PROVE Covered'
<1> SUFFICES ASSUME NEW q \in Requests, job'[q] \in Validated
             PROVE  /\ Body[q].amount > 0
                    /\ seen'[q].at <= version'[Body[q].from]
                    /\ seen'[q].at = version'[Body[q].from] =>
                         Balance(Body[q].from)' >= Body[q].amount
  BY DEF Covered
<1> DEFINE w == Body[q].from
<1>0. w \in Wallets /\ version[w] \in Nat /\ seen[q].at \in Nat /\ Body[q].amount \in Int
  BY BodyShape, ConstantsOK DEF Shape, TypeOK
<1>1. ASSUME job[q] \in Validated, seen'[q].at = seen[q].at, UNCHANGED <<posted, version>>
      PROVE  /\ Body[q].amount > 0
             /\ seen'[q].at <= version'[w]
             /\ seen'[q].at = version'[w] => Balance(w)' >= Body[q].amount
  <2>1. Balance(w)' = Balance(w)
    BY <1>1, BalanceKept
  <2>2. /\ Body[q].amount > 0 /\ seen[q].at <= version[w]
        /\ seen[q].at = version[w] => Balance(w) >= Body[q].amount
    BY <1>1 DEF Covered
  <2>3. seen'[q].at = seen[q].at /\ version'[w] = version[w]
    BY <1>1
  <2> QED BY <2>1, <2>2, <2>3, Zenon
<1>2. ASSUME NEW r \in Requests, job[q] \in Validated, seen'[q].at = seen[q].at,
             Book(r), Body[r].to \in Wallets
      PROVE  /\ Body[q].amount > 0
             /\ seen'[q].at <= version'[w]
             /\ seen'[q].at = version'[w] => Balance(w)' >= Body[q].amount
  <2>1. /\ Body[q].amount > 0 /\ seen[q].at <= version[w]
        /\ seen[q].at = version[w] => Balance(w) >= Body[q].amount
    BY <1>2 DEF Covered
  <2>2. /\ version[w] <= version'[w] /\ version'[w] \in Nat
        /\ version'[w] = version[w] => Balance(w)' = Balance(w)
    <3>1. version'[w] \in Nat
      BY <1>0, <1>2, NextShape DEF Shape, TypeOK
    <3> QED BY <1>0, <1>2, <3>1, BookTouches
  <2>3. seen'[q].at <= version'[w]
    BY <1>0, <1>2, <2>1, <2>2
  <2>4. seen'[q].at = version'[w] => seen[q].at = version[w] /\ version'[w] = version[w]
    BY <1>0, <1>2, <2>1, <2>2
  <2> QED BY <2>1, <2>2, <2>3, <2>4, Zenon
<1>3. ASSUME Acceptable(q), seen'[q].at = version[w], UNCHANGED <<posted, version>>
      PROVE  /\ Body[q].amount > 0
             /\ seen'[q].at <= version'[w]
             /\ seen'[q].at = version'[w] => Balance(w)' >= Body[q].amount
  <2>1. Balance(w)' = Balance(w) /\ Body[q].amount > 0 /\ Balance(w) >= Body[q].amount
    BY <1>3, BalanceKept DEF Acceptable
  <2>2. seen'[q].at <= version'[w]
    BY <1>0, <1>3
  <2> QED BY <2>1, <2>2, Zenon
<1>4. CASE UNCHANGED <<job, seen, posted, version>>
  BY <1>1, <1>4
<1>5. ASSUME NEW r \in Requests, Track(r)
      PROVE  \/ job[q] \in Validated /\ seen'[q].at = seen[q].at /\ UNCHANGED <<posted, version>>
             \/ job[q] \in Validated /\ seen'[q].at = seen[q].at /\ Book(r) /\ Body[r].to \in Wallets
             \/ Acceptable(q) /\ seen'[q].at = version[w] /\ UNCHANGED <<posted, version>>
  <2>1. CASE q = r
    BY <1>5, <2>1 DEF Track
  <2>2. CASE q # r
    BY <1>5, <2>2 DEF Track
  <2> QED BY <2>1, <2>2
<1>6. ASSUME NEW r \in Requests, Track(r)
      PROVE  /\ Body[q].amount > 0
             /\ seen'[q].at <= version'[w]
             /\ seen'[q].at = version'[w] => Balance(w)' >= Body[q].amount
  <2>1. CASE job[q] \in Validated /\ seen'[q].at = seen[q].at /\ UNCHANGED <<posted, version>>
    BY <1>1, <2>1
  <2>2. CASE job[q] \in Validated /\ seen'[q].at = seen[q].at /\ Book(r) /\ Body[r].to \in Wallets
    BY <1>2, <2>2
  <2>3. CASE Acceptable(q) /\ seen'[q].at = version[w] /\ UNCHANGED <<posted, version>>
    BY <1>3, <2>3
  <2> QED BY <1>5, <1>6, <2>1, <2>2, <2>3, Zenon
<1> QED BY <1>4, <1>6, StepTracks

LEMMA CoverInvariant == Spec => [](WInv /\ Covered)
<1>1. WInv /\ Covered /\ [Next]_vars => Covered'
  BY CoveredStep DEF WInv, KInv
<1> QED BY <1>1, CoveredInit, WalletInvariant, PTL DEF Spec

\* A transfer that read the wallet's version no later than its balance commits
\* against a balance that still covers it, for any number of workers and transfers.
THEOREM FreshIsCovered == Spec => []NoOverdraftIfFresh
<1>1. WInv /\ Covered => NoOverdraftIfFresh
  <2> SUFFICES ASSUME WInv, Covered, NEW r \in Requests, job[r] = "commit", seen[r].at = seen[r].from
               PROVE  Balance(Body[r].from) >= Body[r].amount
    BY DEF NoOverdraftIfFresh
  <2>1. version[Body[r].from] = seen[r].from
    BY DEF WInv, WalletOK, CommitSerialised
  <2>2. job[r] \in Validated
    BY DEF Validated
  <2> QED BY <2>1, <2>2 DEF Covered
<1> QED BY <1>1, CoverInvariant, PTL

\* Nobody works beside a running job, and a job past its check of the funds still
\* has them.
Alone ==
  /\ \A p, q \in Requests : job[p] \in Running /\ job[q] \in Running => p = q
  /\ \A q \in Requests : job[q] \in Validated => Balance(Body[q].from) >= Body[q].amount

\* A commit takes its amount from one wallet and adds something to another.
LEMMA BookPays ==
  ASSUME WInv, Covered, NEW r \in Requests, job[r] = "commit", Book(r), NEW w \in Wallets
  PROVE  /\ Balance(w) \in Int /\ Balance(w)' \in Int /\ Body[r].amount \in Int
         /\ w # Body[r].from => Balance(w)' >= Balance(w)
         /\ w = Body[r].from => Balance(w)' = Balance(w) - Body[r].amount
<1>0. Shape
  BY DEF WInv, KInv
<1>1. Body[r].to \in Wallets /\ Body[r].from # Body[r].to
  BY DEF WInv, WalletOK, WalletDiscipline, KInv, Shape, QueueOK, Writing
<1>2. /\ Balance(w) \in Int /\ Balance(w)' \in Int
      /\ Balance(w)' = Balance(w) + ((IF Body[r].to = w THEN CreditAmount(r) ELSE 0)
                                       - (IF Body[r].from = w THEN Body[r].amount ELSE 0))
  BY <1>0, <1>1, BookMoves
<1>3. Body[r].amount \in Int /\ Body[r].amount > 0
  BY BodyShape, ConstantsOK DEF Covered, Validated
<1>4. CreditAmount(r) \in Int /\ CreditAmount(r) >= 0
  <2>1. PICK a \in Nat, b \in Nat : a = Body[r].amount /\ b = Rate[<<Body[r].from, Body[r].to>>]
    BY <1>1, <1>3, BodyShape, ConstantsOK
  <2>2. \A x, y \in Nat : x * y \in Int /\ x * y >= 0
    OBVIOUS
  <2> QED BY <2>1, <2>2 DEF CreditAmount
<1>5. PICK b \in Int, c \in Int, d \in Int :
        b = Balance(w) /\ c = CreditAmount(r) /\ d = Body[r].amount
  BY <1>2, <1>3, <1>4
<1>6. c >= 0 /\ Balance(w)' = b + ((IF Body[r].to = w THEN c ELSE 0) - (IF Body[r].from = w THEN d ELSE 0))
  BY <1>2, <1>4, <1>5
<1>7. CASE w = Body[r].from
  BY <1>1, <1>2, <1>3, <1>5, <1>6, <1>7
<1>8. CASE w # Body[r].from /\ w = Body[r].to
  BY <1>1, <1>2, <1>3, <1>5, <1>6, <1>8
<1>9. CASE w # Body[r].from /\ w # Body[r].to
  BY <1>1, <1>2, <1>3, <1>5, <1>6, <1>9
<1> QED BY <1>7, <1>8, <1>9

\* Take finds the one place free only when nothing runs.
LEMMA AloneStep ==
  ASSUME Concurrency = 1, WInv, Covered, Alone, [Next]_vars PROVE Alone'
<1>0. Shape /\ Shape'
  BY NextShape DEF WInv, KInv
<1>1. CASE UNCHANGED <<job, seen, posted, version>>
  <2>1. \A w \in Wallets : Balance(w)' = Balance(w)
    BY <1>1, BalanceKept
  <2>2. \A q \in Requests : Body[q].from \in Wallets
    BY BodyShape
  <2>3. \A p, q \in Requests : job'[p] \in Running /\ job'[q] \in Running => p = q
    BY <1>1 DEF Alone
  <2>4. \A q \in Requests : job'[q] \in Validated => Balance(Body[q].from)' >= Body[q].amount
    BY <1>1, <2>1, <2>2, Zenon DEF Alone
  <2> QED BY <2>3, <2>4 DEF Alone
<1>2. ASSUME NEW r \in Requests, Track(r) PROVE Alone'
  <2> DEFINE Busy == {q \in Requests : job[q] \in Running}
  <2>1. ASSUME Take(r), NEW p \in Requests, job[p] \in Running PROVE FALSE
    <3>1. Busy = {p}
      BY <2>1 DEF Alone
    <3>2. Cardinality(Busy) = 1
      BY <3>1, FS_Singleton
    <3>3. Cardinality(Busy) < 1
      BY <2>1 DEF Take
    <3> QED BY <3>2, <3>3
  <2>2. ASSUME NEW p \in Requests, NEW q \in Requests, job'[p] \in Running, job'[q] \in Running
        PROVE  p = q
    <3>1. \A x \in Requests : job'[x] \in Running => job[x] \in Running \/ (x = r /\ Take(r))
      BY <1>2 DEF Track
    <3> QED BY <2>1, <2>2, <3>1 DEF Alone
  <2>3. ASSUME NEW q \in Requests, job'[q] \in Validated
        PROVE  Balance(Body[q].from)' >= Body[q].amount
    <3>0. Body[q].from \in Wallets
      BY BodyShape
    <3>1. CASE UNCHANGED <<posted, version>>
      <4>1. Balance(Body[q].from)' = Balance(Body[q].from)
        BY <3>1, BalanceKept
      <4>2. job[q] \in Validated \/ Acceptable(q)
        BY <1>2, <2>3 DEF Track
      <4>3. Balance(Body[q].from) >= Body[q].amount
        BY <4>2 DEF Alone, Acceptable
      <4> QED BY <4>1, <4>3, Zenon
    <3>2. CASE job[r] = "commit" /\ job'[r] \notin Validated
      <4>1. q # r
        BY <2>3, <3>2
      <4>2. job[q] \in Running /\ job[r] \in Running
        BY <1>2, <2>3, <3>2, <4>1, ValidatedRuns DEF Track
      <4> QED BY <4>1, <4>2 DEF Alone
    <3> QED BY <1>2, <3>1, <3>2 DEF Track
  <2> QED BY <2>2, <2>3 DEF Alone
<1> QED BY <1>0, <1>1, <1>2, StepTracks

\* The one job that runs commits what it has checked.
LEMMA SolventStep ==
  ASSUME WInv, Covered, Alone, NoOverdraft, [Next]_vars PROVE NoOverdraft'
<1> SUFFICES ASSUME NEW w \in Wallets PROVE Balance(w)' >= 0
  BY DEF NoOverdraft
<1>1. Balance(w) >= 0
  BY DEF NoOverdraft
<1>2. CASE UNCHANGED posted
  <2>1. Balance(w)' = Balance(w)
    BY <1>2, BalanceKept
  <2> QED BY <1>1, <2>1, Zenon
<1>3. ASSUME NEW r \in Requests, job[r] = "commit", Book(r) PROVE Balance(w)' >= 0
  <2>1. /\ Balance(w) \in Int /\ Balance(w)' \in Int /\ Body[r].amount \in Int
        /\ w # Body[r].from => Balance(w)' >= Balance(w)
        /\ w = Body[r].from => Balance(w)' = Balance(w) - Body[r].amount
    BY <1>3, BookPays
  <2>2. w = Body[r].from => Balance(w) >= Body[r].amount
    BY <1>3, ValidatedRuns DEF Alone
  <2>3. PICK b \in Int, c \in Int, d \in Int :
          b = Balance(w) /\ c = Balance(w)' /\ d = Body[r].amount
    BY <2>1
  <2>4. /\ b >= 0
        /\ w # Body[r].from => c >= b
        /\ w = Body[r].from => c = b - d /\ b >= d
    BY <1>1, <2>1, <2>2, <2>3
  <2>5. c >= 0
    BY <2>4
  <2> QED BY <2>3, <2>5
<1> QED BY <1>2, <1>3, StepTracks DEF Track, WInv, KInv

\* With one worker that runs one job at a time, from wallets that are not overdrawn,
\* no transfer overdraws a wallet, whatever fails or is retried on the way.
THEOREM OneWorkerNoOverdraft ==
  ASSUME Concurrency = 1, \A w \in Wallets : Opening[w] >= 0
  PROVE  Spec => []NoOverdraft
<1>1. Init => Alone /\ NoOverdraft
  <2> SUFFICES ASSUME Init PROVE Alone /\ NoOverdraft
    OBVIOUS
  <2>1. Alone
    BY DEF Alone, Init, Running, Claimed, Mailing, Validated
  <2>2. NoOverdraft
    <3> SUFFICES ASSUME NEW w \in Wallets PROVE Balance(w) >= 0
      BY DEF NoOverdraft
    <3>1. Balance(w) = Opening[w] /\ Opening[w] >= 0
      BY BalanceInit
    <3> QED BY <3>1, Zenon
  <2> QED BY <2>1, <2>2
<1>2. WInv /\ Covered /\ Alone /\ NoOverdraft /\ [Next]_vars => (Alone /\ NoOverdraft)'
  BY AloneStep, SolventStep
<1> QED BY <1>1, <1>2, CoverInvariant, PTL DEF Spec
=============================================================================
