--------------------------- MODULE TransferProofs ---------------------------
(***************************************************************************)
(* Theorems about Transfer, for all values of its constants.               *)
(***************************************************************************)
EXTENDS TransferProperties, TLAPS

USE DEF api, store, txn, queue, out, Goto, Mail

-----------------------------------------------------------------------------
(***************************************************************************)
(* Types.                                                                  *)
(***************************************************************************)

Shape == TypeOK /\ QueueOK

LEMMA BodyShape ==
  ASSUME NEW r \in Requests
  PROVE  /\ Key(r) \in Keys /\ Body[r].from \in Wallets /\ r # NoJob
         /\ Body[r].to \in Wallets \/ Body[r].to = NoWallet
         /\ CreditAmount(r) \in Int \/ Body[r].to \notin Wallets
<1>1. Body[r] \in [key : Keys, from : Wallets, to : Wallets \cup {NoWallet},
                   amount : Int, owns : BOOLEAN, txId : BOOLEAN]
  BY ConstantsOK
<1>2. ASSUME Body[r].to \in Wallets PROVE CreditAmount(r) \in Int
  <2>1. Rate[<<Body[r].from, Body[r].to>>] \in Nat
    BY <1>1, <1>2, ConstantsOK
  <2> QED BY <1>1, <2>1 DEF CreditAmount
<1> QED BY <1>1, <1>2, ConstantsOK DEF Key

LEMMA InitShape == Init => Shape
  BY ConstantsOK, BodyShape
  DEF Init, Shape, TypeOK, QueueOK, Writing, HttpState, KeyStatus, JobState, Running, Claimed, Mailing, Unseen

LEMMA ApiShape ==
  ASSUME Shape, NEW r \in Requests, Api(r) \/ ApiCrash(r) PROVE Shape'
<1> USE BodyShape, ConstantsOK DEF Shape, TypeOK, QueueOK, Writing, HttpState, KeyStatus, JobState, Running, Claimed, Mailing, Unseen
<1>1. CASE CheckFunds(r)   BY <1>1 DEF CheckFunds
<1>2. CASE LookupKey(r)    BY <1>2 DEF LookupKey
<1>3. CASE CreateRecord(r) BY <1>3 DEF CreateRecord
<1>4. CASE AddJob(r)       BY <1>4, ZenonT(60) DEF AddJob
<1>5. CASE ApiCrash(r)     BY <1>5 DEF ApiCrash
<1> QED BY <1>1, <1>2, <1>3, <1>4, <1>5 DEF Api

\* The executions that end: rollback, a failed attempt, a booked transfer.
LEMMA ReleaseShape ==
  ASSUME TypeOK, NEW r \in Requests, Release(r)
  PROVE  /\ keyLock' \in [Keys -> Requests \cup {NoJob}]
         /\ walletLock' \in [Wallets -> Requests \cup {NoJob}]
         /\ seen' \in [Requests -> [at : Nat, from : Nat, to : Nat]]
  BY DEF TypeOK, Release, Unseen

LEMMA FailAttemptShape ==
  ASSUME Shape, NEW r \in Requests, FailAttempt(r), job[r] \in Running
  PROVE  /\ job' \in [Requests -> JobState]
         /\ tries' \in [Requests -> 0..Attempts]
         /\ stalls' \in [Requests -> 0..(MaxStalls + 1)]
         /\ opt' \in [Requests -> 0..MaxOptimistic]
         /\ handlers' \subseteq [req : Requests, try : 0..(Attempts - 1), step : {"mail", "mark"}]
         /\ notices' \subseteq Requests \X {"completed", "failed"}
         /\ \A q \in Requests : job'[q] \in Running \cup {"none", "waiting"} =>
              tries'[q] < Attempts /\ stalls'[q] <= MaxStalls
         /\ \A q \in Requests : job'[q] = "none" <=> job[q] = "none"
         /\ \A q \in Requests : job'[q] = job[q] \/ job'[q] \in {"waiting", "failed"}
         /\ \A h \in handlers' : h \in handlers \/ h.req = r
<1> USE DEF Shape, TypeOK, QueueOK
<1>1. tries[r] < Attempts /\ stalls[r] <= MaxStalls /\ job[r] # "none"
  BY DEF Running, Claimed, Mailing
<1>2. /\ tries[r] \in Nat /\ Attempts \in Nat /\ 0 \in 0..MaxOptimistic
      /\ tries[r] \in 0..(Attempts - 1) /\ tries[r] + 1 \in 0..Attempts
  BY <1>1, ConstantsOK, SMTT(30)
<1>3. /\ job' = [job EXCEPT ![r] = IF MayRetry(r) THEN "waiting" ELSE "failed"]
      /\ tries' = [tries EXCEPT ![r] = tries[r] + 1]
      /\ opt' = [opt EXCEPT ![r] = 0]
      /\ handlers' = handlers \cup {[req |-> r, try |-> tries[r], step |-> "mail"]}
      /\ stalls' = stalls /\ notices' = notices
  BY DEF FailAttempt
<1>4. job' \in [Requests -> JobState]
  BY <1>3 DEF JobState
<1>5. /\ tries' \in [Requests -> 0..Attempts]
      /\ stalls' \in [Requests -> 0..(MaxStalls + 1)]
      /\ opt' \in [Requests -> 0..MaxOptimistic]
  BY <1>2, <1>3
<1>6. /\ handlers' \subseteq [req : Requests, try : 0..(Attempts - 1), step : {"mail", "mark"}]
      /\ notices' \subseteq Requests \X {"completed", "failed"}
      /\ \A h \in handlers' : h \in handlers \/ h.req = r
  BY <1>2, <1>3
<1>7. ASSUME NEW q \in Requests, job'[q] \in Running \cup {"none", "waiting"}
      PROVE  tries'[q] < Attempts /\ stalls'[q] <= MaxStalls
  <2>1. CASE q = r
    BY <1>1, <1>2, <1>3, <1>7, <2>1 DEF MayRetry, Running, Claimed, Mailing
  <2>2. CASE q # r
    BY <1>3, <1>7, <2>2
  <2> QED BY <2>1, <2>2
<1>8. \A q \in Requests : /\ job'[q] = "none" <=> job[q] = "none"
                          /\ job'[q] = job[q] \/ job'[q] \in {"waiting", "failed"}
  BY <1>1, <1>3
<1> QED BY <1>4, <1>5, <1>6, <1>7, <1>8

LEMMA ThrowShape ==
  ASSUME Shape, NEW r \in Requests, Throw(r), job[r] \in Running
  PROVE  Shape'
<1>1. Release(r) /\ FailAttempt(r) /\ UNCHANGED <<http, idem, posted, version>>
  BY DEF Throw
<1>2. TypeOK'
  BY <1>1, ReleaseShape, FailAttemptShape DEF Shape, TypeOK
<1>3. QueueOK'
  <2>1. job[r] # "none"
    BY DEF Running, Claimed, Mailing
  <2>2. /\ \A q \in Requests : job'[q] \in Running \cup {"none", "waiting"} =>
              tries'[q] < Attempts /\ stalls'[q] <= MaxStalls
        /\ \A q \in Requests : job'[q] = "none" <=> job[q] = "none"
        /\ \A q \in Requests : job'[q] = job[q] \/ job'[q] \in {"waiting", "failed"}
        /\ \A h \in handlers' : h \in handlers \/ h.req = r
    BY <1>1, FailAttemptShape
  <2> QED BY <1>1, <2>1, <2>2 DEF Shape, QueueOK, Writing, Key
<1> QED BY <1>2, <1>3 DEF Shape

LEMMA BookShape ==
  ASSUME Shape, NEW r \in Requests, Book(r), Body[r].to \in Wallets
  PROVE  /\ posted' \in Seq([req : Requests, credit : Int])
         /\ version' \in [Wallets -> Nat]
         /\ idem' \in [Keys -> KeyStatus]
         /\ \A k \in Keys : idem'[k] = "absent" => idem[k] = "absent"
<1> USE DEF Shape, TypeOK, Book
<1>1. [req |-> r, credit |-> CreditAmount(r)] \in [req : Requests, credit : Int]
  BY BodyShape
<1>2. posted' \in Seq([req : Requests, credit : Int])
  BY <1>1 DEF Publish
<1>3. version' \in [Wallets -> Nat]
  OBVIOUS
<1>4. /\ idem' \in [Keys -> KeyStatus]
      /\ \A k \in Keys : idem'[k] = "absent" => idem[k] = "absent"
  BY BodyShape DEF KeyStatus
<1> QED BY <1>2, <1>3, <1>4

\* An execution goes on: it changes its step and data, not the queue's counters.
LEMMA AdvanceShape ==
  ASSUME Shape, NEW r \in Requests, NEW s \in JobState \ {"none"},
         job' = [job EXCEPT ![r] = s],
         job[r] \in Running \cup {"waiting"},
         s \in Writing => Body[r].to \in Wallets,
         UNCHANGED <<http, tries, stalls, handlers>>,
         posted' \in Seq([req : Requests, credit : Int]),
         version' \in [Wallets -> Nat],
         idem' \in [Keys -> KeyStatus],
         \A k \in Keys : idem'[k] = "absent" => idem[k] = "absent",
         keyLock' \in [Keys -> Requests \cup {NoJob}],
         walletLock' \in [Wallets -> Requests \cup {NoJob}],
         seen' \in [Requests -> [at : Nat, from : Nat, to : Nat]],
         opt' \in [Requests -> 0..MaxOptimistic],
         notices' \subseteq Requests \X {"completed", "failed"}
  PROVE  Shape'
<1>1. job' \in [Requests -> JobState]
  BY DEF Shape, TypeOK
<1>2. TypeOK'
  BY <1>1 DEF Shape, TypeOK
<1>3. /\ job[r] # "none" /\ job[r] \in Running \cup {"none", "waiting"}
      /\ job'[r] = s /\ \A q \in Requests \ {r} : job'[q] = job[q]
  BY DEF Shape, TypeOK, Running, Claimed, Mailing
<1>4. QueueOK'
  <2>1. \A q \in Requests : Key(q) \in Keys
    BY BodyShape
  <2>2. \A h \in handlers : h.req \in Requests
    BY DEF Shape, TypeOK
  <2>3. http[r] \notin {"new", "lookup", "record", "add"} /\ idem[Key(r)] # "absent"
        /\ tries[r] < Attempts /\ stalls[r] <= MaxStalls
    BY <1>3 DEF Shape, QueueOK
  <2>4. ASSUME NEW q \in Requests
        PROVE /\ http'[q] \in {"new", "lookup", "record", "add"} => job'[q] = "none"
              /\ http'[q] = "add" \/ job'[q] # "none" => idem'[Key(q)] # "absent"
              /\ job'[q] \in Running \cup {"none", "waiting"} =>
                    tries'[q] < Attempts /\ stalls'[q] <= MaxStalls
              /\ job'[q] \in Writing => Body[q].to \in Wallets
    <3>1. CASE q = r
      BY <1>3, <2>1, <2>3, <3>1
    <3>2. CASE q # r
      BY <1>3, <2>1, <3>2 DEF Shape, QueueOK
    <3> QED BY <3>1, <3>2
  <2>5. \A h \in handlers' : idem'[Key(h.req)] # "absent"
    BY <2>1, <2>2 DEF Shape, QueueOK
  <2> QED BY <2>4, <2>5 DEF QueueOK, Key
<1> QED BY <1>2, <1>4 DEF Shape

LEMMA WorkShape ==
  ASSUME Shape, NEW r \in Requests, Work(r) PROVE Shape'
<1>t. /\ posted \in Seq([req : Requests, credit : Int]) /\ version \in [Wallets -> Nat]
      /\ idem \in [Keys -> KeyStatus]
      /\ keyLock \in [Keys -> Requests \cup {NoJob}]
      /\ walletLock \in [Wallets -> Requests \cup {NoJob}]
      /\ seen \in [Requests -> [at : Nat, from : Nat, to : Nat]]
      /\ opt \in [Requests -> 0..MaxOptimistic] /\ MaxOptimistic \in Nat
      /\ notices \subseteq Requests \X {"completed", "failed"}
  BY ConstantsOK DEF Shape, TypeOK
<1>b. /\ Key(r) \in Keys /\ Body[r].from \in Wallets
      /\ version[Body[r].from] \in Nat
      /\ Body[r].to \in Wallets => version[Body[r].to] \in Nat
  BY <1>t, BodyShape
<1>w. job[r] \in Writing => Body[r].to \in Wallets
  BY DEF Shape, QueueOK
<1>r. /\ {"claim", "miss", "recheck", "settle", "reconcile", "permMark", "permMail", "notify"}
         \cup Claimed \subseteq Running
      /\ Running \cup {"waiting", "finished", "failed"} \subseteq JobState \ {"none"}
  BY DEF Running, JobState, Claimed, Mailing
<1>s. \A status \in KeyStatus \ {"absent"} :
        LET f == [idem EXCEPT ![Key(r)] = status] IN
        f \in [Keys -> KeyStatus] /\ \A k \in Keys : f[k] = "absent" => idem[k] = "absent"
  BY <1>t, <1>b
<1>p. {"completed", "failed", "pending"} \subseteq KeyStatus \ {"absent"}
  BY DEF KeyStatus
<1>1. CASE Take(r)
  BY <1>1, <1>t, <1>r, AdvanceShape DEF Take, Writing
<1>2. CASE Claim(r)
  <2>1. keyLock' \in [Keys -> Requests \cup {NoJob}]
    BY <1>2, <1>t, <1>b DEF Claim
  <2> QED BY <1>2, <1>t, <1>r, <2>1, AdvanceShape DEF Claim, Writing, Claimed
<1>3. CASE ReadMiss(r)
  <2>1. job[r] \in Running
    BY <1>3, <1>r DEF ReadMiss
  <2> QED BY <1>3, <1>t, <1>r, <2>1, AdvanceShape, ThrowShape DEF ReadMiss, Writing
<1>4. CASE CheckExisting(r)
  BY <1>4, <1>t, <1>r, AdvanceShape DEF CheckExisting, Writing, Claimed
<1>5. CASE Settle(r)
  BY <1>5, <1>t, <1>r, <1>s, <1>p, AdvanceShape, ReleaseShape DEF Settle, Writing, Shape
<1>6. CASE Validate(r)
  <2>1. CASE Acceptable(r)
    <3>1. seen' \in [Requests -> [at : Nat, from : Nat, to : Nat]]
      <4>1. seen' = [seen EXCEPT ![r].at = version[Body[r].from]]
        BY <1>6, <2>1 DEF Validate
      <4>2. [seen[r] EXCEPT !.at = version[Body[r].from]] \in [at : Nat, from : Nat, to : Nat]
        BY <1>t, <1>b
      <4> QED BY <4>1, <4>2, <1>t
    <3> QED BY <1>6, <2>1, <3>1, <1>t, <1>r, AdvanceShape, ZenonT(60) DEF Validate, Writing, Claimed
  <2>2. CASE ~Acceptable(r)
    BY <1>6, <2>2, <1>t, <1>r, AdvanceShape, ReleaseShape
    DEF Validate, Reject, Writing, Claimed, Shape
  <2> QED BY <2>1, <2>2
<1>7. CASE ReadFrom(r)
  <2>1. seen' \in [Requests -> [at : Nat, from : Nat, to : Nat]]
    BY <1>7, <1>t, <1>b DEF ReadFrom
  <2> QED BY <1>7, <2>1, <1>t, <1>r, AdvanceShape DEF ReadFrom, Writing, Claimed
<1>8. CASE ReadTo(r)
  <2>1. CASE Body[r].to \in Wallets
    <3>1. seen' \in [Requests -> [at : Nat, from : Nat, to : Nat]]
      <4>1. seen' = [seen EXCEPT ![r].to = version[Body[r].to]]
        BY <1>8, <2>1 DEF ReadTo
      <4>2. [seen[r] EXCEPT !.to = version[Body[r].to]] \in [at : Nat, from : Nat, to : Nat]
        BY <1>t, <1>b, <2>1
      <4> QED BY <4>1, <4>2, <1>t
    <3> QED BY <1>8, <2>1, <3>1, <1>t, <1>r, AdvanceShape, ZenonT(60) DEF ReadTo, Claimed
  <2>2. CASE Body[r].to \notin Wallets
    BY <1>8, <2>2, <1>r, ThrowShape DEF ReadTo, Claimed
  <2> QED BY <2>1, <2>2
<1>9. CASE Insert(r)
  BY <1>9, <1>t, <1>w, <1>r, AdvanceShape DEF Insert, Writing, Claimed
<1>10. CASE InnerReconcile(r)
  BY <1>10, <1>t, <1>r, AdvanceShape, ReleaseShape DEF InnerReconcile, Writing, Claimed, Shape
<1>11. CASE BumpFrom(r)
  <2>1. walletLock' \in [Wallets -> Requests \cup {NoJob}]
    BY <1>11, <1>t, <1>b DEF BumpFrom
  <2> QED BY <1>11, <2>1, <1>t, <1>w, <1>r, AdvanceShape DEF BumpFrom, Writing, Claimed
<1>12. CASE BumpTo(r)
  <2>1. CASE walletLock[Body[r].from] = r /\ Matches(r, Body[r].to, seen[r].to)
    <3>1. walletLock' \in [Wallets -> Requests \cup {NoJob}]
      BY <1>12, <2>1, <1>t DEF BumpTo
    <3> QED BY <1>12, <2>1, <3>1, <1>t, <1>w, <1>r, AdvanceShape, ZenonT(60) DEF BumpTo, Writing, Claimed
  <2>2. CASE Conflict(r) /\ MayRepeat(r)
    <3>1. opt' \in [Requests -> 0..MaxOptimistic]
      <4>1. opt' = [opt EXCEPT ![r] = opt[r] + 1] /\ opt[r] < MaxOptimistic
        BY <2>2 DEF Conflict, MayRepeat
      <4>2. opt[r] + 1 \in 0..MaxOptimistic
        BY <4>1, <1>t
      <4> QED BY <4>1, <4>2, <1>t
    <3> QED BY <1>12, <2>2, <3>1, <1>t, <1>r, AdvanceShape, ReleaseShape
            DEF BumpTo, Conflict, Writing, Claimed, Shape
  <2>3. CASE Throw(r)
    BY <1>12, <2>3, <1>r, ThrowShape DEF BumpTo, Claimed
  <2> QED BY <1>12, <2>1, <2>2, <2>3 DEF BumpTo, Conflict
<1>13. CASE Commit(r)
  BY <1>13, <1>t, <1>w, <1>r, AdvanceShape, BookShape, ReleaseShape
  DEF Commit, Book, Writing, Claimed, Shape
<1>14. CASE Reconcile(r)
  <2>1. CASE Reconciled(r)
    BY <1>14, <2>1, <1>t, <1>r, <1>s, <1>p, AdvanceShape DEF Reconcile, Writing
  <2>2. CASE ~Reconciled(r)
    BY <1>14, <2>2, <1>t, <1>r, AdvanceShape DEF Reconcile, Writing
  <2> QED BY <2>1, <2>2
<1>15. CASE PermMark(r)
  BY <1>15, <1>t, <1>r, <1>s, <1>p, AdvanceShape DEF PermMark, Writing
<1>16. CASE PermMail(r)
  <2>1. notices' \subseteq Requests \X {"completed", "failed"}
    BY <1>16, <1>t DEF PermMail
  <2> QED BY <1>16, <2>1, <1>t, <1>r, AdvanceShape DEF PermMail, Writing
<1>17. CASE Notify(r)
  <2>1. notices' \subseteq Requests \X {"completed", "failed"}
    BY <1>17, <1>t DEF Notify
  <2> QED BY <1>17, <2>1, <1>t, <1>r, AdvanceShape DEF Notify, Writing
<1>18. CASE DeadlockAbort(r)
  BY <1>18, <1>r, ThrowShape DEF DeadlockAbort, InWaitCycle, Claimed
<1> QED BY <1>1, <1>2, <1>3, <1>4, <1>5, <1>6, <1>7, <1>8, <1>9, <1>10, <1>11, <1>12,
           <1>13, <1>14, <1>15, <1>16, <1>17, <1>18 DEF Work

LEMMA FaultShape ==
  ASSUME Shape, NEW r \in Requests, Fault(r) PROVE Shape'
<1>1. CASE ApiCrash(r)
  BY <1>1, ApiShape
<1>2. CASE DbError(r) \/ MailError(r)
  BY <1>2, ThrowShape DEF DbError, MailError, Running
<1>3. CASE CommitUnknown(r)
  <2>1. job[r] \in Running /\ job[r] # "none" /\ Body[r].to \in Wallets
    BY <1>3 DEF CommitUnknown, Running, Claimed, Shape, QueueOK, Writing
  <2>2. Book(r) /\ Release(r) /\ FailAttempt(r) /\ http' = http
    BY <1>3 DEF CommitUnknown, Book
  <2>3. TypeOK'
    BY <2>1, <2>2, BookShape, ReleaseShape, FailAttemptShape DEF Shape, TypeOK
  <2>4. \A q \in Requests : Key(q) \in Keys
    BY BodyShape
  <2>5. \A h \in handlers : h.req \in Requests
    BY DEF Shape, TypeOK
  <2>6. /\ \A k \in Keys : idem'[k] = "absent" => idem[k] = "absent"
        /\ \A q \in Requests : job'[q] = "none" <=> job[q] = "none"
        /\ \A q \in Requests : job'[q] = job[q] \/ job'[q] \in {"waiting", "failed"}
        /\ \A h \in handlers' : h \in handlers \/ h.req = r
        /\ \A q \in Requests : job'[q] \in Running \cup {"none", "waiting"} =>
              tries'[q] < Attempts /\ stalls'[q] <= MaxStalls
    BY <2>1, <2>2, BookShape, FailAttemptShape
  <2>7. QueueOK'
    BY <2>1, <2>2, <2>4, <2>5, <2>6 DEF Shape, QueueOK, Writing, Key
  <2> QED BY <2>3, <2>7 DEF Shape
<1>4. CASE Crash(r)
  <2>1. /\ job[r] \in Running /\ job[r] # "none" /\ tries[r] < Attempts
        /\ stalls[r] <= MaxStalls
        /\ \A q \in Requests : Key(q) \in Keys
    BY <1>4, BodyShape DEF Crash, Running, Claimed, Mailing, Shape, QueueOK
  <2>2. /\ tries[r] \in 0..(Attempts - 1) /\ stalls[r] + 1 \in 0..(MaxStalls + 1)
        /\ 0 \in 0..MaxOptimistic
    <3>1. /\ tries[r] \in 0..Attempts /\ stalls[r] \in 0..(MaxStalls + 1)
          /\ Attempts \in Nat /\ MaxStalls \in Nat /\ MaxOptimistic \in Nat
      BY ConstantsOK DEF Shape, TypeOK
    <3> QED BY <2>1, <3>1
  <2>3. \E s \in {"waiting", "failed"} :
          /\ job' = [job EXCEPT ![r] = s]
          /\ s = "waiting" => stalls[r] < MaxStalls
    BY <1>4 DEF Crash
  <2>4. PICK s \in {"waiting", "failed"} :
          /\ job' = [job EXCEPT ![r] = s]
          /\ s = "waiting" => stalls[r] < MaxStalls
    BY <2>3
  <2>5. /\ stalls' = [stalls EXCEPT ![r] = stalls[r] + 1] /\ tries' = tries
        /\ opt' = [opt EXCEPT ![r] = 0]
        /\ UNCHANGED <<http, idem, posted, version, notices>> /\ Release(r)
        /\ \/ handlers' = handlers
           \/ handlers' = handlers \cup {[req |-> r, try |-> tries[r], step |-> "mail"]}
    BY <1>4 DEF Crash
  <2>6. TypeOK'
    <3>1. /\ job' \in [Requests -> JobState] /\ stalls' \in [Requests -> 0..(MaxStalls + 1)]
          /\ tries' \in [Requests -> 0..Attempts] /\ opt' \in [Requests -> 0..MaxOptimistic]
      BY <2>2, <2>4, <2>5 DEF Shape, TypeOK, JobState
    <3>2. handlers' \subseteq [req : Requests, try : 0..(Attempts - 1), step : {"mail", "mark"}]
      BY <2>2, <2>5 DEF Shape, TypeOK
    <3> QED BY <2>5, <3>1, <3>2, ReleaseShape DEF Shape, TypeOK
  <2>7. ASSUME NEW q \in Requests
        PROVE /\ http'[q] \in {"new", "lookup", "record", "add"} => job'[q] = "none"
              /\ http'[q] = "add" \/ job'[q] # "none" => idem'[Key(q)] # "absent"
              /\ job'[q] \in Running \cup {"none", "waiting"} =>
                    tries'[q] < Attempts /\ stalls'[q] <= MaxStalls
              /\ job'[q] \in Writing => Body[q].to \in Wallets
    <3>1. CASE q = r
      <4>1. job'[q] = s /\ stalls'[q] = stalls[r] + 1 /\ tries'[q] = tries[r]
        BY <3>1, <2>4, <2>5 DEF Shape, TypeOK
      <4>2. job'[q] \in Running \cup {"none", "waiting"} => stalls'[q] <= MaxStalls
        <5>1. stalls[r] \in 0..(MaxStalls + 1) /\ MaxStalls \in Nat
          BY ConstantsOK DEF Shape, TypeOK
        <5>2. CASE s = "waiting"
          BY <4>1, <2>4, <5>1, <5>2
        <5>3. CASE s = "failed"
          BY <4>1, <5>3 DEF Running, Claimed, Mailing
        <5> QED BY <5>2, <5>3
      <4>3. http[r] \notin {"new", "lookup", "record", "add"} /\ idem[Key(r)] # "absent"
        BY <2>1 DEF Shape, QueueOK
      <4> QED BY <3>1, <4>1, <4>2, <4>3, <2>1, <2>5 DEF Writing
    <3>2. CASE q # r
      BY <3>2, <2>4, <2>5 DEF Shape, TypeOK, QueueOK
    <3> QED BY <3>1, <3>2
  <2>8. \A h \in handlers' : idem'[Key(h.req)] # "absent"
    BY <2>1, <2>5 DEF Shape, QueueOK
  <2> QED BY <2>6, <2>7, <2>8 DEF Shape, QueueOK, Key
<1> QED BY <1>1, <1>2, <1>3, <1>4 DEF Fault

LEMMA ListenShape ==
  ASSUME Shape, NEW h \in handlers, Listen(h) \/ HandlerLost(h) PROVE Shape'
<1>1. h \in [req : Requests, try : 0..(Attempts - 1), step : {"mail", "mark"}]
  BY DEF Shape, TypeOK
<1>2. \A q \in Requests : Key(q) \in Keys
  BY BodyShape
<1>3. CASE HandlerMail(h)
  <2>1. [h EXCEPT !.step = "mark"] \in
          [req : Requests, try : 0..(Attempts - 1), step : {"mail", "mark"}]
        /\ [h EXCEPT !.step = "mark"].req = h.req
    BY <1>1
  <2>2. notices' \subseteq Requests \X {"completed", "failed"}
    BY <1>1, <1>3 DEF HandlerMail, Shape, TypeOK
  <2>3. /\ handlers' \subseteq [req : Requests, try : 0..(Attempts - 1), step : {"mail", "mark"}]
        /\ \A g \in handlers' : g \in handlers \/ g.req = h.req
    BY <1>1, <1>3, <2>1 DEF HandlerMail, Shape, TypeOK
  <2>4. TypeOK'
    BY <1>3, <2>2, <2>3 DEF HandlerMail, Shape, TypeOK
  <2>5. QueueOK'
    BY <1>3, <2>3 DEF HandlerMail, Shape, QueueOK, Key
  <2> QED BY <2>4, <2>5 DEF Shape
<1>4. CASE HandlerMark(h)
  <2>1. idem' \in [Keys -> KeyStatus] /\ \A k \in Keys : idem'[k] = "absent" => idem[k] = "absent"
    BY <1>1, <1>2, <1>4 DEF HandlerMark, Shape, TypeOK, KeyStatus
  <2> QED BY <1>1, <1>2, <1>4, <2>1 DEF HandlerMark, Shape, TypeOK, QueueOK, Key
<1>5. CASE HandlerLost(h)
  BY <1>5 DEF HandlerLost, Shape, TypeOK, QueueOK, Key
<1> QED BY <1>3, <1>4, <1>5 DEF Listen

\* Every step keeps types and queue in order.
LEMMA NextShape == Shape /\ [Next]_vars => Shape'
<1> SUFFICES ASSUME Shape, [Next]_vars PROVE Shape'
  OBVIOUS
<1>1. CASE \E r \in Requests : Api(r) \/ Work(r) \/ Fault(r)
  BY <1>1, ApiShape, WorkShape, FaultShape
<1>2. CASE \E h \in handlers : Listen(h) \/ HandlerLost(h)
  BY <1>2, ListenShape
<1>3. CASE UNCHANGED vars
  BY <1>3 DEF vars, Shape, TypeOK, QueueOK
<1> QED BY <1>1, <1>2, <1>3 DEF Next, Quiescent

\* Types, and the bounds that the queue and the configuration set, hold for any
\* number of requests, keys, wallets, workers, attempts and crashes.
THEOREM TypeCorrect == Spec => []TypeOK
<1>1. Init => Shape
  BY InitShape
<1>2. Shape /\ [Next]_vars => Shape'
  BY NextShape
<1>3. Shape => TypeOK
  BY DEF Shape
<1> QED BY <1>1, <1>2, <1>3, PTL DEF Spec

-----------------------------------------------------------------------------
(***************************************************************************)
(* Idempotency: the key discipline is inductive, and with it hold          *)
(* AtMostOnce, CompletedMeansMoved, NoticeTruthful and the refinement of   *)
(* IdempotentTransfer.                                                     *)
(***************************************************************************)

\* Each key has at most one transfer, and a mail that says "completed" has one.
Outcomes == AtMostOnce /\ NoticeTruthful

KInv == Shape /\ KeyDiscipline /\ Outcomes

-----------------------------------------------------------------------------
(***************************************************************************)
(* What the kinds of step do to the keys.                                  *)
(***************************************************************************)

\* The transfers of the log belong to requests.
LEMMA PostedReq ==
  ASSUME TypeOK, NEW i \in DOMAIN posted
  PROVE  posted[i].req \in Requests /\ Key(posted[i].req) \in Keys
<1> DEFINE S == [req : Requests, credit : Int]
<1>1. posted \in Seq(S)
  BY DEF TypeOK
<1> HIDE DEF S
<1>2. posted[i] \in S
  BY <1>1
<1>3. posted[i].req \in Requests
  BY <1>2 DEF S
<1> QED BY <1>3, BodyShape

\* A transfer appended to the log records its own key and no other.
LEMMA PublishRecords ==
  ASSUME TypeOK, NEW r \in Requests, Body[r].to \in Wallets, posted' = Publish(r)
  PROVE  /\ \A k : Recorded(k)' <=> Recorded(k) \/ k = Key(r)
         /\ Len(posted) \in Nat /\ Len(posted') = Len(posted) + 1
         /\ DOMAIN posted = 1..Len(posted) /\ DOMAIN posted' = 1..(Len(posted) + 1)
         /\ \A i \in DOMAIN posted : posted'[i] = posted[i]
         /\ posted'[Len(posted) + 1].req = r
<1> DEFINE e == [req |-> r, credit |-> CreditAmount(r)]
           S == [req : Requests, credit : Int]
<1>1. posted \in Seq(S)
  BY DEF TypeOK
<1>2. e \in S /\ e.req = r
  BY BodyShape
<1>3. posted' = Append(posted, e)
  BY DEF Publish
<1> HIDE DEF e, S
<1>4. /\ Len(posted) \in Nat /\ Len(posted') = Len(posted) + 1
      /\ DOMAIN posted = 1..Len(posted) /\ DOMAIN posted' = 1..(Len(posted) + 1)
      /\ \A i \in 1..Len(posted) : posted'[i] = posted[i]
      /\ posted'[Len(posted) + 1] = e
  BY <1>1, <1>2, <1>3
<1>5. ASSUME NEW k PROVE Recorded(k)' <=> Recorded(k) \/ k = Key(r)
  <2>1. ASSUME Recorded(k)' PROVE Recorded(k) \/ k = Key(r)
    <3>1. PICK i \in 1..(Len(posted) + 1) : Key(posted'[i].req) = k
      BY <1>4, <2>1 DEF Recorded, Key
    <3>2. i \in 1..Len(posted) \/ i = Len(posted) + 1
      BY <1>4
    <3> QED BY <1>2, <1>4, <3>1, <3>2 DEF Recorded
  <2>2. ASSUME Recorded(k) PROVE Recorded(k)'
    <3>1. PICK i \in 1..Len(posted) : Key(posted[i].req) = k
      BY <1>4, <2>2 DEF Recorded
    <3>2. i \in 1..(Len(posted) + 1) /\ posted'[i] = posted[i]
      BY <1>4
    <3> QED BY <1>4, <3>1, <3>2 DEF Recorded, Key
  <2>3. ASSUME k = Key(r) PROVE Recorded(k)'
    <3>1. Len(posted) + 1 \in 1..(Len(posted) + 1)
      BY <1>4
    <3> QED BY <1>2, <1>4, <2>3, <3>1 DEF Recorded, Key
  <2> QED BY <2>1, <2>2, <2>3
<1> QED BY <1>2, <1>4, <1>5

\* A step inside or outside the claim that touches neither log nor status.
LEMMA KeepsKeys ==
  ASSUME Shape, KeyDiscipline, NEW r \in Requests, NEW s \in JobState,
         job' = [job EXCEPT ![r] = s], UNCHANGED <<idem, posted, keyLock>>,
         job[r] \in Claimed <=> s \in Claimed,
         s \in {"recheck", "settle", "notify"} => Recorded(Key(r))
  PROVE  KeyDiscipline'
<1>1. /\ \A q \in Requests : job'[q] = IF q = r THEN s ELSE job[q]
      /\ \A q \in Requests : Key(q) \in Keys
      /\ \A k \in Keys : keyLock[k] \in Requests \cup {NoJob}
      /\ NoJob \notin Requests
  BY BodyShape, ConstantsOK DEF Shape, TypeOK
<1>2. \A k : Recorded(k)' <=> Recorded(k)
  BY DEF Recorded, Key
<1> QED BY <1>1, <1>2 DEF KeyDiscipline, Key

\* A transaction that ends without a trace.
LEMMA LeavesKeys ==
  ASSUME Shape, KeyDiscipline, NEW r \in Requests, NEW s \in JobState, s \notin Claimed,
         job' = [job EXCEPT ![r] = s], UNCHANGED <<idem, posted>>, Release(r),
         s \notin {"recheck", "settle", "notify"}
  PROVE  KeyDiscipline'
<1>1. /\ \A q \in Requests : job'[q] = IF q = r THEN s ELSE job[q]
      /\ \A q \in Requests : Key(q) \in Keys
      /\ \A k \in Keys : keyLock[k] \in Requests \cup {NoJob}
      /\ NoJob \notin Requests
      /\ \A k \in Keys : keyLock'[k] = IF keyLock[k] = r THEN NoJob ELSE keyLock[k]
  BY BodyShape, ConstantsOK DEF Shape, TypeOK, Release
<1>2. \A k : Recorded(k)' <=> Recorded(k)
  BY DEF Recorded, Key
<1> QED BY <1>1, <1>2 DEF KeyDiscipline, Key

\* A key that nobody holds gets its final status.
LEMMA MarksKey ==
  ASSUME Shape, KeyDiscipline, NEW k \in Keys, NEW status \in {"completed", "failed"},
         keyLock[k] = NoJob, idem' = [idem EXCEPT ![k] = status],
         status = "completed" => Recorded(k), UNCHANGED <<posted, keyLock>>,
         NEW r \in Requests, NEW s \in JobState, job' = [job EXCEPT ![r] = s],
         job[r] \in Claimed <=> s \in Claimed,
         s \in {"recheck", "settle", "notify"} => Recorded(Key(r))
  PROVE  KeyDiscipline'
<1>1. /\ \A q \in Requests : Key(q) \in Keys
      /\ \A l \in Keys : keyLock[l] \in Requests \cup {NoJob}
      /\ \A l \in Keys : idem'[l] = IF l = k THEN status ELSE idem[l]
      /\ NoJob \notin Requests
  BY BodyShape, ConstantsOK DEF Shape, TypeOK
<1>2. \A l : Recorded(l)' <=> Recorded(l)
  BY DEF Recorded, Key
<1>3. \A q \in Requests :
        /\ job'[q] \in Claimed <=> job[q] \in Claimed
        /\ job'[q] \in {"recheck", "settle", "notify"} => Recorded(Key(q))
  BY <1>1 DEF KeyDiscipline, Shape, TypeOK
<1> QED BY <1>1, <1>2, <1>3 DEF KeyDiscipline, Key

\* COMMIT books the transfer of the key its transaction holds.
LEMMA BooksKey ==
  ASSUME Shape, KeyDiscipline, NEW r \in Requests, NEW s \in {"notify", "waiting", "failed"},
         job[r] = "commit", Book(r), job' = [job EXCEPT ![r] = s]
  PROVE  /\ KeyDiscipline' /\ idem[Key(r)] = "pending" /\ keyLock[Key(r)] = r
         /\ ~Recorded(Key(r))
<1>1. /\ \A q \in Requests : job'[q] = IF q = r THEN s ELSE job[q]
      /\ \A q \in Requests : Key(q) \in Keys
      /\ \A k \in Keys : keyLock[k] \in Requests \cup {NoJob}
      /\ NoJob \notin Requests
      /\ \A k \in Keys : keyLock'[k] = IF keyLock[k] = r THEN NoJob ELSE keyLock[k]
      /\ \A k \in Keys : idem'[k] = IF k = Key(r) THEN "completed" ELSE idem[k]
  BY BodyShape, ConstantsOK DEF Shape, TypeOK, Book, Release
<1>2. \A k : Recorded(k)' <=> Recorded(k) \/ k = Key(r)
  BY PublishRecords DEF Shape, Book, QueueOK, Writing
<1>3. keyLock[Key(r)] = r /\ idem[Key(r)] = "pending" /\ ~Recorded(Key(r))
  BY <1>1 DEF KeyDiscipline, Claimed
<1>4. s \notin Claimed
  BY DEF Claimed
<1> QED BY <1>1, <1>2, <1>3, <1>4 DEF KeyDiscipline, Key

-----------------------------------------------------------------------------
(***************************************************************************)
(* The key discipline is kept by every step.                               *)
(***************************************************************************)

LEMMA InitKeys == Init => KInv
<1> SUFFICES ASSUME Init PROVE KInv
  OBVIOUS
<1>1. Shape
  BY InitShape
<1>2. DOMAIN posted = {} /\ notices = {}
  BY DEF Init
<1>3. \A k : ~Recorded(k)
  BY <1>2 DEF Recorded
<1>4. KeyDiscipline
  <2>1. /\ \A k \in Keys : keyLock[k] = NoJob /\ idem[k] = "absent"
        /\ \A r \in Requests : job[r] = "none"
    BY DEF Init
  <2> QED BY <1>3, <2>1 DEF KeyDiscipline, Claimed
<1>5. Outcomes
  BY <1>2 DEF Outcomes, AtMostOnce, NoticeTruthful
<1> QED BY <1>1, <1>4, <1>5 DEF KInv

LEMMA ThrowKeys ==
  ASSUME Shape, KeyDiscipline, NEW r \in Requests, Throw(r) PROVE KeyDiscipline'
<1>1. PICK s \in {"waiting", "failed"} : job' = [job EXCEPT ![r] = s]
  BY DEF Throw, FailAttempt
<1>2. s \in JobState /\ s \notin Claimed
  BY DEF JobState, Claimed
<1> QED BY <1>1, <1>2, LeavesKeys DEF Throw

LEMMA ApiKeys ==
  ASSUME Shape, KeyDiscipline, NEW r \in Requests, Api(r) \/ ApiCrash(r)
  PROVE  KeyDiscipline'
<1>1. CASE CheckFunds(r) \/ LookupKey(r) \/ ApiCrash(r)
  BY <1>1 DEF CheckFunds, LookupKey, ApiCrash, KeyDiscipline, Recorded, Key
<1>2. CASE CreateRecord(r)
  <2>1. /\ UNCHANGED <<posted, keyLock, job>>
        /\ \A k \in Keys : idem'[k] # idem[k] => idem[k] = "absent" /\ idem'[k] = "pending"
    BY <1>2 DEF CreateRecord, Shape, TypeOK
  <2>2. \A l : Recorded(l)' <=> Recorded(l)
    BY <2>1 DEF Recorded, Key
  <2>3. \A q \in Requests : Key(q) \in Keys
    BY BodyShape
  <2> QED BY <2>1, <2>2, <2>3 DEF KeyDiscipline, Key
<1>3. CASE AddJob(r)
  <2>1. job[r] = "none"
    BY <1>3 DEF AddJob, Shape, QueueOK
  <2>2. "waiting" \in JobState \ Claimed /\ "none" \notin Claimed
    BY DEF JobState, Claimed
  <2> QED BY <1>3, <2>1, <2>2, KeepsKeys DEF AddJob
<1> QED BY <1>1, <1>2, <1>3 DEF Api

LEMMA WorkKeys ==
  ASSUME Shape, KeyDiscipline, NEW r \in Requests, Work(r) PROVE KeyDiscipline'
<1>r. /\ Key(r) \in Keys
      /\ Release(r) => keyLock' = keyLock \/ keyLock[Key(r)] = r
      /\ keyLock[Key(r)] \in Requests \cup {NoJob} /\ NoJob \notin Requests
      /\ \A k \in Keys : keyLock[k] = r => k = Key(r)
  BY BodyShape, ConstantsOK DEF Shape, TypeOK, Release, KeyDiscipline
<1>j. /\ Claimed \subseteq JobState
      /\ {"claim", "miss", "recheck", "settle", "reconcile", "permMark", "permMail", "notify",
          "waiting", "finished", "failed"} \subseteq JobState \ Claimed
  BY DEF JobState, Running, Mailing, Claimed
<1>1. CASE Take(r)
  BY <1>1, <1>j, KeepsKeys DEF Take, Claimed
<1>2. CASE Claim(r)
  <2>1. CASE Claimable(Key(r))
    <3>1. /\ \A q \in Requests : job'[q] = IF q = r THEN "check" ELSE job[q]
          /\ \A q \in Requests : Key(q) \in Keys
          /\ \A k \in Keys : keyLock[k] \in Requests \cup {NoJob}
          /\ \A k \in Keys : keyLock'[k] = IF k = Key(r) THEN r ELSE keyLock[k]
          /\ idem[Key(r)] = "pending" /\ idem' = idem /\ posted' = posted
          /\ job[r] = "claim" /\ keyLock[Key(r)] = NoJob
      BY <1>2, <2>1, BodyShape DEF Claim, Claimable, KeyFree, Shape, TypeOK
    <3>2. \A l : Recorded(l)' <=> Recorded(l)
      BY <3>1 DEF Recorded, Key
    <3>3. "check" \in Claimed /\ "claim" \notin Claimed
      BY DEF Claimed
    <3> QED BY <1>r, <3>1, <3>2, <3>3 DEF KeyDiscipline, Key
  <2>2. CASE ~Claimable(Key(r))
    BY <1>2, <2>2, <1>j, KeepsKeys DEF Claim, Claimed
  <2> QED BY <2>1, <2>2
<1>3. CASE ReadMiss(r)
  <2>1. CASE AlreadyDone(Key(r))
    <3>1. Recorded(Key(r))
      BY <2>1, <1>r DEF AlreadyDone, KeyDiscipline
    <3> QED BY <1>3, <2>1, <3>1, <1>j, KeepsKeys DEF ReadMiss, Claimed
  <2>2. CASE ~AlreadyDone(Key(r))
    BY <1>3, <2>2, ThrowKeys DEF ReadMiss
  <2> QED BY <2>1, <2>2
<1>4. CASE CheckExisting(r)
  <2>1. CASE job[r] = "check"
    <3>1. ~Recorded(Key(r))
      BY <1>r, <2>1 DEF KeyDiscipline, Claimed
    <3> QED BY <1>4, <2>1, <3>1, <1>j, KeepsKeys DEF CheckExisting, Claimed
  <2>2. CASE job[r] = "recheck"
    <3>1. Recorded(Key(r))
      BY <2>2 DEF KeyDiscipline
    <3> QED BY <1>4, <2>2, <3>1, <1>j, KeepsKeys DEF CheckExisting, Claimed
  <2> QED BY <1>4, <2>1, <2>2 DEF CheckExisting
<1>5. CASE Settle(r)
  <2>1. job[r] = "settle" /\ Recorded(Key(r)) /\ job[r] \notin Claimed
    BY <1>5 DEF Settle, KeyDiscipline, Claimed
  <2>2. keyLock[Key(r)] = NoJob
    BY <1>5, <1>r, <2>1 DEF Settle, KeyDiscipline
  <2>3. keyLock' = keyLock
    BY <1>5, <1>r, <2>2 DEF Settle
  <2>4. "notify" \notin Claimed
    BY DEF Claimed
  <2> QED BY <1>5, <1>r, <2>1, <2>2, <2>3, <2>4, <1>j, MarksKey DEF Settle
<1>6. CASE Validate(r)
  <2>1. CASE Acceptable(r)
    BY <1>6, <2>1, <1>j, KeepsKeys DEF Validate, Claimed
  <2>2. CASE ~Acceptable(r)
    BY <1>6, <2>2, <1>j, LeavesKeys DEF Validate, Reject, Claimed
  <2> QED BY <2>1, <2>2
<1>7. CASE ReadFrom(r)
  BY <1>7, <1>j, KeepsKeys DEF ReadFrom, Claimed
<1>8. CASE ReadTo(r)
  <2>1. CASE Body[r].to \in Wallets
    BY <1>8, <2>1, <1>j, KeepsKeys DEF ReadTo, Claimed
  <2>2. CASE Body[r].to \notin Wallets
    BY <1>8, <2>2, ThrowKeys DEF ReadTo
  <2> QED BY <2>1, <2>2
<1>9. CASE Insert(r)
  BY <1>9, <1>j, KeepsKeys DEF Insert, Claimed
<1>10. CASE InnerReconcile(r)
  BY <1>10, <1>j, LeavesKeys DEF InnerReconcile, Claimed
<1>11. CASE BumpFrom(r)
  BY <1>11, <1>j, KeepsKeys DEF BumpFrom, Claimed
<1>12. CASE BumpTo(r)
  <2>1. CASE walletLock[Body[r].from] = r /\ Matches(r, Body[r].to, seen[r].to)
    BY <1>12, <2>1, <1>j, KeepsKeys DEF BumpTo, Claimed
  <2>2. CASE Conflict(r) /\ MayRepeat(r)
    BY <1>12, <2>2, <1>j, LeavesKeys DEF Conflict, Claimed
  <2>3. CASE Throw(r)
    BY <2>3, ThrowKeys
  <2> QED BY <1>12, <2>1, <2>2, <2>3 DEF BumpTo, Conflict
<1>13. CASE Commit(r)
  BY <1>13, BooksKey DEF Commit
<1>14. CASE Reconcile(r)
  <2>1. CASE Reconciled(r)
    BY <1>14, <2>1, <1>r, <1>j, MarksKey DEF Reconcile, Reconciled, KeyFree, Claimed
  <2>2. CASE ~Reconciled(r)
    BY <1>14, <2>2, <1>j, KeepsKeys DEF Reconcile, Claimed
  <2> QED BY <2>1, <2>2
<1>15. CASE PermMark(r)
  BY <1>15, <1>r, <1>j, MarksKey DEF PermMark, KeyFree, Claimed
<1>16. CASE PermMail(r)
  BY <1>16, <1>j, KeepsKeys DEF PermMail, Claimed
<1>17. CASE Notify(r)
  BY <1>17, <1>j, KeepsKeys DEF Notify, Claimed
<1>18. CASE DeadlockAbort(r)
  BY <1>18, ThrowKeys DEF DeadlockAbort
<1> QED BY <1>1, <1>2, <1>3, <1>4, <1>5, <1>6, <1>7, <1>8, <1>9, <1>10, <1>11, <1>12,
           <1>13, <1>14, <1>15, <1>16, <1>17, <1>18 DEF Work

LEMMA FaultKeys ==
  ASSUME Shape, KeyDiscipline, NEW r \in Requests, Fault(r) PROVE KeyDiscipline'
<1>1. CASE ApiCrash(r)
  BY <1>1, ApiKeys
<1>2. CASE DbError(r) \/ MailError(r)
  BY <1>2, ThrowKeys DEF DbError, MailError
<1>3. CASE CommitUnknown(r)
  BY <1>3, BooksKey DEF CommitUnknown, FailAttempt
<1>4. CASE Crash(r)
  <2>1. PICK s \in {"waiting", "failed"} : job' = [job EXCEPT ![r] = s]
    BY <1>4 DEF Crash
  <2>2. s \in JobState /\ s \notin Claimed
    BY DEF JobState, Claimed
  <2> QED BY <1>4, <2>1, <2>2, LeavesKeys DEF Crash
<1> QED BY <1>1, <1>2, <1>3, <1>4 DEF Fault

LEMMA ListenKeys ==
  ASSUME Shape, KeyDiscipline, NEW h \in handlers, Listen(h) \/ HandlerLost(h)
  PROVE  KeyDiscipline'
<1>1. CASE HandlerMail(h) \/ HandlerLost(h)
  BY <1>1 DEF HandlerMail, HandlerLost, KeyDiscipline, Recorded, Key
<1>2. CASE HandlerMark(h)
  <2>1. Key(h.req) \in Keys
    BY BodyShape DEF Shape, TypeOK
  <2>2. /\ h.req \in Requests /\ job[h.req] \in JobState
        /\ job' = [job EXCEPT ![h.req] = job[h.req]]
        /\ job[h.req] \in {"recheck", "settle", "notify"} => Recorded(Key(h.req))
    BY <1>2 DEF HandlerMark, Shape, TypeOK, KeyDiscipline
  <2> QED BY <1>2, <2>1, <2>2, MarksKey DEF HandlerMark, KeyFree
<1> QED BY <1>1, <1>2 DEF Listen

LEMMA NextKeys == Shape /\ KeyDiscipline /\ [Next]_vars => KeyDiscipline'
<1> SUFFICES ASSUME Shape, KeyDiscipline, [Next]_vars PROVE KeyDiscipline'
  OBVIOUS
<1>1. CASE \E r \in Requests : Api(r) \/ Work(r) \/ Fault(r)
  BY <1>1, ApiKeys, WorkKeys, FaultKeys
<1>2. CASE \E h \in handlers : Listen(h) \/ HandlerLost(h)
  BY <1>2, ListenKeys
<1>3. CASE UNCHANGED vars
  BY <1>3 DEF vars, KeyDiscipline, Recorded, Key
<1> QED BY <1>1, <1>2, <1>3 DEF Next, Quiescent

-----------------------------------------------------------------------------
(***************************************************************************)
(* What a step may do to statuses and log, and what follows from it.       *)
(***************************************************************************)

\* Nothing, or one of the four things the abstract specification knows.
KeyEffect ==
  \/ UNCHANGED <<idem, posted>>
  \/ \E k \in Keys : /\ idem[k] = "absent" /\ idem' = [idem EXCEPT ![k] = "pending"]
                     /\ posted' = posted
  \/ \E k \in Keys : /\ idem[k] # "absent" /\ idem' = [idem EXCEPT ![k] = "failed"]
                     /\ posted' = posted
  \/ \E k \in Keys : /\ Recorded(k) /\ idem' = [idem EXCEPT ![k] = "completed"]
                     /\ posted' = posted
  \/ \E r \in Requests : /\ job[r] = "commit" /\ Book(r) /\ Body[r].to \in Wallets
                         /\ idem[Key(r)] = "pending" /\ ~Recorded(Key(r))

LEMMA ApiEffect ==
  ASSUME Shape, NEW r \in Requests, Api(r) \/ ApiCrash(r) PROVE KeyEffect
<1>1. CASE CheckFunds(r) \/ LookupKey(r) \/ AddJob(r) \/ ApiCrash(r)
  BY <1>1 DEF CheckFunds, LookupKey, AddJob, ApiCrash, KeyEffect
<1>2. CASE CreateRecord(r)
  <2>1. Key(r) \in Keys /\ posted' = posted
    BY <1>2, BodyShape DEF CreateRecord
  <2>2. CASE idem[Key(r)] = "absent"
    BY <1>2, <2>1, <2>2 DEF CreateRecord, KeyEffect
  <2>3. CASE idem[Key(r)] # "absent"
    BY <1>2, <2>1, <2>3 DEF CreateRecord, KeyEffect, Shape, TypeOK
  <2> QED BY <2>2, <2>3
<1> QED BY <1>1, <1>2 DEF Api

LEMMA CommitEffect ==
  ASSUME Shape, KeyDiscipline, NEW r \in Requests, job[r] = "commit", Book(r)
  PROVE  KeyEffect
<1>1. Key(r) \in Keys /\ Body[r].to \in Wallets
  BY BodyShape DEF Shape, QueueOK, Writing
<1>2. idem[Key(r)] = "pending" /\ ~Recorded(Key(r))
  BY <1>1, ConstantsOK DEF KeyDiscipline, Claimed
<1> QED BY <1>1, <1>2 DEF KeyEffect

LEMMA WorkEffect ==
  ASSUME Shape, KeyDiscipline, NEW r \in Requests, Work(r) PROVE KeyEffect
<1>k. Key(r) \in Keys
  BY BodyShape
<1>t. Throw(r) => KeyEffect
  BY DEF Throw, KeyEffect
<1>1. CASE \/ Take(r) \/ Claim(r) \/ CheckExisting(r) \/ ReadFrom(r) \/ Insert(r)
           \/ InnerReconcile(r) \/ BumpFrom(r) \/ PermMail(r) \/ Notify(r)
  BY <1>1 DEF Take, Claim, CheckExisting, ReadFrom, Insert, InnerReconcile, BumpFrom,
              PermMail, Notify, KeyEffect
<1>2. CASE ReadMiss(r) \/ Validate(r) \/ ReadTo(r) \/ BumpTo(r) \/ DeadlockAbort(r)
  BY <1>2, <1>t DEF ReadMiss, Validate, Reject, ReadTo, BumpTo, Conflict, DeadlockAbort, KeyEffect
<1>3. CASE Settle(r)
  BY <1>3, <1>k DEF Settle, KeyDiscipline, KeyEffect
<1>4. CASE Commit(r)
  BY <1>4, CommitEffect DEF Commit
<1>5. CASE Reconcile(r)
  BY <1>5, <1>k DEF Reconcile, Reconciled, KeyEffect
<1>6. CASE PermMark(r)
  BY <1>6, <1>k DEF PermMark, Shape, QueueOK, KeyEffect
<1> QED BY <1>1, <1>2, <1>3, <1>4, <1>5, <1>6 DEF Work

LEMMA StepEffect ==
  ASSUME Shape, KeyDiscipline, [Next]_vars PROVE KeyEffect
<1>1. ASSUME NEW r \in Requests, Api(r) \/ Work(r) PROVE KeyEffect
  BY <1>1, ApiEffect, WorkEffect
<1>2. ASSUME NEW r \in Requests, Fault(r) PROVE KeyEffect
  <2>1. CASE ApiCrash(r)
    BY <2>1, ApiEffect
  <2>2. CASE DbError(r) \/ MailError(r) \/ Crash(r)
    BY <2>2 DEF DbError, MailError, Crash, Throw, KeyEffect
  <2>3. CASE CommitUnknown(r)
    BY <2>3, CommitEffect DEF CommitUnknown
  <2> QED BY <1>2, <2>1, <2>2, <2>3 DEF Fault
<1>3. ASSUME NEW h \in handlers, Listen(h) \/ HandlerLost(h) PROVE KeyEffect
  <2>1. Key(h.req) \in Keys
    BY BodyShape DEF Shape, TypeOK
  <2> QED BY <1>3, <2>1 DEF Listen, HandlerMail, HandlerMark, HandlerLost, Shape, QueueOK, KeyEffect
<1>4. CASE UNCHANGED vars
  BY <1>4 DEF vars, KeyEffect
<1> QED BY <1>1, <1>2, <1>3, <1>4 DEF Next, Quiescent

\* The only mail that says "completed" is queued by Notify.
LEMMA StepNotices ==
  ASSUME Shape, KeyDiscipline, [Next]_vars, NEW r \in Requests,
         <<r, "completed">> \in notices'
  PROVE  <<r, "completed">> \in notices \/ Recorded(Key(r))
<1>1. ASSUME NEW q \in Requests, Api(q) PROVE notices' = notices
  BY <1>1 DEF Api, CheckFunds, LookupKey, CreateRecord, AddJob
<1>2. ASSUME NEW q \in Requests, Work(q), ~PermMail(q), ~Notify(q) PROVE notices' = notices
  <2>1. Throw(q) => notices' = notices
    BY DEF Throw, FailAttempt
  <2> QED BY <1>2, <2>1
    DEF Work, Take, Claim, ReadMiss, CheckExisting, Settle, Validate, Reject, ReadFrom, ReadTo,
        Insert, InnerReconcile, BumpFrom, BumpTo, Conflict, Commit, Reconcile, PermMark, DeadlockAbort
<1>3. ASSUME NEW q \in Requests, Fault(q) PROVE notices' = notices
  BY <1>3 DEF Fault, ApiCrash, DbError, MailError, CommitUnknown, Crash, Throw, FailAttempt
<1>4. ASSUME NEW q \in Requests, Notify(q) PROVE <<r, "completed">> \in notices \/ Recorded(Key(r))
  <2>1. notices' = notices \cup {<<q, "completed">>} /\ Recorded(Key(q))
    BY <1>4 DEF Notify, KeyDiscipline
  <2> QED BY <2>1
<1>5. ASSUME NEW q \in Requests, PermMail(q) PROVE <<r, "completed">> \in notices
  BY <1>5 DEF PermMail
<1>6. ASSUME NEW h \in handlers, Listen(h) \/ HandlerLost(h)
      PROVE  <<r, "completed">> \in notices
  BY <1>6 DEF Listen, HandlerMail, HandlerMark, HandlerLost
<1>7. CASE UNCHANGED vars
  BY <1>7 DEF vars
<1> QED BY <1>1, <1>2, <1>3, <1>4, <1>5, <1>6, <1>7 DEF Next, Quiescent

LEMMA NextOutcomes ==
  ASSUME KInv, [Next]_vars PROVE Outcomes'
<1> USE DEF KInv
<1>k. KeyEffect
  BY StepEffect
<1>r. \A k : Recorded(k) => Recorded(k)'
  <2>1. CASE posted' = posted
    BY <2>1 DEF Recorded, Key
  <2>2. CASE \E r \in Requests : Book(r) /\ Body[r].to \in Wallets
    BY <2>2, PublishRecords DEF Book, Shape
  <2> QED BY <1>k, <2>1, <2>2 DEF KeyEffect
<1>1. AtMostOnce'
  <2>1. CASE posted' = posted
    BY <2>1 DEF Outcomes, AtMostOnce
  <2>2. ASSUME NEW r \in Requests, Book(r), Body[r].to \in Wallets, ~Recorded(Key(r))
        PROVE  AtMostOnce'
    <3>1. /\ Len(posted) \in Nat
          /\ DOMAIN posted = 1..Len(posted) /\ DOMAIN posted' = 1..(Len(posted) + 1)
          /\ \A i \in DOMAIN posted : posted'[i] = posted[i]
          /\ posted'[Len(posted) + 1].req = r
      BY <2>2, PublishRecords DEF Book, Shape
    <3>2. \A i \in 1..Len(posted) : Body[posted[i].req].key # Body[r].key
      BY <2>2, <3>1 DEF Recorded, Key
    <3>3. \A i \in 1..(Len(posted) + 1) : i \in 1..Len(posted) \/ i = Len(posted) + 1
      BY <3>1
    <3>4. \A i, j \in 1..Len(posted) : Body[posted[i].req].key = Body[posted[j].req].key => i = j
      BY <3>1 DEF Outcomes, AtMostOnce
    <3>5. \A i, j \in 1..(Len(posted) + 1) :
            Body[posted'[i].req].key = Body[posted'[j].req].key => i = j
      BY <3>1, <3>2, <3>3, <3>4
    <3> QED BY <3>1, <3>5 DEF AtMostOnce
  <2> QED BY <1>k, <2>1, <2>2 DEF KeyEffect
<1>2. NoticeTruthful'
  <2>1. ASSUME NEW r \in Requests, <<r, "completed">> \in notices' PROVE Recorded(Key(r))'
    <3>1. <<r, "completed">> \in notices \/ Recorded(Key(r))
      BY <2>1, StepNotices
    <3>2. Recorded(Key(r))
      BY <3>1 DEF Outcomes, NoticeTruthful, Recorded, Key
    <3> QED BY <1>r, <3>2 DEF Key
  <2> QED BY <2>1 DEF NoticeTruthful, Recorded, Key
<1> QED BY <1>1, <1>2 DEF Outcomes

-----------------------------------------------------------------------------
(***************************************************************************)
(* The theorems.                                                           *)
(***************************************************************************)

LEMMA KeyInvariant == Spec => []KInv
<1>1. Init => KInv
  BY InitKeys
<1>2. KInv /\ [Next]_vars => KInv'
  BY NextShape, NextKeys, NextOutcomes DEF KInv
<1> QED BY <1>1, <1>2, PTL DEF Spec

\* However many requests, jobs, attempts, crashes and reconciliations share a key,
\* money moves for it at most once.
THEOREM MovedOnce == Spec => []AtMostOnce
<1>1. KInv => AtMostOnce
  BY DEF KInv, Outcomes
<1> QED BY <1>1, KeyInvariant, PTL

\* A key whose status is completed has its transfer in the ledger.
THEOREM CompletedIsTrue == Spec => []CompletedMeansMoved
<1>1. KInv => CompletedMeansMoved
  BY DEF KInv, KeyDiscipline, CompletedMeansMoved, Recorded, Key
<1> QED BY <1>1, KeyInvariant, PTL

\* A mail that says completed names a request whose key has moved money.
THEOREM NoticesAreTrue == Spec => []NoticeTruthful
<1>1. KInv => NoticeTruthful
  BY DEF KInv, Outcomes
<1> QED BY <1>1, KeyInvariant, PTL

-----------------------------------------------------------------------------
(***************************************************************************)
(* Transfer implements IdempotentTransfer.                                 *)
(***************************************************************************)

\* The ids of k's transfers: the abstract variable moved.
Moved(k) == {i \in DOMAIN posted : Body[posted[i].req].key = k}

LEMMA StepImplements ==
  ASSUME KInv, [Next]_vars PROVE [Promise!Next]_(Promise!vars)
<1> USE DEF KInv
<1>m. ASSUME posted' = posted
      PROVE  [k \in Keys |-> Moved(k)]' = [k \in Keys |-> Moved(k)]
  BY <1>m DEF Moved
<1>e. \A k \in Keys : Recorded(k) <=> Moved(k) # {}
  BY DEF Recorded, Key, Moved
<1>1. CASE UNCHANGED <<idem, posted>>
  BY <1>1 DEF Promise!vars
<1>2. ASSUME NEW k \in Keys, idem[k] = "absent", idem' = [idem EXCEPT ![k] = "pending"],
             posted' = posted
      PROVE  Promise!Register(k)
  BY <1>2, <1>m DEF Promise!Register, Moved
<1>3. ASSUME NEW k \in Keys, idem[k] # "absent", idem' = [idem EXCEPT ![k] = "failed"],
             posted' = posted
      PROVE  Promise!Fail(k)
  BY <1>3, <1>m DEF Promise!Fail, Moved
<1>4. ASSUME NEW k \in Keys, Recorded(k), idem' = [idem EXCEPT ![k] = "completed"],
             posted' = posted
      PROVE  Promise!Settle(k)
  BY <1>4, <1>m, <1>e DEF Promise!Settle, Moved
<1>5. ASSUME NEW r \in Requests, Book(r), Body[r].to \in Wallets,
             idem[Key(r)] = "pending", ~Recorded(Key(r))
      PROVE  Promise!Move(Key(r))
  <2>1. /\ Len(posted) \in Nat
        /\ DOMAIN posted = 1..Len(posted) /\ DOMAIN posted' = 1..(Len(posted) + 1)
        /\ \A i \in DOMAIN posted : posted'[i] = posted[i]
        /\ posted'[Len(posted) + 1].req = r
    BY <1>5, PublishRecords DEF Book, Shape
  <2>2. Key(r) \in Keys /\ Moved(Key(r)) = {}
    BY <1>5, <1>e, BodyShape
  <2>3. DOMAIN posted' = DOMAIN posted \cup {Len(posted) + 1} /\ Len(posted) + 1 \notin DOMAIN posted
    BY <2>1
  <2>4. \A k \in Keys : Moved(k)' = IF k = Key(r) THEN {Len(posted) + 1} ELSE Moved(k)
    BY <2>1, <2>2, <2>3 DEF Moved, Key
  <2>5. idem' = [idem EXCEPT ![Key(r)] = "completed"]
    BY <1>5 DEF Book
  <2>6. [k \in Keys |-> Moved(k)]' =
          [[k \in Keys |-> Moved(k)] EXCEPT ![Key(r)] = {Len(posted) + 1}]
    BY <2>2, <2>4
  <2>7. Len(posted) + 1 \in [k \in Keys |-> Moved(k)]'[Key(r)]
    BY <2>2, <2>4
  <2> QED BY <1>5, <2>2, <2>5, <2>6, <2>7 DEF Promise!Move, Moved
<1>6. KeyEffect
  BY StepEffect
<1> QED BY <1>1, <1>2, <1>3, <1>4, <1>5, <1>6, BodyShape DEF KeyEffect, Promise!Next

\* Seen through its keys' statuses and transfers alone, the whole machinery of queue,
\* locks, retries and faults takes only the steps of IdempotentTransfer.
THEOREM KeepsPromise == Spec => ImplementsPromise
<1>1. Init => Promise!Init
  BY DEF Init, Promise!Init
<1>2. KInv /\ [Next]_vars => [Promise!Next]_(Promise!vars)
  BY StepImplements
<1> QED BY <1>1, <1>2, KeyInvariant, PTL DEF Spec, ImplementsPromise, Promise!Spec
=============================================================================
