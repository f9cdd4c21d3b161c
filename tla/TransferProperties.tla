------------------------- MODULE TransferProperties -------------------------
(***************************************************************************)
(* What Transfer guarantees, and what its documentation says of it.        *)
(***************************************************************************)
EXTENDS Transfer

\* Every variable keeps its shape; attempts, crashes and optimistic retries stay
\* within what the queue and the configuration allow.
TypeOK ==
  /\ http \in [Requests -> HttpState]
  /\ idem \in [Keys -> KeyStatus]
  /\ posted \in Seq([req : Requests, credit : Int])
  /\ version \in [Wallets -> Nat]
  /\ keyLock \in [Keys -> Requests \cup {NoJob}]
  /\ walletLock \in [Wallets -> Requests \cup {NoJob}]
  /\ seen \in [Requests -> [at : Nat, from : Nat, to : Nat]]
  /\ job \in [Requests -> JobState]
  /\ tries \in [Requests -> 0..Attempts]
  /\ stalls \in [Requests -> 0..(MaxStalls + 1)]
  /\ opt \in [Requests -> 0..MaxOptimistic]
  /\ handlers \subseteq [req : Requests, try : 0..(Attempts - 1), step : {"mail", "mark"}]
  /\ notices \subseteq Requests \X {"completed", "failed"}

\* Steps at which a transaction has found both wallets.
Writing == {"insert", "inner", "bumpFrom", "bumpTo", "commit"}

\* A job exists only once its request was accepted; a request that has got as far
\* as its job has a row in table idempotency, so no UPDATE of a status misses for
\* lack of one; a job in the queue or at work has attempts and crashes left; one that
\* writes has found both wallets.
QueueOK ==
  /\ \A r \in Requests :
       /\ http[r] \in {"new", "lookup", "record", "add"} => job[r] = "none"
       /\ http[r] = "add" \/ job[r] # "none" => idem[Key(r)] # "absent"
       /\ job[r] \in Running \cup {"none", "waiting"} =>
            tries[r] < Attempts /\ stalls[r] <= MaxStalls
       /\ job[r] \in Writing => Body[r].to \in Wallets
  /\ \A h \in handlers : idem[Key(h.req)] # "absent"

-----------------------------------------------------------------------------
(***************************************************************************)
(* Idempotency.                                                            *)
(***************************************************************************)

\* However often a request is sent, queued, retried, crashed or reconciled, no
\* two transfers carry the key the client gave (README, "must not result in
\* duplicate money movements").
AtMostOnce ==
  \A i, j \in DOMAIN posted :
    Body[posted[i].req].key = Body[posted[j].req].key => i = j

\* A key is reported completed only when its transfer is in the ledger, through
\* commit, settling and both reconciliations.
CompletedMeansMoved ==
  \A k \in Keys : idem[k] = "completed" =>
    \E i \in DOMAIN posted : Body[posted[i].req].key = k

\* Money moves only under a claim: the step that books a transfer completes a key
\* that was pending, for the job whose transaction holds that key and both its
\* wallets; and nothing booked is ever changed or removed.
MovesUnderClaim ==
  [][/\ Len(posted) <= Len(posted')
     /\ \A i \in DOMAIN posted : posted'[i] = posted[i]
     /\ \A i \in DOMAIN posted' \ DOMAIN posted :
          LET r == posted'[i].req IN
          /\ idem[Body[r].key] = "pending" /\ idem'[Body[r].key] = "completed"
          /\ keyLock[Body[r].key] = r
          /\ walletLock[Body[r].from] = r /\ walletLock[Body[r].to] = r]_vars

\* Whoever holds a key's row claimed it pending and keeps it so until its end; only
\* a key that left pending has a transfer, every completed key has one, and a job
\* that is about to say so has seen it.
KeyDiscipline ==
  /\ \A k \in Keys : keyLock[k] # NoJob =>
       /\ Key(keyLock[k]) = k /\ job[keyLock[k]] \in Claimed
       /\ idem[k] = "pending"
  /\ \A r \in Requests : job[r] \in Claimed => keyLock[Key(r)] = r
  /\ \A k \in Keys : /\ idem[k] \in {"absent", "pending"} => ~Recorded(k)
                     /\ idem[k] = "completed" => Recorded(k)
  /\ \A r \in Requests : job[r] \in {"recheck", "settle", "notify"} => Recorded(Key(r))

\* A "completed" mail is the truth: the key of the request it names has moved
\* money, also when the job only found or reconciled an earlier transfer.
NoticeTruthful ==
  \A r \in Requests : <<r, "completed">> \in notices =>
    \E i \in DOMAIN posted : Body[posted[i].req].key = Body[r].key

\* The idempotency key's part of the system implements its abstract promise.
Promise == INSTANCE IdempotentTransfer WITH
  status <- idem,
  moved  <- [k \in Keys |-> {i \in DOMAIN posted : Body[posted[i].req].key = k}]

ImplementsPromise == Promise!Spec

-----------------------------------------------------------------------------
(***************************************************************************)
(* Wallets.                                                                *)
(***************************************************************************)

\* A wallet's row is held only by a transaction that bumped it, and what a
\* transaction read of a version is never ahead of it.
WalletDiscipline ==
  /\ \A w \in Wallets : walletLock[w] # NoJob =>
       LET r == walletLock[w] IN
       \/ job[r] \in {"bumpTo", "commit"} /\ w = Body[r].from
       \/ job[r] = "commit" /\ w = Body[r].to
  /\ \A r \in Requests :
       /\ job[r] = "bumpTo" /\ walletLock[Body[r].from] = r =>
            version[Body[r].from] = seen[r].from
       /\ job[r] = "commit" => Body[r].from # Body[r].to
       /\ seen[r].from <= version[Body[r].from]
       /\ Body[r].to \in Wallets => seen[r].to <= version[Body[r].to]

\* A transaction that is about to commit still sees the versions it read: no
\* other transfer of either wallet committed since, and none can before it does.
CommitSerialised ==
  \A r \in Requests : job[r] = "commit" =>
    /\ walletLock[Body[r].from] = r /\ version[Body[r].from] = seen[r].from
    /\ walletLock[Body[r].to] = r   /\ version[Body[r].to] = seen[r].to

\* The one gap of the optimistic scheme: if no transfer of the source wallet
\* committed between the balance check and the read of its version, the balance
\* still covers the amount at the commit.
NoOverdraftIfFresh ==
  \A r \in Requests : job[r] = "commit" /\ seen[r].at = seen[r].from =>
    Balance(Body[r].from) >= Body[r].amount

\* No wallet is overdrawn.
NoOverdraft == \A w \in Wallets : Balance(w) >= 0

-----------------------------------------------------------------------------
(***************************************************************************)
(* Outcomes.                                                               *)
(***************************************************************************)

\* A key reported failed has moved no money (README, "On success the idempotency
\* record is marked completed ... On failure it is marked failed").
FailedMeansNotMoved == \A k \in Keys : idem[k] = "failed" => ~Recorded(k)

\* A job that waits for its next attempt can still claim its key (README, "two
\* retry layers: BullMQ job attempts and exponential backoff").
RetryCanClaim ==
  \A r \in Requests : job[r] = "waiting" /\ tries[r] > 0 => idem[Key(r)] # "failed"

\* The key of an accepted transfer does not stay pending.
KeysSettle ==
  \A r \in Requests : http[r] = "accepted" ~> idem[Key(r)] \in {"completed", "failed"}

\* Whoever got "202 Transfer queued" is told how it went, and the key says so: no job
\* waits for ever for a row, a deadlock or a retry.
EveryoneHears ==
  \A r \in Requests : http[r] = "accepted" ~>
    /\ idem[Key(r)] \in {"completed", "failed"}
    /\ \E status \in {"completed", "failed"} : <<r, status>> \in notices
=============================================================================
