--------------------------- MODULE ObservedProofs ---------------------------
(***************************************************************************)
(* Theorems about ObservedTransfer, for all values of its constants: the   *)
(* real transfers are to their observers those of IdempotentTransfer, so   *)
(* that what ObserversProofs shows of streams and analytics holds beside   *)
(* queue, workers, retries and faults.                                     *)
(***************************************************************************)
EXTENDS ObservedTransfer, TransferProofs

USE DEF api, store, txn, queue, out, Goto, Mail

\* The observers with what is proved of them.
Proved == INSTANCE ObserversProofs WITH
  status <- idem,
  moved  <- [k \in Keys |-> IF Recorded(k) THEN {0} ELSE {}],
  tries  <- looks,
  Tries  <- Looks

\* What the observers see of the ledger.
Ledger == [k \in Keys |-> IF Recorded(k) THEN {0} ELSE {}]

-----------------------------------------------------------------------------
(***************************************************************************)
(* The transfers, with observers.                                          *)
(***************************************************************************)

LEMMA ObservedKeys == ObservedSpec => []KInv
<1>1. ObservedInit => KInv
  BY InitKeys DEF ObservedInit
<1>2. KInv /\ [ObservedNext]_watched => KInv'
  <2> SUFFICES ASSUME KInv, [ObservedNext]_watched PROVE KInv'
    OBVIOUS
  <2>1. [Next]_vars
    BY DEF ObservedNext, watched
  <2> QED  BY <2>1, NextShape, NextKeys, NextOutcomes DEF KInv
<1> QED  BY <1>1, <1>2, PTL DEF ObservedSpec

\* A step of the transfers is to the observers one that IdempotentTransfer has, or none.
LEMMA StepObserved ==
  ASSUME KInv, [Next]_vars
  PROVE  (\E k \in Keys : Watch!Transfer1(k)) \/ UNCHANGED Watch!vars
<1> USE DEF KInv
<1>m. ASSUME posted' = posted PROVE Ledger' = Ledger
  BY <1>m DEF Ledger, Recorded, Key
<1>1. CASE UNCHANGED <<idem, posted>>
  BY <1>1, <1>m DEF Watch!vars, Ledger
<1>2. ASSUME NEW k \in Keys, idem[k] = "absent", idem' = [idem EXCEPT ![k] = "pending"],
             posted' = posted
      PROVE  Watch!Register(k)
  BY <1>2, <1>m DEF Watch!Register, Ledger
<1>3. ASSUME NEW k \in Keys, idem[k] # "absent", idem' = [idem EXCEPT ![k] = "failed"],
             posted' = posted
      PROVE  Watch!Fail(k)
  BY <1>3, <1>m DEF Watch!Fail, Ledger
<1>4. ASSUME NEW k \in Keys, Recorded(k), idem' = [idem EXCEPT ![k] = "completed"],
             posted' = posted
      PROVE  Watch!Settle(k)
  BY <1>4, <1>m DEF Watch!Settle, Ledger
<1>5. ASSUME NEW r \in Requests, Book(r), Body[r].to \in Wallets,
             idem[Key(r)] = "pending", ~Recorded(Key(r))
      PROVE  Watch!Transfer1(Key(r))
  <2>1. \A k : Recorded(k)' <=> Recorded(k) \/ k = Key(r)
    BY <1>5, PublishRecords DEF Book, Shape
  <2>2. Key(r) \in Keys
    BY BodyShape
  <2>3. Ledger' = [Ledger EXCEPT ![Key(r)] = {0}]
    BY <2>1, <2>2 DEF Ledger
  <2>4. Ledger[Key(r)] = {} /\ 0 \in Ledger'[Key(r)]
    BY <1>5, <2>1, <2>2 DEF Ledger
  <2>5. idem' = [idem EXCEPT ![Key(r)] = "completed"]
    BY <1>5 DEF Book
  <2>6. Watch!Move(Key(r))
    BY <1>5, <2>3, <2>4, <2>5 DEF Watch!Move, Ledger
  <2> QED  BY <2>3, <2>6 DEF Watch!Transfer1, Ledger
<1>6. KeyEffect
  BY StepEffect
<1> QED  BY <1>1, <1>2, <1>3, <1>4, <1>5, <1>6, BodyShape DEF KeyEffect, Watch!Transfer1

LEMMA NextObserved == KInv /\ [ObservedNext]_watched => [Watch!ObserversNext]_(Watch!observerVars)
<1> SUFFICES ASSUME KInv, [ObservedNext]_watched
             PROVE  [Watch!ObserversNext]_(Watch!observerVars)
  OBVIOUS
<1>1. UNCHANGED vars => UNCHANGED Watch!vars
  BY DEF vars, Watch!vars, Recorded, Key
<1>2. UNCHANGED watchers => UNCHANGED Watch!watchVars
  BY DEF watchers, Watch!watchVars, Watch!streamVars, Watch!analyticsVars
<1>3. CASE Next /\ UNCHANGED watchers
  BY <1>2, <1>3, StepObserved DEF Watch!ObserversNext, Watch!observerVars
<1>4. CASE Watch!WatchNext /\ UNCHANGED vars
  BY <1>1, <1>4 DEF Watch!ObserversNext
<1>5. CASE UNCHANGED watched
  BY <1>1, <1>2, <1>5 DEF watched, Watch!observerVars
<1> QED  BY <1>3, <1>4, <1>5 DEF ObservedNext

LEMMA InitObserved == ObservedInit => Watch!ObserversInit
  BY DEF ObservedInit, Init, Watch!ObserversInit, Watch!Init, Recorded

-----------------------------------------------------------------------------
\* Both instances are of one specification.
LEMMA Same ==
  /\ Watch!ObserversInit <=> Proved!ObserversInit
  /\ [Watch!ObserversNext]_(Watch!observerVars) <=> [Proved!ObserversNext]_(Proved!observerVars)
  BY DEF
     Watch!vars, Watch!watchVars, Watch!streamVars, Watch!analyticsVars, Watch!observerVars,
     Watch!Init, Watch!WatchInit, Watch!ObserversInit, Watch!StreamInit,
     Watch!AnalyticsInit, Watch!ObserversNext, Watch!Transfer1, Watch!Register, Watch!Move,
     Watch!Fail, Watch!Settle, Watch!WatchNext, Watch!StreamStep, Watch!Open, Watch!Poll,
     Watch!Shown, Watch!Handle, Watch!Ends, Watch!Close, Watch!ProcessExit, Watch!Uncaught,
     Watch!ToldCompleted, Watch!CallerStep, Watch!Look, Watch!TryLock, Watch!LockFree,
     Watch!LookAgain, Watch!MayLook, Watch!Query1, Watch!Query2, Watch!CountsFirst,
     Watch!Booked, Watch!Throw, Watch!Winning, Watch!DropResult, Watch!Store, Watch!Cached,
     Watch!Return, Watch!Unlock, Watch!Die, Watch!LockExpires, Watch!CacheExpires,
     Watch!InUse, Watch!LoseLock, Watch!StoreAgain, Watch!UnlockAgain, Watch!Goes,
     Watch!Status, Proved!vars, Proved!watchVars, Proved!streamVars, Proved!analyticsVars,
     Proved!observerVars, Proved!Init, Proved!WatchInit, Proved!ObserversInit,
     Proved!StreamInit, Proved!AnalyticsInit, Proved!ObserversNext, Proved!Transfer1,
     Proved!Register, Proved!Move, Proved!Fail, Proved!Settle, Proved!WatchNext,
     Proved!StreamStep, Proved!Open, Proved!Poll, Proved!Shown, Proved!Handle, Proved!Ends,
     Proved!Close, Proved!ProcessExit, Proved!Uncaught, Proved!ToldCompleted,
     Proved!CallerStep, Proved!Look, Proved!TryLock, Proved!LockFree, Proved!LookAgain,
     Proved!MayLook, Proved!Query1, Proved!Query2, Proved!CountsFirst, Proved!Booked,
     Proved!Throw, Proved!Winning, Proved!DropResult, Proved!Store, Proved!Cached,
     Proved!Return, Proved!Unlock, Proved!Die, Proved!LockExpires, Proved!CacheExpires,
     Proved!InUse, Proved!LoseLock, Proved!StoreAgain, Proved!UnlockAgain, Proved!Goes,
     Proved!Status

\* What the observers know, read and are told.
Known == Proved!Types /\ Proved!Truth /\ Proved!Seen /\ Proved!Informed

LEMMA KnownInvariant == ObservedSpec => []Known
<1>0. Proved!AnalyticsConstants
  BY ObservedConstants DEF Proved!AnalyticsConstants, Proved!Result, IsFiniteSet, Proved!IsFiniteSet
<1>1. ObservedInit => Known
  BY <1>0, InitObserved, Same, Proved!TypesInit, Proved!TruthInit, Proved!SeenInit,
     Proved!InformedInit DEF Known
<1>2. KInv /\ Known /\ [ObservedNext]_watched => Known'
  BY <1>0, NextObserved, Same, Proved!TypesNext, Proved!TruthNext, Proved!SeenNext,
     Proved!InformedNext DEF Known
<1> QED  BY <1>1, <1>2, ObservedKeys, PTL DEF ObservedSpec

\* What "in the ledger" means to the observers.
LEMMA BookedIsPosted ==
  ASSUME NEW k \in Keys, Ledger[k] # {}
  PROVE  \E i \in DOMAIN posted : Body[posted[i].req].key = k
  BY DEF Ledger, Recorded, Key

\* Who is told by a stream that a transfer is completed finds it in the ledger, whatever
\* attempts, crashes and late failures its key has seen (streamStatus, processTransfer).
THEOREM ToldTransfersArePosted == ObservedSpec => []ToldIsPosted
<1>1. Known => ToldIsPosted
  <2> SUFFICES ASSUME Known, NEW s \in Streams, told[s] = "completed"
               PROVE  \E i \in DOMAIN posted : Body[posted[i].req].key = subject[s]
    BY DEF ToldIsPosted
  <2>1. subject[s] \in Keys
    BY DEF Known, Proved!Types, Proved!StreamTypeOK
  <2>2. Ledger[subject[s]] # {}
    BY DEF Known, Proved!Truth, Proved!ToldTheTruth, Ledger
  <2> QED  BY <2>1, <2>2, BookedIsPosted
<1> QED  BY <1>1, KnownInvariant, PTL

\* An answer computed for a client that was told of a transfer has it in every part, and
\* the ledger has it too (computeAnalytics, getSystemSummary, streamStatus).
THEOREM AnswersArePosted == ObservedSpec => []AnswersHavePosted
<1>1. Known => AnswersHavePosted
  <2> SUFFICES ASSUME Known, NEW c \in Callers, where[c] \in {"wonAll", "lostAll"},
                      NEW k \in heard[c]
               PROVE  /\ k \in total[c] \cap parts[c]
                      /\ \E i \in DOMAIN posted : Body[posted[i].req].key = k
    BY DEF AnswersHavePosted
  <2>1. k \in total[c] \cap parts[c]
    BY DEF Known, Proved!Informed
  <2>2. k \in Keys /\ Ledger[k] # {}
    BY DEF Known, Proved!Seen, Proved!Booked, Ledger
  <2> QED  BY <2>1, <2>2, BookedIsPosted
<1> QED  BY <1>1, KnownInvariant, PTL
=============================================================================
