-------------------------- MODULE ObserversProofs --------------------------
(***************************************************************************)
(* Proofs about Observers, for any keys, streams, calls and currencies:    *)
(* what streams and analytics tell of transfers is true.                   *)
(***************************************************************************)
EXTENDS Observers, FiniteSetTheorems, TLAPS

\* The kinds of steps.
TransferStep == (\E k \in Keys : Transfer1(k)) /\ UNCHANGED <<streamVars, analyticsVars, heard>>

StreamsStep ==
  /\ (\E s \in Streams : StreamStep(s)) \/ ProcessExit
  /\ UNCHANGED <<vars, analyticsVars, heard>>

Hears ==
  heard' = [c \in Callers |->
              IF where[c] = "idle" /\ where'[c] = "missed" THEN ToldCompleted
              ELSE IF where'[c] \in {"done", "ended"} THEN {}
              ELSE heard[c]]

CallStep(c) == (CallerStep(c) \/ Die(c)) /\ Hears /\ UNCHANGED <<vars, streamVars>>

\* What Redis does by itself, or because it is told again.
RedisActs ==
  \/ LockExpires \/ \E cur \in Currencies : CacheExpires(cur)
  \/ \E c \in Callers : StoreAgain(c) \/ UnlockAgain(c)

RedisStep == RedisActs /\ Hears /\ UNCHANGED <<vars, streamVars>>

LEMMA StepKinds ==
  ASSUME ObserversNext
  PROVE  TransferStep \/ StreamsStep \/ (\E c \in Callers : CallStep(c)) \/ RedisStep
  BY DEF ObserversNext, WatchNext, watchVars, TransferStep, StreamsStep, CallStep, RedisStep, RedisActs,
         Hears

-----------------------------------------------------------------------------
\* Types.
Types ==
  /\ TypeOK /\ StreamTypeOK /\ AnalyticsTypeOK
  /\ heard \in [Callers -> SUBSET Keys]

LEMMA TypesInit == ObserversInit => Types
<1> SUFFICES ASSUME ObserversInit PROVE Types
  OBVIOUS
<1>1. TypeOK
  BY DEF ObserversInit, WatchInit, Init, TypeOK, Status
<1>2. StreamTypeOK
  BY DEF ObserversInit, WatchInit, StreamInit, StreamTypeOK
<1>3. AnalyticsTypeOK
  <2>1. tries \in [Callers -> 0..Tries]
    BY AnalyticsConstants DEF ObserversInit, WatchInit, AnalyticsInit
  <2>2. system \in BOOLEAN /\ strays \in 0..MaxStrays
    BY AnalyticsConstants DEF ObserversInit, WatchInit, AnalyticsInit
  <2>3. /\ where \in [Callers -> Place] /\ lock \in Callers \cup {NoCaller}
        /\ cache \in [Currencies -> Result \cup {Nothing}]
    BY DEF ObserversInit, WatchInit, AnalyticsInit, Place
  <2> QED  BY <2>1, <2>2, <2>3 DEF ObserversInit, WatchInit, AnalyticsInit, AnalyticsTypeOK
<1> QED  BY <1>1, <1>2, <1>3 DEF ObserversInit, WatchInit, Types

LEMMA TransferTypes ==
  ASSUME TypeOK, NEW k \in Keys, Transfer1(k)
  PROVE  TypeOK'
<1>1. CASE Register(k) \/ Fail(k) \/ Settle(k)
  BY <1>1 DEF Register, Fail, Settle, TypeOK, Status
<1>2. CASE moved' = [moved EXCEPT ![k] = {0}] /\ Move(k)
  BY <1>2 DEF Move, TypeOK, Status
<1> QED  BY <1>1, <1>2 DEF Transfer1

LEMMA StreamTypes ==
  ASSUME TypeOK, StreamTypeOK, (\E s \in Streams : StreamStep(s)) \/ ProcessExit
  PROVE  StreamTypeOK'
<1>1. ASSUME NEW s \in Streams, Open(s) \/ Close(s) PROVE StreamTypeOK'
  BY <1>1 DEF Open, Close, StreamTypeOK
<1>2. ASSUME NEW s \in Streams, Poll(s) PROVE StreamTypeOK'
  <2>1. status[subject[s]] \in Status
    BY DEF TypeOK, StreamTypeOK
  <2>2. Shown(subject[s]) \in Status \ {"absent"}
    BY <2>1 DEF Shown, Status
  <2> QED  BY <1>2, <2>2 DEF Poll, StreamTypeOK
<1>3. ASSUME NEW s \in Streams, NEW st \in Status, Handle(s, st) PROVE StreamTypeOK'
  <2>1. st \in Status \ {"absent"}
    BY <1>3 DEF Handle, StreamTypeOK
  <2>2. reading' \in [Streams -> SUBSET (Status \ {"absent"})]
    BY <1>3 DEF Handle, StreamTypeOK
  <2> QED  BY <1>3, <2>1, <2>2 DEF Handle, StreamTypeOK
<1>4. CASE ProcessExit
  BY <1>4 DEF ProcessExit, StreamTypeOK
<1> QED  BY <1>1, <1>2, <1>3, <1>4 DEF StreamStep

LEMMA CallerTypes ==
  ASSUME AnalyticsTypeOK, NEW c \in Callers, CallerStep(c) \/ Die(c)
  PROVE  AnalyticsTypeOK'
<1> USE AnalyticsConstants
<1>0. Booked \subseteq Keys
  BY DEF Booked
<1>1. CASE Look(c)
  BY <1>1 DEF Look, Goes, AnalyticsTypeOK, Place
<1>2. CASE TryLock(c)
  BY <1>2 DEF TryLock, Goes, AnalyticsTypeOK, Place
<1>3. CASE LookAgain(c)
  BY <1>3 DEF LookAgain, MayLook, Goes, AnalyticsTypeOK, Place
<1>4. CASE Query1(c)
  BY <1>0, <1>4 DEF Query1, Goes, AnalyticsTypeOK, Place
<1>5. CASE Query2(c)
  BY <1>0, <1>5 DEF Query2, Goes, AnalyticsTypeOK, Place
<1>6. CASE Throw(c) \/ Return(c) \/ Die(c)
  BY <1>6 DEF Throw, Return, Die, DropResult, Goes, AnalyticsTypeOK, Place
<1>7. CASE Store(c)
  <2>1. Cached(c) \in Result
    BY DEF Cached, Result, AnalyticsTypeOK
  <2>2. cache' \in [Currencies -> Result \cup {Nothing}] /\ newest' \in [Currencies -> SUBSET Keys]
    BY <1>7, <2>1 DEF Store, AnalyticsTypeOK
  <2> QED  BY <1>7, <2>2 DEF Store, DropResult, Goes, AnalyticsTypeOK, Place
<1>8. CASE Unlock(c)
  BY <1>8 DEF Unlock, Goes, AnalyticsTypeOK, Place
<1> QED  BY <1>1, <1>2, <1>3, <1>4, <1>5, <1>6, <1>7, <1>8 DEF CallerStep

LEMMA LoseLockTypes ==
  ASSUME AnalyticsTypeOK, LoseLock
  PROVE  lock' \in Callers \cup {NoCaller} /\ strays' \in 0..MaxStrays
  BY AnalyticsConstants DEF LoseLock, AnalyticsTypeOK

LEMMA RedisTypes ==
  ASSUME AnalyticsTypeOK, RedisActs
  PROVE  AnalyticsTypeOK'
<1>1. CASE LockExpires
  BY <1>1, LoseLockTypes DEF LockExpires, AnalyticsTypeOK
<1>2. ASSUME NEW cur \in Currencies, CacheExpires(cur) PROVE AnalyticsTypeOK'
  BY <1>2 DEF CacheExpires, AnalyticsTypeOK
<1>3. ASSUME NEW c \in Callers, StoreAgain(c) PROVE AnalyticsTypeOK'
  <2>1. Cached(c) \in Result
    BY DEF Cached, Result, AnalyticsTypeOK
  <2>2. cache' \in [Currencies -> Result \cup {Nothing}] /\ newest' \in [Currencies -> SUBSET Keys]
    BY <1>3, <2>1 DEF StoreAgain, AnalyticsTypeOK
  <2> QED  BY <1>3, <2>2 DEF StoreAgain, AnalyticsTypeOK
<1>4. ASSUME NEW c \in Callers, UnlockAgain(c) PROVE AnalyticsTypeOK'
  BY <1>4, LoseLockTypes DEF UnlockAgain, AnalyticsTypeOK
<1> QED  BY <1>1, <1>2, <1>3, <1>4 DEF RedisActs

\* Nothing that Redis does by itself changes where a call is or what it has seen.
LEMMA RedisLeaves ==
  ASSUME RedisActs
  PROVE  UNCHANGED <<system, currency, where, tries, total, parts>>
  BY DEF RedisActs, LockExpires, CacheExpires, StoreAgain, UnlockAgain

LEMMA HearsTypes == Types /\ Hears => heard' \in [Callers -> SUBSET Keys]
<1> SUFFICES ASSUME Types, Hears PROVE heard' \in [Callers -> SUBSET Keys]
  OBVIOUS
<1>1. ToldCompleted \subseteq Keys
  BY DEF ToldCompleted, Types, StreamTypeOK
<1> QED  BY <1>1 DEF Hears, Types

LEMMA TypesNext == Types /\ [ObserversNext]_observerVars => Types'
<1> SUFFICES ASSUME Types, [ObserversNext]_observerVars PROVE Types'
  OBVIOUS
<1>1. CASE TransferStep
  BY <1>1, TransferTypes DEF TransferStep, Types, streamVars, analyticsVars, StreamTypeOK,
                             AnalyticsTypeOK
<1>2. CASE StreamsStep
  BY <1>2, StreamTypes DEF StreamsStep, Types, vars, analyticsVars, TypeOK, AnalyticsTypeOK
<1>3. ASSUME NEW c \in Callers, CallStep(c) PROVE Types'
  BY <1>3, CallerTypes, HearsTypes DEF CallStep, Types, vars, streamVars, TypeOK, StreamTypeOK
<1>4. CASE RedisStep
  BY <1>4, RedisTypes, HearsTypes DEF RedisStep, Types, vars, streamVars, TypeOK, StreamTypeOK
<1>5. CASE UNCHANGED observerVars
  BY <1>5 DEF observerVars, watchVars, vars, streamVars, analyticsVars, Types, TypeOK, StreamTypeOK,
              AnalyticsTypeOK
<1> QED  BY <1>1, <1>2, <1>3, <1>4, <1>5, StepKinds

\* Every variable of the observers keeps its shape: results hold only transfers there are.
THEOREM ObserversTypeCorrect == ObserversSpec => []ObserversTypeOK
<1>1. Types => ObserversTypeOK
  BY DEF Types, ObserversTypeOK
<1> QED  BY <1>1, TypesInit, TypesNext, PTL DEF ObserversSpec

-----------------------------------------------------------------------------
\* What is read of a completed record, and told, stays true: the ledger only grows.
Truth ==
  /\ \A k \in Keys : status[k] = "completed" => moved[k] # {}
  /\ \A s \in Streams : "completed" \in reading[s] => moved[subject[s]] # {}
  /\ ToldTheTruth

LEMMA TruthInit == ObserversInit => Truth
  BY DEF ObserversInit, WatchInit, Init, StreamInit, Truth, ToldTheTruth

\* No transfer is taken back.
LEMMA LedgerGrows ==
  ASSUME Types, [ObserversNext]_observerVars
  PROVE  /\ \A k \in Keys : moved[k] # {} => moved'[k] # {}
         /\ Booked \subseteq Booked'
<1>1. ASSUME TransferStep, NEW k \in Keys, moved[k] # {} PROVE moved'[k] # {}
  BY <1>1 DEF TransferStep, Transfer1, Register, Fail, Settle, Move, Types, TypeOK
<1>2. ~TransferStep => moved' = moved
  BY StepKinds DEF StreamsStep, CallStep, RedisStep, vars, observerVars, watchVars
<1> QED  BY <1>1, <1>2 DEF Booked

LEMMA TruthNext == Types /\ Truth /\ [ObserversNext]_observerVars => Truth'
<1> SUFFICES ASSUME Types, Truth, [ObserversNext]_observerVars PROVE Truth'
  OBVIOUS
<1>1. CASE TransferStep
  <2>1. ASSUME NEW k \in Keys, status'[k] = "completed" PROVE moved'[k] # {}
    <3>1. PICK j \in Keys : Transfer1(j)
      BY <1>1 DEF TransferStep
    <3>2. CASE Register(j) \/ Fail(j) \/ Settle(j)
      BY <2>1, <3>2 DEF Register, Fail, Settle, Types, TypeOK, Truth
    <3>3. CASE Move(j) /\ moved' = [moved EXCEPT ![j] = {0}]
      BY <2>1, <3>3 DEF Move, Types, TypeOK, Truth
    <3> QED  BY <3>1, <3>2, <3>3 DEF Transfer1
  <2>2. subject \in [Streams -> Keys] /\ UNCHANGED <<subject, stream, reading, told>>
    BY <1>1 DEF TransferStep, streamVars, Types, StreamTypeOK
  <2> QED  BY <2>1, <2>2, LedgerGrows DEF Truth, ToldTheTruth
<1>2. CASE StreamsStep
  <2>1. UNCHANGED <<status, moved>> /\ subject' = subject
    BY <1>2 DEF StreamsStep, vars, StreamStep, Open, Poll, Handle, Close, ProcessExit
  <2>2. ASSUME NEW s \in Streams, Open(s) PROVE Truth'
    BY <2>1, <2>2 DEF Open, Types, StreamTypeOK, Truth, ToldTheTruth
  <2>3. ASSUME NEW s \in Streams, Close(s) PROVE Truth'
    BY <2>1, <2>3 DEF Close, Types, StreamTypeOK, Truth, ToldTheTruth
  <2>4. ASSUME NEW s \in Streams, Poll(s) PROVE Truth'
    <3>1. Shown(subject[s]) = "completed" => moved[subject[s]] # {}
      BY DEF Shown, Truth, Types, StreamTypeOK
    <3>2. UNCHANGED <<stream, told>>
      BY <2>4 DEF Poll
    <3>3. \A t \in Streams : "completed" \in reading'[t] => moved[subject[t]] # {}
      BY <2>4, <3>1 DEF Poll, Types, StreamTypeOK, Truth
    <3> QED  BY <2>1, <3>2, <3>3 DEF Truth, ToldTheTruth
  <2>5. ASSUME NEW s \in Streams, NEW st \in Status, Handle(s, st) PROVE Truth'
    <3>1. \A t \in Streams : reading'[t] \subseteq reading[t]
      BY <2>5 DEF Handle, Types, StreamTypeOK
    <3>2. /\ st = "completed" => moved[subject[s]] # {}
          /\ told' = [told EXCEPT ![s] = st] /\ stream[s] = "open"
          /\ stream' = IF st = "completed" THEN [stream EXCEPT ![s] = "ended"] ELSE stream
      BY <2>5 DEF Handle, Ends, Truth
    <3>3. ToldTheTruth'
      BY <2>1, <3>2 DEF ToldTheTruth, Truth, Types, StreamTypeOK
    <3> QED  BY <2>1, <3>1, <3>3 DEF Truth
  <2>6. CASE ProcessExit
    BY <2>1, <2>6 DEF ProcessExit, Types, StreamTypeOK, Truth, ToldTheTruth
  <2> QED  BY <1>2, <2>2, <2>3, <2>4, <2>5, <2>6 DEF StreamsStep, StreamStep
<1>3. CASE UNCHANGED <<vars, streamVars>>
  BY <1>3 DEF vars, streamVars, Truth, ToldTheTruth
<1> QED  BY <1>1, <1>2, <1>3, StepKinds DEF CallStep, RedisStep, observerVars, watchVars

\* Completion is told only of money that has moved, and is the last that is told
\* (streamStatus).
THEOREM StreamsTellTheTruth == ObserversSpec => []ToldTheTruth
<1>1. Truth => ToldTheTruth
  BY DEF Truth
<1> QED  BY <1>1, TypesInit, TypesNext, TruthInit, TruthNext, PTL DEF ObserversSpec

-----------------------------------------------------------------------------
\* All that results hold, and all that clients have heard of, is in the ledger.
Seen ==
  /\ \A c \in Callers :
       total[c] \subseteq Booked /\ parts[c] \subseteq Booked /\ heard[c] \subseteq Booked
  /\ \A cur \in Currencies : newest[cur] \subseteq Booked

LEMMA SeenInit == ObserversInit => Seen
  BY DEF ObserversInit, WatchInit, AnalyticsInit, Seen

\* A step of a call changes no result but its own.
LEMMA OwnResults ==
  ASSUME Types, NEW c \in Callers, CallerStep(c) \/ Die(c)
  PROVE  /\ \A d \in Callers \ {c} :
              where'[d] = where[d] /\ total'[d] = total[d] /\ parts'[d] = parts[d]
         /\ total'[c] \in {total[c], Booked, {}} /\ parts'[c] \in {parts[c], Booked, {}}
         /\ UNCHANGED <<system, currency, strays>>
<1> USE DEF Types, AnalyticsTypeOK
<1>1. CASE Look(c) \/ TryLock(c) \/ LookAgain(c) \/ Unlock(c)
  BY <1>1 DEF Look, TryLock, LookAgain, Unlock, Goes
<1>2. CASE Query1(c) \/ Query2(c)
  BY <1>2 DEF Query1, Query2, Goes
<1>3. CASE Throw(c) \/ Store(c) \/ Return(c) \/ Die(c)
  BY <1>3 DEF Throw, Store, Return, Die, DropResult, Goes
<1> QED  BY <1>1, <1>2, <1>3 DEF CallerStep

LEMMA SeenNext == Types /\ Truth /\ Seen /\ [ObserversNext]_observerVars => Seen'
<1> SUFFICES ASSUME Types, Truth, Seen, [ObserversNext]_observerVars PROVE Seen'
  OBVIOUS
<1>0. Booked \subseteq Booked'
  BY LedgerGrows
<1>1. CASE TransferStep \/ StreamsStep \/ UNCHANGED observerVars
  <2>1. UNCHANGED <<total, parts, newest, heard>>
    BY <1>1 DEF TransferStep, StreamsStep, observerVars, watchVars, analyticsVars
  <2> QED  BY <1>0, <2>1 DEF Seen
<1>2. ASSUME Hears PROVE \A c \in Callers : heard'[c] \subseteq Booked
  <2>1. ToldCompleted \subseteq Booked
    BY DEF ToldCompleted, Booked, Truth, ToldTheTruth, Types, StreamTypeOK
  <2> QED  BY <1>2, <2>1 DEF Hears, Seen
<1>3. ASSUME NEW c \in Callers, CallStep(c) PROVE Seen'
  <2>1. \A d \in Callers : total'[d] \subseteq Booked /\ parts'[d] \subseteq Booked
    BY <1>3, OwnResults DEF CallStep, Seen
  <2>2. \A cur \in Currencies : newest'[cur] \subseteq Booked
    <3>1. CASE newest' = newest
      BY <3>1 DEF Seen
    <3>2. CASE Store(c)
      BY <3>2 DEF Store, Seen, Types, AnalyticsTypeOK
    <3> QED  BY <1>3, <3>1, <3>2 DEF CallStep, CallerStep, Look, TryLock, LookAgain, Query1, Query2,
                                     Throw, Return, Unlock, Die
  <2> QED  BY <1>0, <1>2, <1>3, <2>1, <2>2 DEF CallStep, Seen
<1>4. CASE RedisStep
  <2>1. UNCHANGED <<total, parts>>
    BY <1>4, RedisLeaves DEF RedisStep
  <2>2. \A cur \in Currencies : newest'[cur] \subseteq Booked
    <3>1. CASE newest' = newest
      BY <3>1 DEF Seen
    <3>2. ASSUME NEW c \in Callers, StoreAgain(c)
          PROVE  \A cur \in Currencies : newest'[cur] \subseteq Booked
      BY <3>2 DEF StoreAgain, Seen, Types, AnalyticsTypeOK
    <3> QED  BY <1>4, <3>1, <3>2 DEF RedisStep, RedisActs, LockExpires, CacheExpires, UnlockAgain
  <2> QED  BY <1>0, <1>2, <1>4, <2>1, <2>2 DEF RedisStep, Seen
<1> QED  BY <1>1, <1>3, <1>4, StepKinds

-----------------------------------------------------------------------------
LEMMA TornInit == ObserversInit => TornOneWay
  BY DEF ObserversInit, WatchInit, AnalyticsInit, TornOneWay

LEMMA TornNext == Types /\ Seen /\ TornOneWay /\ [ObserversNext]_observerVars => TornOneWay'
<1> SUFFICES ASSUME Types, Seen, TornOneWay, [ObserversNext]_observerVars PROVE TornOneWay'
  OBVIOUS
<1> DEFINE OneWay(count, breakdown) ==
             IF system THEN breakdown \subseteq count ELSE count \subseteq breakdown
<1>0. system' = system
  BY StepKinds, OwnResults, RedisLeaves
     DEF TransferStep, StreamsStep, CallStep, RedisStep, observerVars, watchVars, analyticsVars
<1>1. CASE UNCHANGED <<where, total, parts, cache>>
  BY <1>0, <1>1 DEF TornOneWay
<1>2. ASSUME NEW c \in Callers, CallStep(c) PROVE TornOneWay'
  <2>1. ASSUME NEW d \in Callers, where'[d] \in {"wonAll", "lostAll"}
        PROVE  OneWay(total'[d], parts'[d])
    <3>1. CASE d # c
      BY <1>2, <2>1, <3>1, OwnResults DEF CallStep, TornOneWay
    <3>2. CASE d = c /\ Query2(c)
      BY <3>2 DEF Query2, CountsFirst, Seen, Types, AnalyticsTypeOK
    <3>3. CASE d = c /\ ~Query2(c)
      <4>1. ~(CallerStep(c) \/ Die(c))
        BY <2>1, <3>3 DEF CallerStep, Look, TryLock, LookAgain, Query1, Throw, Store, Return,
                          Unlock, Die, Goes, Types, AnalyticsTypeOK
      <4> QED  BY <1>2, <4>1 DEF CallStep
    <3> QED  BY <3>1, <3>2, <3>3
  <2>2. ASSUME NEW cur \in Currencies, cache'[cur] # Nothing
        PROVE  OneWay(cache'[cur].total, cache'[cur].parts)
    <3>1. CASE cache' = cache
      BY <2>2, <3>1 DEF TornOneWay
    <3>2. CASE Store(c)
      <4>1. OneWay(total[c], parts[c])
        BY <3>2 DEF Store, TornOneWay
      <4>2. Cached(c).total = total[c] /\ Cached(c).parts = parts[c]
        BY DEF Cached
      <4>3. cache'[cur] \in {cache[cur], Cached(c)}
        BY <3>2 DEF Store, Types, AnalyticsTypeOK
      <4> QED  BY <2>2, <4>1, <4>2, <4>3 DEF TornOneWay
    <3> QED  BY <1>2, <3>1, <3>2 DEF CallStep, CallerStep, Look, TryLock, LookAgain, Query1, Query2,
                                     Throw, Return, Unlock, Die
  <2> QED  BY <1>0, <2>1, <2>2 DEF TornOneWay
<1>3. CASE RedisStep
  <2>1. UNCHANGED <<where, total, parts>>
    BY <1>3, RedisLeaves DEF RedisStep
  <2>2. ASSUME NEW cur \in Currencies, cache'[cur] # Nothing
        PROVE  OneWay(cache'[cur].total, cache'[cur].parts)
    <3>1. CASE cache'[cur] = cache[cur]
      BY <2>2, <3>1 DEF TornOneWay
    <3>2. ASSUME NEW c \in Callers, StoreAgain(c)
          PROVE  OneWay(cache'[cur].total, cache'[cur].parts)
      <4>1. OneWay(total[c], parts[c])
        BY <3>2 DEF StoreAgain, TornOneWay
      <4>2. Cached(c).total = total[c] /\ Cached(c).parts = parts[c]
        BY DEF Cached
      <4>3. cache'[cur] \in {cache[cur], Cached(c)}
        BY <3>2 DEF StoreAgain, Types, AnalyticsTypeOK
      <4> QED  BY <2>2, <4>1, <4>2, <4>3 DEF TornOneWay
    <3>3. ~(\E c \in Callers : StoreAgain(c)) => cache'[cur] \in {cache[cur], Nothing}
      BY <1>3 DEF RedisStep, RedisActs, LockExpires, CacheExpires, UnlockAgain, Types, AnalyticsTypeOK
    <3> QED  BY <2>2, <3>1, <3>2, <3>3
  <2> QED  BY <1>0, <2>1, <2>2 DEF TornOneWay
<1> QED  BY <1>1, <1>2, <1>3, StepKinds
            DEF TransferStep, StreamsStep, observerVars, watchVars, analyticsVars

\* The queries of an answer disagree in one direction only (computeAnalytics,
\* getSystemSummary).
THEOREM TornInOneDirection == ObserversSpec => []TornOneWay
  BY TypesInit, TypesNext, TruthInit, TruthNext, SeenInit, SeenNext, TornInit, TornNext, PTL
  DEF ObserversSpec

-----------------------------------------------------------------------------
\* What the first query of a call has seen.
First(c) == IF CountsFirst THEN total[c] ELSE parts[c]

\* Queries see what the client had been told before.
Informed ==
  \A c \in Callers :
    /\ where[c] \in {"winning", "losing"} => heard[c] \subseteq First(c)
    /\ where[c] \in {"wonAll", "lostAll"} => heard[c] \subseteq total[c] \cap parts[c]

LEMMA InformedInit == ObserversInit => Informed
  BY DEF ObserversInit, WatchInit, AnalyticsInit, Informed

LEMMA InformedNext == Types /\ Seen /\ Informed /\ [ObserversNext]_observerVars => Informed'
<1> SUFFICES ASSUME Types, Seen, Informed, [ObserversNext]_observerVars PROVE Informed'
  OBVIOUS
<1>1. CASE UNCHANGED <<system, where, total, parts, heard>>
  BY <1>1 DEF Informed, First, CountsFirst
<1>2. ASSUME NEW c \in Callers, CallStep(c) PROVE Informed'
  <2>0. system' = system
    BY <1>2, OwnResults DEF CallStep
  <2>1. \A d \in Callers : where'[d] \in {"winning", "losing", "wonAll", "lostAll"} => heard'[d] = heard[d]
    BY <1>2 DEF CallStep, Hears
  <2>2. ASSUME NEW d \in Callers, d # c
        PROVE  /\ where'[d] \in {"winning", "losing"} => heard'[d] \subseteq First(d)'
               /\ where'[d] \in {"wonAll", "lostAll"} => heard'[d] \subseteq total'[d] \cap parts'[d]
    BY <1>2, <2>0, <2>1, <2>2, OwnResults DEF CallStep, Informed, First, CountsFirst
  <2>3. /\ where'[c] \in {"winning", "losing"} => heard'[c] \subseteq First(c)'
        /\ where'[c] \in {"wonAll", "lostAll"} => heard'[c] \subseteq total'[c] \cap parts'[c]
    <3>1. CASE Query1(c)
      <4>1. where'[c] \in {"winning", "losing"} /\ First(c)' = Booked
        BY <2>0, <3>1 DEF Query1, Goes, First, CountsFirst, Types, AnalyticsTypeOK
      <4> QED  BY <2>1, <4>1 DEF Seen
    <3>2. CASE Query2(c)
      <4>1. where[c] \in {"winning", "losing"} /\ where'[c] \in {"wonAll", "lostAll"}
        BY <3>2 DEF Query2, Goes, Types, AnalyticsTypeOK
      <4>2. total'[c] \cap parts'[c] = First(c) \cap Booked
        BY <3>2 DEF Query2, First, CountsFirst, Types, AnalyticsTypeOK
      <4> QED  BY <2>1, <4>1, <4>2 DEF Seen, Informed
    <3>3. CASE ~Query1(c) /\ ~Query2(c)
      <4>1. where'[c] \notin {"winning", "losing", "wonAll", "lostAll"}
        BY <1>2, <3>3 DEF CallStep, CallerStep, Look, TryLock, LookAgain, Throw, Store, Return,
                          Unlock, Die, Goes, Types, AnalyticsTypeOK
      <4> QED  BY <4>1
    <3> QED  BY <3>1, <3>2, <3>3
  <2> QED  BY <2>2, <2>3 DEF Informed
<1>3. CASE RedisStep
  <2>1. UNCHANGED <<system, where, total, parts>>
    BY <1>3, RedisLeaves DEF RedisStep
  <2>2. \A d \in Callers : where'[d] \in {"winning", "losing", "wonAll", "lostAll"} => heard'[d] = heard[d]
    BY <1>3 DEF RedisStep, Hears
  <2> QED  BY <2>1, <2>2 DEF Informed, First, CountsFirst
<1> QED  BY <1>1, <1>2, <1>3, StepKinds
            DEF TransferStep, StreamsStep, observerVars, watchVars, analyticsVars

\* An answer that a call computes itself has, in all of it, the transfers that its client had
\* been told of before it asked (computeAnalytics, getSystemSummary).
THEOREM AnswersAreInformed == ObserversSpec => []ComputedAnswersKnow
<1>1. Informed => ComputedAnswersKnow
  BY DEF Informed, ComputedAnswersKnow
<1> QED  BY <1>1, TypesInit, TypesNext, TruthInit, TruthNext, SeenInit, SeenNext, InformedInit,
            InformedNext, PTL DEF ObserversSpec

-----------------------------------------------------------------------------
\* While no lock has gone too early, the call that computes for the cache has the lock,
\* and what it has seen is not older than what was cached.
Owned ==
  strays = 0 =>
    /\ \A c \in Callers : where[c] \in Winning => lock = c
    /\ \A c \in Callers : where[c] \in {"winning", "wonAll"} =>
         newest[currency[c]] \subseteq total[c] \cup parts[c]
    /\ \A cur \in Currencies : cache[cur] # Nothing =>
         newest[cur] \subseteq cache[cur].total \cup cache[cur].parts

LEMMA OwnedInit == ObserversInit => Owned
  BY DEF ObserversInit, WatchInit, AnalyticsInit, Owned, Winning

LEMMA OwnedNext == Types /\ Seen /\ Owned /\ [ObserversNext]_observerVars => Owned'
<1> SUFFICES ASSUME Types, Seen, Owned, [ObserversNext]_observerVars, strays' = 0 PROVE Owned'
  BY DEF Owned
<1> USE DEF Types, AnalyticsTypeOK
<1>1. CASE UNCHANGED analyticsVars
  BY <1>1 DEF analyticsVars, Owned
<1>2. ASSUME NEW c \in Callers, CallStep(c) PROVE Owned'
  <2>0. strays = 0 /\ UNCHANGED <<system, currency>>
    BY <1>2, OwnResults DEF CallStep
  <2>o. \A d \in Callers \ {c} :
          where'[d] = where[d] /\ total'[d] = total[d] /\ parts'[d] = parts[d]
    BY <1>2, OwnResults DEF CallStep
  <2>1. CASE Look(c) \/ LookAgain(c) \/ Return(c)
    <3>1. where'[c] \notin Winning /\ UNCHANGED <<lock, cache, newest>>
      BY <2>1 DEF Look, LookAgain, Return, Goes, Winning
    <3> QED  BY <2>0, <2>o, <3>1 DEF Owned, Winning
  <2>2. CASE TryLock(c)
    <3>1. /\ UNCHANGED <<cache, newest, total, parts>> /\ where'[c] \in {"won", "lost"}
          /\ where'[c] = "won" => lock' = c /\ lock = NoCaller
          /\ where'[c] # "won" => lock' = lock \/ lock = NoCaller
      BY <2>2 DEF TryLock, LockFree, Goes
    <3>2. lock = NoCaller => \A d \in Callers : where[d] \notin Winning
      BY <2>0, AnalyticsConstants DEF Owned
    <3> QED  BY <2>0, <2>o, <3>1, <3>2 DEF Owned, Winning
  <2>3. CASE Query1(c)
    <3>1. /\ UNCHANGED <<lock, cache, newest>> /\ where'[c] \in {"winning", "losing"}
          /\ where'[c] = "winning" => where[c] = "won"
          /\ Booked \subseteq total'[c] \cup parts'[c]
      BY <2>3 DEF Query1, Goes
    <3>2. newest[currency[c]] \subseteq Booked
      BY DEF Seen
    <3> QED  BY <2>0, <2>o, <3>1, <3>2 DEF Owned, Winning
  <2>4. CASE Query2(c)
    <3>1. /\ UNCHANGED <<lock, cache, newest>> /\ where'[c] \in {"wonAll", "lostAll"}
          /\ where'[c] = "wonAll" => where[c] = "winning"
          /\ Booked \subseteq total'[c] \cup parts'[c]
      BY <2>4 DEF Query2, Goes
    <3>2. newest[currency[c]] \subseteq Booked
      BY DEF Seen
    <3> QED  BY <2>0, <2>o, <3>1, <3>2 DEF Owned, Winning
  <2>5. CASE Throw(c) \/ Die(c)
    <3>1. /\ UNCHANGED <<lock, cache, newest>> /\ where'[c] \in {"done", "ended"}
          /\ where'[c] \in Winning => where[c] \in Winning
      BY <2>5 DEF Throw, Die, Goes, Winning
    <3> QED  BY <2>0, <2>o, <3>1 DEF Owned
  <2>6. CASE Store(c)
    <3>1. /\ where[c] = "wonAll" /\ lock' = lock /\ where'[c] = "done"
          /\ cache' = [cache EXCEPT ![currency[c]] = Cached(c)]
          /\ newest' = [newest EXCEPT ![currency[c]] = @ \cup total[c] \cup parts[c]]
      BY <2>6 DEF Store, Goes
    <3>2. lock = c /\ newest[currency[c]] \subseteq total[c] \cup parts[c]
      BY <2>0, <3>1 DEF Owned, Winning
    <3>3. \A d \in Callers \ {c} : where[d] \notin Winning
      BY <2>0, <3>2 DEF Owned
    <3>4. \A d \in Callers : where'[d] \in Winning => d = c
      BY <2>o, <3>3
    <3>5. \A d \in Callers : where'[d] \notin {"winning", "wonAll"}
      BY <3>1, <3>4 DEF Winning
    <3>6. ASSUME NEW cur \in Currencies, cache'[cur] # Nothing
          PROVE  newest'[cur] \subseteq cache'[cur].total \cup cache'[cur].parts
      <4>1. CASE cur = currency[c]
        <5>1. cache'[cur] = Cached(c) /\ newest'[cur] = newest[cur] \cup total[c] \cup parts[c]
          BY <3>1, <4>1
        <5>2. Cached(c).total = total[c] /\ Cached(c).parts = parts[c]
          BY DEF Cached
        <5> QED  BY <3>2, <4>1, <5>1, <5>2
      <4>2. CASE cur # currency[c]
        BY <2>0, <3>1, <3>6, <4>2 DEF Owned
      <4> QED  BY <4>1, <4>2
    <3> QED  BY <3>1, <3>2, <3>4, <3>5, <3>6 DEF Owned
  <2>7. CASE Unlock(c)
    <3>1. /\ where[c] = "done" /\ where'[c] = "ended" /\ UNCHANGED <<cache, newest, total, parts>>
      BY <2>7 DEF Unlock, Goes
    <3>2. \A d \in Callers \ {c} : where[d] \notin Winning
      BY <2>0, <3>1 DEF Owned, Winning
    <3> QED  BY <2>0, <2>o, <3>1, <3>2 DEF Owned, Winning
  <2> QED  BY <1>2, <2>1, <2>2, <2>3, <2>4, <2>5, <2>6, <2>7 DEF CallStep, CallerStep
<1>3. CASE RedisStep
  <2>1. CASE LockExpires \/ \E c \in Callers : UnlockAgain(c)
    <3>1. /\ LoseLock /\ UNCHANGED <<where, currency, total, parts, cache, newest>>
      BY <2>1 DEF LockExpires, UnlockAgain
    <3>2. strays = 0 /\ ~InUse
      BY <3>1, AnalyticsConstants DEF LoseLock
    <3>3. \A c \in Callers : where[c] \notin Winning
      BY <3>2, AnalyticsConstants DEF Owned, InUse
    <3>4. \A c \in Callers : where[c] \notin {"winning", "wonAll"}
      BY <3>3 DEF Winning
    <3> QED  BY <3>1, <3>2, <3>3, <3>4 DEF Owned
  <2>2. ASSUME NEW cur \in Currencies, CacheExpires(cur) PROVE Owned'
    BY <2>2 DEF CacheExpires, Owned
  <2>3. ASSUME NEW c \in Callers, StoreAgain(c) PROVE Owned'
    <3>1. /\ where[c] = "wonAll" /\ UNCHANGED <<where, currency, total, parts, lock, strays>>
          /\ cache' = [cache EXCEPT ![currency[c]] = Cached(c)]
          /\ newest' = [newest EXCEPT ![currency[c]] = @ \cup total[c] \cup parts[c]]
      BY <2>3 DEF StoreAgain
    <3>2. strays = 0 /\ lock = c /\ newest[currency[c]] \subseteq total[c] \cup parts[c]
      BY <3>1 DEF Owned, Winning
    <3>3. newest' = [newest EXCEPT ![currency[c]] = total[c] \cup parts[c]]
      BY <3>1, <3>2
    <3>4. \A d \in Callers : where[d] \in {"winning", "wonAll"} => d = c
      BY <3>2 DEF Owned, Winning
    <3>5. Cached(c).total = total[c] /\ Cached(c).parts = parts[c]
      BY DEF Cached
    <3>6. ASSUME NEW cur \in Currencies, cache'[cur] # Nothing
          PROVE  newest'[cur] \subseteq cache'[cur].total \cup cache'[cur].parts
      BY <3>1, <3>2, <3>3, <3>5, <3>6 DEF Owned
    <3>7. newest'[currency[c]] \subseteq total[c] \cup parts[c]
      BY <3>3
    <3> QED  BY <3>1, <3>2, <3>4, <3>6, <3>7 DEF Owned
  <2> QED  BY <1>3, <2>1, <2>2, <2>3 DEF RedisStep, RedisActs
<1> QED  BY <1>1, <1>2, <1>3, StepKinds DEF TransferStep, StreamsStep, observerVars, watchVars

-----------------------------------------------------------------------------
\* Whoever computes for the cache and has not the lock has lost it, once for each.
Winners == {c \in Callers : where[c] \in Winning}

Strayed == Cardinality(Winners \ {lock}) <= strays

LEMMA CallersFinite ==
  \A S \in SUBSET Callers : IsFiniteSet(S) /\ Cardinality(S) \in Nat
  BY AnalyticsConstants, FS_Subset, FS_CardinalityType

LEMMA StrayedInit == ObserversInit => Strayed
<1> SUFFICES ASSUME ObserversInit PROVE Strayed
  OBVIOUS
<1>1. Winners \ {lock} = {} /\ strays = 0
  BY DEF ObserversInit, WatchInit, AnalyticsInit, Winners, Winning
<1> QED  BY <1>1, FS_EmptySet DEF Strayed

LEMMA StrayedNext == Types /\ Strayed /\ [ObserversNext]_observerVars => Strayed'
<1> SUFFICES ASSUME Types, Strayed, [ObserversNext]_observerVars PROVE Strayed'
  OBVIOUS
<1> USE DEF Types, AnalyticsTypeOK
<1>0. Winners \in SUBSET Callers /\ Winners \ {lock} \in SUBSET Callers /\ strays \in Nat
  BY AnalyticsConstants DEF Winners
<1>1. CASE UNCHANGED <<where, lock, strays>>
  BY <1>1 DEF Strayed, Winners
<1>2. ASSUME NEW c \in Callers, CallStep(c) PROVE Strayed'
  <2>1. strays' = strays /\ Winners' \ {c} = Winners \ {c}
    BY <1>2, OwnResults DEF CallStep, Winners
  <2>2. CASE Unlock(c)
    <3>1. c \in Winners /\ Winners' = Winners \ {c} /\ lock' = NoCaller
      BY <2>1, <2>2 DEF Unlock, Goes, Winners, Winning
    <3>2. Winners' \ {lock'} = Winners \ {c}
      BY <1>0, <3>1, AnalyticsConstants
    <3>3. Cardinality(Winners \ {c}) <= Cardinality(Winners \ {lock})
      <4>1. Cardinality(Winners \ {c}) = Cardinality(Winners) - 1
        BY <1>0, <3>1, CallersFinite, FS_RemoveElement
      <4>2. Cardinality(Winners \ {lock}) \in {Cardinality(Winners), Cardinality(Winners) - 1}
        BY <1>0, CallersFinite, FS_RemoveElement
      <4> QED  BY <1>0, <4>1, <4>2, CallersFinite
    <3>4. Cardinality(Winners \ {c}) \in Nat /\ Cardinality(Winners \ {lock}) \in Nat
      BY <1>0, CallersFinite
    <3>5. Cardinality(Winners \ {lock}) <= strays
      BY DEF Strayed
    <3>6. Cardinality(Winners \ {c}) <= strays
      <4> HIDE DEF Types, AnalyticsTypeOK
      <4> QED  BY <1>0, <3>3, <3>4, <3>5
    <3> QED  BY <2>1, <3>2, <3>6 DEF Strayed
  <2>3. CASE ~Unlock(c)
    <3>1. Winners' \ {lock'} \subseteq Winners \ {lock}
      <4>1. CASE TryLock(c)
        <5>1. /\ where[c] \notin Winning /\ lock' \in {lock, c} /\ (lock' = lock \/ lock = NoCaller)
              /\ where'[c] \in Winning => lock' = c
          BY <4>1 DEF TryLock, LockFree, Goes, Winning
        <5> QED  BY <2>1, <5>1, AnalyticsConstants DEF Winners
      <4>2. CASE ~TryLock(c)
        <5>1. lock' = lock /\ (where'[c] \in Winning => where[c] \in Winning)
          BY <1>2, <2>3, <4>2 DEF CallStep, CallerStep, Look, LookAgain, Query1, Query2, Throw, Store,
                                  Return, Die, DropResult, Goes, Winning
        <5> QED  BY <2>1, <5>1 DEF Winners
      <4> QED  BY <4>1, <4>2
    <3>2. Cardinality(Winners' \ {lock'}) <= Cardinality(Winners \ {lock})
      BY <1>0, <3>1, CallersFinite, FS_Subset
    <3>3. Cardinality(Winners' \ {lock'}) \in Nat /\ Cardinality(Winners \ {lock}) \in Nat
      BY <1>0, <3>1, CallersFinite
    <3> QED  BY <1>0, <2>1, <3>2, <3>3 DEF Strayed
  <2> QED  BY <2>2, <2>3
<1>3. CASE RedisStep
  <2>1. Winners' = Winners
    BY <1>3, RedisLeaves DEF RedisStep, Winners
  <2>2. CASE UNCHANGED <<lock, strays>>
    BY <2>1, <2>2 DEF Strayed
  <2>3. CASE LoseLock
    <3>1. lock' = NoCaller /\ Winners' \ {lock'} = Winners
      BY <1>0, <2>1, <2>3, AnalyticsConstants DEF LoseLock
    <3>2. CASE InUse
      <4>1. strays' = strays + 1 /\ lock \in Winners
        BY <2>3, <3>2 DEF LoseLock, InUse, Winners
      <4>2. Cardinality(Winners \ {lock}) = Cardinality(Winners) - 1
        BY <1>0, <4>1, CallersFinite, FS_RemoveElement
      <4>3. Cardinality(Winners) \in Nat
        BY <1>0, CallersFinite
      <4>4. Cardinality(Winners \ {lock}) <= strays
        BY DEF Strayed
      <4>5. Cardinality(Winners) <= strays + 1
        <5> HIDE DEF Types, AnalyticsTypeOK
        <5> QED  BY <1>0, <4>2, <4>3, <4>4
      <4> QED  BY <3>1, <4>1, <4>5 DEF Strayed
    <3>3. CASE ~InUse
      <4>1. strays' = strays /\ Winners \ {lock} = Winners
        BY <1>0, <2>3, <3>3, AnalyticsConstants DEF LoseLock, InUse, Winners
      <4> QED  BY <3>1, <4>1 DEF Strayed
    <3> QED  BY <3>2, <3>3
  <2> QED  BY <1>3, <2>2, <2>3 DEF RedisStep, RedisActs, LockExpires, CacheExpires, StoreAgain,
                                   UnlockAgain
<1> QED  BY <1>1, <1>2, <1>3, StepKinds
            DEF TransferStep, StreamsStep, observerVars, watchVars, analyticsVars

\* However the lock is lost, at most one call more computes for the cache than locks have
\* gone too early; while none has, the cache never goes back (cacheable).
THEOREM LockIsEnough == ObserversSpec => []LockProtects
<1>1. Types /\ Owned /\ Strayed => LockProtects
  <2> SUFFICES ASSUME Types, Owned, Strayed PROVE LockProtects
    OBVIOUS
  <2>1. Winners \in SUBSET Callers /\ strays \in Nat
    BY AnalyticsConstants DEF Winners, Types, AnalyticsTypeOK
  <2>2. Cardinality(Winners \ {lock}) \in {Cardinality(Winners), Cardinality(Winners) - 1}
    BY <2>1, CallersFinite, FS_RemoveElement
  <2>3. Cardinality(Winners) <= strays + 1
    BY <2>1, <2>2, CallersFinite DEF Strayed
  <2> QED  BY <2>3 DEF LockProtects, Owned, Winners
<1> QED  BY <1>1, TypesInit, TypesNext, TruthInit, TruthNext, SeenInit, SeenNext, OwnedInit,
            OwnedNext, StrayedInit, StrayedNext, PTL DEF ObserversSpec
=============================================================================
