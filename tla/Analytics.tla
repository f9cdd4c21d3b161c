----------------------------- MODULE Analytics -----------------------------
(***************************************************************************)
(* Analytics of the ledger behind a cache (services/analytics.services.ts, *)
(* utils/cache-decorator.ts), beside the transfers as IdempotentTransfer   *)
(* promises them.                                                          *)
(*                                                                         *)
(* The calls are about one subject: a user (computeAnalytics) or the whole *)
(* system (getSystemSummary).  The cache has a key per currency, but the   *)
(* lock is one for the subject.  A result says which transfers each of its *)
(* queries has seen: every query has its own snapshot.  The keys of Redis  *)
(* expire at any time, and a command whose answer is lost is sent again.   *)
(***************************************************************************)
EXTENDS IdempotentTransfer, FiniteSets

CONSTANTS
  Callers,         \* calls
  NoCaller,        \* no call
  Nothing,         \* no result
  Currencies,      \* base currencies
  Tries,           \* looks into the cache without the lock
  MaxStrays        \* bound on strays

Result == [total : SUBSET Keys, parts : SUBSET Keys]

ASSUME AnalyticsConstants ==
  /\ NoCaller \notin Callers /\ Nothing \notin Result
  /\ IsFiniteSet(Callers)
  /\ Tries \in Nat /\ MaxStrays \in Nat

VARIABLES
  system,          \* whether the calls are for the system's summary
  currency,        \* currency[c]: the base currency of the call
  where,           \* where[c]: where the call is
  tries,           \* tries[c]: looks into the cache it still has
  total,           \* total[c]: the transfers its count has seen
  parts,           \* parts[c]: those its breakdown has seen
  cache,           \* cache[cur]: a result, or Nothing
  lock,            \* the call that has set the lock's key there is, or NoCaller
  strays,          \* how often the lock has gone before the call that set it was through
  newest           \* newest[cur]: the transfers in the results cached so far

analyticsVars ==
  <<system, currency, where, tries, total, parts, cache, lock, strays, newest>>

\* A call that has set the lock goes from "won" to "done", where it has stored its result
\* or thrown; one without goes from "lost" to "lostAll".  A call ends by answering,
\* failing or dying.
Place == {"idle", "missed", "won", "winning", "wonAll", "done", "lost", "losing", "lostAll",
          "ended"}

Winning == {"won", "winning", "wonAll", "done"}

\* The transfers in the ledger.
Booked == {k \in Keys : moved[k] # {}}

Goes(c, place) == where' = [where EXCEPT ![c] = place]

AnalyticsInit ==
  /\ system \in BOOLEAN
  /\ currency \in [Callers -> Currencies]
  /\ where = [c \in Callers |-> "idle"]
  /\ tries = [c \in Callers |-> Tries]
  /\ total = [c \in Callers |-> {}]
  /\ parts = [c \in Callers |-> {}]
  /\ cache = [cur \in Currencies |-> Nothing]
  /\ lock = NoCaller
  /\ strays = 0
  /\ newest = [cur \in Currencies |-> {}]

\* What a call that has ended saw no longer matters.
DropResult(c) ==
  /\ total' = [total EXCEPT ![c] = {}]
  /\ parts' = [parts EXCEPT ![c] = {}]

Look(c) ==
  /\ where[c] = "idle"
  /\ Goes(c, IF cache[currency[c]] # Nothing THEN "ended" ELSE "missed")
  /\ UNCHANGED <<system, currency, tries, total, parts, cache, lock, strays, newest>>

\* Mutant: SET without NX.
LockFreeForAll == TRUE

LockFree == lock = NoCaller

\* SET NX.  Sent a second time it finds the key that the first has set: nobody gets the lock.
TryLock(c) ==
  /\ where[c] = "missed"
  /\ IF LockFree
     THEN lock' = c /\ (Goes(c, "won") \/ Goes(c, "lost"))
     ELSE UNCHANGED lock /\ Goes(c, "lost")
  /\ UNCHANGED <<system, currency, tries, total, parts, cache, strays, newest>>

\* Mutant: a call without the lock looks until somebody has stored a result.
LooksAgain(c) == TRUE

MayLook(c) == tries[c] > 0

\* 200 ms later, without the lock.
LookAgain(c) ==
  /\ where[c] = "lost" /\ MayLook(c)
  /\ tries' = [tries EXCEPT ![c] = IF @ = 0 THEN 0 ELSE @ - 1]
  /\ IF cache[currency[c]] # Nothing THEN Goes(c, "ended") ELSE UNCHANGED where
  /\ UNCHANGED <<system, currency, total, parts, cache, lock, strays, newest>>

-----------------------------------------------------------------------------
\* Mutant: the system's total is counted before its breakdown is read.
TotalFirst == TRUE

CountsFirst == ~system

\* The first query: a user's transactions are counted first, and a system's last.
Query1(c) ==
  /\ where[c] = "won" \/ (where[c] = "lost" /\ ~MayLook(c))
  /\ IF CountsFirst
     THEN total' = [total EXCEPT ![c] = Booked] /\ UNCHANGED parts
     ELSE parts' = [parts EXCEPT ![c] = Booked] /\ UNCHANGED total
  /\ Goes(c, IF where[c] = "won" THEN "winning" ELSE "losing")
  /\ UNCHANGED <<system, currency, tries, cache, lock, strays, newest>>

\* The other query.  The largest transfer, which comes last, is left out.
Query2(c) ==
  /\ where[c] \in {"winning", "losing"}
  /\ IF CountsFirst
     THEN parts' = [parts EXCEPT ![c] = Booked] /\ UNCHANGED total
     ELSE total' = [total EXCEPT ![c] = Booked] /\ UNCHANGED parts
  /\ Goes(c, IF where[c] = "winning" THEN "wonAll" ELSE "lostAll")
  /\ UNCHANGED <<system, currency, tries, cache, lock, strays, newest>>

\* A query or a conversion throws.
Throw(c) ==
  /\ where[c] \in {"won", "winning", "wonAll", "losing", "lostAll"}
  /\ Goes(c, IF where[c] \in Winning THEN "done" ELSE "ended")
  /\ DropResult(c)
  /\ UNCHANGED <<system, currency, tries, cache, lock, strays, newest>>

\* Mutant: the computation is not awaited, and its promise is cached as an empty object.
CachedPromise(c) == <<>>

Cached(c) == [total |-> total[c], parts |-> parts[c]]

\* Conversions are done; the winner's result is cached, whoever has the lock by now.
Store(c) ==
  /\ where[c] = "wonAll"
  /\ cache' = [cache EXCEPT ![currency[c]] = Cached(c)]
  /\ newest' = [newest EXCEPT ![currency[c]] = @ \cup total[c] \cup parts[c]]
  /\ Goes(c, "done") /\ DropResult(c)
  /\ UNCHANGED <<system, currency, tries, lock, strays>>

\* A call without the lock keeps its result to itself.
Return(c) ==
  /\ where[c] = "lostAll"
  /\ Goes(c, "ended") /\ DropResult(c)
  /\ UNCHANGED <<system, currency, tries, cache, lock, strays, newest>>

\* finally: DEL, whoever has set the lock by now.
Unlock(c) ==
  /\ where[c] = "done"
  /\ lock' = NoCaller
  /\ Goes(c, "ended")
  /\ UNCHANGED <<system, currency, tries, total, parts, cache, strays, newest>>

\* The process dies, and leaves the lock to its time to live.
Die(c) ==
  /\ where[c] \notin {"idle", "ended"}
  /\ Goes(c, "ended") /\ DropResult(c)
  /\ UNCHANGED <<system, currency, tries, cache, lock, strays, newest>>

\* Who has set the lock that there is still computes for the cache, or is to delete it.
InUse == lock # NoCaller /\ where[lock] \in Winning

LoseLock ==
  /\ lock' = NoCaller
  /\ IF InUse THEN strays < MaxStrays /\ strays' = strays + 1 ELSE UNCHANGED strays

LockExpires ==
  /\ lock # NoCaller
  /\ LoseLock
  /\ UNCHANGED <<system, currency, where, tries, total, parts, cache, newest>>

\* The answer to the SET of a result, or to a DEL, is lost: the client sends it again.
StoreAgain(c) ==
  /\ where[c] = "wonAll"
  /\ cache' = [cache EXCEPT ![currency[c]] = Cached(c)]
  /\ newest' = [newest EXCEPT ![currency[c]] = @ \cup total[c] \cup parts[c]]
  /\ UNCHANGED <<system, currency, where, tries, total, parts, lock, strays>>

UnlockAgain(c) ==
  /\ where[c] = "done"
  /\ LoseLock
  /\ UNCHANGED <<system, currency, where, tries, total, parts, cache, newest>>

CacheExpires(cur) ==
  /\ cache[cur] # Nothing
  /\ cache' = [cache EXCEPT ![cur] = Nothing]
  /\ UNCHANGED <<system, currency, where, tries, total, parts, lock, strays, newest>>

CallerStep(c) ==
  \/ Look(c) \/ TryLock(c) \/ LookAgain(c)
  \/ Query1(c) \/ Query2(c) \/ Throw(c)
  \/ Store(c) \/ Return(c) \/ Unlock(c)

\* A call goes on unless it dies, though its commands may be sent again.
AnalyticsFairness == \A c \in Callers : WF_analyticsVars(CallerStep(c))

-----------------------------------------------------------------------------
AnalyticsTypeOK ==
  /\ system \in BOOLEAN
  /\ currency \in [Callers -> Currencies]
  /\ where \in [Callers -> Place]
  /\ tries \in [Callers -> 0..Tries]
  /\ total \in [Callers -> SUBSET Keys]
  /\ parts \in [Callers -> SUBSET Keys]
  /\ cache \in [Currencies -> Result \cup {Nothing}]
  /\ lock \in Callers \cup {NoCaller}
  /\ strays \in 0..MaxStrays
  /\ newest \in [Currencies -> SUBSET Keys]

\* The queries of one answer have different snapshots, but the ledger only grows and
\* the order of the queries is fixed: a user's count never exceeds the credits and
\* debits shown beside it, and a system's breakdown never exceeds its count, computed
\* or cached.
TornOneWay ==
  LET OneWay(count, breakdown) ==
        IF system THEN breakdown \subseteq count ELSE count \subseteq breakdown
  IN  /\ \A c \in Callers : where[c] \in {"wonAll", "lostAll"} => OneWay(total[c], parts[c])
      /\ \A cur \in Currencies :
           cache[cur] # Nothing => OneWay(cache[cur].total, cache[cur].parts)

\* However often the lock expires under the call that computes, and whosever lock a call
\* deletes at its end or with a DEL sent twice, at most one call more computes for the
\* cache than locks have gone too early.  As long as none has, no result is cached that
\* misses what an earlier one of its currency had.
LockProtects ==
  /\ Cardinality({c \in Callers : where[c] \in Winning}) <= strays + 1
  /\ strays = 0 => \A cur \in Currencies :
       cache[cur] # Nothing => newest[cur] \subseteq cache[cur].total \cup cache[cur].parts

\* Every call ends, though the one with the lock may die or be slow.
CallsEnd == \A c \in Callers : where[c] # "idle" ~> where[c] = "ended"
=============================================================================
