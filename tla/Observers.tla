----------------------------- MODULE Observers -----------------------------
(***************************************************************************)
(* What clients see of transfers: the streams of StatusStream and the      *)
(* answers of Analytics, beside transfers that take the steps promised by  *)
(* IdempotentTransfer, which Transfer implements.                          *)
(***************************************************************************)
EXTENDS StatusStream, Analytics

VARIABLE heard     \* heard[c]: transfers that streams had told completed before call c

watchVars == <<streamVars, analyticsVars, heard>>

observerVars == <<vars, watchVars>>

WatchInit ==
  /\ StreamInit /\ AnalyticsInit
  /\ heard = [c \in Callers |-> {}]

ObserversInit == Init /\ WatchInit

ToldCompleted == {subject[s] : s \in {t \in Streams : told[t] = "completed"}}

\* A step of the transfers.  One id stands for all: Move asks only that it is new.
Transfer1(k) ==
  \/ Register(k) \/ Fail(k) \/ Settle(k)
  \/ moved' = [moved EXCEPT ![k] = {0}] /\ Move(k)

\* A step of an observer.
WatchNext ==
  \/ /\ (\E s \in Streams : StreamStep(s)) \/ ProcessExit
     /\ UNCHANGED <<analyticsVars, heard>>
  \/ /\ \/ \E c \in Callers : CallerStep(c) \/ Die(c) \/ StoreAgain(c) \/ UnlockAgain(c)
        \/ LockExpires
        \/ \E cur \in Currencies : CacheExpires(cur)
     /\ heard' = [c \in Callers |->
                    IF where[c] = "idle" /\ where'[c] = "missed" THEN ToldCompleted
                    ELSE IF where'[c] \in {"done", "ended"} THEN {}
                    ELSE heard[c]]
     /\ UNCHANGED streamVars

ObserversNext ==
  \/ (\E k \in Keys : Transfer1(k)) /\ UNCHANGED watchVars
  \/ WatchNext /\ UNCHANGED vars

ObserversSpec ==
  ObserversInit /\ [][ObserversNext]_observerVars /\ StreamFairness /\ AnalyticsFairness

-----------------------------------------------------------------------------
\* Every variable of the observers keeps its shape: what is read, shown and cached speaks
\* of transfers there are.
ObserversTypeOK ==
  /\ StreamTypeOK /\ AnalyticsTypeOK
  /\ heard \in [Callers -> SUBSET Keys]

\* An answer that a call computes itself, with the lock or after it has waited in vain for
\* another's, has in every part the transfers that streams had told completed when the
\* call missed the cache.  One that is taken from the cache may be older.
ComputedAnswersKnow ==
  \A c \in Callers : where[c] \in {"wonAll", "lostAll"} =>
    heard[c] \subseteq total[c] \cap parts[c]
=============================================================================
