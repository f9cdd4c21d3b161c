------------------------------ MODULE Lockout ------------------------------
(***************************************************************************)
(* The lockout of one identifier: utils/lockout.ts around a method (here   *)
(* loginUser), its script utils/lockout.lua, and the administrator's       *)
(* lockUser and unlockUser, which write the lock's key directly.           *)
(*                                                                         *)
(* Two keys of Redis expire by themselves.  A key with a TTL of n seconds  *)
(* is modelled by the n that TTL reports, which Redis rounds: in its last  *)
(* half second a key exists and reports 0.  The seconds of both keys tick  *)
(* together.                                                               *)
(***************************************************************************)
EXTENDS Integers, FiniteSets

CONSTANTS
  Calls,           \* calls of the method with this identifier
  Threshold,       \* failures that lock
  Window,          \* seconds that a counter lives
  LockSeconds,     \* seconds that the script locks for
  AdminSeconds,    \* the durations administrators lock for, in seconds
  MaxResends       \* scripts that the client sends again for want of an answer

ASSUME LockoutConstants ==
  /\ IsFiniteSet(Calls)
  /\ Threshold \in Nat \ {0} /\ Window \in Nat \ {0} /\ LockSeconds \in Nat \ {0}
  /\ AdminSeconds \subseteq Nat \ {0}
  /\ MaxResends \in Nat

\* What the model says of a key that does not exist.
Absent == -1

VARIABLES
  lock,            \* the seconds that TTL reports of the lock, or Absent
  fails,           \* the failure counter; 0 stands for no key
  left,            \* the seconds that TTL reports of the counter, or Absent
  call,            \* call[c]: where the call is
  resends,         \* scripts sent again so far
  counted,         \* calls counted in the counter there is
  again,           \* scripts sent again in the counter there is
  told             \* calls told of a wrong password while the counter there is counts

vars == <<lock, fails, left, call, resends, counted, again, told>>

CallState == {"idle", "body", "clear", "count", "in", "wrong", "locked", "error"}

Advance(c, state) == call' = [call EXCEPT ![c] = state]

Init ==
  /\ lock = Absent /\ fails = 0 /\ left = Absent
  /\ call = [c \in Calls |-> "idle"]
  /\ resends = 0 /\ counted = {} /\ again = 0 /\ told = 0

Locked == lock > 0

\* The decorator looks at the lock before the method runs.
Check(c) ==
  /\ call[c] = "idle"
  /\ Advance(c, IF Locked THEN "locked" ELSE "body")
  /\ UNCHANGED <<lock, fails, left, resends, counted, again, told>>

\* The method succeeds, throws Unauthorized, or throws anything else.
Body(c) ==
  /\ call[c] = "body"
  /\ \E state \in {"clear", "count", "error"} : Advance(c, state)
  /\ UNCHANGED <<lock, fails, left, resends, counted, again, told>>

\* Mutant: a success forgets the lock too.
LockAfterSuccess == Absent

LockAfterClear == lock

\* Mutant: a success leaves the counter to its window.
KeepCounter == UNCHANGED <<fails, left>>

DeleteCounter == fails' = 0 /\ left' = Absent

\* What is recorded of a counter ends with it.
NewLife == counted' = {} /\ again' = 0 /\ told' = 0

\* A success deletes the counter, whoever has locked meanwhile.
Clear(c) ==
  /\ call[c] = "clear"
  /\ Advance(c, "in")
  /\ lock' = LockAfterClear
  /\ DeleteCounter /\ NewLife
  /\ UNCHANGED resends

\* Mutant: one failure more.
FullAbove(n) == n > Threshold

Full(n) == n >= Threshold

\* Mutant: the window starts with the last failure.
LeftWhenFull == IF Full(fails + 1) THEN Window ELSE left

\* incr, with expire for a new counter.
LeftAfterIncr == IF fails = 0 THEN Window ELSE left

\* evalsha has run the script but its answer is lost: it is sent again.
Resend ==
  /\ resends < MaxResends
  /\ resends' = resends + 1 /\ again' = again + 1
  /\ UNCHANGED <<call, told>>

\* The script; its answer decides what the caller is told.
Count(c) ==
  /\ call[c] = "count"
  /\ \/ Locked /\ Advance(c, "locked") /\ UNCHANGED <<lock, fails, left, resends, counted, again, told>>
     \/ /\ ~Locked
        /\ fails' = fails + 1 /\ left' = LeftAfterIncr
        /\ lock' = IF Full(fails + 1) /\ lock = Absent THEN LockSeconds ELSE lock
        /\ counted' = counted \cup {c}
        /\ \/ /\ Advance(c, IF Full(fails + 1) THEN "locked" ELSE "wrong")
              /\ told' = IF Full(fails + 1) THEN told ELSE told + 1
              /\ UNCHANGED <<resends, again>>
           \/ Resend

\* lockUser: SET without NX, over any lock there is.
LockUser ==
  /\ \E s \in AdminSeconds : lock' = s
  /\ UNCHANGED <<fails, left, call, resends, counted, again, told>>

\* unlockUser: the lock's key, not the counter's.
UnlockUser ==
  /\ lock' = Absent
  /\ UNCHANGED <<fails, left, call, resends, counted, again, told>>

Older(seconds) == IF seconds = Absent THEN Absent ELSE seconds - 1

\* A second passes.
Tick ==
  /\ lock' = Older(lock)
  /\ IF left = 0
     THEN fails' = 0 /\ left' = Absent /\ NewLife
     ELSE left' = Older(left) /\ UNCHANGED <<fails, counted, again, told>>
  /\ UNCHANGED <<call, resends>>

Next ==
  \/ \E c \in Calls : Check(c) \/ Body(c) \/ Clear(c) \/ Count(c)
  \/ LockUser \/ UnlockUser \/ Tick

Spec == Init /\ [][Next]_vars

-----------------------------------------------------------------------------
\* Every variable keeps its shape, and a counter always has a time to live: incr
\* and expire are one step, so that no crash leaves a counter that never ends.
TypeOK ==
  /\ lock \in Nat \cup {Absent}
  /\ fails \in Nat
  /\ left \in 0..Window \cup {Absent}
  /\ fails = 0 <=> left = Absent
  /\ call \in [Calls -> CallState]
  /\ resends \in 0..MaxResends
  /\ counted \subseteq Calls
  /\ again \in 0..resends
  /\ told \in Nat

\* In the life of a counter fewer than Threshold callers learn that their password
\* was wrong, however many were past the first check when the lock fell, and however
\* often an administrator unlocks meanwhile (utils/lockout.lua).
GuessesBounded == told <= fails /\ told < Threshold

\* The script locks only for Threshold failures since the last success and within one
\* window: each stands for a call that failed, or for a script that was sent again.
LockEarned ==
  [][fails' > fails /\ lock' # lock =>
       Cardinality(counted') + again' >= Threshold]_vars

\* No call takes a lock away or makes it shorter, be it the script's or an
\* administrator's: not the success of a call that was let in before it, and not a
\* failure that is counted late.
CallsKeepLocks == [][call' # call => lock' >= lock]_vars
=============================================================================
