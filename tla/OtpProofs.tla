----------------------------- MODULE OtpProofs -----------------------------
(***************************************************************************)
(* Proofs about Lockout and Otp, for any number of calls, any threshold,   *)
(* durations and rate limit.  Seen from the lockout, all that Otp has in   *)
(* front of it and beside it is one more client; what codes and            *)
(* verifications open, and how many codes there are, follows from an       *)
(* invariant about what the keys and the calls hold.                       *)
(***************************************************************************)
EXTENDS Otp, FiniteSetTheorems, TLAPS

USE LockoutConstants


-----------------------------------------------------------------------------
(***************************************************************************)
(* The lockout.                                                            *)
(***************************************************************************)

LEMMA TypesInit == Init => TypeOK
  BY DEF Init, TypeOK, CallState, Absent

LEMMA TypesNext == TypeOK /\ [Next]_vars => TypeOK'
<1> SUFFICES ASSUME TypeOK, [Next]_vars PROVE TypeOK'
  OBVIOUS
<1> USE DEF TypeOK
<1>1. ASSUME NEW c \in Calls, Check(c) PROVE TypeOK'
  BY <1>1 DEF Check, Advance, CallState
<1>2. ASSUME NEW c \in Calls, Body(c) PROVE TypeOK'
  BY <1>2 DEF Body, Advance, CallState
<1>3. ASSUME NEW c \in Calls, Clear(c) PROVE TypeOK'
  BY <1>3 DEF Clear, Advance, CallState, LockAfterClear, DeleteCounter, NewLife
<1>4. ASSUME NEW c \in Calls, Count(c) PROVE TypeOK'
  <2>1. CASE Locked /\ Advance(c, "locked") /\ UNCHANGED <<lock, fails, left, resends, counted, again, told>>
    BY <2>1 DEF Advance, CallState
  <2>2. CASE ~(Locked /\ Advance(c, "locked") /\ UNCHANGED <<lock, fails, left, resends, counted, again, told>>)
    <3>1. /\ fails' = fails + 1 /\ left' = LeftAfterIncr
          /\ lock' = IF Full(fails + 1) /\ lock = Absent THEN LockSeconds ELSE lock
          /\ counted' = counted \cup {c}
          /\ told' \in Nat
      BY <1>4, <2>2 DEF Count, Resend
    <3>2. fails' \in Nat /\ fails' # 0 /\ left' \in 0..Window /\ lock' \in Nat \cup {Absent}
      BY <3>1 DEF LeftAfterIncr, Absent
    <3>3. resends' \in 0..MaxResends /\ again' \in 0..resends'
      BY <1>4, <2>2 DEF Count, Resend
    <3>4. call' \in [Calls -> CallState]
      BY <1>4, <2>2 DEF Count, Resend, Advance, CallState
    <3> QED  BY <3>1, <3>2, <3>3, <3>4 DEF Absent
  <2> QED  BY <2>1, <2>2
<1>5. CASE LockUser \/ UnlockUser
  BY <1>5 DEF LockUser, UnlockUser
<1>6. CASE Tick
  <2>1. lock' \in Nat \cup {Absent}
    BY <1>6 DEF Tick, Older, Absent
  <2>2. CASE left = 0
    BY <1>6, <2>1, <2>2 DEF Tick, NewLife
  <2>3. CASE left # 0
    BY <1>6, <2>1, <2>3 DEF Tick, Older, Absent
  <2> QED  BY <2>2, <2>3
<1>7. CASE UNCHANGED vars
  BY <1>7 DEF vars
<1> QED  BY <1>1, <1>2, <1>3, <1>4, <1>5, <1>6, <1>7 DEF Next

THEOREM LockoutTypeCorrect == Spec => []TypeOK
  BY TypesInit, TypesNext, PTL DEF Spec

-----------------------------------------------------------------------------
\* Calls that have left the script: each stands for one failure.
Settled == {c \in counted : call[c] # "count"}

\* Who was told is a failure, and no failure that fills the counter is told; every
\* failure is a call that has left the script, or a script sent again.
Counting ==
  /\ told <= fails /\ told < Threshold
  /\ fails <= Cardinality(Settled) + again
  /\ \A c \in counted : call[c] \in {"count", "wrong", "locked"}

LEMMA SettledFinite == TypeOK => IsFiniteSet(Settled) /\ IsFiniteSet(counted)
  BY FS_Subset DEF TypeOK, Settled

LEMMA CountingInit == Init => Counting
  BY FS_EmptySet DEF Init, Counting, Settled

\* A step that leaves the counter and the calls that it has counted alone.
LEMMA CountingStill ==
  ASSUME Counting, UNCHANGED <<fails, again, told, counted>>,
         \A c \in counted : call'[c] = call[c]
  PROVE  Counting'
<1>1. Settled' = Settled
  BY DEF Settled
<1> QED  BY <1>1 DEF Counting

LEMMA NewLifeCounts ==
  ASSUME fails' = 0, NewLife
  PROVE  Counting'
<1>1. Settled' = {}
  BY DEF NewLife, Settled
<1> QED  BY <1>1, FS_EmptySet DEF NewLife, Counting

LEMMA CountingNext == TypeOK /\ Counting /\ [Next]_vars => Counting'
<1> SUFFICES ASSUME TypeOK, Counting, [Next]_vars PROVE Counting'
  OBVIOUS
<1>0. /\ fails \in Nat /\ again \in Nat /\ told \in Nat
      /\ IsFiniteSet(Settled) /\ Cardinality(Settled) \in Nat
  BY SettledFinite, FS_CardinalityType DEF TypeOK
<1>1. ASSUME NEW c \in Calls, Check(c) \/ Body(c) PROVE Counting'
  <2>1. UNCHANGED <<fails, again, told, counted>> /\ call[c] \in {"idle", "body"}
        /\ \A d \in Calls \ {c} : call'[d] = call[d]
    BY <1>1 DEF Check, Body, Advance, TypeOK
  <2>2. c \notin counted
    BY <2>1 DEF Counting
  <2> QED  BY <2>1, <2>2, CountingStill DEF TypeOK
<1>2. ASSUME NEW c \in Calls, Clear(c) PROVE Counting'
  BY <1>2, NewLifeCounts DEF Clear, DeleteCounter
<1>3. ASSUME NEW c \in Calls, Count(c) PROVE Counting'
  <2>0. c \notin Settled /\ call[c] = "count"
    BY <1>3 DEF Count, Resend, Settled
  <2>1. Cardinality(Settled \cup {c}) = Cardinality(Settled) + 1
    BY <1>0, <2>0, FS_AddElement
  <2>2. CASE Locked /\ Advance(c, "locked") /\ UNCHANGED <<lock, fails, left, resends, counted, again, told>>
    <3>1. Settled' = IF c \in counted THEN Settled \cup {c} ELSE Settled
      BY <2>0, <2>2 DEF Advance, Settled, TypeOK
    <3>2. Cardinality(Settled) <= Cardinality(Settled')
      BY <1>0, <2>1, <3>1
    <3>3. Cardinality(Settled') \in Nat
      BY <1>0, <2>1, <3>1
    <3>4. \A d \in counted' : call'[d] \in {"count", "wrong", "locked"}
      BY <2>2 DEF Advance, Counting, TypeOK
    <3> QED  BY <1>0, <2>2, <3>2, <3>3, <3>4 DEF Counting
  <2>3. CASE /\ ~Locked /\ fails' = fails + 1 /\ counted' = counted \cup {c}
             /\ Advance(c, IF Full(fails + 1) THEN "locked" ELSE "wrong")
             /\ told' = IF Full(fails + 1) THEN told ELSE told + 1
             /\ again' = again
    <3>1. call'[c] \in {"wrong", "locked"} /\ \A d \in Calls \ {c} : call'[d] = call[d]
      BY <2>3 DEF Advance, TypeOK
    <3>2. Settled' = Settled \cup {c}
      BY <2>3, <3>1 DEF Settled, TypeOK
    <3>3. \A d \in counted' : call'[d] \in {"count", "wrong", "locked"}
      BY <2>3, <3>1 DEF Counting, TypeOK
    <3>4. told' <= fails' /\ told' < Threshold
      BY <1>0, <2>3 DEF Counting, Full
    <3>5. fails' <= Cardinality(Settled') + again'
      BY <1>0, <2>1, <2>3, <3>2 DEF Counting
    <3> QED  BY <3>3, <3>4, <3>5 DEF Counting
  <2>4. CASE /\ ~Locked /\ fails' = fails + 1 /\ counted' = counted \cup {c}
             /\ again' = again + 1 /\ call' = call /\ told' = told
    <3>1. Settled' = Settled
      BY <2>0, <2>4 DEF Settled
    <3>2. \A d \in counted' : call'[d] \in {"count", "wrong", "locked"}
      BY <2>0, <2>4 DEF Counting
    <3> QED  BY <1>0, <2>4, <3>1, <3>2 DEF Counting
  <2> QED  BY <1>3, <2>2, <2>3, <2>4 DEF Count, Resend
<1>4. CASE LockUser \/ UnlockUser \/ UNCHANGED vars
  BY <1>4, CountingStill DEF LockUser, UnlockUser, vars
<1>5. CASE Tick
  <2>1. CASE left = 0
    BY <1>5, <2>1, NewLifeCounts DEF Tick
  <2>2. CASE left # 0
    BY <1>5, <2>2, CountingStill DEF Tick
  <2> QED  BY <2>1, <2>2
<1> QED  BY <1>1, <1>2, <1>3, <1>4, <1>5 DEF Next

\* In the life of a counter fewer than Threshold callers are told of a wrong password.
THEOREM FewGuesses == Spec => []GuessesBounded
<1>1. Counting => GuessesBounded
  BY DEF Counting, GuessesBounded
<1> QED  BY <1>1, TypesInit, TypesNext, CountingInit, CountingNext, PTL DEF Spec

\* A lock of the script stands for Threshold failures.
THEOREM LocksAreEarned == Spec => LockEarned
<1>1. TypeOK /\ Counting /\ TypeOK' /\ Counting' /\ [Next]_vars
        => [fails' > fails /\ lock' # lock => Cardinality(counted') + again' >= Threshold]_vars
  <2> SUFFICES ASSUME TypeOK, Counting, TypeOK', Counting', [Next]_vars,
                      fails' > fails, lock' # lock
               PROVE  Cardinality(counted') + again' >= Threshold
    OBVIOUS
  <2>1. fails \in Nat
    BY DEF TypeOK
  <2>2. PICK c \in Calls : Count(c)
    BY <2>1 DEF Next, Check, Body, Clear, DeleteCounter, LockUser, UnlockUser, Tick, vars
  <2>3. fails' >= Threshold
    BY <2>2 DEF Count, Resend, Full
  <2>4. IsFiniteSet(counted')
    BY FS_Subset DEF TypeOK
  <2>5. Settled' \subseteq counted'
    BY DEF Settled
  <2>6. /\ Cardinality(Settled') <= Cardinality(counted')
        /\ Cardinality(Settled') \in Nat /\ Cardinality(counted') \in Nat
    BY <2>4, <2>5, FS_Subset, FS_CardinalityType
  <2>7. fails' <= Cardinality(Settled') + again' /\ fails' \in Nat /\ again' \in Nat
    BY DEF Counting, TypeOK
  <2> QED  BY <2>3, <2>6, <2>7
<1> QED  BY <1>1, TypesInit, TypesNext, CountingInit, CountingNext, PTL DEF Spec, LockEarned

\* No call takes away or shortens a lock.
THEOREM LocksStay == Spec => CallsKeepLocks
<1>1. TypeOK /\ [Next]_vars => [call' # call => lock' >= lock]_vars
  <2> SUFFICES ASSUME TypeOK, [Next]_vars, call' # call PROVE lock' >= lock
    OBVIOUS
  <2>1. lock \in Int /\ lock >= -1
    BY DEF TypeOK, Absent
  <2>2. ASSUME NEW c \in Calls, Count(c) PROVE lock' >= lock
    BY <2>1, <2>2 DEF Count, Resend, Absent
  <2>3. ASSUME NEW c \in Calls, Check(c) \/ Body(c) \/ Clear(c) PROVE lock' >= lock
    BY <2>1, <2>3 DEF Check, Body, Clear, LockAfterClear
  <2>4. ~(LockUser \/ UnlockUser \/ Tick \/ UNCHANGED vars)
    BY DEF LockUser, UnlockUser, Tick, vars
  <2> QED  BY <2>2, <2>3, <2>4 DEF Next
<1> QED  BY <1>1, TypesInit, TypesNext, PTL DEF Spec, CallsKeepLocks

-----------------------------------------------------------------------------
(***************************************************************************)
(* Otp, with the lockout in it.                                            *)
(***************************************************************************)

\* A step of a call, of a key or of an administrator is a step of the lockout, or leaves
\* it alone.
LEMMA OtpStep == OtpNext => [Next]_vars
<1> SUFFICES ASSUME OtpNext PROVE [Next]_vars
  OBVIOUS
<1>1. ASSUME NEW c \in Calls,
             Limit(c) \/ Store(c) \/ Match(c) \/ Mark(c) \/ DeleteCode(c) \/ Allow(c)
               \/ SavePassword(c) \/ DeleteVerification(c) \/ Authorize(c) \/ Consume(c)
      PROVE  UNCHANGED vars
  BY <1>1 DEF Limit, Store, Match, Mark, DeleteCode, Allow, SavePassword,
              DeleteVerification, Authorize, Consume
<1>2. ASSUME NEW c \in Calls, Login(c) PROVE Next
  BY <1>2 DEF Login, Next
<1>3. ASSUME Lapse PROVE UNCHANGED vars
  BY <1>3 DEF Lapse
<1>4. ASSUME (LockUser \/ UnlockUser \/ Tick) /\ UNCHANGED otpVars PROVE Next
  BY <1>4 DEF Next
<1> QED  BY <1>1, <1>2, <1>3, <1>4 DEF OtpNext

\* To the lockout all this is a client of it, so that what is proved of Lockout holds here.
LEMMA LockoutInside == OtpSpec => Spec
<1>1. OtpInit => Init
  BY DEF OtpInit
<1>2. [OtpNext]_allVars => [Next]_vars
  <2>1. UNCHANGED allVars => UNCHANGED vars
    BY DEF allVars
  <2> QED  BY <2>1, OtpStep
<1> QED  BY <1>1, <1>2, PTL DEF OtpSpec, Spec

\* So what holds of the lockout holds with all that is around it: guesses are bounded,
\* whatever codes and verifications a client collects.
THEOREM FewGuessesWithCodes == OtpSpec => []GuessesBounded
  BY LockoutInside, FewGuesses, PTL

-----------------------------------------------------------------------------
\* A code of getOtp, and a verification that validateOtp has made of one.
IsCode(id, p) == id \in Calls /\ at[id] = "done" /\ has[id] = NoCall /\ purpose[id] = p

IsVerification(id, p) ==
  /\ id \in Calls /\ at[id] \in {"marked", "done"} /\ purpose[id] = p
  /\ IsCode(has[id], p)

Keyed ==
  \A p \in Purposes :
    /\ otp[p] # NoCall => IsCode(otp[p], p)
    /\ verified[p] # NoCall => IsVerification(verified[p], p)

\* What a call goes on with.
Holds(c) ==
  /\ at[c] \in {"idle", "limited", "refused"} => has[c] = NoCall
  /\ at[c] \in {"matched", "marked"} => purpose[c] \in Purposes /\ IsCode(has[c], purpose[c])
  /\ at[c] \in {"allowed", "saved"} =>
       purpose[c] = "passwordReset" /\ IsVerification(has[c], "passwordReset")
  /\ at[c] = "authorized" => has[c] # NoCall
  /\ at[c] \in {"authorized", "login"} => purpose[c] = "authorize"
  /\ at[c] \in {"authorized", "login"} /\ has[c] # NoCall => IsVerification(has[c], "authorize")

Holding == \A c \in Calls : Holds(c)

\* What is spent is in no key, and no step puts it there again.
Unread ==
  \A id \in spent :
    /\ at[id] \in {"marked", "done"}
    /\ \A p \in Purposes : otp[p] # id /\ verified[p] # id

\* Shape, without what Keyed says of the keys.
OtpTypes ==
  /\ at \in [Calls -> At]
  /\ purpose \in [Calls -> Purposes \cup {"none"}]
  /\ has \in [Calls -> Calls \cup {NoCall}]
  /\ otp \in [Purposes -> Calls \cup {NoCall}]
  /\ verified \in [Purposes -> Calls \cup {NoCall}]
  /\ rate \in 0..(Max + 1)
  /\ windows \in 0..MaxWindows
  /\ admin \in BOOLEAN /\ spent \subseteq Calls

KeysInv == OtpTypes /\ Keyed /\ Holding /\ Unread

LEMMA KeysInit == OtpInit => KeysInv
  BY OtpConstants DEF OtpInit, KeysInv, OtpTypes, Keyed, Holding, Holds, Unread, At

\* Steps that leave the keys, the calls and what they hold alone.
LEMMA KeysStill ==
  ASSUME KeysInv, UNCHANGED <<at, purpose, has, otp, verified, spent, admin>>,
         rate' \in 0..(Max + 1), windows' \in 0..MaxWindows
  PROVE  KeysInv'
  BY DEF KeysInv, OtpTypes, Keyed, Holding, Holds, Unread, IsCode, IsVerification

\* A call that has made a code or a verification keeps it as it was made.
LEMMA MadeForGood ==
  ASSUME KeysInv, OtpNext, NEW id \in Calls, at[id] \in {"marked", "done"}
  PROVE  /\ at'[id] \in {"marked", "done"} /\ has'[id] = has[id] /\ purpose'[id] = purpose[id]
         /\ at[id] = "done" => at'[id] = "done"
<1>1. ASSUME NEW c \in Calls, Limit(c) \/ Store(c) \/ Match(c) \/ Mark(c)
      PROVE  /\ at'[id] \in {at[id], "done"}
             /\ has'[id] = has[id] /\ purpose'[id] = purpose[id]
  BY <1>1 DEF Limit, Store, Match, Mark, Go, Read, KeysInv, OtpTypes
<1>2. ASSUME NEW c \in Calls,
             DeleteCode(c) \/ Allow(c) \/ SavePassword(c) \/ DeleteVerification(c)
      PROVE  /\ at'[id] \in {at[id], "done"}
             /\ has'[id] = has[id] /\ purpose'[id] = purpose[id]
  BY <1>2 DEF DeleteCode, Allow, SavePassword, DeleteVerification, Go, Read, KeysInv, OtpTypes
<1>3. ASSUME NEW c \in Calls, Authorize(c) \/ Consume(c) \/ Login(c)
      PROVE  at'[id] = at[id] /\ has'[id] = has[id] /\ purpose'[id] = purpose[id]
  BY <1>3 DEF Authorize, Consume, Login, Go, Read, otpVars, KeysInv, OtpTypes
<1>4. ASSUME Lapse \/ UNCHANGED otpVars
      PROVE  at'[id] = at[id] /\ has'[id] = has[id] /\ purpose'[id] = purpose[id]
  BY <1>4 DEF Lapse, otpVars
<1> QED  BY <1>1, <1>2, <1>3, <1>4 DEF OtpNext

LEMMA CodesStay ==
  ASSUME KeysInv, OtpNext, NEW id, NEW p, IsCode(id, p)
  PROVE  IsCode(id, p)'
  BY MadeForGood DEF IsCode

LEMMA VerificationsStay ==
  ASSUME KeysInv, OtpNext, NEW id, NEW p, IsVerification(id, p)
  PROVE  IsVerification(id, p)'
<1>1. IsCode(has[id], p)'
  <2>1. has'[id] = has[id]
    BY MadeForGood DEF IsVerification
  <2> QED  BY <2>1, CodesStay DEF IsVerification, IsCode
<1> QED  BY <1>1, MadeForGood DEF IsVerification

\* A call that has deleted a key: what it had read has been in that key only.
LEMMA DeletionSpends ==
  ASSUME KeysInv, OtpNext, NEW c \in Calls, has[c] \in Calls,
         at'[has[c]] \in {"marked", "done"},
         purpose[has[c]] = purpose[c], purpose[c] \in Purposes,
         \/ Delete(c, otp) /\ verified' = verified /\ has[has[c]] = NoCall
         \/ Delete(c, verified) /\ otp' = otp /\ has[has[c]] # NoCall
  PROVE  Unread' /\ Keyed' /\ otp' \in [Purposes -> Calls \cup {NoCall}]
           /\ verified' \in [Purposes -> Calls \cup {NoCall}] /\ spent' \subseteq Calls
<1> USE OtpConstants
<1>1. /\ otp' \in [Purposes -> Calls \cup {NoCall}]
      /\ verified' \in [Purposes -> Calls \cup {NoCall}]
      /\ spent' = spent \cup {has[c]}
      /\ \A p \in Purposes : otp'[p] \in {otp[p], NoCall} /\ verified'[p] \in {verified[p], NoCall}
  BY DEF Delete, KeysInv, OtpTypes
<1>2. Keyed'
  <2> SUFFICES ASSUME NEW p \in Purposes
               PROVE  /\ otp'[p] # NoCall => IsCode(otp[p], p)' /\ otp'[p] = otp[p]
                      /\ verified'[p] # NoCall => IsVerification(verified[p], p)'
                                                    /\ verified'[p] = verified[p]
    BY DEF Keyed, IsCode, IsVerification
  <2>1. otp'[p] # NoCall => otp'[p] = otp[p] /\ IsCode(otp[p], p)
    BY <1>1 DEF KeysInv, Keyed
  <2>2. verified'[p] # NoCall => verified'[p] = verified[p] /\ IsVerification(verified[p], p)
    BY <1>1 DEF KeysInv, Keyed
  <2> QED  BY <2>1, <2>2, CodesStay, VerificationsStay
<1>3. \A p \in Purposes : otp'[p] # has[c] /\ verified'[p] # has[c]
  BY DEF KeysInv, Keyed, IsCode, IsVerification, Delete, OtpTypes
<1>4. \A id \in spent : at'[id] \in {"marked", "done"}
  BY MadeForGood DEF KeysInv, Unread, OtpTypes
<1>5. Unread'
  BY <1>1, <1>3, <1>4 DEF KeysInv, Unread, OtpTypes
<1> QED  BY <1>1, <1>2, <1>5 DEF KeysInv, OtpTypes

\* Steps that leave the keys alone.
LEMMA KeysAlone ==
  ASSUME KeysInv, OtpNext, UNCHANGED <<otp, verified, spent>>
  PROVE  Keyed' /\ Unread'
<1>1. Keyed'
  <2> SUFFICES ASSUME NEW p \in Purposes
               PROVE  /\ otp[p] # NoCall => IsCode(otp[p], p)'
                      /\ verified[p] # NoCall => IsVerification(verified[p], p)'
    BY DEF Keyed, IsCode, IsVerification
  <2> QED  BY CodesStay, VerificationsStay DEF KeysInv, Keyed, IsCode, IsVerification
<1>2. Unread'
  BY MadeForGood DEF KeysInv, Unread, OtpTypes
<1> QED  BY <1>1, <1>2

\* Who does not take part in a step holds what it held.
LEMMA OthersHold ==
  ASSUME KeysInv, OtpNext, NEW d \in Calls,
         at'[d] = at[d], has'[d] = has[d], purpose'[d] = purpose[d]
  PROVE  Holds(d)'
<1>1. Holds(d)
  BY DEF KeysInv, Holding
<1>2. \A p : IsCode(has[d], p) => IsCode(has[d], p)'
  <2> TAKE p
  <2>1. IsCode(has[d], p) => at'[has[d]] = "done" /\ has'[has[d]] = NoCall /\ purpose'[has[d]] = p
    BY CodesStay DEF IsCode
  <2> QED  BY <2>1 DEF IsCode
<1>3. \A p : IsVerification(has[d], p) => IsVerification(has[d], p)'
  <2> TAKE p
  <2> HAVE IsVerification(has[d], p)
  <2>1. has[d] \in Calls /\ at[has[d]] \in {"marked", "done"} /\ IsCode(has[has[d]], p)
    BY DEF IsVerification
  <2>2. has'[has[d]] = has[has[d]] /\ at'[has[d]] \in {"marked", "done"} /\ purpose'[has[d]] = p
    BY <2>1, MadeForGood DEF IsVerification
  <2>3. has[has[d]] \in Calls /\ at[has[has[d]]] = "done"
    BY <2>1 DEF IsCode
  <2>4. at'[has[has[d]]] = "done" /\ has'[has[has[d]]] = NoCall /\ purpose'[has[has[d]]] = p
    BY <2>1, <2>3, MadeForGood DEF IsCode
  <2> QED  BY <2>1, <2>2, <2>3, <2>4 DEF IsVerification, IsCode
<1> QED  BY <1>1, <1>2, <1>3 DEF Holds

LEMMA KeysNext == KeysInv /\ [OtpNext]_allVars => KeysInv'
<1> USE OtpConstants
<1> SUFFICES ASSUME KeysInv, [OtpNext]_allVars PROVE KeysInv'
  OBVIOUS
<1>0. CASE UNCHANGED allVars
  BY <1>0, KeysStill DEF allVars, otpVars, KeysInv, OtpTypes
<1> SUFFICES ASSUME OtpNext PROVE KeysInv'
  BY <1>0
<1> SUFFICES OtpTypes' /\ Keyed' /\ Holding' /\ Unread'
  BY DEF KeysInv
<1>o. ASSUME NEW c \in Calls, Holds(c)',
             \A d \in Calls \ {c} : at'[d] = at[d] /\ has'[d] = has[d] /\ purpose'[d] = purpose[d]
      PROVE  Holding'
  BY <1>o, OthersHold DEF Holding
<1>1. ASSUME NEW c \in Calls, Limit(c) PROVE OtpTypes' /\ Keyed' /\ Holding' /\ Unread'
  <2>1. Keyed' /\ Unread'
    BY <1>1, KeysAlone DEF Limit
  <2>2. OtpTypes'
    BY <1>1 DEF Limit, Go, KeysInv, OtpTypes, At
  <2>3. Holds(c)'
    BY <1>1 DEF Limit, Go, KeysInv, OtpTypes, Holding, Holds
  <2> QED  BY <1>1, <1>o, <2>1, <2>2, <2>3 DEF Limit, Go, KeysInv, OtpTypes
<1>2. ASSUME NEW c \in Calls, Store(c) PROVE OtpTypes' /\ Keyed' /\ Holding' /\ Unread'
  <2>1. PICK p \in Purposes : purpose' = [purpose EXCEPT ![c] = p] /\ otp' = [otp EXCEPT ![p] = c]
    BY <1>2 DEF Store
  <2>2. /\ at[c] = "limited" /\ has[c] = NoCall /\ at' = [at EXCEPT ![c] = "done"]
        /\ UNCHANGED <<has, verified, rate, windows, admin, spent>>
    BY <1>2 DEF Store, Go, KeysInv, Holding, Holds
  <2>3. OtpTypes'
    BY <2>1, <2>2 DEF KeysInv, OtpTypes, At
  <2>4. IsCode(c, p)'
    BY <2>1, <2>2 DEF IsCode, KeysInv, OtpTypes
  <2>5. ASSUME NEW q \in Purposes
        PROVE  /\ otp'[q] # NoCall => IsCode(otp[q], q)'
               /\ verified'[q] # NoCall => IsVerification(verified[q], q)'
    <3>1. verified[q] # NoCall => IsVerification(verified[q], q)'
      BY <2>2, VerificationsStay DEF KeysInv, Keyed, IsVerification, IsCode
    <3>2. CASE q = p
      <4>1. otp'[q] = c
        BY <2>1, <3>2 DEF KeysInv, OtpTypes
      <4> QED  BY <2>2, <2>4, <3>1, <3>2, <4>1 DEF IsCode
    <3>3. CASE q # p
      <4>1. otp'[q] = otp[q]
        BY <2>1, <3>3 DEF KeysInv, OtpTypes
      <4>2. otp[q] # NoCall => IsCode(otp[q], q)'
        BY <4>1, CodesStay DEF KeysInv, Keyed, IsCode
      <4> QED  BY <2>2, <3>1, <4>1, <4>2 DEF IsCode
    <3> QED  BY <3>2, <3>3
  <2>6. Keyed'
    BY <2>5 DEF Keyed
  <2>7. c \notin spent
    BY <2>2 DEF KeysInv, Unread
  <2>8. Unread'
    BY <2>1, <2>2, <2>7, MadeForGood DEF KeysInv, Unread, OtpTypes
  <2>9. Holds(c)'
    BY <2>2 DEF KeysInv, OtpTypes, Holds
  <2> QED  BY <2>1, <2>2, <2>3, <2>6, <2>8, <2>9, <1>o DEF KeysInv, OtpTypes
<1>3. ASSUME NEW c \in Calls, Match(c) PROVE OtpTypes' /\ Keyed' /\ Holding' /\ Unread'
  <2>1. Keyed' /\ Unread'
    BY <1>3, KeysAlone DEF Match
  <2>2. OtpTypes'
    BY <1>3 DEF Match, Go, Read, KeysInv, OtpTypes, At
  <2>3. Holds(c)'
    <3>1. CASE Go(c, "refused") /\ UNCHANGED <<purpose, has>>
      BY <1>3, <3>1 DEF Match, Go, KeysInv, OtpTypes, Holding, Holds
    <3>2. ASSUME NEW p \in Purposes, otp[p] # NoCall, Read(c, p, otp[p]), Go(c, "matched")
          PROVE  Holds(c)'
      <4>1. at'[c] = "matched" /\ has'[c] = otp[p] /\ purpose'[c] = p /\ otp' = otp
        BY <1>3, <3>2 DEF Match, Go, Read, KeysInv, OtpTypes
      <4>2. IsCode(otp[p], p)'
        BY <3>2, <4>1, CodesStay DEF KeysInv, Keyed, IsCode
      <4> QED  BY <4>1, <4>2 DEF Holds, IsCode
    <3> QED  BY <1>3, <3>1, <3>2 DEF Match
  <2> QED  BY <1>3, <1>o, <2>1, <2>2, <2>3 DEF Match, Go, Read, KeysInv, OtpTypes
<1>4. ASSUME NEW c \in Calls, Mark(c) PROVE OtpTypes' /\ Keyed' /\ Holding' /\ Unread'
  <2>1. /\ at[c] = "matched" /\ at' = [at EXCEPT ![c] = "marked"]
        /\ verified' = [p \in Purposes |-> IF p = purpose[c] THEN c ELSE verified[p]]
        /\ UNCHANGED <<purpose, has, otp, rate, windows, admin, spent>>
    BY <1>4 DEF Mark, Go, MarkedPurpose
  <2>2. purpose[c] \in Purposes /\ IsCode(has[c], purpose[c])
    BY <2>1 DEF KeysInv, Holding, Holds
  <2>3. OtpTypes'
    BY <2>1 DEF KeysInv, OtpTypes, At
  <2>4. IsCode(has[c], purpose[c])' /\ IsVerification(c, purpose[c])'
    <3>1. at'[has[c]] = "done" /\ has'[has[c]] = NoCall /\ purpose'[has[c]] = purpose[c]
      BY <2>1, <2>2, CodesStay DEF IsCode
    <3> QED  BY <2>1, <2>2, <3>1 DEF IsCode, IsVerification, KeysInv, OtpTypes
  <2>5. ASSUME NEW q \in Purposes
        PROVE  /\ otp'[q] # NoCall => IsCode(otp[q], q)'
               /\ verified'[q] # NoCall => IsVerification(verified[q], q)'
    <3>1. otp'[q] # NoCall => IsCode(otp[q], q)'
      BY <2>1, CodesStay DEF KeysInv, Keyed, IsCode
    <3>2. CASE q = purpose[c]
      <4>1. verified'[q] = c
        BY <2>1, <3>2
      <4> QED  BY <2>1, <2>4, <3>1, <3>2, <4>1 DEF IsCode, IsVerification
    <3>3. CASE q # purpose[c]
      <4>1. verified'[q] = verified[q]
        BY <2>1, <3>3
      <4>2. verified[q] # NoCall => IsVerification(verified[q], q)'
        BY <4>1, VerificationsStay DEF KeysInv, Keyed, IsCode, IsVerification
      <4> QED  BY <3>1, <4>1, <4>2 DEF IsCode, IsVerification
    <3> QED  BY <3>2, <3>3
  <2>6. Keyed'
    BY <2>5 DEF Keyed
  <2>7. c \notin spent
    BY <2>1 DEF KeysInv, Unread
  <2>8. Unread'
    BY <2>1, <2>7, MadeForGood DEF KeysInv, Unread, OtpTypes
  <2>9. Holds(c)'
    BY <2>1, <2>2, <2>4 DEF KeysInv, OtpTypes, Holds, IsCode
  <2> QED  BY <2>1, <2>3, <2>6, <2>8, <2>9, <1>o DEF KeysInv, OtpTypes
<1>5. ASSUME NEW c \in Calls, DeleteCode(c)
      PROVE  OtpTypes' /\ Keyed' /\ Holding' /\ Unread'
  <2>1. /\ at[c] = "marked" /\ at' = [at EXCEPT ![c] = "done"] /\ Delete(c, otp)
        /\ UNCHANGED <<purpose, has, verified, rate, windows, admin>>
    BY <1>5 DEF DeleteCode, Go
  <2>2. purpose[c] \in Purposes /\ IsCode(has[c], purpose[c])
    BY <2>1 DEF KeysInv, Holding, Holds
  <2>3. Keyed' /\ Unread' /\ otp' \in [Purposes -> Calls \cup {NoCall}] /\ spent' \subseteq Calls
    BY <2>1, <2>2, MadeForGood, DeletionSpends DEF IsCode
  <2>4. OtpTypes'
    BY <2>1, <2>3 DEF KeysInv, OtpTypes, At
  <2>5. Holds(c)'
    BY <2>1 DEF KeysInv, OtpTypes, Holds
  <2> QED  BY <2>1, <2>3, <2>4, <2>5, <1>o DEF KeysInv, OtpTypes
<1>6. ASSUME NEW c \in Calls, Allow(c) PROVE OtpTypes' /\ Keyed' /\ Holding' /\ Unread'
  <2>1. Keyed' /\ Unread'
    BY <1>6, KeysAlone DEF Allow
  <2>2. OtpTypes'
    BY <1>6 DEF Allow, Go, Read, KeysInv, OtpTypes, At, Purposes
  <2>3. Holds(c)'
    <3>1. CASE verified["passwordReset"] = NoCall
      BY <1>6, <3>1 DEF Allow, Go, KeysInv, OtpTypes, Holding, Holds
    <3>2. CASE verified["passwordReset"] # NoCall
      <4>1. /\ at'[c] = "allowed" /\ has'[c] = verified["passwordReset"]
            /\ purpose'[c] = "passwordReset" /\ verified' = verified
        BY <1>6, <3>2 DEF Allow, Go, Read, KeysInv, OtpTypes
      <4>2. IsVerification(verified["passwordReset"], "passwordReset")'
        BY <3>2, <4>1, VerificationsStay DEF KeysInv, Keyed, IsVerification, IsCode, Purposes
      <4> QED  BY <4>1, <4>2 DEF Holds, IsVerification, IsCode
    <3> QED  BY <3>1, <3>2
  <2> QED  BY <1>6, <1>o, <2>1, <2>2, <2>3 DEF Allow, Go, Read, KeysInv, OtpTypes
<1>7. ASSUME NEW c \in Calls, SavePassword(c)
      PROVE  OtpTypes' /\ Keyed' /\ Holding' /\ Unread'
  <2>1. Keyed' /\ Unread'
    BY <1>7, KeysAlone DEF SavePassword
  <2>2. /\ at[c] = "allowed" /\ at' = [at EXCEPT ![c] = "saved"]
        /\ UNCHANGED <<purpose, has, otp, verified, rate, windows, admin, spent>>
    BY <1>7 DEF SavePassword, Go
  <2>3. OtpTypes'
    BY <2>2 DEF KeysInv, OtpTypes, At
  <2>4. IsVerification(has[c], "passwordReset")' /\ purpose[c] = "passwordReset"
    BY <2>2, VerificationsStay DEF KeysInv, Holding, Holds, IsVerification, IsCode
  <2>5. Holds(c)'
    BY <2>2, <2>4 DEF KeysInv, OtpTypes, Holds
  <2> QED  BY <2>1, <2>2, <2>3, <2>5, <1>o DEF KeysInv, OtpTypes
<1>8. ASSUME NEW c \in Calls, DeleteVerification(c)
      PROVE  OtpTypes' /\ Keyed' /\ Holding' /\ Unread'
  <2>1. /\ at[c] = "saved" /\ at' = [at EXCEPT ![c] = "done"] /\ Delete(c, verified)
        /\ UNCHANGED <<purpose, has, otp, rate, windows, admin>>
    BY <1>8 DEF DeleteVerification, Go
  <2>2. purpose[c] = "passwordReset" /\ IsVerification(has[c], purpose[c])
    BY <2>1 DEF KeysInv, Holding, Holds
  <2>3. Keyed' /\ Unread' /\ verified' \in [Purposes -> Calls \cup {NoCall}] /\ spent' \subseteq Calls
    BY <2>1, <2>2, MadeForGood, DeletionSpends DEF IsCode, IsVerification, Purposes
  <2>4. OtpTypes'
    BY <2>1, <2>3 DEF KeysInv, OtpTypes, At
  <2>5. Holds(c)'
    BY <2>1 DEF KeysInv, OtpTypes, Holds
  <2> QED  BY <2>1, <2>3, <2>4, <2>5, <1>o DEF KeysInv, OtpTypes
<1>9. ASSUME NEW c \in Calls, Authorize(c)
      PROVE  OtpTypes' /\ Keyed' /\ Holding' /\ Unread'
  <2>1. Keyed' /\ Unread'
    BY <1>9, KeysAlone DEF Authorize
  <2>2. /\ at' = [at EXCEPT ![c] = IF verified["authorize"] = NoCall THEN "login" ELSE "authorized"]
        /\ has' = [has EXCEPT ![c] = verified["authorize"]]
        /\ purpose' = [purpose EXCEPT ![c] = "authorize"]
        /\ UNCHANGED <<otp, verified, rate, windows, admin, spent>>
    BY <1>9 DEF Authorize, Go, Read
  <2>3. OtpTypes'
    BY <2>2 DEF KeysInv, OtpTypes, At, Purposes
  <2>4. verified["authorize"] # NoCall => IsVerification(verified["authorize"], "authorize")'
    BY <2>2, VerificationsStay DEF KeysInv, Keyed, IsVerification, IsCode, Purposes
  <2>5. /\ at'[c] = IF verified["authorize"] = NoCall THEN "login" ELSE "authorized"
        /\ has'[c] = verified["authorize"] /\ purpose'[c] = "authorize"
    BY <2>2 DEF KeysInv, OtpTypes
  <2>6. Holds(c)'
    BY <2>2, <2>4, <2>5 DEF Holds, IsVerification, IsCode
  <2> QED  BY <2>1, <2>2, <2>3, <2>6, <1>o DEF KeysInv, OtpTypes
<1>10. ASSUME NEW c \in Calls, Consume(c)
       PROVE  OtpTypes' /\ Keyed' /\ Holding' /\ Unread'
  <2>1. /\ at[c] = "authorized" /\ at' = [at EXCEPT ![c] = "login"] /\ Delete(c, verified)
        /\ UNCHANGED <<purpose, has, otp, rate, windows, admin>>
    BY <1>10 DEF Consume, UseVerification, Go
  <2>2. /\ purpose[c] = "authorize" /\ IsVerification(has[c], "authorize")
        /\ has[c] # NoCall
    BY <2>1 DEF KeysInv, Holding, Holds
  <2>3. Keyed' /\ Unread' /\ verified' \in [Purposes -> Calls \cup {NoCall}] /\ spent' \subseteq Calls
    BY <2>1, <2>2, MadeForGood, DeletionSpends DEF IsCode, IsVerification, Purposes
  <2>4. OtpTypes'
    BY <2>1, <2>3 DEF KeysInv, OtpTypes, At
  <2>5. IsVerification(has[c], "authorize")'
    BY <2>1, <2>2, VerificationsStay DEF IsVerification, IsCode
  <2>6. Holds(c)'
    BY <2>1, <2>2, <2>5 DEF KeysInv, OtpTypes, Holds
  <2> QED  BY <2>1, <2>3, <2>4, <2>6, <1>o DEF KeysInv, OtpTypes
<1>11. ASSUME UNCHANGED otpVars PROVE OtpTypes' /\ Keyed' /\ Holding' /\ Unread'
  BY <1>11, KeysStill DEF otpVars, KeysInv, OtpTypes
<1>12. ASSUME Lapse PROVE OtpTypes' /\ Keyed' /\ Holding' /\ Unread'
  <2>1. /\ UNCHANGED <<at, purpose, has, windows, admin, spent>>
        /\ rate' \in {rate, 0}
        /\ otp' \in [Purposes -> Calls \cup {NoCall}]
        /\ verified' \in [Purposes -> Calls \cup {NoCall}]
        /\ \A p \in Purposes : otp'[p] \in {otp[p], NoCall} /\ verified'[p] \in {verified[p], NoCall}
    BY <1>12 DEF Lapse, KeysInv, OtpTypes
  <2>2. OtpTypes'
    BY <2>1 DEF KeysInv, OtpTypes
  <2>3. Keyed' /\ Unread'
    BY <2>1 DEF KeysInv, OtpTypes, Keyed, Unread, IsCode, IsVerification
  <2>4. Holding'
    BY <2>1, OthersHold DEF Holding
  <2> QED  BY <2>2, <2>3, <2>4
<1>13. ASSUME NEW c \in Calls, Login(c) PROVE UNCHANGED otpVars
  BY <1>13 DEF Login
<1> QED  BY <1>1, <1>2, <1>3, <1>4, <1>5, <1>6, <1>7, <1>8, <1>9, <1>10, <1>11, <1>12, <1>13
         DEF OtpNext

\* Every variable keeps its shape, and a key holds what a call for its own purpose made.
THEOREM OtpTypeCorrect == OtpSpec => []OtpTypeOK
<1>1. KeysInv => OtpTypeOK
  BY DEF KeysInv, OtpTypes, Keyed, IsCode, IsVerification, OtpTypeOK
<1> QED  BY <1>1, KeysInit, KeysNext, PTL DEF OtpSpec

\* No call reads a code or a verification whose reader has deleted the key.
THEOREM SpentForGood == OtpSpec => NothingUsedLater
<1> USE OtpConstants
<1>1. KeysInv /\ [OtpNext]_allVars
        => [\A c \in Calls : has'[c] # has[c] => has'[c] \notin spent]_allVars
  <2> SUFFICES ASSUME KeysInv, OtpNext, NEW c \in Calls, has'[c] # has[c]
               PROVE  has'[c] \notin spent
    BY DEF allVars
  <2>1. PICK d \in Calls : Match(d) \/ Allow(d) \/ Authorize(d)
    BY DEF OtpNext, Limit, Store, Mark, DeleteCode, SavePassword, DeleteVerification, Consume,
           Login, Lapse, otpVars
  <2>2. \E p \in Purposes : has'[c] \in {otp[p], verified[p]}
    BY <2>1 DEF Match, Allow, Authorize, Read, KeysInv, OtpTypes, Purposes
  <2> QED  BY <2>2 DEF KeysInv, Unread, OtpTypes
<1> QED  BY <1>1, KeysInit, KeysNext, PTL DEF OtpSpec, NothingUsedLater

-----------------------------------------------------------------------------
\* Who is inside the lockout has come through isAuthorized, and who is let in was entitled.
Entries ==
  \A c \in Calls :
    /\ call[c] # "idle" => at[c] = "login"
    /\ call[c] \in {"clear", "in"} => Entitled(c)

LEMMA EntriesInit == OtpInit => Entries
  BY DEF OtpInit, Init, Entries

LEMMA EntriesNext == TypeOK /\ KeysInv /\ Entries /\ [OtpNext]_allVars => Entries'
<1> SUFFICES ASSUME TypeOK, KeysInv, Entries, [OtpNext]_allVars PROVE Entries'
  OBVIOUS
<1>1. ASSUME NEW c \in Calls, Login(c) PROVE Entries'
  <2>1. /\ at[c] = "login" /\ UNCHANGED <<at, has, admin>>
        /\ \A d \in Calls \ {c} : call'[d] = call[d]
    BY <1>1 DEF Login, otpVars, Check, Clear, Count, Resend, Body, Advance, TypeOK
  <2>2. call'[c] \in {"clear", "in"} => Entitled(c)
    <3>1. CASE Check(c) \/ Count(c)
      BY <3>1 DEF Check, Count, Resend, Advance, TypeOK
    <3>2. CASE Clear(c)
      BY <3>2 DEF Clear, Entries
    <3>3. CASE Body(c) /\ (call'[c] = "clear" => Entitled(c))
      BY <3>3 DEF Body, Advance, TypeOK
    <3> QED  BY <1>1, <3>1, <3>2, <3>3 DEF Login
  <2> QED  BY <2>1, <2>2 DEF Entries, Entitled
<1>2. ASSUME call' = call, NEW c \in Calls, at[c] # "login", admin' = admin,
             \A d \in Calls \ {c} : at'[d] = at[d] /\ has'[d] = has[d]
      PROVE  Entries'
  BY <1>2 DEF Entries, Entitled
<1>3. ASSUME NEW c \in Calls,
             Limit(c) \/ Store(c) \/ Match(c) \/ Mark(c) \/ DeleteCode(c)
      PROVE  Entries'
  BY <1>2, <1>3 DEF Limit, Store, Match, Mark, DeleteCode, Go, Read, KeysInv, OtpTypes, vars
<1>4. ASSUME NEW c \in Calls,
             Allow(c) \/ SavePassword(c) \/ DeleteVerification(c) \/ Authorize(c) \/ Consume(c)
      PROVE  Entries'
  BY <1>2, <1>4 DEF Allow, SavePassword, DeleteVerification, Authorize, Consume, Go, Read,
                    KeysInv, OtpTypes, vars
<1>5. ASSUME UNCHANGED <<call, at, has, admin>> PROVE Entries'
  BY <1>5 DEF Entries, Entitled
<1>6. ASSUME LockUser \/ UnlockUser \/ Tick PROVE call' = call
  BY <1>6 DEF LockUser, UnlockUser, Tick
<1>7. CASE Lapse \/ UNCHANGED allVars
  BY <1>5, <1>7 DEF Lapse, allVars, otpVars, vars
<1> QED  BY <1>1, <1>3, <1>4, <1>5, <1>6, <1>7 DEF OtpNext, otpVars

\* Administrators get in, and passwords are reset, only behind a code and a verification
\* for this very purpose (isAuthorized, loginUser, resetPassword, validateOtp).
THEOREM OpenedForPurpose == OtpSpec => []VerifiedForPurpose
<1>1. KeysInv /\ Entries => VerifiedForPurpose
  <2> SUFFICES ASSUME KeysInv, Entries, NEW c \in Calls
               PROVE  /\ call[c] = "in" /\ admin => has[c] # NoCall /\ ValidFor(has[c], "authorize")
                      /\ at[c] \in {"allowed", "saved"} => ValidFor(has[c], "passwordReset")
    BY DEF VerifiedForPurpose
  <2>1. \A p : IsVerification(has[c], p) => ValidFor(has[c], p)
    BY OtpConstants DEF IsVerification, IsCode, ValidFor
  <2>2. call[c] = "in" /\ admin => at[c] = "login" /\ has[c] # NoCall
    BY DEF Entries, Entitled
  <2> QED  BY <2>1, <2>2 DEF KeysInv, Holding, Holds
<1> QED  BY <1>1, KeysInit, KeysNext, EntriesInit, EntriesNext, LockoutTypeCorrect,
            LockoutInside, PTL DEF OtpSpec

-----------------------------------------------------------------------------
\* The codes that the counter there is has let through, and those it still lets through.
Used == IF rate > Max THEN Max ELSE rate

Reserve == IF rate = 0 THEN 0 ELSE Max - Used

Rated == Cardinality(Sent) + Reserve <= Max * windows

LEMMA SentFinite == IsFiniteSet(Sent) /\ Cardinality(Sent) \in Nat
  BY LockoutConstants, FS_Subset, FS_CardinalityType DEF Sent

LEMMA RatedInit == OtpInit => Rated
<1> SUFFICES ASSUME OtpInit PROVE Rated
  OBVIOUS
<1>1. Sent = {}
  BY DEF OtpInit, Sent
<1> QED  BY <1>1, FS_EmptySet, OtpConstants DEF OtpInit, Rated, Reserve

\* Only Limit lets calls through.
LEMMA SentGrowsByLimit ==
  ASSUME KeysInv, OtpNext
  PROVE  \/ Sent' \subseteq Sent /\ windows' = windows /\ rate' \in {rate, 0}
         \/ \E c \in Calls : Limit(c) /\ Sent' \subseteq Sent \cup {c} /\ c \notin Sent
<1> USE OtpConstants
<1>1. ASSUME NEW c \in Calls, Limit(c) PROVE Sent' \subseteq Sent \cup {c} /\ c \notin Sent
  BY <1>1 DEF Limit, Go, Sent, KeysInv, OtpTypes
<1>2. ASSUME NEW c \in Calls, Store(c)
      PROVE  Sent' \subseteq Sent /\ windows' = windows /\ rate' = rate
  BY <1>2 DEF Store, Go, Sent, KeysInv, OtpTypes
<1>3. ASSUME NEW c \in Calls,
             Match(c) \/ Mark(c) \/ Allow(c) \/ SavePassword(c) \/ Authorize(c) \/ Consume(c)
      PROVE  Sent' \subseteq Sent /\ windows' = windows /\ rate' = rate
  BY <1>3 DEF Match, Mark, Allow, SavePassword, Authorize, Consume, Go, Read, Sent, KeysInv,
              OtpTypes
<1>4. ASSUME NEW c \in Calls, DeleteCode(c) \/ DeleteVerification(c)
      PROVE  Sent' \subseteq Sent /\ windows' = windows /\ rate' = rate
  <2>1. has[c] # NoCall
    BY <1>4 DEF DeleteCode, DeleteVerification, KeysInv, Holding, Holds, IsCode, IsVerification
  <2> QED  BY <1>4, <2>1 DEF DeleteCode, DeleteVerification, Go, Sent, KeysInv, OtpTypes
<1>5. ASSUME UNCHANGED otpVars
      PROVE  Sent' \subseteq Sent /\ windows' = windows /\ rate' = rate
  BY <1>5 DEF otpVars, Sent
<1>6. ASSUME Lapse PROVE Sent' \subseteq Sent /\ windows' = windows /\ rate' \in {rate, 0}
  BY <1>6 DEF Lapse, Sent
<1> QED  BY <1>1, <1>2, <1>3, <1>4, <1>5, <1>6 DEF OtpNext, Login

LEMMA RatedNext == KeysInv /\ Rated /\ [OtpNext]_allVars => Rated'
<1> SUFFICES ASSUME KeysInv, Rated, [OtpNext]_allVars PROVE Rated'
  OBVIOUS
<1>0. /\ rate \in 0..(Max + 1) /\ windows \in Nat /\ Max \in Nat \ {0}
      /\ Cardinality(Sent) \in Nat /\ Cardinality(Sent)' \in Nat
      /\ IsFiniteSet(Sent) /\ IsFiniteSet(Sent')
  <2>1. Sent' \subseteq Calls
    BY DEF Sent
  <2> QED  BY <2>1, LockoutConstants, OtpConstants, SentFinite, FS_Subset, FS_CardinalityType
           DEF KeysInv, OtpTypes
<1>1. CASE Sent' \subseteq Sent /\ windows' = windows /\ rate' \in {rate, 0}
  <2>1. Cardinality(Sent') <= Cardinality(Sent)
    BY <1>0, <1>1, FS_Subset
  <2>2. Reserve \in Nat /\ Max * windows \in Int
    BY <1>0 DEF Reserve, Used
  <2>3. Reserve' \in {Reserve, 0}
    BY <1>0, <1>1 DEF Reserve, Used
  <2> QED  BY <1>0, <1>1, <2>1, <2>2, <2>3 DEF Rated
<1>2. ASSUME NEW c \in Calls, Limit(c), Sent' \subseteq Sent \cup {c}, c \notin Sent PROVE Rated'
  <2>1. Cardinality(Sent \cup {c}) = Cardinality(Sent) + 1 /\ IsFiniteSet(Sent \cup {c})
    BY <1>0, <1>2, FS_AddElement
  <2>2. Cardinality(Sent') <= Cardinality(Sent) + 1
    BY <1>0, <1>2, <2>1, FS_Subset
  <2>3. rate >= Max => Cardinality(Sent') <= Cardinality(Sent)
    <3>1. ASSUME rate >= Max PROVE Sent' \subseteq Sent
      BY <1>0, <1>2, <3>1 DEF Limit, OverLimit, Go, Sent, KeysInv, OtpTypes
    <3> QED  BY <1>0, <3>1, FS_Subset
  <2>4. rate' = (IF rate > Max THEN rate ELSE rate + 1)
        /\ windows' = (IF rate = 0 THEN windows + 1 ELSE windows)
    BY <1>2 DEF Limit
  <2>5. CASE rate = 0
    <3>1. rate' = 1 /\ windows' = windows + 1 /\ Max * (windows + 1) = Max * windows + Max
      BY <1>0, <2>4, <2>5
    <3>2. Reserve = 0 /\ Reserve' = Max - 1 /\ Max * windows \in Int
      BY <1>0, <2>5, <3>1 DEF Reserve, Used
    <3> QED  BY <1>0, <2>2, <3>1, <3>2 DEF Rated
  <2>6. CASE rate # 0
    <3>1. windows' = windows /\ Max * windows \in Int
      BY <1>0, <2>4, <2>6
    <3>2. CASE rate < Max
      <4>1. Reserve' = Reserve - 1 /\ Reserve \in Int
        BY <1>0, <2>4, <2>6, <3>2 DEF Reserve, Used
      <4> QED  BY <1>0, <2>2, <3>1, <4>1 DEF Rated
    <3>3. CASE rate >= Max
      <4>1. Reserve' = Reserve /\ Reserve \in Int
        BY <1>0, <2>4, <2>6, <3>3 DEF Reserve, Used
      <4> QED  BY <1>0, <2>3, <3>1, <3>3, <4>1 DEF Rated
    <3> QED  BY <1>0, <3>2, <3>3
  <2> QED  BY <2>5, <2>6
<1>3. CASE UNCHANGED allVars
  BY <1>3 DEF allVars, otpVars, Rated, Reserve, Used, Sent
<1> QED  BY <1>1, <1>2, <1>3, SentGrowsByLimit

\* No more codes are mailed than the counters that there have been allow (RateLimitByKey).
THEOREM CodesAreRated == OtpSpec => []CodesPerWindow
<1>1. KeysInv /\ Rated => CodesPerWindow
  <2> SUFFICES ASSUME KeysInv, Rated PROVE Cardinality(Sent) <= Max * windows
    BY DEF CodesPerWindow
  <2>1. Reserve \in Nat /\ Cardinality(Sent) \in Nat /\ Max * windows \in Int
    BY OtpConstants, SentFinite DEF KeysInv, OtpTypes, Reserve, Used
  <2> QED  BY <2>1 DEF Rated
<1> QED  BY <1>1, KeysInit, KeysNext, RatedInit, RatedNext, PTL DEF OtpSpec

\* Nor does anything around the lockout take a lock away, or lock for fewer failures.
THEOREM LocksWithCodes == OtpSpec => LockEarned /\ CallsKeepLocks
  BY LockoutInside, LocksAreEarned, LocksStay, PTL
=============================================================================
