-------------------------------- MODULE Otp --------------------------------
(***************************************************************************)
(* One-time passwords of one user, and the three methods they open:        *)
(* getOtp behind RateLimitByKey, validateOtp, resetPassword, and loginUser *)
(* behind isAuthorized and then the lockout (module Lockout), whose state  *)
(* and steps this module extends (services/auth.services.ts,               *)
(* utils/index.ts, utils/authorization.ts).                                *)
(*                                                                         *)
(* A code stands for the getOtp call that made it, and a verification for  *)
(* the validateOtp call that set it, so that no two are equal: six digits  *)
(* drawn twice, and SET sent again by the Redis client, are left out.      *)
(* A call may stop for good after any step: nothing here is fair.          *)
(***************************************************************************)
EXTENDS Lockout

CONSTANTS
  NoCall,          \* no code, no verification
  Max,             \* codes per life of the rate counter
  MaxWindows       \* bound on the lives of the rate counter

\* OTP_PURPOSE.
Purposes == {"emailVerification", "passwordReset", "authorize"}

ASSUME OtpConstants ==
  /\ NoCall \notin Calls
  /\ Max \in Nat \ {0} /\ MaxWindows \in Nat \ {0}

VARIABLES
  at,              \* at[c]: where the call is outside the lockout
  purpose,         \* purpose[c]: what the call is for
  has,             \* has[c]: the code or the verification that the call has read
  otp,             \* otp[p]: the key of the code for this purpose, or NoCall
  verified,        \* verified[p]: the key of the verification, or NoCall
  rate,            \* the rate counter, up to Max + 1; 0 stands for no key
  windows,         \* counters there have been
  admin,           \* whether the user is an administrator
  spent            \* codes and verifications whose reader has deleted the key

otpVars == <<at, purpose, has, otp, verified, rate, windows, admin, spent>>

allVars == <<vars, otpVars>>

At == {"idle", "limited", "matched", "marked", "allowed", "saved", "authorized", "login",
       "done", "refused"}

Go(c, place) == at' = [at EXCEPT ![c] = place]

\* The call reads what it goes on with.
Read(c, p, id) == has' = [has EXCEPT ![c] = id] /\ purpose' = [purpose EXCEPT ![c] = p]

\* DEL, whoever has set the key meanwhile; what the call had read is used up.
Delete(c, keys) ==
  /\ keys' = [keys EXCEPT ![purpose[c]] = NoCall]
  /\ spent' = spent \cup {has[c]}

OtpInit ==
  /\ Init
  /\ at = [c \in Calls |-> "idle"]
  /\ purpose = [c \in Calls |-> "none"]
  /\ has = [c \in Calls |-> NoCall]
  /\ otp = [p \in Purposes |-> NoCall]
  /\ verified = [p \in Purposes |-> NoCall]
  /\ rate = 0 /\ windows = 0
  /\ admin \in BOOLEAN
  /\ spent = {}

-----------------------------------------------------------------------------
\* Mutant: every request for a code gets one.
OverEveryone(n) == FALSE

OverLimit(n) == n > Max

\* INCR, with EXPIRE for a new counter, in one script.  The client sends the script
\* again when its answer is lost: the counter grows and the call is where it was.
Limit(c) ==
  /\ at[c] = "idle"
  /\ rate > 0 \/ windows < MaxWindows
  /\ rate' = IF rate > Max THEN rate ELSE rate + 1
  /\ windows' = IF rate = 0 THEN windows + 1 ELSE windows
  /\ \/ Go(c, IF OverLimit(rate + 1) THEN "refused" ELSE "limited")
     \/ UNCHANGED at
  /\ UNCHANGED <<vars, purpose, has, otp, verified, admin, spent>>

\* getOtp: a code for any purpose replaces the one before.  The counter does not know
\* the purpose.
Store(c) ==
  /\ at[c] = "limited"
  /\ \E p \in Purposes :
       /\ purpose' = [purpose EXCEPT ![c] = p]
       /\ otp' = [otp EXCEPT ![p] = c]
  /\ Go(c, "done")
  /\ UNCHANGED <<vars, has, verified, rate, windows, admin, spent>>

-----------------------------------------------------------------------------
\* validateOtp: a client that enters the code of the key goes on with it.
Match(c) ==
  /\ at[c] = "idle"
  /\ \/ \E p \in Purposes : otp[p] # NoCall /\ Read(c, p, otp[p]) /\ Go(c, "matched")
     \/ Go(c, "refused") /\ UNCHANGED <<purpose, has>>
  /\ UNCHANGED <<vars, otp, verified, rate, windows, admin, spent>>

\* Mutant: one verification for everything.
MarkedPurposes(c) == Purposes

MarkedPurpose(c) == {purpose[c]}

\* SET otp_verified, whatever has become of the code since it was read.
Mark(c) ==
  /\ at[c] = "matched"
  /\ verified' = [p \in Purposes |-> IF p \in MarkedPurpose(c) THEN c ELSE verified[p]]
  /\ Go(c, "marked")
  /\ UNCHANGED <<vars, purpose, has, otp, rate, windows, admin, spent>>

\* DEL otp; what handleOtpType does to the user's row then is a method of Sessions.
DeleteCode(c) ==
  /\ at[c] = "marked"
  /\ Delete(c, otp)
  /\ Go(c, "done")
  /\ UNCHANGED <<vars, purpose, has, verified, rate, windows, admin>>

-----------------------------------------------------------------------------
\* resetPassword reads the verification, ...
Allow(c) ==
  /\ at[c] = "idle"
  /\ IF verified["passwordReset"] = NoCall
     THEN Go(c, "refused") /\ UNCHANGED <<purpose, has>>
     ELSE Read(c, "passwordReset", verified["passwordReset"]) /\ Go(c, "allowed")
  /\ UNCHANGED <<vars, otp, verified, rate, windows, admin, spent>>

\* ... saves the password, ...
SavePassword(c) ==
  /\ at[c] = "allowed"
  /\ Go(c, "saved")
  /\ UNCHANGED <<vars, purpose, has, otp, verified, rate, windows, admin, spent>>

\* ... and then deletes the verification.
DeleteVerification(c) ==
  /\ at[c] = "saved"
  /\ Delete(c, verified)
  /\ Go(c, "done")
  /\ UNCHANGED <<vars, purpose, has, otp, rate, windows, admin>>

-----------------------------------------------------------------------------
\* isAuthorized, in front of the lockout.
Authorize(c) ==
  /\ at[c] = "idle"
  /\ LET v == verified["authorize"]
     IN  Read(c, "authorize", v) /\ Go(c, IF v = NoCall THEN "login" ELSE "authorized")
  /\ UNCHANGED <<vars, otp, verified, rate, windows, admin, spent>>

\* Mutant: a verification opens every login until it expires.
KeepVerification(c) == UNCHANGED verified /\ spent' = spent \cup {has[c]}

UseVerification(c) == Delete(c, verified)

Consume(c) ==
  /\ at[c] = "authorized"
  /\ UseVerification(c)
  /\ Go(c, "login")
  /\ UNCHANGED <<vars, purpose, has, otp, rate, windows, admin>>

\* Mutant: the right password is enough for everybody.
PasswordEnough(c) == TRUE

\* What loginUser wants of a user with the right password; that the email is verified
\* is in Sessions.
Entitled(c) == admin => has[c] # NoCall

\* loginUser inside the lockout: unauthorized administrators count as failures.
Login(c) ==
  /\ at[c] = "login"
  /\ \/ Check(c) \/ Clear(c) \/ Count(c)
     \/ Body(c) /\ (call'[c] = "clear" => Entitled(c))
  /\ UNCHANGED otpVars

-----------------------------------------------------------------------------
\* A key expires.
Lapse ==
  /\ \/ rate > 0 /\ rate' = 0 /\ UNCHANGED <<otp, verified>>
     \/ /\ \E p \in Purposes : otp[p] # NoCall /\ otp' = [otp EXCEPT ![p] = NoCall]
        /\ UNCHANGED <<rate, verified>>
     \/ /\ \E p \in Purposes :
             verified[p] # NoCall /\ verified' = [verified EXCEPT ![p] = NoCall]
        /\ UNCHANGED <<rate, otp>>
  /\ UNCHANGED <<vars, at, purpose, has, windows, admin, spent>>

OtpNext ==
  \/ \E c \in Calls :
       \/ Limit(c) \/ Store(c)
       \/ Match(c) \/ Mark(c) \/ DeleteCode(c)
       \/ Allow(c) \/ SavePassword(c) \/ DeleteVerification(c)
       \/ Authorize(c) \/ Consume(c) \/ Login(c)
  \/ Lapse
  \/ (LockUser \/ UnlockUser \/ Tick) /\ UNCHANGED otpVars

OtpSpec == OtpInit /\ [][OtpNext]_allVars

-----------------------------------------------------------------------------
\* Every variable keeps its shape, and a key holds what a call for its own purpose made.
OtpTypeOK ==
  /\ at \in [Calls -> At]
  /\ purpose \in [Calls -> Purposes \cup {"none"}]
  /\ has \in [Calls -> Calls \cup {NoCall}]
  /\ otp \in [Purposes -> Calls \cup {NoCall}]
  /\ verified \in [Purposes -> Calls \cup {NoCall}]
  /\ rate \in 0..(Max + 1)
  /\ windows \in 0..MaxWindows
  /\ admin \in BOOLEAN /\ spent \subseteq Calls
  /\ \A p \in Purposes :
       /\ otp[p] # NoCall => purpose[otp[p]] = p
       /\ verified[p] # NoCall => purpose[verified[p]] = p

\* Calls that have been let in by the rate limit.
Sent == {c \in Calls : at[c] = "limited"} \cup
        {c \in Calls : at[c] = "done" /\ has[c] = NoCall}

\* However calls, expiries and scripts sent again interleave, users are mailed at most
\* Max codes for each life of the counter (RateLimitByKey around getOtp).
CodesPerWindow == Cardinality(Sent) <= Max * windows

\* The code that lies behind a verification, and behind what a call has read.
ValidFor(v, p) ==
  /\ purpose[v] = p
  /\ has[v] # NoCall /\ at[has[v]] = "done" /\ purpose[has[v]] = p

\* An administrator is logged in, and a password is reset, only by a call that has read
\* a verification, made by a call that had read a code, which getOtp had made: and all
\* three for the same purpose.
VerifiedForPurpose ==
  \A c \in Calls :
    /\ call[c] = "in" /\ admin => has[c] # NoCall /\ ValidFor(has[c], "authorize")
    /\ at[c] \in {"allowed", "saved"} => ValidFor(has[c], "passwordReset")

\* A code opens validations, and a verification logins or resets, only for calls that
\* overlap: once one of them has deleted the key no later call reads it, not even when
\* a newer code or verification took its place in between.
NothingUsedLater ==
  [][\A c \in Calls : has'[c] # has[c] => has'[c] \notin spent]_allVars
=============================================================================
