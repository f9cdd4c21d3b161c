------------------------------ MODULE Sessions ------------------------------
(***************************************************************************)
(* The life of one user's row and of the tokens issued on it               *)
(* (services/auth.services.ts, services/admin-user.services.ts,            *)
(* middleware/auth.ts, repositories/user.repository.ts).                   *)
(*                                                                         *)
(* A token carries the jwtVersion of the row it was issued on and is       *)
(* accepted while the row has that version.  Every method that changes the *)
(* user loads the whole entity, changes some of its columns in memory and  *)
(* saves the entity.  TypeORM's save() selects the row again and, in a     *)
(* transaction, updates the columns in which the entity differs from it:   *)
(* those the method changed, and those somebody else has changed since.    *)
(***************************************************************************)
EXTENDS Integers, FiniteSets

CONSTANTS
  Calls,           \* calls of the API about this user
  NoCall,          \* no call: who set a column at registration, who holds a free row
  Methods          \* the methods called

\* Methods that save nothing.
Reading == {"login", "refresh"}

\* Methods that are to end the sessions there are.
Ending == {"logout", "lockUser", "unlockUser", "deactivate", "adminReset"}

\* Methods that set a password.
Resetting == {"reset", "adminReset"}

ASSUME SessionsConstants ==
  /\ IsFiniteSet(Calls)
  /\ NoCall \notin Calls
  /\ Methods \subseteq Reading \cup Ending \cup Resetting \cup {"verify", "update"}

VARIABLES
  row,             \* the committed row
  rowLock,         \* the call whose transaction has updated the row
  call,            \* call[c]: where the call is
  kind,            \* kind[c]: its method, once it has been made
  entity,          \* entity[c]: the row as the call loaded it
  stored,          \* stored[c]: the row as its save() selected it
  tokens,          \* the versions of the tokens issued so far
  before,          \* before[c]: those issued before the call was made
  revoked,         \* those issued before a call in Ending that has ended
  rewound          \* whether a save has set jwtVersion back (history, nothing reads it)

vars == <<row, rowLock, call, kind, entity, stored, tokens, before, revoked, rewound>>

\* pwd and email stand for the call that set them: a hash has its own salt.
Row == [ver : Nat, pwd : Calls \cup {NoCall}, verified : BOOLEAN, deleted : BOOLEAN,
        email : Calls \cup {NoCall}]

Registered(v) ==
  [ver |-> 0, pwd |-> NoCall, verified |-> v, deleted |-> FALSE, email |-> NoCall]

Columns == {"ver", "pwd", "verified", "deleted", "email"}

CallState == {"idle", "admitted", "loaded", "selected", "written", "done", "refused"}

\* Calls between their load of the user and the end of their save.
Saving(c) == kind[c] \notin Reading /\ call[c] \in {"loaded", "selected", "written"}

Advance(c, state) == call' = [call EXCEPT ![c] = state]

-----------------------------------------------------------------------------
Init ==
  /\ row \in {Registered(v) : v \in BOOLEAN}
  /\ rowLock = NoCall
  /\ call = [c \in Calls |-> "idle"]
  /\ kind = [c \in Calls |-> "none"]
  /\ entity = [c \in Calls |-> row]
  /\ stored = [c \in Calls |-> row]
  /\ tokens = {}
  /\ before = [c \in Calls |-> {}]
  /\ revoked = {}
  /\ rewound = FALSE

\* authenticateJWT: a token is accepted on the version alone.
Accepted(v) == ~row.deleted /\ row.ver = v

\* The route of a logout wants a token of this user; an administrator's methods
\* want one of the administrator's, the others none.  What a login wants of the
\* lockout, and a reset or a verification of the OTP, is left to the client.
Admit(c, k) ==
  /\ call[c] = "idle"
  /\ k = "logout" => \E v \in tokens : Accepted(v)
  /\ Advance(c, "admitted")
  /\ kind' = [kind EXCEPT ![c] = k]
  /\ before' = [before EXCEPT ![c] = tokens]
  /\ UNCHANGED <<row, rowLock, entity, stored, tokens, revoked, rewound>>

\* findOne: a deleted user is not found.
Load(c) ==
  /\ call[c] = "admitted"
  /\ IF row.deleted
     THEN Advance(c, "refused") /\ UNCHANGED entity
     ELSE Advance(c, "loaded") /\ entity' = [entity EXCEPT ![c] = row]
  /\ UNCHANGED <<row, rowLock, kind, stored, tokens, before, revoked, rewound>>

\* loginUser wants a verified user (a wrong password is in Fail), refreshToken a
\* token of the version loaded.
Entitled(c) ==
  IF kind[c] = "login" THEN entity[c].verified ELSE entity[c].ver \in before[c]

\* The version signed into the tokens is that of the entity, however old it is.
Answer(c) ==
  /\ call[c] = "loaded" /\ kind[c] \in Reading
  /\ IF Entitled(c)
     THEN Advance(c, "done") /\ tokens' = tokens \cup {entity[c].ver}
     ELSE Advance(c, "refused") /\ UNCHANGED tokens
  /\ UNCHANGED <<row, rowLock, kind, entity, stored, before, revoked, rewound>>

-----------------------------------------------------------------------------
\* Mutant: logout only reads the user.
BumpsExceptLogout(c) == kind[c] \in Ending \ {"logout"}

Bumps(c) == kind[c] \in Ending

\* The entity as the method hands it to save().
Changed(c) ==
  [entity[c] EXCEPT
     !.ver      = IF Bumps(c) THEN @ + 1 ELSE @,
     !.pwd      = IF kind[c] \in Resetting THEN c ELSE @,
     !.verified = @ \/ kind[c] = "verify",
     !.deleted  = @ \/ kind[c] = "deactivate",
     !.email    = IF kind[c] = "update" THEN c ELSE @]

\* save() selects the row; handleOtpType does not save a verified user.
Select(c) ==
  /\ call[c] = "loaded" /\ kind[c] \notin Reading
  /\ IF kind[c] = "verify" /\ entity[c].verified
     THEN Advance(c, "done") /\ UNCHANGED stored
     ELSE Advance(c, "selected") /\ stored' = [stored EXCEPT ![c] = row]
  /\ UNCHANGED <<row, rowLock, kind, entity, tokens, before, revoked, rewound>>

Differing(c) == {f \in Columns : Changed(c)[f] # stored[c][f]}

\* The UPDATE waits for the row; without a difference there is no UPDATE.
Write(c) ==
  /\ call[c] = "selected"
  /\ IF Differing(c) = {} THEN UNCHANGED rowLock ELSE rowLock = NoCall /\ rowLock' = c
  /\ Advance(c, "written")
  /\ UNCHANGED <<row, kind, entity, stored, tokens, before, revoked, rewound>>

\* Mutant: the connection of a transaction that fails is not given back.
UnlockOnCommit(c) ==
  rowLock' = IF rowLock = c /\ call'[c] = "done" THEN NoCall ELSE rowLock

Unlock(c) == rowLock' = IF rowLock = c THEN NoCall ELSE rowLock

Commit(c) ==
  /\ call[c] = "written"
  /\ row' = [f \in Columns |-> IF f \in Differing(c) THEN Changed(c)[f] ELSE row[f]]
  /\ Advance(c, "done") /\ Unlock(c)
  /\ revoked' = IF kind[c] \in Ending THEN revoked \cup before[c] ELSE revoked
  /\ rewound' = (rewound \/ row'.ver < row.ver)
  /\ UNCHANGED <<kind, entity, stored, tokens, before>>

\* Nothing is written and the caller gets an error: a wrong password, an email
\* that is taken, a query or a Redis command that fails, the mail that an
\* administrator's reset sends inside its transaction.
Fail(c) ==
  /\ Saving(c) \/ (call[c] = "loaded" /\ kind[c] = "login")
  /\ Advance(c, "refused") /\ Unlock(c)
  /\ UNCHANGED <<row, kind, entity, stored, tokens, before, revoked, rewound>>

\* Every call has ended.
Quiescent ==
  /\ \A c \in Calls : call[c] \in {"done", "refused"}
  /\ UNCHANGED vars

Next ==
  \/ \E c \in Calls : \/ \E k \in Methods : Admit(c, k)
                      \/ Load(c) \/ Answer(c) \/ Select(c) \/ Write(c) \/ Commit(c) \/ Fail(c)
  \/ Quiescent

Spec == Init /\ [][Next]_vars

-----------------------------------------------------------------------------
\* Every variable keeps its shape, and the row is locked only by a call that has
\* written to it and has not ended.
TypeOK ==
  /\ row \in Row
  /\ rowLock \in {c \in Calls : call[c] = "written"} \cup {NoCall}
  /\ call \in [Calls -> CallState]
  /\ kind \in [Calls -> Methods \cup {"none"}]
  /\ entity \in [Calls -> Row]
  /\ stored \in [Calls -> Row]
  /\ tokens \subseteq Nat
  /\ before \in [Calls -> SUBSET Nat]
  /\ revoked \subseteq Nat
  /\ rewound \in BOOLEAN

\* "A jwtVersion field on the user is incremented on logout which invalidates
\* previously issued tokens for that user" (README): once a logout, a lock, an
\* unlock, a deactivation or an administrator's reset has ended, no token that was
\* issued before it was made is ever accepted again, whatever else is saved.
RevokedStaysRevoked == \A v \in revoked : ~Accepted(v)

\* A save that sets jwtVersion back is the only way in which revoked tokens come back.
\* Saves may overlap otherwise: two revocations that count as one, a logout that finds
\* the version it wants already stored and writes nothing, stale saves of other columns,
\* and a login or refresh that signs the version it loaded before the revocation leave
\* every token that was issued before a revocation refused.
RevokedUnlessRewound == ~rewound => RevokedStaysRevoked
=============================================================================
