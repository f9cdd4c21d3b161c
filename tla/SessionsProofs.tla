--------------------------- MODULE SessionsProofs ---------------------------
(***************************************************************************)
(* Proofs about Sessions: the shape of its state, and that revoked tokens  *)
(* stay revoked unless a save sets jwtVersion back.                        *)
(***************************************************************************)
EXTENDS Sessions, TLAPS

USE SessionsConstants

THEOREM SessionsTypeCorrect == Spec => []TypeOK
<1>1. Init => TypeOK
  <2> SUFFICES ASSUME Init PROVE TypeOK
    OBVIOUS
  <2>1. PICK v \in BOOLEAN : row = Registered(v)
    BY DEF Init
  <2>2. row \in Row
    BY <2>1 DEF Registered, Row
  <2> QED  BY <2>2 DEF Init, TypeOK, CallState
<1>2. TypeOK /\ [Next]_vars => TypeOK'
  <2> SUFFICES ASSUME TypeOK, [Next]_vars PROVE TypeOK'
    OBVIOUS
  <2> USE DEF TypeOK
  <2>1. ASSUME NEW c \in Calls, NEW k \in Methods, Admit(c, k) PROVE TypeOK'
    BY <2>1 DEF Admit, Advance, CallState
  <2>2. ASSUME NEW c \in Calls, Load(c) PROVE TypeOK'
    BY <2>2 DEF Load, Advance, CallState
  <2>3. ASSUME NEW c \in Calls, Answer(c) PROVE TypeOK'
    <3>1. entity[c].ver \in Nat
      BY DEF Row
    <3> QED  BY <2>3, <3>1 DEF Answer, Advance, CallState
  <2>4. ASSUME NEW c \in Calls, Select(c) PROVE TypeOK'
    BY <2>4 DEF Select, Advance, CallState
  <2>5. ASSUME NEW c \in Calls, Write(c) PROVE TypeOK'
    BY <2>5 DEF Write, Advance, CallState
  <2>6. ASSUME NEW c \in Calls, Commit(c) PROVE TypeOK'
    <3>1. row' \in Row
      <4> DEFINE new == Changed(c)
      <4>1. entity[c] \in Row
        OBVIOUS
      <4>2. /\ new.ver \in Nat /\ new.pwd \in Calls \cup {NoCall}
            /\ new.verified \in BOOLEAN /\ new.deleted \in BOOLEAN
            /\ new.email \in Calls \cup {NoCall}
        BY <4>1 DEF Changed, Row
      <4>3. row' = [f \in Columns |-> IF f \in Differing(c) THEN new[f] ELSE row[f]]
        BY <2>6 DEF Commit
      <4> HIDE DEF new
      <4>4. /\ row'.ver \in Nat /\ row'.pwd \in Calls \cup {NoCall}
            /\ row'.verified \in BOOLEAN /\ row'.deleted \in BOOLEAN
            /\ row'.email \in Calls \cup {NoCall}
        BY <4>2, <4>3 DEF Columns, Row
      <4>5. row' = [ver |-> row'.ver, pwd |-> row'.pwd, verified |-> row'.verified,
                    deleted |-> row'.deleted, email |-> row'.email]
        BY <4>3 DEF Columns
      <4> QED  BY <4>4, <4>5 DEF Row
    <3>2. rewound' \in BOOLEAN
      BY <2>6, Zenon DEF Commit
    <3> QED  BY <2>6, <3>1, <3>2 DEF Commit, Advance, Unlock, CallState
  <2>7. ASSUME NEW c \in Calls, Fail(c) PROVE TypeOK'
    BY <2>7 DEF Fail, Advance, Unlock, CallState
  <2>8. CASE Quiescent \/ UNCHANGED vars
    BY <2>8 DEF Quiescent, vars
  <2> QED  BY <2>1, <2>2, <2>3, <2>4, <2>5, <2>6, <2>7, <2>8 DEF Next
<1> QED  BY <1>1, <1>2, PTL DEF Spec

-----------------------------------------------------------------------------
(***************************************************************************)
(* Revocation, with saves that may overlap.                                *)
(***************************************************************************)

\* While no save has set jwtVersion back, nothing is ahead of the row: no entity or row
\* that a call has in memory, and no token.  A call has loaded the row after the
\* tokens it is to revoke were issued, and those revoked are behind the row.
Behind ==
  ~rewound =>
    /\ \A c \in Calls : call[c] \in {"loaded", "selected", "written"} =>
         entity[c].ver <= row.ver /\ \A v \in before[c] : v <= entity[c].ver
    /\ \A c \in Calls : call[c] \in {"selected", "written"} => stored[c].ver <= row.ver
    /\ \A c \in Calls : \A v \in before[c] : v <= row.ver
    /\ \A v \in tokens : v <= row.ver
    /\ \A v \in revoked : v < row.ver

LEMMA BehindInit == Init => Behind
  BY DEF Init, Behind

\* A call that revokes leaves the row with a version that is higher than the one it loaded,
\* whether it writes the version or finds it written.
LEMMA RevocationCounts ==
  ASSUME TypeOK, Behind, ~rewound, NEW c \in Calls, Commit(c), kind[c] \in Ending
  PROVE  entity[c].ver < row'.ver
<1>1. /\ entity[c] \in Row /\ entity[c].ver \in Nat /\ stored[c].ver \in Nat /\ row.ver \in Nat
  BY DEF TypeOK, Row
<1>2. Changed(c).ver = entity[c].ver + 1
  BY <1>1 DEF Changed, Bumps, Row
<1>3. row'.ver = IF "ver" \in Differing(c) THEN Changed(c).ver ELSE row.ver
  BY DEF Commit, Columns
<1>4. CASE "ver" \in Differing(c)
  BY <1>1, <1>2, <1>3, <1>4
<1>5. CASE "ver" \notin Differing(c)
  <2>1. stored[c].ver = entity[c].ver + 1
    BY <1>2, <1>5 DEF Differing, Columns
  <2>2. stored[c].ver <= row.ver
    BY DEF Behind, Commit
  <2> QED  BY <1>1, <1>3, <1>5, <2>1, <2>2
<1> QED  BY <1>4, <1>5

LEMMA BehindNext ==
  ASSUME TypeOK, TypeOK', Behind, [Next]_vars
  PROVE  Behind'
<1> SUFFICES ASSUME ~rewound' PROVE Behind'
  BY DEF Behind
<1>0. /\ row.ver \in Nat /\ row'.ver \in Nat
      /\ \A c \in Calls : entity[c].ver \in Nat /\ stored[c].ver \in Nat /\ before[c] \subseteq Nat
  BY DEF TypeOK, Row
<1>1. ASSUME NEW c \in Calls, NEW k \in Methods, Admit(c, k) PROVE Behind'
  <2>1. /\ UNCHANGED <<row, entity, stored, tokens, revoked, rewound>>
        /\ \A d \in Calls \ {c} : call'[d] = call[d] /\ before'[d] = before[d]
        /\ call'[c] = "admitted" /\ before'[c] = tokens
    BY <1>1 DEF Admit, Advance, TypeOK
  <2>2. \A d \in Calls : \A v \in before'[d] : v <= row.ver
    BY <2>1 DEF Behind
  <2> QED  BY <2>1, <2>2 DEF Behind
<1>2. ASSUME NEW c \in Calls, Load(c) PROVE Behind'
  <2>1. /\ UNCHANGED <<row, stored, tokens, before, revoked, rewound>>
        /\ \A d \in Calls \ {c} : call'[d] = call[d] /\ entity'[d] = entity[d]
        /\ call'[c] = "refused" \/ (call'[c] = "loaded" /\ entity'[c] = row)
    BY <1>2 DEF Load, Advance, TypeOK
  <2> QED  BY <1>0, <2>1 DEF Behind
<1>3. ASSUME NEW c \in Calls, Answer(c) PROVE Behind'
  <2>1. /\ UNCHANGED <<row, entity, stored, before, revoked, rewound>> /\ call[c] = "loaded"
        /\ \A d \in Calls \ {c} : call'[d] = call[d]
        /\ call'[c] \in {"done", "refused"}
        /\ tokens' \subseteq tokens \cup {entity[c].ver}
    BY <1>3 DEF Answer, Advance, TypeOK
  <2> QED  BY <2>1 DEF Behind
<1>4. ASSUME NEW c \in Calls, Select(c) PROVE Behind'
  <2>1. /\ UNCHANGED <<row, entity, tokens, before, revoked, rewound>> /\ call[c] = "loaded"
        /\ \A d \in Calls \ {c} : call'[d] = call[d] /\ stored'[d] = stored[d]
        /\ call'[c] = "done" \/ (call'[c] = "selected" /\ stored'[c] = row)
    BY <1>4 DEF Select, Advance, TypeOK
  <2> QED  BY <1>0, <2>1 DEF Behind
<1>5. ASSUME NEW c \in Calls, Write(c) PROVE Behind'
  <2>1. /\ UNCHANGED <<row, entity, stored, tokens, before, revoked, rewound>>
        /\ call[c] = "selected" /\ call'[c] = "written"
        /\ \A d \in Calls \ {c} : call'[d] = call[d]
    BY <1>5 DEF Write, Advance, TypeOK
  <2> QED  BY <2>1 DEF Behind
<1>6. ASSUME NEW c \in Calls, Commit(c) PROVE Behind'
  <2>1. /\ UNCHANGED <<entity, stored, tokens, before>> /\ call[c] = "written"
        /\ call'[c] = "done" /\ \A d \in Calls \ {c} : call'[d] = call[d]
        /\ revoked' = IF kind[c] \in Ending THEN revoked \cup before[c] ELSE revoked
        /\ rewound' = (rewound \/ row'.ver < row.ver)
    BY <1>6 DEF Commit, Advance, TypeOK
  <2>n. ~rewound /\ ~(row'.ver < row.ver)
    BY <2>1, Zenon
  <2>2. ~rewound /\ row.ver <= row'.ver
    BY <1>0, <2>n
  <2>3. ASSUME NEW v \in Nat, v <= row.ver PROVE v <= row'.ver
    BY <1>0, <2>2, <2>3
  <2>4. /\ \A d \in Calls : call'[d] \in {"loaded", "selected", "written"} =>
             entity'[d].ver <= row'.ver /\ \A v \in before'[d] : v <= entity'[d].ver
        /\ \A d \in Calls : call'[d] \in {"selected", "written"} => stored'[d].ver <= row'.ver
        /\ \A d \in Calls : \A v \in before'[d] : v <= row'.ver
        /\ \A v \in tokens' : v <= row'.ver
    BY <1>0, <2>1, <2>2, <2>3 DEF Behind, TypeOK
  <2>5. ASSUME NEW v \in revoked' PROVE v < row'.ver
    <3>1. CASE v \in revoked
      <4>1. v \in Nat /\ v < row.ver
        BY <2>2, <3>1 DEF Behind, TypeOK
      <4> QED  BY <1>0, <2>2, <4>1
    <3>2. CASE v \notin revoked
      <4>1. kind[c] \in Ending /\ v \in before[c]
        BY <2>1, <2>5, <3>2
      <4>2. v \in Nat /\ v <= entity[c].ver
        BY <1>0, <2>1, <2>2, <4>1 DEF Behind
      <4>3. entity[c].ver < row'.ver
        BY <1>6, <2>2, <4>1, RevocationCounts
      <4> QED  BY <1>0, <4>2, <4>3
    <3> QED  BY <3>1, <3>2
  <2> QED  BY <2>4, <2>5 DEF Behind
<1>7. ASSUME NEW c \in Calls, Fail(c) PROVE Behind'
  <2>1. /\ UNCHANGED <<row, entity, stored, tokens, before, revoked, rewound>>
        /\ call'[c] = "refused" /\ \A d \in Calls \ {c} : call'[d] = call[d]
    BY <1>7 DEF Fail, Advance, TypeOK
  <2> QED  BY <2>1 DEF Behind
<1>8. CASE Quiescent \/ UNCHANGED vars
  BY <1>8 DEF Quiescent, vars, Behind
<1> QED  BY <1>1, <1>2, <1>3, <1>4, <1>5, <1>6, <1>7, <1>8 DEF Next

\* However saves of a user overlap, a token that a logout, a lock, an unlock, a
\* deactivation or an administrator's reset found issued is accepted again only after
\* a save has set jwtVersion back (logout, lockUser, deactivateUser, resetPassword).
THEOREM RevokedForGood == Spec => []RevokedUnlessRewound
<1>1. TypeOK /\ Behind => RevokedUnlessRewound
  BY DEF TypeOK, Row, Behind, RevokedUnlessRewound, RevokedStaysRevoked, Accepted
<1>2. TypeOK /\ TypeOK' /\ Behind /\ [Next]_vars => Behind'
  BY BehindNext
<1> QED  BY <1>1, <1>2, BehindInit, SessionsTypeCorrect, PTL DEF Spec
=============================================================================
