--------------------------- MODULE AuditSanitizer ---------------------------
(***************************************************************************)
(* What sanitizeAudit makes of a request before it is logged               *)
(* (utils/audit-sanitizer.ts).  A JSON value is <<"leaf", x>>,             *)
(* <<"array", sequence of values>> or <<"object", function from keys to    *)
(* values>>; where a value was redacted there is <<"hmac", value>>.  A key *)
(* is the sequence of its words in lower case, so that "newPassword" is    *)
(* <<"new", "password">>; matches across words ("shipping" has "pin") are  *)
(* left out.                                                               *)
(***************************************************************************)
EXTENDS Naturals, SequencesExt

CONSTANTS
  Deny,            \* DEFAULT_DENY, by words
  Names,           \* the keys of objects
  Leaves,          \* strings, numbers, booleans and null
  Depth,           \* bound on the nesting of values
  Width            \* bound on the length of arrays

ASSUME SanitizerConstants == Depth \in Nat /\ Width \in Nat

\* Arrays and objects of some values.
Arrays(inner) == {"array"} \X UNION {[1..n -> inner] : n \in 0..Width}
Objects(inner) == {"object"} \X UNION {[keys -> inner] : keys \in SUBSET Names}

\* Values that are nested in each other at most d times.
Values[d \in 0..Depth] ==
  IF d = 0 THEN {"leaf"} \X Leaves
  ELSE Values[d - 1] \cup Arrays(Values[d - 1]) \cup Objects(Values[d - 1])

\* Those that are sanitized.
Body == Values[Depth]

-----------------------------------------------------------------------------
\* Mutant: a key must be equal to one that is denied.
EqualsDenied(key) == key \in {<<d>> : d \in Deny}

MatchesKey(key) == \E i \in DOMAIN key : key[i] \in Deny

\* One way, and the same for equal values.
RedactValue(v) == <<"hmac", v>>

\* sanitizeAudit.
Walk[v \in Body] ==
  CASE v[1] = "leaf" -> v
    [] v[1] = "array" -> <<"array", [i \in DOMAIN v[2] |-> Walk[v[2][i]]]>>
    [] v[1] = "object" ->
         <<"object", [k \in DOMAIN v[2] |->
                        IF MatchesKey(k) THEN RedactValue(v[2][k]) ELSE Walk[v[2][k]]]>>

-----------------------------------------------------------------------------
Single == {"leaf", "hmac"}

\* Values before and after.
Logged == Body \cup {RedactValue(v) : v \in Body} \cup {Walk[v] : v \in Body}

\* What a value consists of, each part with the path that leads to it.
Parts[v \in Logged] ==
  {<<<<>>, v>>} \cup
    IF v[1] \in Single THEN {}
    ELSE UNION {{<<<<<<v[1], k>>>> \o p[1], p[2]>> : p \in Parts[v[2][k]]} : k \in DOMAIN v[2]}

\* Some key on the path has a word that is denied.
Secret(path) ==
  \E i \in DOMAIN path : path[i][1] = "object" /\ ToSet(path[i][2]) \cap Deny # {}

Plain(v) == {p \in Parts[v] : p[2][1] \in Single /\ ~Secret(p[1])}

\* Whatever the nesting, of what is below a denied key only the hash of the value at that
\* place is left, and everything else is unchanged, at its place.
Sanitized ==
  \A v \in Body :
    /\ Plain(Walk[v]) = Plain(v)
    /\ \A p \in Parts[Walk[v]] :
         Secret(p[1]) => \E q \in Parts[v] : q[1] = p[1] /\ p[2] = RedactValue(q[2])
=============================================================================
