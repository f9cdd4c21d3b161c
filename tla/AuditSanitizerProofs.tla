------------------------ MODULE AuditSanitizerProofs ------------------------
(***************************************************************************)
(* Proofs about AuditSanitizer, for any names, denied words and leaves,    *)
(* and values of any depth and width.  Recursive functions are shown to    *)
(* exist, and properties to hold, level by level.                          *)
(***************************************************************************)
EXTENDS AuditSanitizer, WellFoundedInduction, NaturalsInduction, TLAPS

USE SanitizerConstants

-----------------------------------------------------------------------------
\* A set of levels that has the lowest, and with each the next, has all.
LEMMA LevelInduction ==
  ASSUME NEW T, T \subseteq 0..Depth, 0 \in T, \A d \in T : d < Depth => d + 1 \in T
  PROVE  T = 0..Depth
<1> DEFINE Missing == 0..Depth \ T
           R == {p \in Nat \X Nat : p[1] < p[2]}
<1> SUFFICES ASSUME Missing # {} PROVE FALSE
  OBVIOUS
<1>1. IsWellFoundedOn(R, Nat)
  BY NatLessThanWellFounded DEF OpToRel
<1>2. Missing \subseteq Nat
  OBVIOUS
<1>3. PICK d \in Missing : \A e \in Missing : ~(<<e, d>> \in R)
  <2> HIDE DEF Missing, R
  <2> QED  BY <1>1, <1>2, WFMin
<1>4. d \in 1..Depth
  BY <1>3
<1>5. <<d - 1, d>> \in R
  BY <1>4
<1>6. d - 1 \in T
  BY <1>3, <1>4, <1>5
<1> QED  BY <1>3, <1>4, <1>6

-----------------------------------------------------------------------------
\* What Values, Walk and Parts are at one value, from what they are below it.

ValuesAt(F, d) ==
  IF d = 0 THEN {"leaf"} \X Leaves
  ELSE F[d - 1] \cup Arrays(F[d - 1]) \cup Objects(F[d - 1])

WalkAt(F, v) ==
  CASE v[1] = "leaf" -> v
    [] v[1] = "array" -> <<"array", [i \in DOMAIN v[2] |-> F[v[2][i]]]>>
    [] v[1] = "object" ->
         <<"object", [k \in DOMAIN v[2] |->
                        IF MatchesKey(k) THEN RedactValue(v[2][k]) ELSE F[v[2][k]]]>>

\* Parts, seen from one step above.
Under(step, parts) == {<<<<step>> \o p[1], p[2]>> : p \in parts}

PartsAt(F, v) ==
  {<<<<>>, v>>} \cup
    IF v[1] \in Single THEN {}
    ELSE UNION {Under(<<v[1], k>>, F[v[2][k]]) : k \in DOMAIN v[2]}

\* The levels of values are as the recursion says.
LEMMA ValuesSolve == Values = [d \in 0..Depth |-> ValuesAt(Values, d)]
<1> DEFINE Upto(F, n) == \A d \in 0..n : F[d] = ValuesAt(F, d)
           T == {n \in 0..Depth : \E F : Upto(F, n)}
<1>1. 0 \in T
  <2> DEFINE F == [d \in 0..Depth |-> {"leaf"} \X Leaves]
  <2>1. Upto(F, 0)
    BY DEF ValuesAt
  <2> HIDE DEF F
  <2> QED  BY <2>1
<1>2. ASSUME NEW n \in T, n < Depth PROVE n + 1 \in T
  <2>1. PICK F : Upto(F, n)
    BY <1>2
  <2> DEFINE G == [d \in 0..Depth |-> IF d <= n THEN F[d] ELSE ValuesAt(F, d)]
  <2>2. ASSUME NEW d \in 0..(n + 1) PROVE G[d] = ValuesAt(G, d)
    <3>1. d \in 0..Depth /\ n \in 0..Depth
      BY <1>2
    <3>2. G[d] = ValuesAt(F, d)
      BY <2>1, <3>1
    <3>3. d # 0 => G[d - 1] = F[d - 1]
      BY <3>1
    <3> HIDE DEF G
    <3> QED  BY <3>2, <3>3 DEF ValuesAt
  <2> HIDE DEF G
  <2>3. Upto(G, n + 1)
    BY <2>2
  <2> QED  BY <1>2, <2>3
<1>3. T = 0..Depth
  <2>1. T \subseteq 0..Depth
    OBVIOUS
  <2>2. \A n \in T : n < Depth => n + 1 \in T
    BY <1>2
  <2> HIDE DEF T
  <2> QED  BY <1>1, <2>1, <2>2, LevelInduction
<1>4. PICK F : Upto(F, Depth)
  BY <1>3
<1> DEFINE H == [d \in 0..Depth |-> F[d]]
<1>5. H = [d \in 0..Depth |-> ValuesAt(H, d)]
  <2> SUFFICES ASSUME NEW d \in 0..Depth PROVE H[d] = ValuesAt(H, d)
    OBVIOUS
  <2>1. d # 0 => H[d - 1] = F[d - 1]
    OBVIOUS
  <2> QED  BY <1>4, <2>1 DEF ValuesAt
<1> HIDE DEF H
<1> QED  BY <1>5 DEF Values, ValuesAt

LEMMA ValuesRecur ==
  /\ Values[0] = {"leaf"} \X Leaves
  /\ \A d \in 1..Depth :
       Values[d] = Values[d - 1] \cup Arrays(Values[d - 1]) \cup Objects(Values[d - 1])
<1>1. \A d \in 0..Depth : Values[d] = ValuesAt(Values, d)
  BY ValuesSolve
<1>2. Values[0] = {"leaf"} \X Leaves
  <2>1. Values[0] = ValuesAt(Values, 0)
    BY <1>1
  <2> QED  BY <2>1 DEF ValuesAt
<1>3. ASSUME NEW d \in 1..Depth
      PROVE  Values[d] = Values[d - 1] \cup Arrays(Values[d - 1]) \cup Objects(Values[d - 1])
  <2>1. d \in 0..Depth /\ d # 0
    OBVIOUS
  <2> QED  BY <1>1, <2>1 DEF ValuesAt
<1> QED  BY <1>2, <1>3

\* A value that holds others, all of them of S.
Holds(v, S) ==
  /\ v[1] \in {"array", "object"} /\ v = <<v[1], v[2]>>
  /\ \A k \in DOMAIN v[2] : v[2][k] \in S

LEMMA HoldsMore == \A S, SS, v : Holds(v, S) /\ S \subseteq SS => Holds(v, SS)
  BY DEF Holds

LEMMA NestedHold == \A S : \A v \in Arrays(S) \cup Objects(S) : Holds(v, S)
<1> TAKE S
<1>1. ASSUME NEW v \in Arrays(S) PROVE Holds(v, S)
  <2>1. PICK f \in UNION {[1..n -> S] : n \in 0..Width} : v = <<"array", f>>
    BY <1>1 DEF Arrays
  <2>2. PICK n \in 0..Width : f \in [1..n -> S]
    BY <2>1
  <2> QED  BY <2>1, <2>2 DEF Holds
<1>2. ASSUME NEW v \in Objects(S) PROVE Holds(v, S)
  <2>1. PICK f \in UNION {[keys -> S] : keys \in SUBSET Names} : v = <<"object", f>>
    BY <1>2 DEF Objects
  <2>2. PICK keys \in SUBSET Names : f \in [keys -> S]
    BY <2>1
  <2> QED  BY <2>1, <2>2 DEF Holds
<1> QED  BY <1>1, <1>2

\* What a value holds is of a lower level.
LEMMA Below ==
  \A d \in 0..Depth : \A v \in Values[d] :
    \/ v \in {"leaf"} \X Leaves
    \/ d > 0 /\ Holds(v, Values[d - 1])
<1> DEFINE Fine(d) == \A v \in Values[d] :
                        v \in {"leaf"} \X Leaves \/ (d > 0 /\ Holds(v, Values[d - 1]))
           T == {d \in 0..Depth : Fine(d)}
<1>1. Fine(0)
  BY ValuesRecur
<1>2. ASSUME NEW d \in 0..Depth, Fine(d), d < Depth PROVE Fine(d + 1)
  <2>1. /\ d + 1 \in 1..Depth
        /\ Values[d + 1] = Values[d] \cup Arrays(Values[d]) \cup Objects(Values[d])
    BY <1>2, ValuesRecur
  <2>2. ASSUME NEW v \in Values[d], Holds(v, Values[d - 1]), d > 0 PROVE Holds(v, Values[d])
    <3>1. Values[d - 1] \subseteq Values[d]
      BY <2>2, ValuesRecur
    <3> QED  BY <2>2, <3>1, HoldsMore
  <2>3. \A v \in Arrays(Values[d]) \cup Objects(Values[d]) : Holds(v, Values[d])
    BY NestedHold
  <2> QED  BY <1>2, <2>1, <2>2, <2>3
<1>3. T = 0..Depth
  <2>1. T \subseteq 0..Depth /\ 0 \in T /\ \A d \in T : d < Depth => d + 1 \in T
    BY <1>1, <1>2
  <2> HIDE DEF T
  <2> QED  BY <2>1, LevelInduction
<1> QED  BY <1>3

LEMMA Within == \A d \in 0..Depth : Values[d] \subseteq Body
<1> DEFINE T == {n \in 0..Depth : \A d \in 0..n : Values[d] \subseteq Values[n]}
<1>1. 0 \in T
  OBVIOUS
<1>2. ASSUME NEW n \in T, n < Depth PROVE n + 1 \in T
  <2>1. Values[n] \subseteq Values[n + 1]
    BY <1>2, ValuesRecur
  <2> QED  BY <1>2, <2>1
<1>3. T = 0..Depth
  <2>1. T \subseteq 0..Depth /\ \A n \in T : n < Depth => n + 1 \in T
    BY <1>2
  <2> HIDE DEF T
  <2> QED  BY <1>1, <2>1, LevelInduction
<1> QED  BY <1>3 DEF Body

\* Walk is as the recursion says.
LEMMA WalkSolve == Walk = [v \in Body |-> WalkAt(Walk, v)]
<1> DEFINE Upto(F, n) == \A v \in Values[n] : F[v] = WalkAt(F, v)
           T == {n \in 0..Depth : \E F : Upto(F, n)}
<1>0. \A F, v : v \in {"leaf"} \X Leaves => WalkAt(F, v) = v
  BY DEF WalkAt
<1>1. 0 \in T
  <2> DEFINE F == [v \in Body |-> v]
  <2>1. Upto(F, 0)
    BY <1>0, ValuesRecur, Within
  <2> HIDE DEF F
  <2> QED  BY <2>1
<1>2. ASSUME NEW n \in T, n < Depth PROVE n + 1 \in T
  <2>1. PICK F : Upto(F, n)
    BY <1>2
  <2> DEFINE G == [v \in Body |-> IF v \in Values[n] THEN F[v] ELSE WalkAt(F, v)]
  <2>2. /\ n + 1 \in 0..Depth
        /\ \A v \in Values[n] : v \in Body
        /\ \A v \in Values[n + 1] : v \in Body
    BY <1>2, Within
  <2>3. ASSUME NEW v \in Values[n + 1] PROVE G[v] = WalkAt(G, v)
    <3>1. G[v] = WalkAt(F, v)
      BY <2>1, <2>2
    <3>2. CASE v \in {"leaf"} \X Leaves
      BY <1>0, <3>1, <3>2
    <3>3. CASE Holds(v, Values[n])
      <4>1. \A k \in DOMAIN v[2] : G[v[2][k]] = F[v[2][k]]
        BY <2>2, <3>3 DEF Holds
      <4> HIDE DEF G
      <4> QED  BY <3>1, <4>1 DEF WalkAt
    <3> QED  BY <2>2, <3>2, <3>3, Below
  <2> HIDE DEF G
  <2> QED  BY <2>2, <2>3
<1>3. T = 0..Depth
  <2>1. T \subseteq 0..Depth /\ \A n \in T : n < Depth => n + 1 \in T
    BY <1>2
  <2> HIDE DEF T
  <2> QED  BY <1>1, <2>1, LevelInduction
<1>4. PICK F : Upto(F, Depth)
  BY <1>3
<1> DEFINE H == [v \in Body |-> F[v]]
<1>5. ASSUME NEW v \in Body PROVE H[v] = WalkAt(H, v)
  <2>1. CASE v \in {"leaf"} \X Leaves
    BY <1>0, <1>4, <2>1 DEF Body
  <2>2. CASE Depth > 0 /\ Holds(v, Values[Depth - 1])
    <3>1. \A k \in DOMAIN v[2] : v[2][k] \in Body
      BY <2>2, Within DEF Holds
    <3>2. \A k \in DOMAIN v[2] : H[v[2][k]] = F[v[2][k]]
      BY <3>1
    <3>3. H[v] = WalkAt(F, v)
      BY <1>4 DEF Body
    <3> HIDE DEF H
    <3> QED  BY <3>2, <3>3 DEF WalkAt
  <2> QED  BY <2>1, <2>2, Below DEF Body
<1>6. H = [v \in Body |-> WalkAt(H, v)]
  BY <1>5
<1> HIDE DEF H
<1> QED  BY <1>6 DEF Walk, WalkAt

-----------------------------------------------------------------------------
\* What Walk does to a value and to what it holds.

Denied(kind, k) == kind = "object" /\ MatchesKey(k)

LEMMA WalkLeaf == \A v \in Body : v \in {"leaf"} \X Leaves => Walk[v] = v
<1>1. \A v \in Body : Walk[v] = WalkAt(Walk, v)
  BY WalkSolve
<1> QED  BY <1>1 DEF WalkAt

LEMMA WalkHolding ==
  ASSUME NEW S, NEW v \in Body, Holds(v, S)
  PROVE  /\ Walk[v] = <<v[1], Walk[v][2]>> /\ DOMAIN Walk[v][2] = DOMAIN v[2]
         /\ \A k \in DOMAIN v[2] :
              Walk[v][2][k] = IF Denied(v[1], k) THEN RedactValue(v[2][k]) ELSE Walk[v[2][k]]
<1>1. Walk[v] = WalkAt(Walk, v)
  BY WalkSolve
<1>2. CASE v[1] = "array"
  <2>1. Walk[v] = <<"array", [i \in DOMAIN v[2] |-> Walk[v[2][i]]]>>
    BY <1>1, <1>2 DEF WalkAt
  <2> QED  BY <1>2, <2>1 DEF Denied
<1>3. CASE v[1] = "object"
  <2>1. Walk[v] =
          <<"object", [k \in DOMAIN v[2] |->
                         IF MatchesKey(k) THEN RedactValue(v[2][k]) ELSE Walk[v[2][k]]]>>
    BY <1>1, <1>3 DEF WalkAt
  <2> QED  BY <1>3, <2>1 DEF Denied
<1> QED  BY <1>2, <1>3 DEF Holds

\* Values before and after, of a level.
LoggedTo(d) ==
  Values[d] \cup {RedactValue(v) : v \in Body} \cup {Walk[v] : v \in Values[d]}

LEMMA LoggedBelow ==
  \A d \in 0..Depth : \A w \in LoggedTo(d) :
    w[1] \in Single \/ (d > 0 /\ Holds(w, LoggedTo(d - 1)))
<1> SUFFICES ASSUME NEW d \in 0..Depth, NEW w \in LoggedTo(d)
             PROVE  w[1] \in Single \/ (d > 0 /\ Holds(w, LoggedTo(d - 1)))
  OBVIOUS
<1>1. CASE w \in {RedactValue(v) : v \in Body}
  BY <1>1 DEF RedactValue, Single
<1>2. ASSUME NEW v \in Values[d], v \in {"leaf"} \X Leaves
      PROVE  v[1] \in Single /\ Walk[v][1] \in Single
  BY <1>2, Within, WalkLeaf DEF Single
<1>3. ASSUME NEW v \in Values[d], d > 0, Holds(v, Values[d - 1])
      PROVE  Holds(v, LoggedTo(d - 1)) /\ Holds(Walk[v], LoggedTo(d - 1))
  <2>1. Values[d - 1] \subseteq LoggedTo(d - 1)
    BY DEF LoggedTo
  <2>2. Holds(v, LoggedTo(d - 1))
    BY <1>3, <2>1, HoldsMore
  <2>3. v \in Body /\ d - 1 \in 0..Depth
    BY <1>3, Within
  <2>4. /\ Walk[v] = <<v[1], Walk[v][2]>> /\ DOMAIN Walk[v][2] = DOMAIN v[2]
        /\ \A k \in DOMAIN v[2] :
             Walk[v][2][k] = IF Denied(v[1], k) THEN RedactValue(v[2][k]) ELSE Walk[v[2][k]]
    BY <1>3, <2>3, WalkHolding
  <2>5. ASSUME NEW k \in DOMAIN v[2] PROVE Walk[v][2][k] \in LoggedTo(d - 1)
    <3>1. v[2][k] \in Values[d - 1] /\ v[2][k] \in Body
      BY <1>3, <2>3, Within DEF Holds
    <3>2. RedactValue(v[2][k]) \in LoggedTo(d - 1) /\ Walk[v[2][k]] \in LoggedTo(d - 1)
      BY <3>1 DEF LoggedTo
    <3> QED  BY <2>4, <3>2
  <2>6. v[1] \in {"array", "object"}
    BY <1>3 DEF Holds
  <2>7. Holds(Walk[v], LoggedTo(d - 1))
    <3> DEFINE u == Walk[v]
    <3>1. u = <<v[1], u[2]>> /\ \A k \in DOMAIN u[2] : u[2][k] \in LoggedTo(d - 1)
      BY <2>4, <2>5
    <3> HIDE DEF u
    <3>2. u[1] = v[1]
      BY <3>1
    <3>3. Holds(u, LoggedTo(d - 1))
      BY <2>6, <3>1, <3>2 DEF Holds
    <3> QED  BY <3>3 DEF u
  <2> QED  BY <2>2, <2>7
<1>4. ASSUME NEW v \in Values[d] PROVE
        \/ v[1] \in Single /\ Walk[v][1] \in Single
        \/ d > 0 /\ Holds(v, LoggedTo(d - 1)) /\ Holds(Walk[v], LoggedTo(d - 1))
  BY <1>2, <1>3, Below
<1> QED  BY <1>1, <1>4 DEF LoggedTo

LEMMA LoggedWithin == LoggedTo(Depth) = Logged /\ \A d \in 0..Depth : LoggedTo(d) \subseteq Logged
  BY Within DEF LoggedTo, Logged, Body

LEMMA PartsSame ==
  ASSUME NEW F, NEW G, NEW v, \A k \in DOMAIN v[2] : F[v[2][k]] = G[v[2][k]]
  PROVE  PartsAt(F, v) = PartsAt(G, v)
<1>1. {Under(<<v[1], k>>, F[v[2][k]]) : k \in DOMAIN v[2]}
        = {Under(<<v[1], k>>, G[v[2][k]]) : k \in DOMAIN v[2]}
  OBVIOUS
<1> QED  BY <1>1 DEF PartsAt

\* Parts is as the recursion says.
LEMMA PartsSolve == Parts = [v \in Logged |-> PartsAt(Parts, v)]
<1> DEFINE Upto(F, n) == \A v \in LoggedTo(n) : F[v] = PartsAt(F, v)
           T == {n \in 0..Depth : \E F : Upto(F, n)}
<1>0. \A F, v : v[1] \in Single => PartsAt(F, v) = {<<<<>>, v>>}
  BY DEF PartsAt
<1>1. 0 \in T
  <2> DEFINE F == [v \in Logged |-> {<<<<>>, v>>}]
  <2>1. \A v \in LoggedTo(0) : v \in Logged /\ v[1] \in Single
    BY LoggedBelow, LoggedWithin
  <2>2. Upto(F, 0)
    BY <1>0, <2>1
  <2> HIDE DEF F
  <2> QED  BY <2>2
<1>2. ASSUME NEW n \in T, n < Depth PROVE n + 1 \in T
  <2>1. PICK F : Upto(F, n)
    BY <1>2
  <2> DEFINE G == [v \in Logged |-> IF v \in LoggedTo(n) THEN F[v] ELSE PartsAt(F, v)]
  <2>2. /\ n + 1 \in 0..Depth
        /\ \A v \in LoggedTo(n) : v \in Logged
        /\ \A v \in LoggedTo(n + 1) : v \in Logged
    BY <1>2, LoggedWithin
  <2>3. ASSUME NEW v \in LoggedTo(n + 1) PROVE G[v] = PartsAt(G, v)
    <3>1. G[v] = PartsAt(F, v)
      BY <2>1, <2>2
    <3>2. CASE v[1] \in Single
      BY <1>0, <3>1, <3>2
    <3>3. CASE Holds(v, LoggedTo(n))
      <4>1. \A k \in DOMAIN v[2] : G[v[2][k]] = F[v[2][k]]
        BY <2>2, <3>3 DEF Holds
      <4> HIDE DEF G
      <4> QED  BY <3>1, <4>1, PartsSame
    <3> QED  BY <2>2, <3>2, <3>3, LoggedBelow
  <2> HIDE DEF G
  <2> QED  BY <2>2, <2>3
<1>3. T = 0..Depth
  <2>1. T \subseteq 0..Depth /\ \A n \in T : n < Depth => n + 1 \in T
    BY <1>2
  <2> HIDE DEF T
  <2> QED  BY <1>1, <2>1, LevelInduction
<1>4. PICK F : Upto(F, Depth)
  BY <1>3
<1> DEFINE H == [v \in Logged |-> F[v]]
<1>5. ASSUME NEW v \in Logged PROVE H[v] = PartsAt(H, v)
  <2>1. CASE v[1] \in Single
    BY <1>0, <1>4, <2>1, LoggedWithin
  <2>2. CASE Depth > 0 /\ Holds(v, LoggedTo(Depth - 1))
    <3>1. \A k \in DOMAIN v[2] : v[2][k] \in Logged
      BY <2>2, LoggedWithin DEF Holds
    <3>2. \A k \in DOMAIN v[2] : H[v[2][k]] = F[v[2][k]]
      BY <3>1
    <3>3. H[v] = PartsAt(F, v)
      BY <1>4, LoggedWithin
    <3> HIDE DEF H
    <3> QED  BY <3>2, <3>3, PartsSame
  <2> QED  BY <2>1, <2>2, LoggedBelow, LoggedWithin
<1>6. H = [v \in Logged |-> PartsAt(H, v)]
  BY <1>5
<1> HIDE DEF H
<1> QED  BY <1>6 DEF Parts, PartsAt, Under

-----------------------------------------------------------------------------
\* The parts of a value, and the paths to them.

LEMMA PartsSingle ==
  ASSUME NEW v \in Logged, v[1] \in Single PROVE Parts[v] = {<<<<>>, v>>}
<1>1. Parts[v] = PartsAt(Parts, v)
  BY PartsSolve
<1> QED  BY <1>1 DEF PartsAt

LEMMA PartsHolding ==
  ASSUME NEW v \in Logged, NEW S, Holds(v, S)
  PROVE  \A p : p \in Parts[v] <=>
                  \/ p = <<<<>>, v>>
                  \/ \E k \in DOMAIN v[2] : p \in Under(<<v[1], k>>, Parts[v[2][k]])
<1>1. Parts[v] = PartsAt(Parts, v)
  BY PartsSolve
<1>2. v[1] \notin Single
  BY DEF Holds, Single
<1>3. PartsAt(Parts, v) = {<<<<>>, v>>} \cup
                            UNION {Under(<<v[1], k>>, Parts[v[2][k]]) : k \in DOMAIN v[2]}
  BY <1>2 DEF PartsAt
<1> QED  BY <1>1, <1>3

PathSteps == UNION {{<<v[1], k>> : k \in DOMAIN v[2]} : v \in Logged}

LEMMA PathsAreSequences ==
  \A v \in Logged : \A p \in Parts[v] : p = <<p[1], p[2]>> /\ p[1] \in Seq(PathSteps)
<1> DEFINE Fine(v) == \A p \in Parts[v] : p = <<p[1], p[2]>> /\ p[1] \in Seq(PathSteps)
           T == {d \in 0..Depth : \A v \in LoggedTo(d) : Fine(v)}
<1>1. ASSUME NEW v \in Logged, v[1] \in Single PROVE Fine(v)
  <2>1. Parts[v] = {<<<<>>, v>>}
    BY <1>1, PartsSingle
  <2>2. ASSUME NEW p, p = <<<<>>, v>> PROVE p = <<p[1], p[2]>> /\ p[1] \in Seq(PathSteps)
    <3>1. p[1] = <<>> /\ p[2] = v
      BY <2>2
    <3>2. <<>> \in Seq(PathSteps)
      OBVIOUS
    <3> QED  BY <2>2, <3>1, <3>2
  <2> QED  BY <2>1, <2>2
<1>2. ASSUME NEW d \in 0..Depth, NEW v \in Logged, Holds(v, LoggedTo(d)),
             \A u \in LoggedTo(d) : Fine(u)
      PROVE  Fine(v)
  <2> SUFFICES ASSUME NEW p \in Parts[v] PROVE p = <<p[1], p[2]>> /\ p[1] \in Seq(PathSteps)
    OBVIOUS
  <2>1. CASE p = <<<<>>, v>>
    BY <2>1
  <2>2. ASSUME NEW k \in DOMAIN v[2], p \in Under(<<v[1], k>>, Parts[v[2][k]])
        PROVE  p = <<p[1], p[2]>> /\ p[1] \in Seq(PathSteps)
    <3>1. PICK q \in Parts[v[2][k]] : p = <<<<<<v[1], k>>>> \o q[1], q[2]>>
      BY <2>2 DEF Under
    <3>2. q[1] \in Seq(PathSteps)
      BY <1>2 DEF Holds
    <3>3. <<v[1], k>> \in PathSteps
      BY DEF PathSteps
    <3>4. <<<<v[1], k>>>> \o q[1] \in Seq(PathSteps)
      BY <3>2, <3>3
    <3> QED  BY <3>1, <3>4
  <2>3. p = <<<<>>, v>> \/ \E k \in DOMAIN v[2] : p \in Under(<<v[1], k>>, Parts[v[2][k]])
    <3> HIDE DEF Fine
    <3> QED  BY <1>2, PartsHolding
  <2> QED  BY <2>1, <2>2, <2>3
<1>3. 0 \in T
  BY <1>1, LoggedBelow, LoggedWithin
<1>4. ASSUME NEW d \in T, d < Depth PROVE d + 1 \in T
  <2>1. d + 1 \in 0..Depth /\ d + 1 - 1 = d
    BY <1>4
  <2>2. \A v \in LoggedTo(d + 1) : v \in Logged /\ (v[1] \in Single \/ Holds(v, LoggedTo(d)))
    BY <2>1, LoggedBelow, LoggedWithin
  <2> HIDE DEF Fine
  <2> QED  BY <1>1, <1>2, <2>1, <2>2
<1>5. T = 0..Depth
  <2>1. T \subseteq 0..Depth /\ \A d \in T : d < Depth => d + 1 \in T
    BY <1>4
  <2> HIDE DEF T
  <2> QED  BY <1>3, <2>1, LevelInduction
<1>6. Depth \in T
  BY <1>5
<1> QED  BY <1>6, LoggedWithin

\* A path is secret by its first step, or by the others.
LEMMA SecretUnder ==
  ASSUME NEW kind, NEW k, <<kind, k>> \in PathSteps, NEW t \in Seq(PathSteps)
  PROVE  Secret(<<<<kind, k>>>> \o t) <=> Denied(kind, k) \/ Secret(t)
<1> DEFINE Hit(s) == s[1] = "object" /\ ToSet(s[2]) \cap Deny # {}
           path == <<<<kind, k>>>> \o t
<1>1. Denied(kind, k) <=> Hit(<<kind, k>>)
  BY DEF Denied, MatchesKey, ToSet
<1>2. /\ Len(path) = Len(t) + 1 /\ path[1] = <<kind, k>>
      /\ DOMAIN path = 1..(Len(t) + 1) /\ DOMAIN t = 1..Len(t)
      /\ \A i \in 1..Len(t) : path[i + 1] = t[i]
  OBVIOUS
<1> HIDE DEF path, Hit
<1>3. Secret(path) <=> \E i \in 1..(Len(t) + 1) : Hit(path[i])
  BY <1>2 DEF Secret, Hit
<1>4. Secret(t) <=> \E i \in 1..Len(t) : Hit(t[i])
  BY <1>2 DEF Secret, Hit
<1>5. ASSUME NEW i \in 1..(Len(t) + 1), Hit(path[i]), i # 1 PROVE Secret(t)
  <2>1. i - 1 \in 1..Len(t) /\ path[i - 1 + 1] = t[i - 1] /\ i - 1 + 1 = i
    BY <1>2, <1>5
  <2> QED  BY <1>4, <1>5, <2>1
<1>6. ASSUME NEW i \in 1..Len(t), Hit(t[i]) PROVE Secret(path)
  <2>1. i + 1 \in 1..(Len(t) + 1) /\ path[i + 1] = t[i]
    BY <1>2
  <2> QED  BY <1>3, <1>6, <2>1
<1>7. 1 \in 1..(Len(t) + 1)
  OBVIOUS
<1>8. Secret(path) <=> Denied(kind, k) \/ Secret(t)
  BY <1>1, <1>2, <1>3, <1>4, <1>5, <1>6, <1>7
<1> QED  BY <1>8 DEF path

\* The plain parts of a value are those of what it holds under keys that are not denied.
PlainBelow(v, p) ==
  \E k \in DOMAIN v[2] :
    ~Denied(v[1], k) /\ \E q \in Plain(v[2][k]) : p = <<<<<<v[1], k>>>> \o q[1], q[2]>>

LEMMA PlainHolding ==
  ASSUME NEW v \in Logged, Holds(v, Logged), NEW p
  PROVE  p \in Plain(v) <=> PlainBelow(v, p)
<1>1. v[1] \notin Single
  BY DEF Holds, Single
<1>2. ASSUME NEW k \in DOMAIN v[2], NEW q \in Parts[v[2][k]]
      PROVE  Secret(<<<<v[1], k>>>> \o q[1]) <=> Denied(v[1], k) \/ Secret(q[1])
  <2>1. q[1] \in Seq(PathSteps)
    BY PathsAreSequences DEF Holds
  <2>2. <<v[1], k>> \in PathSteps
    BY DEF PathSteps
  <2> QED  BY <2>1, <2>2, SecretUnder
<1>3. ASSUME p \in Plain(v)
      PROVE  PlainBelow(v, p)
  <2>1. p \in Parts[v] /\ p[2][1] \in Single /\ ~Secret(p[1])
    BY <1>3 DEF Plain
  <2>2. p # <<<<>>, v>>
    BY <1>1, <2>1
  <2>3. PICK k \in DOMAIN v[2] : p \in Under(<<v[1], k>>, Parts[v[2][k]])
    BY <2>1, <2>2, PartsHolding
  <2>4. PICK q \in Parts[v[2][k]] : p = <<<<<<v[1], k>>>> \o q[1], q[2]>>
    BY <2>3 DEF Under
  <2>5. p[1] = <<<<v[1], k>>>> \o q[1] /\ p[2] = q[2]
    BY <2>4
  <2>6. ~Denied(v[1], k) /\ ~Secret(q[1]) /\ q[2][1] \in Single
    BY <1>2, <2>1, <2>5
  <2> QED  BY <2>4, <2>6 DEF Plain, PlainBelow
<1>4. ASSUME NEW k \in DOMAIN v[2], ~Denied(v[1], k), NEW q \in Plain(v[2][k]),
             p = <<<<<<v[1], k>>>> \o q[1], q[2]>>
      PROVE  p \in Plain(v)
  <2>1. q \in Parts[v[2][k]] /\ q[2][1] \in Single /\ ~Secret(q[1])
    BY DEF Plain
  <2>2. p \in Under(<<v[1], k>>, Parts[v[2][k]])
    BY <1>4, <2>1 DEF Under
  <2>3. p \in Parts[v]
    BY <2>2, PartsHolding
  <2>4. p[1] = <<<<v[1], k>>>> \o q[1] /\ p[2] = q[2]
    BY <1>4
  <2>5. ~Secret(p[1])
    BY <1>2, <1>4, <2>1, <2>4
  <2> QED  BY <2>1, <2>3, <2>4, <2>5 DEF Plain
<1> QED  BY <1>3, <1>4 DEF PlainBelow

-----------------------------------------------------------------------------
\* The sanitizer.

\* What is left of a value below its denied keys.
Redacted(v) ==
  \A p \in Parts[Walk[v]] :
    Secret(p[1]) => \E q \in Parts[v] : q[1] = p[1] /\ p[2] = RedactValue(q[2])

LEMMA RootIsPart == \A v \in Logged : <<<<>>, v>> \in Parts[v]
<1>1. \A v \in Logged : Parts[v] = PartsAt(Parts, v)
  BY PartsSolve
<1> QED  BY <1>1 DEF PartsAt

LEMMA HashIsWhole == \A v \in Body : Parts[RedactValue(v)] = {<<<<>>, RedactValue(v)>>}
<1> TAKE v \in Body
<1>1. RedactValue(v) \in Logged /\ RedactValue(v)[1] \in Single
  BY DEF Logged, RedactValue, Single
<1> QED  BY <1>1, PartsSingle

LEMMA EmptyIsPlain == ~Secret(<<>>)
  BY DEF Secret

LEMMA LeafStays ==
  ASSUME NEW v \in Body, v \in {"leaf"} \X Leaves
  PROVE  Plain(Walk[v]) = Plain(v) /\ Redacted(v)
<1>1. Walk[v] = v /\ v \in Logged /\ v[1] \in Single
  BY WalkLeaf DEF Logged, Single
<1>2. Parts[v] = {<<<<>>, v>>}
  BY <1>1, PartsSingle
<1>3. \A p \in Parts[Walk[v]] : p[1] = <<>>
  BY <1>1, <1>2
<1> QED  BY <1>1, <1>3, EmptyIsPlain DEF Redacted

\* One level up: what Walk does to a value, if it does what it should below.
LEMMA HoldingStays ==
  ASSUME NEW S, S \subseteq Body, NEW v \in Body, Holds(v, S),
         \A u \in S : Plain(Walk[u]) = Plain(u) /\ Redacted(u)
  PROVE  Plain(Walk[v]) = Plain(v) /\ Redacted(v)
<1> DEFINE w == Walk[v]
<1>1. /\ w = <<v[1], w[2]>> /\ DOMAIN w[2] = DOMAIN v[2]
      /\ \A k \in DOMAIN v[2] :
           w[2][k] = IF Denied(v[1], k) THEN RedactValue(v[2][k]) ELSE Walk[v[2][k]]
  BY WalkHolding
<1>2. \A k \in DOMAIN v[2] : v[2][k] \in S /\ v[2][k] \in Body
  BY DEF Holds
<1>3. v \in Logged /\ w \in Logged /\ \A k \in DOMAIN v[2] : v[2][k] \in Logged
  BY <1>2 DEF Logged
<1>4. Holds(v, Logged)
  BY <1>3 DEF Holds
<1>5. \A k \in DOMAIN v[2] : w[2][k] \in Logged
  BY <1>1, <1>2 DEF Logged
<1> HIDE DEF w
<1>6. w[1] = v[1]
  BY <1>1
<1>7. Holds(w, Logged)
  BY <1>1, <1>4, <1>5, <1>6 DEF Holds
<1>8. \A k \in DOMAIN v[2] : ~Denied(v[1], k) => Plain(w[2][k]) = Plain(v[2][k])
  BY <1>1, <1>2
<1>9. ASSUME NEW p PROVE p \in Plain(w) <=> p \in Plain(v)
  <2>1. p \in Plain(w) <=> PlainBelow(w, p)
    BY <1>3, <1>7, PlainHolding
  <2>2. p \in Plain(v) <=> PlainBelow(v, p)
    BY <1>3, <1>4, PlainHolding
  <2> QED  BY <1>1, <1>6, <1>8, <2>1, <2>2, ZenonT(60) DEF PlainBelow
<1>10. Plain(w) = Plain(v)
  <2>1. \A p \in Plain(w) : p \in Plain(v)
    BY <1>9
  <2>2. \A p \in Plain(v) : p \in Plain(w)
    BY <1>9
  <2> QED  BY <2>1, <2>2
<1>11. ASSUME NEW p \in Parts[w], Secret(p[1])
       PROVE  \E q \in Parts[v] : q[1] = p[1] /\ p[2] = RedactValue(q[2])
  <2>1. p # <<<<>>, w>>
    BY <1>11, EmptyIsPlain
  <2>2. PICK k \in DOMAIN v[2] : p \in Under(<<v[1], k>>, Parts[w[2][k]])
    BY <1>1, <1>3, <1>6, <1>7, <2>1, PartsHolding
  <2>3. PICK r \in Parts[w[2][k]] : p = <<<<<<v[1], k>>>> \o r[1], r[2]>>
    BY <2>2 DEF Under
  <2>4. p[1] = <<<<v[1], k>>>> \o r[1] /\ p[2] = r[2]
    BY <2>3
  <2>5. ASSUME NEW q \in Parts[v[2][k]], q[1] = r[1], r[2] = RedactValue(q[2])
        PROVE  \E qq \in Parts[v] : qq[1] = p[1] /\ p[2] = RedactValue(qq[2])
    <3> DEFINE qq == <<<<<<v[1], k>>>> \o q[1], q[2]>>
    <3>1. qq \in Under(<<v[1], k>>, Parts[v[2][k]])
      BY DEF Under
    <3>2. qq \in Parts[v]
      <4> HIDE DEF qq
      <4> QED  BY <1>3, <1>4, <3>1, PartsHolding
    <3>3. qq[1] = <<<<v[1], k>>>> \o q[1] /\ qq[2] = q[2]
      OBVIOUS
    <3> HIDE DEF qq
    <3> QED  BY <2>4, <2>5, <3>2, <3>3
  <2>6. CASE Denied(v[1], k)
    <3>1. Parts[w[2][k]] = {<<<<>>, RedactValue(v[2][k])>>}
      BY <1>1, <1>2, <2>6, HashIsWhole
    <3>2. r[1] = <<>> /\ r[2] = RedactValue(v[2][k])
      BY <3>1
    <3> DEFINE q == <<<<>>, v[2][k]>>
    <3>3. q \in Parts[v[2][k]]
      BY <1>3, RootIsPart
    <3>4. q[1] = r[1] /\ r[2] = RedactValue(q[2])
      BY <3>2
    <3> HIDE DEF q
    <3> QED  BY <2>5, <3>3, <3>4
  <2>7. CASE ~Denied(v[1], k)
    <3>1. w[2][k] = Walk[v[2][k]]
      BY <1>1, <2>7
    <3>2. r[1] \in Seq(PathSteps)
      BY <1>5, PathsAreSequences
    <3>3. <<v[1], k>> \in PathSteps
      BY <1>3 DEF PathSteps
    <3>4. Secret(r[1])
      BY <1>11, <2>4, <2>7, <3>2, <3>3, SecretUnder
    <3>5. Redacted(v[2][k])
      BY <1>2
    <3>6. PICK q \in Parts[v[2][k]] : q[1] = r[1] /\ r[2] = RedactValue(q[2])
      BY <3>1, <3>4, <3>5 DEF Redacted
    <3> QED  BY <2>5, <3>6
  <2> QED  BY <2>6, <2>7
<1> QED  BY <1>10, <1>11 DEF Redacted, w

\* sanitizeAudit lets no secret through and keeps everything else, whatever the value: at
\* any depth, of any width, and whatever words are denied.
THEOREM SanitizedWhole == Sanitized
<1> DEFINE Fine(v) == Plain(Walk[v]) = Plain(v) /\ Redacted(v)
           T == {d \in 0..Depth : \A v \in Values[d] : Fine(v)}
<1>1. \A v \in Body : v \in {"leaf"} \X Leaves => Fine(v)
  BY LeafStays
<1>2. ASSUME NEW d \in 0..Depth, \A u \in Values[d] : Fine(u),
             NEW v \in Body, Holds(v, Values[d])
      PROVE  Fine(v)
  BY <1>2, Within, HoldingStays
<1> HIDE DEF Fine
<1>3. 0 \in T
  <2>1. \A v \in Values[0] : v \in Body /\ v \in {"leaf"} \X Leaves
    BY ValuesRecur, Within
  <2> QED  BY <1>1, <2>1
<1>4. ASSUME NEW d \in T, d < Depth PROVE d + 1 \in T
  <2>1. d + 1 \in 0..Depth /\ d + 1 - 1 = d
    BY <1>4
  <2>2. \A v \in Values[d + 1] : v \in Body /\ (v \in {"leaf"} \X Leaves \/ Holds(v, Values[d]))
    BY <2>1, Below, Within
  <2> QED  BY <1>1, <1>2, <2>1, <2>2
<1>5. T = 0..Depth
  <2>1. T \subseteq 0..Depth /\ \A d \in T : d < Depth => d + 1 \in T
    BY <1>4
  <2> HIDE DEF T
  <2> QED  BY <1>3, <2>1, LevelInduction
<1>6. \A v \in Body : Fine(v)
  BY <1>5 DEF Body
<1> QED  BY <1>6 DEF Fine, Sanitized, Redacted
=============================================================================
