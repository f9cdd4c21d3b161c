--------------------------- MODULE RequestsProofs ---------------------------
(***************************************************************************)
(* Proofs about Requests, for any requests, routes, addresses and          *)
(* countries, and a pool of any size.  The first part says in what order   *)
(* the steps of a request come; what a request has still to do is a suffix *)
(* of its program.                                                         *)
(***************************************************************************)
EXTENDS Requests, AuditSanitizerProofs, FiniteSetTheorems, TLAPS

Steps == {"token", "admit", "find", "change", "again", "create", "begin", "look", "load",
          "claim", "wallets", "reread", "mail", "commit", "reply"}

-----------------------------------------------------------------------------
\* Sequences.

LEMMA SuffixMeans ==
  ASSUME NEW S, NEW s \in Seq(S), NEW t \in Seq(S)
  PROVE  IsSuffix(s, t) <=>
           Len(s) <= Len(t) /\ \A i \in 1..Len(s) : s[i] = t[Len(t) - Len(s) + i]
<1>1. /\ Reverse(s) \in Seq(S) /\ Len(Reverse(s)) = Len(s)
      /\ Reverse(t) \in Seq(S) /\ Len(Reverse(t)) = Len(t)
  BY DEF Reverse
<1>2. ASSUME IsSuffix(s, t), NEW i \in 1..Len(s)
      PROVE  s[i] = t[Len(t) - Len(s) + i]
  <2>1. Len(s) <= Len(t) /\ SubSeq(Reverse(s), 1, Len(s)) = SubSeq(Reverse(t), 1, Len(s))
    BY <1>1, <1>2 DEF IsSuffix, IsPrefix
  <2>2. Len(s) - i + 1 \in 1..Len(s)
    OBVIOUS
  <2>3. Reverse(s)[Len(s) - i + 1] = Reverse(t)[Len(s) - i + 1]
    BY <1>1, <2>1, <2>2
  <2>4. Reverse(s)[Len(s) - i + 1] = s[i]
    BY <2>2 DEF Reverse
  <2>5. Reverse(t)[Len(s) - i + 1] = t[Len(t) - Len(s) + i]
    BY <2>1, <2>2 DEF Reverse
  <2> QED  BY <2>3, <2>4, <2>5
<1>3. IsSuffix(s, t) => Len(s) <= Len(t)
  BY <1>1 DEF IsSuffix, IsPrefix
<1>4. ASSUME Len(s) <= Len(t), \A i \in 1..Len(s) : s[i] = t[Len(t) - Len(s) + i]
      PROVE  IsSuffix(s, t)
  <2>1. \A j \in 1..Len(s) : Reverse(s)[j] = Reverse(t)[j]
    <3> TAKE j \in 1..Len(s)
    <3>1. Len(s) - j + 1 \in 1..Len(s)
      OBVIOUS
    <3>2. s[Len(s) - j + 1] = t[Len(t) - j + 1]
      BY <1>4, <3>1
    <3>3. Reverse(s)[j] = s[Len(s) - j + 1] /\ Reverse(t)[j] = t[Len(t) - j + 1]
      BY <1>4 DEF Reverse
    <3> QED  BY <3>2, <3>3
  <2>2. SubSeq(Reverse(s), 1, Len(s)) = SubSeq(Reverse(t), 1, Len(s))
    BY <1>1, <1>4, <2>1
  <2> QED  BY <1>1, <1>4, <2>2 DEF IsSuffix, IsPrefix
<1> QED  BY <1>2, <1>3, <1>4

\* The tail of a suffix is a suffix, and what is in it comes later.
LEMMA SuffixTail ==
  ASSUME NEW S, NEW s \in Seq(S), NEW t \in Seq(S), IsSuffix(s, t), s # <<>>
  PROVE  /\ Tail(s) \in Seq(S) /\ IsSuffix(Tail(s), t)
         /\ ToSet(s) = {Head(s)} \cup ToSet(Tail(s))
         /\ \E n \in 1..Len(t) :
              /\ Head(s) = t[n]
              /\ ToSet(Tail(s)) = {t[i] : i \in (n + 1)..Len(t)}
              /\ Tail(s) = <<>> <=> n = Len(t)
<1>1. PICK u \in Seq(S) :
        /\ u = Tail(s) /\ Len(u) = Len(s) - 1 /\ Head(s) = s[1] /\ Len(s) \in Nat \ {0}
        /\ \A i \in 1..(Len(s) - 1) : u[i] = s[i + 1]
        /\ Len(t) \in Nat /\ (u = <<>> <=> Len(u) = 0)
  <2>1. Tail(s) \in Seq(S)
    OBVIOUS
  <2>2. Len(Tail(s)) = Len(s) - 1 /\ Head(s) = s[1] /\ Len(s) \in Nat \ {0} /\ Len(t) \in Nat
    OBVIOUS
  <2>3. \A i \in 1..(Len(s) - 1) : Tail(s)[i] = s[i + 1]
    OBVIOUS
  <2>4. \A v \in Seq(S) : v = <<>> <=> Len(v) = 0
    OBVIOUS
  <2> QED  BY <2>1, <2>2, <2>3, <2>4, Zenon
<1>2. Len(s) <= Len(t) /\ \A i \in 1..Len(s) : s[i] = t[Len(t) - Len(s) + i]
  BY SuffixMeans
<1>3. IsSuffix(u, t)
  <2>1. ASSUME NEW i \in 1..Len(u) PROVE u[i] = t[Len(t) - Len(u) + i]
    <3>1. u[i] = s[i + 1] /\ i + 1 \in 1..Len(s) /\ Len(t) - Len(u) + i = Len(t) - Len(s) + (i + 1)
      BY <1>1, <1>2
    <3> QED  BY <1>2, <3>1
  <2>2. Len(u) <= Len(t)
    BY <1>1, <1>2
  <2> QED  BY <2>1, <2>2, SuffixMeans
<1>4. DOMAIN s = 1..Len(s) /\ DOMAIN u = 1..(Len(s) - 1)
  BY <1>1
<1>5. ToSet(u) = {s[i] : i \in 2..Len(s)}
  <2>1. ASSUME NEW x \in ToSet(u) PROVE x \in {s[i] : i \in 2..Len(s)}
    <3>1. PICK i \in 1..(Len(s) - 1) : x = u[i]
      BY <1>4, <2>1 DEF ToSet
    <3>2. i + 1 \in 2..Len(s) /\ x = s[i + 1]
      BY <1>1, <3>1
    <3> QED  BY <3>2
  <2>2. ASSUME NEW i \in 2..Len(s) PROVE s[i] \in ToSet(u)
    <3>1. i - 1 \in 1..(Len(s) - 1) /\ s[i] = u[i - 1]
      BY <1>1
    <3> QED  BY <1>4, <3>1 DEF ToSet
  <2> QED  BY <2>1, <2>2
<1>6. ToSet(s) = {s[1]} \cup ToSet(u)
  <2>1. ToSet(s) = {s[i] : i \in 1..Len(s)}
    BY <1>4 DEF ToSet
  <2>2. \A i \in 1..Len(s) : i = 1 \/ i \in 2..Len(s)
    BY <1>1
  <2>3. 1 \in 1..Len(s) /\ \A i \in 2..Len(s) : i \in 1..Len(s)
    BY <1>1
  <2> QED  BY <1>5, <2>1, <2>2, <2>3
<1> DEFINE n == Len(t) - Len(s) + 1
<1>7. n \in 1..Len(t) /\ s[1] = t[n] /\ (u = <<>> <=> n = Len(t))
  <2>1. n \in 1..Len(t) /\ 1 \in 1..Len(s)
    BY <1>1, <1>2
  <2>2. s[1] = t[n]
    BY <1>1, <1>2, <2>1
  <2>3. u = <<>> <=> n = Len(t)
    BY <1>1, <1>2, SMTT(30)
  <2> QED  BY <2>1, <2>2, <2>3
<1>8. ToSet(u) = {t[i] : i \in (n + 1)..Len(t)}
  <2>1. ASSUME NEW i \in 2..Len(s) PROVE s[i] \in {t[j] : j \in (n + 1)..Len(t)}
    <3>1. Len(t) - Len(s) + i \in (n + 1)..Len(t) /\ s[i] = t[Len(t) - Len(s) + i]
      BY <1>1, <1>2
    <3> QED  BY <3>1
  <2>2. ASSUME NEW j \in (n + 1)..Len(t) PROVE t[j] \in {s[i] : i \in 2..Len(s)}
    <3>1. j - Len(t) + Len(s) \in 2..Len(s) /\ s[j - Len(t) + Len(s)] = t[j]
      BY <1>1, <1>2
    <3> QED  BY <3>1
  <2> QED  BY <1>5, <2>1, <2>2
<1> HIDE DEF n
<1>9. \E m \in 1..Len(t) : /\ Head(s) = t[m]
                           /\ ToSet(u) = {t[i] : i \in (m + 1)..Len(t)}
                           /\ u = <<>> <=> m = Len(t)
  BY <1>1, <1>7, <1>8
<1> QED  BY <1>1, <1>3, <1>6, <1>9

-----------------------------------------------------------------------------
\* Programs.

LEMMA ProgramShape ==
  ASSUME NEW rt, NEW h \in Seq(Steps), Handler(rt) = h
  PROVE  /\ Program(rt) \in Seq(Steps)
         /\ rt \in Authenticated =>
              /\ Len(Program(rt)) = 2 + Len(h)
              /\ Program(rt)[1] = "token" /\ Program(rt)[2] = "admit"
              /\ \A i \in 1..Len(h) : Program(rt)[2 + i] = h[i]
         /\ rt \notin Authenticated =>
              /\ Len(Program(rt)) = 1 + Len(h)
              /\ Program(rt)[1] = "admit"
              /\ \A i \in 1..Len(h) : Program(rt)[1 + i] = h[i]
<1>1. "token" \in Steps /\ "admit" \in Steps
  BY DEF Steps
<1>2. CASE rt \in Authenticated
  <2>1. <<"token">> \in Seq(Steps) /\ <<"admit">> \in Seq(Steps)
    BY <1>1
  <2>2. Program(rt) = (<<"token">> \o <<"admit">>) \o h
    BY <1>2 DEF Program
  <2>3. PICK f \in Seq(Steps) : f = <<"token">> \o <<"admit">> /\ Len(f) = 2 /\ f[1] = "token" /\ f[2] = "admit"
    <3>1. <<"token">> \o <<"admit">> \in Seq(Steps) /\ Len(<<"token">> \o <<"admit">>) = 2
      BY <2>1
    <3>2. (<<"token">> \o <<"admit">>)[1] = "token" /\ (<<"token">> \o <<"admit">>)[2] = "admit"
      BY <2>1
    <3> QED  BY <3>1, <3>2
  <2>4. f \o h \in Seq(Steps) /\ Len(f \o h) = 2 + Len(h) /\ (f \o h)[1] = "token" /\ (f \o h)[2] = "admit"
    BY <2>3
  <2>5. \A i \in 1..Len(h) : (f \o h)[2 + i] = h[i]
    BY <2>3
  <2> QED  BY <1>2, <2>2, <2>3, <2>4, <2>5
<1>3. CASE rt \notin Authenticated
  <2>1. <<"admit">> \in Seq(Steps) /\ <<>> \in Seq(Steps)
    BY <1>1
  <2>2. Program(rt) = (<<>> \o <<"admit">>) \o h
    BY <1>3 DEF Program
  <2>3. PICK f \in Seq(Steps) : f = <<>> \o <<"admit">> /\ Len(f) = 1 /\ f[1] = "admit"
    <3>1. <<>> \o <<"admit">> \in Seq(Steps) /\ Len(<<>> \o <<"admit">>) = 1
      BY <2>1
    <3>2. (<<>> \o <<"admit">>)[1] = "admit"
      BY <2>1
    <3> QED  BY <3>1, <3>2
  <2>4. f \o h \in Seq(Steps) /\ Len(f \o h) = 1 + Len(h) /\ (f \o h)[1] = "admit"
    BY <2>3
  <2>5. \A i \in 1..Len(h) : (f \o h)[1 + i] = h[i]
    BY <2>3
  <2> QED  BY <1>3, <2>2, <2>3, <2>4, <2>5
<1> QED  BY <1>2, <1>3

\* The steps of transactions between "begin" and "commit".
Inside == {"look", "load", "claim", "wallets", "reread", "mail"}

\* What may come after a step, as far as it matters.
Follows(rt, step, later) ==
  /\ step \in {"begin", "commit"} \cup Inside => "begin" \notin later
  /\ step \in {"begin"} \cup Inside => "commit" \in later
  /\ step = "begin" => "claim" \in later /\ (rt = "registerUser" => "wallets" \in later)
  /\ step \in {"change", "commit"} => later \subseteq {"again", "reply"}
  /\ step = "reply" => later = {}
  /\ step = "token" => "admit" \in later
  /\ step \in {"again", "change"} => rt \notin {"registerUser", "updateUser"}
  /\ "commit" \in later => step \in {"begin"} \cup Inside \/ "begin" \in later
  /\ step \in {"look", "reread"} => rt \in {"registerUser", "updateUser"}

Later(p, i) == {p[j] : j \in (i + 1)..Len(p)}

Ordered(rt, p) == \A i \in 1..Len(p) : Follows(rt, p[i], Later(p, i))

\* What is in a program from its beginning.
HasAll(rt, p) ==
  /\ "commit" \in ToSet(p) => "begin" \in ToSet(p)
  /\ rt \in Changing => ToSet(p) \cap {"change", "commit"} # {}
  /\ rt = "adminResetPassword" => "mail" \in ToSet(p)

\* What is in front of a handler does not matter to the order.
LEMMA OrderedBehindGuards ==
  ASSUME NEW rt, NEW h \in Seq(Steps), Handler(rt) = h, Ordered(rt, h), HasAll(rt, h)
  PROVE  /\ Program(rt) \in Seq(Steps) /\ Program(rt) # <<>> /\ "admit" \in ToSet(Program(rt))
         /\ Ordered(rt, Program(rt)) /\ HasAll(rt, Program(rt))
<1>1. PICK k \in Nat, p \in Seq(Steps) :
        /\ p = Program(rt) /\ Len(p) = k + Len(h) /\ k \in {1, 2} /\ Len(h) \in Nat
        /\ \A i \in 1..k : p[i] = IF i = k THEN "admit" ELSE "token"
        /\ \A i \in 1..Len(h) : p[k + i] = h[i]
  <2>1. CASE rt \in Authenticated
    <3>1. \A i \in 1..2 : Program(rt)[i] = IF i = 2 THEN "admit" ELSE "token"
      BY <2>1, ProgramShape
    <3> QED  BY <2>1, <3>1, ProgramShape
  <2>2. CASE rt \notin Authenticated
    <3>1. \A i \in 1..1 : Program(rt)[i] = IF i = 1 THEN "admit" ELSE "token"
      BY <2>2, ProgramShape
    <3> QED  BY <2>2, <3>1, ProgramShape
  <2> QED  BY <2>1, <2>2
<1>2. Len(p) \in Nat /\ DOMAIN p = 1..Len(p) /\ DOMAIN h = 1..Len(h)
  OBVIOUS
<1>3. ASSUME NEW i \in 1..Len(p), i > k
      PROVE  i - k \in 1..Len(h) /\ p[i] = h[i - k] /\ Later(p, i) = Later(h, i - k)
  <2>1. \A j \in (k + 1)..Len(p) : j - k \in 1..Len(h) /\ p[j] = h[j - k]
    <3> TAKE j \in (k + 1)..Len(p)
    <3>1. j - k \in 1..Len(h) /\ k + (j - k) = j
      BY <1>1
    <3> QED  BY <1>1, <3>1
  <2>2. ASSUME NEW j \in (i + 1)..Len(p) PROVE p[j] \in Later(h, i - k)
    <3>1. j - k \in (i - k + 1)..Len(h) /\ p[j] = h[j - k]
      BY <1>1, <1>3, <2>1
    <3> QED  BY <3>1 DEF Later
  <2>3. ASSUME NEW j \in (i - k + 1)..Len(h) PROVE h[j] \in Later(p, i)
    <3>1. k + j \in (i + 1)..Len(p) /\ h[j] = p[k + j]
      BY <1>1, <1>3
    <3> QED  BY <3>1 DEF Later
  <2>4. i \in (k + 1)..Len(p)
    BY <1>1, <1>3
  <2> QED  BY <2>1, <2>2, <2>3, <2>4, ZenonT(60) DEF Later
<1>l. ASSUME NEW i \in 1..k, "commit" \in Later(p, i) PROVE "begin" \in Later(p, i)
  <2>1. ASSUME NEW j \in 1..Len(h) PROVE h[j] \in Later(p, i)
    <3>1. k + j \in (i + 1)..Len(p) /\ h[j] = p[k + j]
      BY <1>1
    <3> QED  BY <3>1 DEF Later
  <2>2. PICK j \in (i + 1)..Len(p) : p[j] = "commit"
    BY <1>l DEF Later
  <2>3. j > k
    BY <1>1, <2>2
  <2>4. "commit" \in ToSet(h)
    BY <1>2, <1>3, <2>2, <2>3 DEF ToSet
  <2>5. "begin" \in ToSet(h)
    BY <2>4 DEF HasAll
  <2> QED  BY <1>2, <2>1, <2>5 DEF ToSet
<1>4. Ordered(rt, p)
  <2> SUFFICES ASSUME NEW i \in 1..Len(p) PROVE Follows(rt, p[i], Later(p, i))
    BY DEF Ordered
  <2>1. CASE i > k
    BY <1>3, <2>1 DEF Ordered
  <2>2. CASE i = k
    <3>1. p[i] = "admit" /\ i \in 1..k
      BY <1>1, <2>2
    <3> QED  BY <1>l, <3>1 DEF Follows, Inside
  <2>3. CASE i < k
    <3>1. p[i] = "token" /\ k \in (i + 1)..Len(p) /\ p[k] = "admit" /\ i \in 1..k
      BY <1>1, <2>3
    <3>2. "admit" \in Later(p, i)
      BY <3>1 DEF Later
    <3> QED  BY <1>l, <3>1, <3>2 DEF Follows, Inside
  <2> QED  BY <1>1, <2>1, <2>2, <2>3
<1>5. ToSet(h) \subseteq ToSet(p) /\ ToSet(p) \subseteq ToSet(h) \cup {"token", "admit"}
      /\ "admit" \in ToSet(p)
  <2>1. ASSUME NEW i \in 1..Len(h) PROVE h[i] \in ToSet(p)
    <3>1. k + i \in 1..Len(p) /\ h[i] = p[k + i]
      BY <1>1
    <3> QED  BY <1>2, <3>1 DEF ToSet
  <2>2. ASSUME NEW i \in 1..Len(p) PROVE p[i] \in ToSet(h) \cup {"token", "admit"}
    <3>1. CASE i > k
      BY <1>2, <1>3, <3>1 DEF ToSet
    <3>2. CASE i <= k
      <4>1. i \in 1..k
        BY <1>1, <3>2
      <4> QED  BY <1>1, <4>1
    <3> QED  BY <1>1, <3>1, <3>2
  <2>3. k \in 1..Len(p) /\ p[k] = "admit"
    BY <1>1
  <2> QED  BY <1>2, <2>1, <2>2, <2>3 DEF ToSet
<1>6. HasAll(rt, p)
  BY <1>5 DEF HasAll
<1>7. p # <<>>
  BY <1>1
<1> QED  BY <1>1, <1>4, <1>5, <1>6, <1>7

\* Every handler is in order, and so is every program.
LEMMA HandlersOrdered ==
  ASSUME NEW rt \in Routes
  PROVE  Handler(rt) \in Seq(Steps) /\ Ordered(rt, Handler(rt)) /\ HasAll(rt, Handler(rt))
<1> USE DEF Routes, AdminRoutes, AdminReads, AdminChanges, UserRoutes, UserReads, PublicRoutes
<1>1. CASE rt = "registerUser"
  <2>1. Handler(rt) = <<"begin", "look", "claim", "wallets", "commit", "reply">>
    BY <1>1 DEF Handler, RegisterSteps
  <2>2. Handler(rt) \in Seq(Steps)
    BY <2>1 DEF Steps
  <2>3. Ordered(rt, Handler(rt))
    BY <1>1, <2>1, SMTT(60) DEF Ordered, Follows, Later, Inside
  <2> QED  BY <1>1, <2>1, <2>2, <2>3 DEF HasAll, ToSet
<1>2. CASE rt = "updateUser"
  <2>1. Handler(rt) = <<"begin", "load", "claim", "reread", "commit", "reply">>
    BY <1>2 DEF Handler, UpdateSteps
  <2>2. Handler(rt) \in Seq(Steps)
    BY <2>1 DEF Steps
  <2>3. Ordered(rt, Handler(rt))
    BY <1>2, <2>1, SMTT(60) DEF Ordered, Follows, Later, Inside
  <2> QED  BY <1>2, <2>1, <2>2, <2>3 DEF HasAll, ToSet
<1>3. CASE rt = "adminResetPassword"
  <2>1. Handler(rt) = <<"begin", "claim", "mail", "commit", "reply">>
    BY <1>3 DEF Handler, ResetSteps
  <2>2. Handler(rt) \in Seq(Steps)
    BY <2>1 DEF Steps
  <2>3. Ordered(rt, Handler(rt))
    BY <1>3, <2>1 DEF Ordered, Follows, Later, Inside
  <2> QED  BY <1>3, <2>1, <2>2, <2>3 DEF HasAll, ToSet
<1>4. CASE rt \in AdminChanges
  <2>1. Handler(rt) = <<"find", "change", "again", "reply">>
    BY <1>4 DEF Handler
  <2>2. Handler(rt) \in Seq(Steps)
    BY <2>1 DEF Steps
  <2>3. Ordered(rt, Handler(rt))
    BY <1>4, <2>1 DEF Ordered, Follows, Later, Inside
  <2> QED  BY <1>4, <2>1, <2>2, <2>3 DEF HasAll, ToSet
<1>5. CASE rt = "logoutUser"
  <2>1. Handler(rt) = <<"find", "change", "reply">>
    BY <1>5 DEF Handler
  <2>2. Handler(rt) \in Seq(Steps)
    BY <2>1 DEF Steps
  <2>3. Ordered(rt, Handler(rt))
    BY <1>5, <2>1 DEF Ordered, Follows, Later, Inside
  <2> QED  BY <1>5, <2>1, <2>2, <2>3 DEF HasAll, ToSet
<1>6. CASE rt = "createWallet"
  <2>1. Handler(rt) = <<"find", "create">>
    BY <1>6 DEF Handler
  <2>2. Handler(rt) \in Seq(Steps)
    BY <2>1 DEF Steps
  <2>3. Ordered(rt, Handler(rt)) /\ rt \notin Changing
    BY <1>6, <2>1 DEF Ordered, Follows, Later, Inside, Changing
  <2> QED  BY <1>6, <2>1, <2>2, <2>3 DEF HasAll, ToSet
<1>7. CASE rt \notin AdminChanges \cup {"registerUser", "updateUser", "adminResetPassword",
                                       "logoutUser", "createWallet"}
  <2>1. Handler(rt) = <<"find", "reply">>
    BY <1>7 DEF Handler
  <2>2. Handler(rt) \in Seq(Steps)
    BY <2>1 DEF Steps
  <2>3. Ordered(rt, Handler(rt)) /\ rt \notin Changing
    BY <1>7, <2>1 DEF Ordered, Follows, Later, Inside, Changing
  <2> QED  BY <1>7, <2>1, <2>2, <2>3 DEF HasAll, ToSet
<1> QED  BY <1>1, <1>2, <1>3, <1>4, <1>5, <1>6, <1>7

LEMMA ProgramsOrdered ==
  ASSUME NEW rt \in Routes
  PROVE  /\ Program(rt) \in Seq(Steps) /\ Program(rt) # <<>> /\ "admit" \in ToSet(Program(rt))
         /\ Ordered(rt, Program(rt)) /\ HasAll(rt, Program(rt))
  BY HandlersOrdered, OrderedBehindGuards

\* What is left of a program: the step at hand, and what comes after it.
Rest(rt, s) == s \in Seq(Steps) /\ (s = <<>> \/ (rt \in Routes /\ IsSuffix(s, Program(rt))))

LEMMA RestFollows ==
  ASSUME NEW rt, NEW s, Rest(rt, s), s # <<>>
  PROVE  /\ rt \in Routes /\ Rest(rt, Tail(s))
         /\ ToSet(s) = {Head(s)} \cup ToSet(Tail(s))
         /\ Follows(rt, Head(s), ToSet(Tail(s)))
         /\ ToSet(Tail(s)) = {} => Tail(s) = <<>>
<1>1. rt \in Routes /\ s \in Seq(Steps) /\ IsSuffix(s, Program(rt)) /\ Program(rt) \in Seq(Steps)
  BY ProgramsOrdered DEF Rest
<1>2. PICK p \in Seq(Steps) : p = Program(rt)
  BY <1>1
<1>3. PICK n \in 1..Len(p) :
        Head(s) = p[n] /\ ToSet(Tail(s)) = Later(p, n) /\ (Tail(s) = <<>> <=> n = Len(p))
  BY <1>1, <1>2, SuffixTail DEF Later
<1>4. Follows(rt, p[n], Later(p, n))
  BY <1>1, <1>2, ProgramsOrdered DEF Ordered
<1>5. Tail(s) \in Seq(Steps) /\ IsSuffix(Tail(s), p) /\ ToSet(s) = {Head(s)} \cup ToSet(Tail(s))
  BY <1>1, <1>2, SuffixTail
<1>6. Rest(rt, Tail(s))
  BY <1>1, <1>2, <1>5 DEF Rest
<1>7. Later(p, n) = {} => n = Len(p)
  <2>1. n # Len(p) => n + 1 \in (n + 1)..Len(p)
    BY <1>2
  <2> QED  BY <2>1 DEF Later
<1>8. Follows(rt, Head(s), ToSet(Tail(s)))
  BY <1>3, <1>4
<1> QED  BY <1>1, <1>3, <1>5, <1>6, <1>7, <1>8

LEMMA RestBegins ==
  ASSUME NEW rt \in Routes
  PROVE  /\ Rest(rt, Program(rt)) /\ Program(rt) # <<>> /\ "admit" \in ToSet(Program(rt))
         /\ HasAll(rt, Program(rt))
  BY ProgramsOrdered, SuffixMeans DEF Rest

LEMMA NothingLeft == \A rt : Rest(rt, <<>>) /\ ToSet(<<>>) = {}
  BY DEF Rest, ToSet

-----------------------------------------------------------------------------
\* What a step of a request does to all but the jobs: eight effects.

Next1(r) == Head(todo[r])

Onward(r) ==
  /\ Next1(r) \notin {"begin", "claim", "commit", "change"}
  /\ Proceed(r)
  /\ answer' = IF Next1(r) = "reply" THEN [answer EXCEPT ![r] = "ok"] ELSE answer
  /\ Next1(r) = "wallets" => DefaultWallets(subject[r][2]) \subseteq wallets[r]
  /\ UNCHANGED <<pool, claim, wallets, owner, done>>

Changed(r) ==
  /\ Next1(r) = "change" /\ Proceed(r)
  /\ done' = done \cup {r}
  /\ UNCHANGED <<answer, pool, claim, wallets, owner>>

Begun(r) ==
  /\ Next1(r) = "begin" /\ Free > 0 /\ Proceed(r)
  /\ pool' = pool \cup {r}
  /\ UNCHANGED <<answer, claim, wallets, owner, done>>

Claimed(r) ==
  /\ Next1(r) = "claim" /\ ~Held(r) /\ Claimable(r) /\ Proceed(r)
  /\ claim' = [claim EXCEPT ![r] = Email(r)]
  /\ UNCHANGED <<answer, pool, wallets, owner, done>>

WalletSaved(r) ==
  /\ Next1(r) = "wallets"
  /\ \E currency \in DefaultWallets(subject[r][2]) :
       wallets' = [wallets EXCEPT ![r] = @ \cup {currency}]
  /\ UNCHANGED <<todo, answer, pool, claim, owner, done>>

CommitDone(r) ==
  /\ Next1(r) = "commit" /\ Committed(r) /\ Proceed(r)
  /\ claim' = [claim EXCEPT ![r] = "none"] /\ pool' = pool \ {r}
  /\ UNCHANGED <<answer, wallets>>

CommitLost(r) ==
  /\ Next1(r) = "commit" /\ Committed(r)
  /\ todo' = [todo EXCEPT ![r] = <<>>] /\ answer' = [answer EXCEPT ![r] = "error"]
  /\ claim' = [claim EXCEPT ![r] = "none"] /\ pool' = pool \ {r}
  /\ UNCHANGED wallets

Stopped(r) ==
  /\ \E why \in Refused \cup {"error"} :
       /\ Refuse(r, why)
       /\ \/ done' = done
          \/ why = "error" /\ Next1(r) = "change" /\ done' = done \cup {r}
       /\ why \in Refused => Next1(r) \notin {"again", "change"}
  /\ Next1(r) # "reply"
  /\ UNCHANGED owner

Effect(r) ==
  \/ Onward(r) \/ Changed(r) \/ Begun(r) \/ Claimed(r) \/ WalletSaved(r)
  \/ CommitDone(r) \/ CommitLost(r) \/ Stopped(r)

LEMMA StepEffects ==
  ASSUME NEW r \in Requests, RequestStep(r)
  PROVE  todo[r] # <<>> /\ UNCHANGED <<route, subject, exits>> /\ Effect(r)
<1> USE DEF At, Next1
<1>1. CASE Authenticate(r)
  BY <1>1 DEF Authenticate, Succeed, Effect, Onward, Stopped, Refused
<1>2. CASE Admit(r)
  BY <1>2 DEF Admit, Succeed, Effect, Onward, Stopped, Refused
<1>3. CASE Find(r)
  <2>1. Missing(route[r]) \subseteq Refused
    BY DEF Missing, Refused, AdminChanges
  <2> QED  BY <1>3, <2>1 DEF Find, Succeed, Effect, Onward, Stopped, Refused
<1>4. CASE Change(r)
  BY <1>4 DEF Change, Succeed, Effect, Changed, Stopped, Refused
<1>5. CASE Again(r) \/ CreateWallet(r) \/ Look(r) \/ Load(r) \/ Reread(r)
  BY <1>5 DEF Again, CreateWallet, Look, Load, Reread, Succeed, Effect, Onward, Stopped, Refused
<1>6. CASE Begin(r)
  BY <1>6 DEF Begin, Effect, Begun, Stopped, Refused
<1>7. CASE Claim(r)
  BY <1>7 DEF Claim, Effect, Claimed, Stopped, Refused
<1>8. CASE SaveWallet(r)
  BY <1>8 DEF SaveWallet, Succeed, Effect, Onward, WalletSaved, Stopped, Refused
<1>9. CASE AddMail(r)
  BY <1>9 DEF AddMail, Succeed, Effect, Onward, Stopped, Refused
<1>10. CASE Commit(r)
  BY <1>10 DEF Commit, Effect, CommitDone, CommitLost, Stopped, Refused, Refuse, Release
<1>11. CASE Reply(r)
  BY <1>11 DEF Reply, Effect, Onward
<1> QED  BY <1>1, <1>2, <1>3, <1>4, <1>5, <1>6, <1>7, <1>8, <1>9, <1>10, <1>11 DEF RequestStep
-----------------------------------------------------------------------------
\* Shapes.
Marks == Emails \cup {"user", "none"}

Subject(rt) ==
  CASE rt = "registerUser" -> Emails \X Countries
    [] rt = "updateUser" -> (Emails \cup {"user"}) \X {"none"}
    [] OTHER -> {<<"user", "none">>}

Shapes ==
  /\ route \in [Requests -> Routes \cup {"none"}]
  /\ todo \in [Requests -> Seq(Steps)]
  /\ \A r \in Requests : Rest(route[r], todo[r])
  /\ answer \in [Requests -> Answers]
  /\ \A r \in Requests : answer[r] # "none" => todo[r] = <<>>
  /\ pool \subseteq Requests /\ Cardinality(pool) <= PoolSize
  /\ claim \in [Requests -> Marks]
  /\ wallets \in [Requests -> SUBSET {"EUR", "USD", "NGN", "GBP"}]
  /\ owner \in [Emails -> Requests \cup {"nobody", "deleted"}]
  /\ done \subseteq Requests
  /\ exits \in 0..MaxExits
  /\ subject \in [Requests -> Marks \X (Countries \cup {"none"})]
  /\ \A r \in Requests : route[r] # "none" => subject[r] \in Subject(route[r])
  /\ \A r \in Requests : route[r] = "none" =>
       todo[r] = <<>> /\ r \notin done /\ answer[r] = "none" /\ wallets[r] = {}

LEMMA DefaultsAreCurrencies ==
  \A country : DefaultWallets(country) \subseteq {"EUR", "USD", "NGN", "GBP"}
  BY DEF DefaultWallets

LEMMA PoolIsFinite ==
  ASSUME Shapes
  PROVE  IsFiniteSet(pool) /\ Cardinality(pool) \in Nat
  BY RequestConstants, FS_Subset, FS_CardinalityType DEF Shapes

LEMMA PoolShrinks ==
  ASSUME Shapes, NEW r
  PROVE  Cardinality(pool \ {r}) <= PoolSize
<1>1. IsFiniteSet(pool) /\ Cardinality(pool) \in Nat /\ pool \ {r} \subseteq pool
  BY PoolIsFinite
<1>2. Cardinality(pool \ {r}) <= Cardinality(pool) /\ Cardinality(pool \ {r}) \in Nat
  BY <1>1, FS_Subset, FS_CardinalityType
<1> QED  BY <1>1, <1>2, RequestConstants DEF Shapes

\* What a step of one request leaves of another.
Untouched(q) ==
  /\ todo'[q] = todo[q] /\ answer'[q] = answer[q] /\ claim'[q] = claim[q]
  /\ wallets'[q] = wallets[q]
  /\ q \in pool' <=> q \in pool
  /\ q \in done' <=> q \in done

LEMMA OthersUntouched ==
  ASSUME Shapes, NEW r \in Requests, Effect(r), NEW q \in Requests, q # r
  PROVE  Untouched(q)
<1> USE DEF Shapes, Untouched, Proceed
<1>1. CASE Onward(r)
  BY <1>1 DEF Onward
<1>2. CASE Changed(r)
  BY <1>2 DEF Changed
<1>3. CASE Begun(r)
  BY <1>3 DEF Begun
<1>4. CASE Claimed(r)
  BY <1>4 DEF Claimed
<1>5. CASE WalletSaved(r)
  BY <1>5 DEF WalletSaved
<1>6. CASE CommitDone(r)
  BY <1>6 DEF CommitDone, Committed
<1>7. CASE CommitLost(r)
  BY <1>7 DEF CommitLost, Committed
<1>8. CASE Stopped(r)
  BY <1>8 DEF Stopped, Refuse, Release
<1> QED  BY <1>1, <1>2, <1>3, <1>4, <1>5, <1>6, <1>7, <1>8 DEF Effect

\* What a step leaves of its own request.
Own(r) ==
  /\ Rest(route[r], todo'[r]) /\ todo'[r] \in Seq(Steps)
  /\ ToSet(todo'[r]) \subseteq ToSet(todo[r])
  /\ todo'[r] = <<>> \/ todo'[r] = todo[r] \/ todo'[r] = Tail(todo[r])

LEMMA OwnProgram ==
  ASSUME Shapes, NEW r \in Requests, todo[r] # <<>>, Effect(r)
  PROVE  Own(r)
<1>1. /\ Rest(route[r], todo[r]) /\ todo[r] \in Seq(Steps)
      /\ Rest(route[r], Tail(todo[r])) /\ ToSet(todo[r]) = {Head(todo[r])} \cup ToSet(Tail(todo[r]))
  BY RestFollows DEF Shapes
<1>2. todo'[r] = <<>> \/ todo'[r] = todo[r] \/ todo'[r] = Tail(todo[r])
  BY DEF Shapes, Effect, Onward, Changed, Begun, Claimed, WalletSaved, CommitDone, CommitLost,
         Stopped, Refuse, Proceed
<1>3. Rest(route[r], <<>>) /\ ToSet(<<>>) = {} /\ Tail(todo[r]) \in Seq(Steps)
  BY <1>1, NothingLeft DEF Rest
<1>4. CASE todo'[r] = <<>>
  BY <1>3, <1>4 DEF Own, Rest
<1>5. CASE todo'[r] = todo[r]
  BY <1>1, <1>5 DEF Own
<1>6. CASE todo'[r] = Tail(todo[r])
  BY <1>1, <1>3, <1>6 DEF Own
<1> QED  BY <1>2, <1>4, <1>5, <1>6

LEMMA ShapesInit == RequestsInit => Shapes
<1> SUFFICES ASSUME RequestsInit PROVE Shapes
  OBVIOUS
<1>1. Cardinality({}) = 0 /\ 0 <= PoolSize /\ 0 \in 0..MaxExits
  BY FS_EmptySet, RequestConstants
<1>2. \A rt : Rest(rt, <<>>)
  BY NothingLeft
<1> QED  BY <1>1, <1>2 DEF RequestsInit, Shapes, Marks, Answers

LEMMA StepKeepsShapes ==
  ASSUME Shapes, NEW r \in Requests, RequestStep(r)
  PROVE  Shapes'
<1>1. todo[r] # <<>> /\ UNCHANGED <<route, subject, exits>> /\ Effect(r)
  BY StepEffects
<1>2. Own(r) /\ \A q \in Requests \ {r} : Untouched(q)
  BY <1>1, OwnProgram, OthersUntouched
<1>3. todo' \in [Requests -> Seq(Steps)]
  <2> DEFINE S == Seq(Steps)
  <2>1. Tail(todo[r]) \in S /\ <<>> \in S
    BY <1>1 DEF Shapes
  <2>2. \/ todo' = todo
        \/ todo' = [todo EXCEPT ![r] = Tail(todo[r])]
        \/ todo' = [todo EXCEPT ![r] = <<>>]
    BY <1>1 DEF Effect, Onward, Changed, Begun, Claimed, WalletSaved, CommitDone, CommitLost,
                Stopped, Refuse, Proceed
  <2>3. todo \in [Requests -> S]
    BY DEF Shapes
  <2> HIDE DEF S
  <2>4. todo' \in [Requests -> S]
    BY <2>1, <2>2, <2>3
  <2> QED BY <2>4 DEF S
<1>4. \A q \in Requests : Rest(route'[q], todo'[q])
  BY <1>1, <1>2 DEF Shapes, Own, Untouched
<1>5. answer' \in [Requests -> Answers]
  BY <1>1 DEF Shapes, Answers, Effect, Onward, Changed, Begun, Claimed, WalletSaved, CommitDone, CommitLost,
         Stopped, Refuse
<1>6. \A q \in Requests : answer'[q] # "none" => todo'[q] = <<>>
  <2>1. ASSUME answer'[r] # "none" PROVE todo'[r] = <<>>
    <3>1. answer[r] = "none"
      BY <1>1 DEF Shapes
    <3>2. CASE Onward(r)
      <4>1. Next1(r) = "reply"
        BY <2>1, <3>1, <3>2 DEF Onward
      <4>2. ToSet(Tail(todo[r])) = {} /\ (ToSet(Tail(todo[r])) = {} => Tail(todo[r]) = <<>>)
        BY <1>1, <4>1, RestFollows DEF Follows, Shapes, Next1
      <4> QED  BY <3>2, <4>2 DEF Onward, Proceed, Shapes
    <3>3. CASE CommitLost(r) \/ Stopped(r)
      BY <3>3 DEF CommitLost, Stopped, Refuse, Shapes
    <3> QED  BY <1>1, <2>1, <3>1, <3>2, <3>3
             DEF Effect, Changed, Begun, Claimed, WalletSaved, CommitDone
  <2> QED  BY <1>2, <2>1 DEF Untouched, Shapes
<1>7. pool' \subseteq Requests /\ Cardinality(pool') <= PoolSize
  <2>1. CASE Begun(r)
    <3>1. IsFiniteSet(pool) /\ Cardinality(pool) \in Nat /\ Cardinality(pool) < PoolSize
      BY <2>1, PoolIsFinite, RequestConstants DEF Begun, Free
    <3>2. IsFiniteSet(pool \cup {r})
            /\ Cardinality(pool \cup {r}) = IF r \in pool THEN Cardinality(pool) ELSE Cardinality(pool) + 1
      BY <3>1, FS_AddElement
    <3>3. Cardinality(pool \cup {r}) <= PoolSize
      BY <3>1, <3>2, RequestConstants
    <3> QED  BY <2>1, <3>3 DEF Begun, Shapes
  <2>2. CASE UNCHANGED pool
    BY <2>2 DEF Shapes
  <2>3. CASE pool' = pool \ {r}
    BY <2>3, PoolShrinks DEF Shapes
  <2> QED  BY <1>1, <2>1, <2>2, <2>3
           DEF Effect, Onward, Changed, Claimed, WalletSaved, CommitDone, CommitLost, Stopped,
               Refuse, Release
<1>8. claim' \in [Requests -> Marks]
  <2>1. Email(r) \in Marks /\ "none" \in Marks
    BY DEF Shapes, Email, Marks
  <2> QED  BY <1>1, <2>1, ZenonT(60) DEF Shapes, Effect, Onward, Changed, Begun, Claimed, WalletSaved, CommitDone, CommitLost,
         Stopped, Refuse
<1>9. wallets' \in [Requests -> SUBSET {"EUR", "USD", "NGN", "GBP"}]
  <2>1. CASE WalletSaved(r)
    <3>1. PICK currency \in {"EUR", "USD", "NGN", "GBP"} :
            wallets' = [wallets EXCEPT ![r] = @ \cup {currency}]
      BY <2>1, DefaultsAreCurrencies DEF WalletSaved
    <3> QED  BY <3>1 DEF Shapes
  <2>2. CASE ~WalletSaved(r)
    BY <1>1, <2>2 DEF Shapes, Effect, Onward, Changed, Begun, Claimed, CommitDone, CommitLost,
         Stopped, Refuse
  <2> QED  BY <2>1, <2>2
<1>10. owner' \in [Emails -> Requests \cup {"nobody", "deleted"}] /\ done' \subseteq Requests
  BY <1>1, SMTT(30) DEF Shapes, Effect, Onward, Changed, Begun, Claimed, WalletSaved, CommitDone, CommitLost,
         Stopped, Committed
<1>11. \A q \in Requests : route'[q] = "none" =>
         todo'[q] = <<>> /\ q \notin done' /\ answer'[q] = "none" /\ wallets'[q] = {}
  BY <1>1, <1>2 DEF Shapes, Untouched
<1>12. route' = route /\ subject' = subject /\ exits' = exits
  BY <1>1
<1>13. /\ route' \in [Requests -> Routes \cup {"none"}] /\ exits' \in 0..MaxExits
       /\ subject' \in [Requests -> Marks \X (Countries \cup {"none"})]
       /\ \A q \in Requests : route'[q] # "none" => subject'[q] \in Subject(route'[q])
  BY <1>12 DEF Shapes
<1> QED  BY <1>3, <1>4, <1>5, <1>6, <1>7, <1>8, <1>9, <1>10, <1>11, <1>13 DEF Shapes

LEMMA ArriveKeepsShapes ==
  ASSUME Shapes, NEW r \in Requests, Arrive(r)
  PROVE  Shapes'
<1>1. PICK rt \in Routes :
        /\ route' = [route EXCEPT ![r] = rt]
        /\ todo' = [todo EXCEPT ![r] = Program(rt)]
        /\ \E s \in Subject(rt) : subject' = [subject EXCEPT ![r] = s]
  BY RequestConstants DEF Arrive, Subject
<1>2. UNCHANGED <<answer, pool, claim, wallets, owner, done, exits>> /\ route[r] = "none"
  BY DEF Arrive
<1>3. Rest(rt, Program(rt)) /\ Program(rt) \in Seq(Steps)
  BY RestBegins DEF Rest
<1>4. PICK s \in Subject(rt) : subject' = [subject EXCEPT ![r] = s]
  BY <1>1
<1>5. s \in Marks \X (Countries \cup {"none"})
  BY DEF Subject, Marks
<1>6. rt # "none"
  BY DEF Routes, AdminRoutes, AdminReads, AdminChanges, UserRoutes, UserReads, PublicRoutes
<1>7. todo' \in [Requests -> Seq(Steps)] /\ \A q \in Requests : Rest(route'[q], todo'[q])
  BY <1>1, <1>3 DEF Shapes
<1>8. route' \in [Requests -> Routes \cup {"none"}]
  BY <1>1 DEF Shapes
<1>9. /\ subject' \in [Requests -> Marks \X (Countries \cup {"none"})]
      /\ \A q \in Requests : route'[q] # "none" => subject'[q] \in Subject(route'[q])
  BY <1>1, <1>4, <1>5 DEF Shapes
<1>10. \A q \in Requests : route'[q] = "none" =>
         todo'[q] = <<>> /\ q \notin done' /\ answer'[q] = "none" /\ wallets'[q] = {}
  BY <1>1, <1>2, <1>6 DEF Shapes
<1>11. \A q \in Requests : answer'[q] # "none" => todo'[q] = <<>>
  BY <1>1, <1>2 DEF Shapes
<1> QED  BY <1>2, <1>7, <1>8, <1>9, <1>10, <1>11 DEF Shapes

LEMMA ExitKeepsShapes ==
  ASSUME Shapes, Exit
  PROVE  Shapes'
<1>1. /\ todo' = [r \in Requests |-> <<>>]
      /\ answer' = [r \in Requests |-> IF todo[r] # <<>> THEN "dead" ELSE answer[r]]
      /\ claim' = [r \in Requests |-> "none"]
      /\ wallets' = [r \in Requests |-> IF r \in done THEN wallets[r] ELSE {}]
      /\ pool' = {} /\ exits' = exits + 1 /\ exits < MaxExits
      /\ UNCHANGED <<route, subject, owner, done>>
  BY DEF Exit, Shapes
<1>2. Cardinality({}) = 0 /\ 0 <= PoolSize
  BY FS_EmptySet, RequestConstants
<1>3. \A rt : Rest(rt, <<>>)
  BY NothingLeft
<1>4. todo' \in [Requests -> Seq(Steps)] /\ \A q \in Requests : Rest(route'[q], todo'[q])
  BY <1>1, <1>3
<1>5. answer' \in [Requests -> Answers] /\ claim' \in [Requests -> Marks]
  BY <1>1 DEF Shapes, Answers, Marks
<1>6. wallets' \in [Requests -> SUBSET {"EUR", "USD", "NGN", "GBP"}]
  BY <1>1 DEF Shapes
<1>7. exits' \in 0..MaxExits
  BY <1>1, RequestConstants DEF Shapes
<1>8. /\ \A r \in Requests : answer'[r] # "none" => todo'[r] = <<>>
      /\ \A r \in Requests : route'[r] = "none" =>
           todo'[r] = <<>> /\ r \notin done' /\ answer'[r] = "none" /\ wallets'[r] = {}
  BY <1>1 DEF Shapes
<1> QED  BY <1>1, <1>2, <1>4, <1>5, <1>6, <1>7, <1>8 DEF Shapes

LEMMA ShapesStep == Shapes /\ [RequestsNext]_allVars => Shapes'
<1> SUFFICES ASSUME Shapes, [RequestsNext]_allVars PROVE Shapes'
  OBVIOUS
<1>1. CASE UNCHANGED requestVars
  BY <1>1 DEF Shapes, requestVars
<1>2. ASSUME NEW r \in Requests, Arrive(r) PROVE Shapes'
  BY <1>2, ArriveKeepsShapes
<1>3. ASSUME NEW r \in Requests, RequestStep(r) PROVE Shapes'
  BY <1>3, StepKeepsShapes
<1>4. CASE Exit
  BY <1>4, ExitKeepsShapes
<1> QED  BY <1>1, <1>2, <1>3, <1>4 DEF RequestsNext, JobStep, allVars

-----------------------------------------------------------------------------
\* Transactions: who keeps a connection and a lock, and what that means.
Left(r) == ToSet(todo[r])

InTransaction(r) ==
  /\ r \in pool <=> ("commit" \in Left(r) /\ "begin" \notin Left(r))
  /\ claim[r] # "none" => r \in pool /\ claim[r] = Email(r)
  /\ r \in pool /\ "claim" \notin Left(r) => claim[r] = Email(r)

\* A claim is on a free address, and of one transaction.
Locks ==
  /\ \A r \in Requests : claim[r] \in Emails => owner[claim[r]] = "nobody"
  /\ \A r, q \in Requests : claim[r] # "none" /\ claim[r] = claim[q] => r = q

\* How far a request that changes something has come.
Progress(r) ==
  /\ route[r] \in Changing /\ todo[r] # <<>> /\ {"change", "commit"} \cap Left(r) = {} => r \in done
  /\ route[r] \in Changing /\ answer[r] = "ok" => r \in done
  /\ r \in done => Left(r) \subseteq {"again", "reply"} /\ answer[r] \notin Refused

Registration(r) ==
  route[r] = "registerUser" =>
    /\ wallets[r] \subseteq DefaultWallets(subject[r][2])
    /\ r \in done \/ (r \in pool /\ "wallets" \notin Left(r)) =>
         wallets[r] = DefaultWallets(subject[r][2])

Owners == \A r \in done : Email(r) \in Emails => owner[Email(r)] = r

\* The step at hand and the steps behind it.
LEMMA AtHand ==
  ASSUME Shapes, NEW r \in Requests, todo[r] # <<>>
  PROVE  \E later :
           /\ later = ToSet(Tail(todo[r]))
           /\ Left(r) = {Next1(r)} \cup later
           /\ Follows(route[r], Next1(r), later)
           /\ Proceed(r) => Left(r)' = later /\ (later = {} => todo'[r] = <<>>)
           /\ todo'[r] = <<>> => Left(r)' = {}
           /\ route[r] \in Routes /\ subject[r] \in Subject(route[r])
<1>1. Rest(route[r], todo[r])
  BY DEF Shapes
<1>2. /\ route[r] \in Routes
      /\ Left(r) = {Next1(r)} \cup ToSet(Tail(todo[r]))
      /\ Follows(route[r], Next1(r), ToSet(Tail(todo[r])))
      /\ ToSet(Tail(todo[r])) = {} => Tail(todo[r]) = <<>>
  BY <1>1, RestFollows DEF Left, Next1
<1>3. ASSUME Proceed(r)
      PROVE  Left(r)' = ToSet(Tail(todo[r])) /\ todo'[r] = Tail(todo[r])
  <2>1. todo'[r] = Tail(todo[r])
    BY <1>3 DEF Proceed, Shapes
  <2> QED  BY <2>1 DEF Left
<1>4. ASSUME todo'[r] = <<>> PROVE Left(r)' = {}
  BY <1>4, NothingLeft DEF Left
<1>5. route[r] # "none"
  BY <1>2 DEF Routes, AdminRoutes, AdminReads, AdminChanges, UserRoutes, UserReads, PublicRoutes
<1> QED  BY <1>2, <1>3, <1>4, <1>5 DEF Shapes

\* What the effects are on the request itself, with "later" what is behind the step.
LEMMA OwnTransaction ==
  ASSUME Shapes, NEW r \in Requests, todo[r] # <<>>, Effect(r), UNCHANGED subject,
         InTransaction(r)
  PROVE  InTransaction(r)'
<1>1. PICK later :
        /\ Left(r) = {Next1(r)} \cup later /\ Follows(route[r], Next1(r), later)
        /\ Proceed(r) => Left(r)' = later
        /\ todo'[r] = <<>> => Left(r)' = {}
  BY AtHand
<1>2. Email(r)' = Email(r) /\ Email(r) \in Marks
  BY DEF Email, Shapes
<1>3. CASE Onward(r)
  BY <1>1, <1>2, <1>3 DEF Onward, InTransaction
<1>4. CASE Changed(r)
  BY <1>1, <1>2, <1>4 DEF Changed, InTransaction, Follows
<1>5. CASE Begun(r)
  BY <1>1, <1>2, <1>5 DEF Begun, InTransaction, Follows
<1>6. CASE Claimed(r)
  <2>1. claim'[r] = Email(r)
    BY <1>6 DEF Claimed, Shapes
  <2>2. Next1(r) \in {"begin"} \cup Inside /\ "commit" \in later /\ "begin" \notin later
    BY <1>1, <1>6 DEF Claimed, Follows, Inside
  <2> QED  BY <1>1, <1>2, <1>6, <2>1, <2>2 DEF Claimed, InTransaction
<1>7. CASE WalletSaved(r)
  <2>1. Left(r)' = Left(r)
    BY <1>7 DEF WalletSaved, Left
  <2> QED  BY <1>2, <1>7, <2>1 DEF WalletSaved, InTransaction
<1>8. CASE CommitDone(r) \/ CommitLost(r)
  <2>1. claim'[r] = "none" /\ pool' = pool \ {r}
    BY <1>8 DEF CommitDone, CommitLost, Shapes
  <2>2. "commit" \notin Left(r)'
    BY <1>1, <1>8 DEF CommitDone, CommitLost, Follows, Shapes
  <2> QED  BY <1>2, <2>1, <2>2 DEF InTransaction
<1>9. CASE Stopped(r)
  <2>1. claim'[r] = "none" /\ pool' = pool \ {r} /\ todo'[r] = <<>>
    BY <1>9 DEF Stopped, Refuse, Release, Shapes
  <2> QED  BY <1>1, <1>2, <2>1 DEF InTransaction
<1> QED  BY <1>3, <1>4, <1>5, <1>6, <1>7, <1>8, <1>9 DEF Effect

LEMMA OwnProgress ==
  ASSUME Shapes, NEW r \in Requests, todo[r] # <<>>, Effect(r), UNCHANGED route,
         Progress(r)
  PROVE  Progress(r)'
<1>1. PICK later :
        /\ Left(r) = {Next1(r)} \cup later /\ Follows(route[r], Next1(r), later)
        /\ Proceed(r) => Left(r)' = later /\ (later = {} => todo'[r] = <<>>)
        /\ todo'[r] = <<>> => Left(r)' = {}
  BY AtHand
<1>2. answer[r] = "none"
  BY DEF Shapes
<1>3. "ok" \notin Refused /\ "error" \notin Refused /\ "none" \notin Refused
  BY DEF Refused
<1>4. CASE Onward(r)
  <2>1. Left(r)' = later /\ done' = done /\ answer'[r] \in {"none", "ok"}
        /\ (answer'[r] = "ok" => Next1(r) = "reply")
        /\ Next1(r) \notin {"change", "commit"}
    BY <1>1, <1>2, <1>4 DEF Onward, Shapes
  <2>2. Next1(r) = "reply" => later = {}
    BY <1>1 DEF Follows
  <2> QED  BY <1>1, <1>3, <2>1, <2>2 DEF Progress
<1>5. CASE Changed(r) \/ CommitDone(r)
  <2>1. Left(r)' = later /\ r \in done' /\ answer'[r] = "none" /\ later \subseteq {"again", "reply"}
    BY <1>1, <1>2, <1>5 DEF Changed, CommitDone, Committed, Follows
  <2> QED  BY <1>3, <2>1 DEF Progress
<1>6. CASE Begun(r) \/ Claimed(r)
  <2>1. Left(r)' = later /\ done' = done /\ answer'[r] = "none" /\ "commit" \in later
    BY <1>1, <1>2, <1>6 DEF Begun, Claimed, Follows, Inside
  <2> QED  BY <1>1, <1>3, <2>1 DEF Progress
<1>7. CASE WalletSaved(r)
  <2>1. Left(r)' = Left(r)
    BY <1>7 DEF WalletSaved, Left
  <2> QED  BY <1>7, <2>1 DEF WalletSaved, Progress
<1>8. CASE CommitLost(r)
  <2>1. todo'[r] = <<>> /\ r \in done' /\ answer'[r] = "error"
    BY <1>8 DEF CommitLost, Committed, Shapes
  <2> QED  BY <1>1, <1>3, <2>1 DEF Progress
<1>9. CASE Stopped(r)
  <2>1. PICK why \in Refused \cup {"error"} :
          /\ answer'[r] = why /\ todo'[r] = <<>>
          /\ \/ done' = done
             \/ why = "error" /\ done' = done \cup {r}
          /\ why \in Refused => Next1(r) \notin {"again", "change"}
          /\ Next1(r) # "reply"
    BY <1>9 DEF Stopped, Refuse, Shapes
  <2>2. why # "ok" /\ Left(r)' = {}
    BY <1>1, <2>1 DEF Refused
  <2>3. r \in done' => why \notin Refused
    <3>1. r \in done => Next1(r) \in {"again", "reply"}
      BY <1>1 DEF Progress
    <3> QED  BY <1>3, <2>1, <3>1
  <2> QED  BY <2>1, <2>2, <2>3 DEF Progress
<1> QED  BY <1>4, <1>5, <1>6, <1>7, <1>8, <1>9 DEF Effect

LEMMA OwnRegistration ==
  ASSUME Shapes, NEW r \in Requests, todo[r] # <<>>, Effect(r), UNCHANGED <<route, subject>>,
         InTransaction(r), Progress(r), Registration(r)
  PROVE  Registration(r)'
<1> SUFFICES ASSUME route[r] = "registerUser" PROVE Registration(r)'
  BY DEF Registration
<1>1. PICK later :
        /\ Left(r) = {Next1(r)} \cup later /\ Follows(route[r], Next1(r), later)
        /\ Proceed(r) => Left(r)' = later
  BY AtHand
<1> DEFINE D == DefaultWallets(subject[r][2])
<1>2. D' = D /\ wallets[r] \subseteq D
      /\ (r \in done \/ (r \in pool /\ "wallets" \notin Left(r)) => wallets[r] = D)
  BY DEF Registration
<1>3. SUFFICES /\ wallets'[r] \subseteq D
               /\ r \in done' \/ (r \in pool' /\ "wallets" \notin Left(r)') => wallets'[r] = D
  BY <1>2 DEF Registration
<1> HIDE DEF D
<1>4. Next1(r) \notin {"again", "change"}
  BY <1>1 DEF Follows
<1>5. CASE Onward(r)
  BY <1>1, <1>2, <1>5 DEF Onward, D
<1>6. CASE Begun(r)
  BY <1>1, <1>2, <1>6 DEF Begun, Follows
<1>7. CASE Claimed(r)
  BY <1>1, <1>2, <1>7 DEF Claimed
<1>8. CASE WalletSaved(r)
  <2>1. Left(r)' = Left(r) /\ Next1(r) = "wallets" /\ done' = done /\ pool' = pool
    BY <1>8 DEF WalletSaved, Left
  <2>2. PICK currency \in D : wallets'[r] = wallets[r] \cup {currency}
    BY <1>8 DEF WalletSaved, Shapes, D
  <2>3. r \notin done
    BY <1>1, <2>1 DEF Progress
  <2> QED  BY <1>1, <1>2, <2>1, <2>2, <2>3
<1>9. CASE CommitDone(r) \/ CommitLost(r)
  <2>1. wallets' = wallets /\ Next1(r) = "commit"
    BY <1>9 DEF CommitDone, CommitLost
  <2>2. r \in pool /\ "wallets" \notin Left(r)
    BY <1>1, <2>1 DEF InTransaction, Follows
  <2> QED  BY <1>2, <2>1, <2>2
<1>10. CASE Stopped(r)
  <2>1. wallets'[r] = {} /\ r \notin pool' /\ done' = done /\ Next1(r) # "reply"
    BY <1>4, <1>10 DEF Stopped, Refuse, Release, Shapes
  <2>2. r \notin done
    BY <1>1, <1>4, <2>1 DEF Progress
  <2> QED  BY <2>1, <2>2
<1> QED  BY <1>4, <1>5, <1>6, <1>7, <1>8, <1>9, <1>10 DEF Effect, Changed

Whole ==
  /\ Shapes
  /\ \A r \in Requests : InTransaction(r) /\ Progress(r) /\ Registration(r)
  /\ Locks /\ Owners

LEMMA OthersKeepTheirs ==
  ASSUME NEW q \in Requests, Untouched(q), UNCHANGED <<route, subject>>,
         InTransaction(q), Progress(q), Registration(q)
  PROVE  InTransaction(q)' /\ Progress(q)' /\ Registration(q)'
<1>1. /\ Left(q)' = Left(q) /\ Email(q)' = Email(q) /\ todo'[q] = todo[q] /\ answer'[q] = answer[q]
      /\ claim'[q] = claim[q] /\ wallets'[q] = wallets[q] /\ route' = route /\ subject' = subject
      /\ q \in pool' <=> q \in pool
      /\ q \in done' <=> q \in done
  BY DEF Untouched, Left, Email
<1>2. InTransaction(q)'
  BY <1>1 DEF InTransaction
<1>3. Progress(q)'
  BY <1>1 DEF Progress
<1>4. Registration(q)'
  BY <1>1 DEF Registration
<1> QED  BY <1>2, <1>3, <1>4

\* Whose request claims a new address registers or updates.
LEMMA ClaimsAreRegistrations ==
  ASSUME Shapes, NEW r \in Requests, todo[r] # <<>>, Next1(r) = "change"
  PROVE  Email(r) \notin Emails
<1>1. route[r] \in Routes \ {"registerUser", "updateUser"} /\ subject[r] \in Subject(route[r])
  BY AtHand DEF Follows
<1>2. subject[r] = <<"user", "none">>
  BY <1>1 DEF Subject
<1> QED  BY <1>2, RequestConstants DEF Email

LEMMA StepKeepsOwners ==
  ASSUME Whole, NEW r \in Requests, RequestStep(r)
  PROVE  Locks' /\ Owners'
<1>1. /\ todo[r] # <<>> /\ Effect(r) /\ UNCHANGED <<route, subject>>
      /\ Shapes /\ InTransaction(r) /\ Locks /\ Owners
  BY StepEffects DEF Whole
<1>2. \A q \in Requests \ {r} : Untouched(q)
  BY <1>1, OthersUntouched
<1>3. \A q \in Requests : Email(q)' = Email(q)
  BY <1>1 DEF Email
<1>4. /\ Email(r) \in Marks /\ claim \in [Requests -> Marks] /\ done \subseteq Requests
      /\ owner \in [Emails -> Requests \cup {"nobody", "deleted"}]
      /\ "nobody" \notin Requests /\ "none" \notin Emails
  BY <1>1, RequestConstants DEF Shapes, Email
<1>a. done' \subseteq Requests /\ r \in Requests
  BY <1>1, <1>4 DEF Effect, Onward, Changed, Begun, Claimed, WalletSaved, CommitDone, CommitLost,
     Stopped, Committed
<1>5. CASE claim'[r] = "none" /\ owner' = owner
  <2>1. \A q \in Requests : claim'[q] \in {claim[q], "none"}
    BY <1>2, <1>5 DEF Untouched
  <2>2. Locks'
    <3>1. ASSUME NEW q \in Requests, claim'[q] \in Emails
          PROVE  owner'[claim'[q]] = "nobody"
      <4>1. claim'[q] = claim[q]
        BY <1>4, <2>1, <3>1
      <4> QED  BY <1>1, <1>5, <3>1, <4>1 DEF Locks
    <3>2. ASSUME NEW p \in Requests, NEW q \in Requests, claim'[p] # "none", claim'[p] = claim'[q]
          PROVE  p = q
      BY <1>1, <2>1, <3>2 DEF Locks
    <3> QED  BY <3>1, <3>2 DEF Locks
  <2>3. \A q \in done' : q \in done \/ Email(q) \notin Emails
    <3>1. ASSUME NEW q \in done', q \notin done PROVE Email(q) \notin Emails
      <4>1. q = r
        BY <1>1, <1>2, <1>4, <3>1 DEF Untouched, Effect, Onward, Changed, Begun, Claimed,
           WalletSaved, CommitDone, CommitLost, Stopped, Committed
      <4>2. CASE Next1(r) = "change"
        BY <1>1, <4>1, <4>2, ClaimsAreRegistrations
      <4>3. CASE Next1(r) = "commit" /\ Committed(r)
        <5>1. r \in pool /\ claim[r] = Email(r)
          <6>1. PICK later : Left(r) = {Next1(r)} \cup later /\ Follows(route[r], Next1(r), later)
            BY <1>1, AtHand
          <6> QED  BY <1>1, <4>3, <6>1 DEF InTransaction, Follows
        <5>2. ASSUME Email(r) \in Emails PROVE FALSE
          <6>1. owner'[Email(r)] = r /\ owner[Email(r)] = "nobody"
            BY <1>1, <4>3, <5>1, <5>2 DEF Committed, Locks
          <6> QED  BY <1>4, <1>5, <6>1
        <5> QED  BY <4>1, <5>2
      <4> QED  BY <1>1, <3>1, <4>1, <4>2, <4>3
               DEF Effect, Onward, Changed, Begun, Claimed, WalletSaved, CommitDone, CommitLost, Stopped
    <3> QED  BY <3>1
  <2>4. Owners'
    BY <1>1, <1>3, <1>a, <1>5, <2>3 DEF Owners
  <2> QED  BY <2>2, <2>4
<1>6. CASE UNCHANGED <<claim, owner>> /\ (done' = done \/ (Changed(r) /\ done' = done \cup {r}))
  <2>1. Locks'
    BY <1>1, <1>6 DEF Locks
  <2>2. \A q \in done' : q \in done \/ Email(q) \notin Emails
    BY <1>1, <1>6, ClaimsAreRegistrations DEF Changed
  <2>3. Owners'
    BY <1>1, <1>3, <1>a, <1>6, <2>2 DEF Owners
  <2> QED  BY <2>1, <2>3
<1>7. CASE Claimed(r)
  <2>1. /\ claim'[r] = Email(r) /\ owner' = owner /\ done' = done
        /\ \A q \in Requests \ {r} : claim'[q] = claim[q] /\ claim[q] # Email(r)
        /\ (Email(r) \in Emails => owner[Email(r)] = "nobody")
    BY <1>4, <1>7 DEF Claimed, Held, Claimable
  <2>2. Locks'
    <3>1. ASSUME NEW q \in Requests, claim'[q] \in Emails
          PROVE  owner'[claim'[q]] = "nobody"
      BY <1>1, <2>1, <3>1 DEF Locks
    <3>2. ASSUME NEW p \in Requests, NEW q \in Requests, claim'[p] # "none", claim'[p] = claim'[q]
          PROVE  p = q
      <4>1. CASE p = r \/ q = r
        BY <2>1, <3>2, <4>1
      <4>2. CASE p # r /\ q # r
        BY <1>1, <2>1, <3>2, <4>2 DEF Locks
      <4> QED  BY <4>1, <4>2
    <3> QED  BY <3>1, <3>2 DEF Locks
  <2>3. Owners'
    BY <1>1, <1>3, <1>a, <2>1 DEF Owners
  <2> QED  BY <2>2, <2>3
<1>8. CASE CommitDone(r) \/ CommitLost(r)
  <2>1. r \in pool /\ claim[r] = Email(r)
    <3>1. PICK later : Left(r) = {Next1(r)} \cup later /\ Follows(route[r], Next1(r), later)
      BY <1>1, AtHand
    <3> QED  BY <1>1, <1>8, <3>1 DEF InTransaction, Follows, CommitDone, CommitLost
  <2>2. claim'[r] = "none" /\ (\A q \in Requests \ {r} : claim'[q] = claim[q])
        /\ done' = done \cup {r}
        /\ owner' = [e \in Emails |-> IF e = Email(r) THEN r ELSE owner[e]]
    BY <1>4, <1>8, <2>1 DEF CommitDone, CommitLost, Committed
  <2>3. Locks'
    <3>1. ASSUME NEW q \in Requests, claim'[q] \in Emails
          PROVE  owner'[claim'[q]] = "nobody"
      <4>1. q # r /\ claim'[q] = claim[q] /\ claim[q] # "none"
        BY <1>4, <2>2, <3>1
      <4>2. claim[q] # Email(r)
        BY <1>1, <2>1, <4>1 DEF Locks
      <4> QED  BY <1>1, <2>2, <3>1, <4>1, <4>2 DEF Locks
    <3>2. ASSUME NEW p \in Requests, NEW q \in Requests, claim'[p] # "none", claim'[p] = claim'[q]
          PROVE  p = q
      BY <1>1, <2>2, <3>2 DEF Locks
    <3> QED  BY <3>1, <3>2 DEF Locks
  <2>4. ASSUME NEW q \in done', Email(q) \in Emails PROVE owner'[Email(q)] = q
    <3>1. CASE q = r
      BY <2>2, <2>4, <3>1
    <3>2. CASE q # r
      <4>1. q \in done /\ owner[Email(q)] = q /\ q \in Requests
        BY <1>1, <1>4, <2>2, <2>4, <3>2 DEF Owners
      <4>2. Email(q) # Email(r)
        BY <1>1, <1>4, <2>1, <2>4, <4>1 DEF Locks
      <4> QED  BY <2>2, <2>4, <4>1, <4>2
    <3> QED  BY <3>1, <3>2
  <2> QED  BY <1>3, <1>4, <2>2, <2>3, <2>4 DEF Owners
<1>9. CASE Stopped(r)
  <2>1. claim'[r] = "none" /\ owner' = owner
    BY <1>4, <1>9 DEF Stopped, Refuse
  <2> QED  BY <1>5, <2>1
<1> QED  BY <1>1, <1>5, <1>6, <1>7, <1>8, <1>9
         DEF Effect, Onward, Changed, Begun, WalletSaved

LEMMA WholeInit == RequestsInit => Whole
<1> SUFFICES ASSUME RequestsInit PROVE Whole
  OBVIOUS
<1>1. Shapes
  BY ShapesInit
<1>2. /\ \A r \in Requests : todo[r] = <<>> /\ claim[r] = "none" /\ wallets[r] = {}
      /\ \A r \in Requests : route[r] = "none" /\ answer[r] = "none"
      /\ pool = {} /\ done = {}
  BY DEF RequestsInit
<1>3. \A r \in Requests : Left(r) = {}
  BY <1>2, NothingLeft DEF Left
<1>4. \A r \in Requests : InTransaction(r)
  BY <1>2, <1>3 DEF InTransaction
<1>5. \A r \in Requests : Progress(r) /\ Registration(r)
  BY <1>2 DEF Progress, Registration
<1>6. Locks /\ Owners
  BY <1>2, RequestConstants DEF Locks, Owners
<1> QED  BY <1>1, <1>4, <1>5, <1>6 DEF Whole

LEMMA ArriveKeepsWhole ==
  ASSUME Whole, NEW r \in Requests, Arrive(r)
  PROVE  Whole'
<1>1. Shapes /\ Shapes'
  BY ArriveKeepsShapes DEF Whole
<1>2. PICK rt \in Routes :
        /\ route' = [route EXCEPT ![r] = rt]
        /\ todo' = [todo EXCEPT ![r] = Program(rt)]
        /\ \E s : subject' = [subject EXCEPT ![r] = s]
  BY RequestConstants DEF Arrive
<1>3. /\ UNCHANGED <<answer, pool, claim, wallets, owner, done>>
      /\ route[r] = "none" /\ todo[r] = <<>> /\ r \notin done /\ answer[r] = "none" /\ wallets[r] = {}
      /\ todo'[r] = Program(rt) /\ route'[r] = rt
  BY <1>1, <1>2 DEF Arrive, Shapes
<1>4. /\ "commit" \in Left(r)' => "begin" \in Left(r)'
      /\ rt \in Changing => Left(r)' \cap {"change", "commit"} # {}
  <2>1. Left(r)' = ToSet(Program(rt))
    BY <1>3 DEF Left
  <2> QED  BY <2>1, RestBegins DEF HasAll
<1>5. r \notin pool /\ claim[r] = "none"
  BY <1>3, NothingLeft DEF Whole, InTransaction, Left
<1>6. InTransaction(r)' /\ Progress(r)' /\ Registration(r)'
  <2>1. InTransaction(r)'
    BY <1>3, <1>4, <1>5 DEF InTransaction
  <2>2. Progress(r)'
    BY <1>3, <1>4 DEF Progress
  <2>3. Registration(r)'
    BY <1>3, <1>5 DEF Registration
  <2> QED  BY <2>1, <2>2, <2>3
<1>7. ASSUME NEW q \in Requests, q # r
      PROVE  InTransaction(q)' /\ Progress(q)' /\ Registration(q)'
  <2>1. /\ todo'[q] = todo[q] /\ route'[q] = route[q] /\ subject'[q] = subject[q]
        /\ InTransaction(q) /\ Progress(q) /\ Registration(q)
    BY <1>1, <1>2, <1>7 DEF Shapes, Whole
  <2>2. Left(q)' = Left(q) /\ Email(q)' = Email(q)
    BY <2>1 DEF Left, Email
  <2>3. InTransaction(q)'
    BY <1>3, <2>1, <2>2 DEF InTransaction
  <2>4. Progress(q)'
    BY <1>3, <2>1, <2>2 DEF Progress
  <2>5. Registration(q)'
    BY <1>3, <2>1, <2>2 DEF Registration
  <2> QED  BY <2>3, <2>4, <2>5
<1>8. Locks'
  BY <1>3 DEF Locks, Whole
<1>9. Owners'
  <2> SUFFICES ASSUME NEW q \in done, Email(q)' \in Emails PROVE owner[Email(q)'] = q
    BY <1>3 DEF Owners
  <2>1. q # r /\ q \in Requests
    BY <1>1, <1>3 DEF Shapes
  <2>2. Email(q)' = Email(q)
    BY <1>1, <1>2, <2>1 DEF Email, Shapes
  <2> QED  BY <2>2 DEF Whole, Owners
<1> QED  BY <1>1, <1>6, <1>7, <1>8, <1>9 DEF Whole

LEMMA ExitKeepsWhole ==
  ASSUME Whole, Exit
  PROVE  Whole'
<1>1. Shapes /\ Shapes'
  BY ExitKeepsShapes DEF Whole
<1>2. /\ \A r \in Requests : todo'[r] = <<>> /\ claim'[r] = "none"
      /\ \A r \in Requests : answer'[r] \in {answer[r], "dead"}
      /\ \A r \in Requests : wallets'[r] = IF r \in done THEN wallets[r] ELSE {}
      /\ pool' = {} /\ UNCHANGED <<route, subject, owner, done>>
  BY DEF Exit
<1>3. \A r \in Requests : Left(r)' = {}
  BY <1>2, NothingLeft DEF Left
<1>4. \A r \in Requests : InTransaction(r)'
  BY <1>2, <1>3 DEF InTransaction
<1>5. ASSUME NEW r \in Requests PROVE Progress(r)'
  <2>1. Progress(r) /\ "dead" \notin Refused /\ answer'[r] \in {answer[r], "dead"} /\ todo'[r] = <<>>
    BY <1>2 DEF Whole, Refused
  <2> QED  BY <1>2, <1>3, <2>1 DEF Progress
<1>6. ASSUME NEW r \in Requests PROVE Registration(r)'
  BY <1>2 DEF Registration, Whole
<1>7. Locks'
  BY <1>2, RequestConstants DEF Locks
<1>8. Owners'
  BY <1>1, <1>2 DEF Owners, Whole, Email
<1> QED  BY <1>1, <1>4, <1>5, <1>6, <1>7, <1>8 DEF Whole

LEMMA WholeStep == Whole /\ [RequestsNext]_allVars => Whole'
<1> SUFFICES ASSUME Whole, [RequestsNext]_allVars PROVE Whole'
  OBVIOUS
<1>1. CASE UNCHANGED requestVars
  <2>1. UNCHANGED <<route, subject, todo, answer, pool, claim, wallets, owner, done>>
    BY <1>1 DEF requestVars
  <2>2. Shapes'
    BY ShapesStep DEF Whole
  <2>3. ASSUME NEW r \in Requests PROVE InTransaction(r)' /\ Progress(r)' /\ Registration(r)'
    BY <2>1 DEF Whole, InTransaction, Progress, Registration, Left, Email
  <2>4. Locks' /\ Owners'
    BY <2>1 DEF Whole, Locks, Owners, Email
  <2> QED  BY <2>2, <2>3, <2>4 DEF Whole
<1>2. ASSUME NEW r \in Requests, Arrive(r) PROVE Whole'
  BY <1>2, ArriveKeepsWhole
<1>3. ASSUME NEW r \in Requests, RequestStep(r) PROVE Whole'
  <2>1. /\ todo[r] # <<>> /\ Effect(r) /\ UNCHANGED <<route, subject>> /\ Shapes
        /\ \A q \in Requests : InTransaction(q) /\ Progress(q) /\ Registration(q)
    BY <1>3, StepEffects DEF Whole
  <2>2. ASSUME NEW q \in Requests PROVE InTransaction(q)' /\ Progress(q)' /\ Registration(q)'
    <3>1. CASE q = r
      BY <2>1, <3>1, OwnTransaction, OwnProgress, OwnRegistration
    <3>2. CASE q # r
      BY <2>1, <3>2, OthersUntouched, OthersKeepTheirs
    <3> QED  BY <3>1, <3>2
  <2>3. Shapes' /\ Locks' /\ Owners'
    BY <1>3, <2>1, StepKeepsShapes, StepKeepsOwners
  <2> QED  BY <2>2, <2>3 DEF Whole
<1>4. CASE Exit
  BY <1>4, ExitKeepsWhole
<1> QED  BY <1>1, <1>2, <1>3, <1>4 DEF RequestsNext, JobStep, allVars

-----------------------------------------------------------------------------
\* What a step of a request does to the jobs, and any step to those there are.
JobTypes == job \in [Jobs -> JobState] /\ attempts \in [Jobs -> 0..Attempts]

Trail(r) ==
  /\ route[r] \in AdminRoutes /\ (r \in done \/ (todo[r] # <<>> /\ "admit" \notin Left(r))) =>
       job[Entry(r)] # "none"
  /\ route[r] = "adminResetPassword" /\ (r \in done \/ (todo[r] # <<>> /\ "mail" \notin Left(r))) =>
       job[Mail(r)] # "none"
  /\ job[Mail(r)] \notin {"adding", "lost"}

Trails == \A r \in Requests : Trail(r)

JobsGoOn ==
  /\ JobTypes'
  /\ \A j \in Jobs : job[j] # "none" => job'[j] # "none"
  /\ \A r \in Requests : job[Mail(r)] \notin {"adding", "lost"} => job'[Mail(r)] \notin {"adding", "lost"}

LEMMA JobsAreThere ==
  ASSUME NEW r \in Requests
  PROVE  /\ Entry(r) \in Jobs /\ Mail(r) \in Jobs
         /\ \A q \in Requests : Entry(r) # Mail(q) /\ (Mail(r) = Mail(q) => r = q)
  BY RequestConstants DEF Entry, Mail

LEMMA RequestJobs ==
  ASSUME JobTypes, NEW r \in Requests, RequestStep(r)
  PROVE  \/ UNCHANGED jobVars
         \/ Next1(r) = "admit" /\ Becomes(Entry(r), "adding") /\ UNCHANGED attempts
         \/ Next1(r) = "mail" /\ Becomes(Mail(r), "waiting") /\ UNCHANGED attempts
  BY DEF RequestStep, Authenticate, Admit, Find, Change, Again, CreateWallet, Begin, Look, Load,
         Claim, SaveWallet, Reread, AddMail, Commit, Reply, At, Next1, jobVars

LEMMA JobsKept ==
  ASSUME JobTypes, [RequestsNext]_allVars
  PROVE  JobsGoOn
<1> USE DEF JobsGoOn
<1>1. CASE UNCHANGED jobVars
  BY <1>1 DEF JobTypes, jobVars
<1>2. ASSUME NEW r \in Requests, Becomes(Entry(r), "adding"), UNCHANGED attempts PROVE JobsGoOn
  <2>1. Entry(r) \in Jobs /\ \A q \in Requests : Mail(q) \in Jobs /\ Entry(r) # Mail(q)
    BY JobsAreThere
  <2>2. \A j \in Jobs : job'[j] = IF j = Entry(r) THEN "adding" ELSE job[j]
    BY <1>2 DEF Becomes, JobTypes
  <2>3. JobTypes'
    BY <1>2 DEF JobTypes, Becomes, JobState
  <2> QED  BY <2>1, <2>2, <2>3
<1>3. ASSUME NEW j \in Jobs, NEW s \in {"waiting", "done", "failed"}, Becomes(j, s),
             attempts' \in [Jobs -> 0..Attempts]
      PROVE  JobsGoOn
  <2>1. \A i \in Jobs : job'[i] = IF i = j THEN s ELSE job[i]
    BY <1>3 DEF Becomes, JobTypes
  <2>2. JobTypes'
    BY <1>3 DEF JobTypes, Becomes, JobState
  <2>3. \A r \in Requests : Mail(r) \in Jobs
    BY JobsAreThere
  <2> QED  BY <2>1, <2>2, <2>3
<1>4. ASSUME NEW r \in Requests, Arrive(r) PROVE JobsGoOn
  BY <1>1, <1>4 DEF Arrive
<1>5. ASSUME NEW r \in Requests, RequestStep(r) PROVE JobsGoOn
  <2>1. Mail(r) \in Jobs /\ (UNCHANGED attempts => attempts' \in [Jobs -> 0..Attempts])
    BY JobsAreThere DEF JobTypes
  <2> QED  BY <1>1, <1>2, <1>3, <1>5, <2>1, RequestJobs
<1>6. ASSUME NEW j \in Jobs, JobStep(j) PROVE JobsGoOn
  <2>1. CASE Enqueue(j)
    BY <1>3, <2>1 DEF Enqueue, JobTypes
  <2>2. CASE Complete(j)
    <3>1. attempts' \in [Jobs -> 0..Attempts]
      BY <2>2, JobConstants DEF Complete, JobTypes
    <3> QED  BY <1>3, <2>2, <3>1 DEF Complete
  <2>3. CASE Throw(j)
    <3>1. attempts' \in [Jobs -> 0..Attempts]
      <4>1. 1 + (attempts[j] % Attempts) \in 0..Attempts /\ 0 \in 0..Attempts
        BY JobConstants DEF JobTypes
      <4> QED  BY <2>3, <4>1 DEF Throw, JobTypes
    <3>2. CASE UNCHANGED job
      BY <3>1, <3>2 DEF JobTypes
    <3>3. CASE Becomes(j, "failed")
      BY <1>3, <3>1, <3>3
    <3> QED  BY <2>3, <3>2, <3>3 DEF Throw
  <2> QED  BY <1>6, <2>1, <2>2, <2>3 DEF JobStep, Process
<1>7. CASE Exit
  <2>1. job' = [j \in Jobs |-> IF job[j] = "adding" THEN "lost" ELSE job[j]] /\ attempts' = attempts
    BY <1>7 DEF Exit, ExitJobs
  <2>2. JobTypes'
    BY <2>1 DEF JobTypes, JobState
  <2>3. \A r \in Requests : Mail(r) \in Jobs
    BY JobsAreThere
  <2> QED  BY <2>1, <2>2, <2>3
<1>8. CASE UNCHANGED allVars
  BY <1>1, <1>8 DEF allVars
<1> QED  BY <1>4, <1>5, <1>6, <1>7, <1>8 DEF RequestsNext

\* A step that goes on behind the middleware of an administrator has begun to log, and
\* one behind the mail has queued it.
LEMMA OwnTrail ==
  ASSUME Whole, JobTypes, NEW r \in Requests, RequestStep(r), JobsGoOn, Trail(r)
  PROVE  Trail(r)'
<1>1. /\ todo[r] # <<>> /\ Effect(r) /\ UNCHANGED <<route, subject>> /\ Shapes /\ Shapes'
      /\ Progress(r)' /\ route[r] \in Routes
  <2>1. todo[r] # <<>> /\ Effect(r) /\ UNCHANGED <<route, subject>> /\ Shapes /\ Progress(r)
    BY StepEffects DEF Whole
  <2> QED  BY <2>1, StepKeepsShapes, OwnProgress, AtHand
<1>2. PICK later :
        /\ Left(r) = {Next1(r)} \cup later /\ Follows(route[r], Next1(r), later)
        /\ Proceed(r) => Left(r)' = later
  BY <1>1, AtHand
<1>3. Entry(r) \in Jobs /\ Mail(r) \in Jobs
  BY JobsAreThere
<1>4. \/ todo' = [todo EXCEPT ![r] = <<>>]
      \/ todo' = todo
      \/ Proceed(r)
  BY <1>1 DEF Effect, Onward, Changed, Begun, Claimed, WalletSaved, CommitDone, CommitLost,
          Stopped, Refuse
<1>5. r \in done' => r \in done \/ Next1(r) \in {"change", "commit"}
  BY <1>1 DEF Effect, Onward, Changed, Begun, Claimed, WalletSaved, CommitDone, CommitLost,
          Stopped
<1>6. Next1(r) \in {"change", "commit"} => "admit" \notin Left(r) /\ "mail" \notin Left(r)
  BY <1>2 DEF Follows
<1>7. todo'[r] # <<>> /\ Left(r)' # Left(r) => Proceed(r) /\ Left(r)' = later
  BY <1>1, <1>2, <1>4 DEF Shapes, Left
<1>8. ASSUME route[r] \in AdminRoutes, Next1(r) = "admit", Proceed(r), todo'[r] # <<>>
      PROVE  job'[Entry(r)] # "none"
  <2>1. Admit(r)
    BY <1>8 DEF RequestStep, Authenticate, Admit, Find, Change, Again, CreateWallet, Begin, Look, Load,
         Claim, SaveWallet, Reread, AddMail, Commit, Reply, At, Next1
  <2>2. ASSUME NEW why, Refuse(r, why) PROVE FALSE
    BY <1>1, <1>8, <2>2 DEF Refuse, Shapes
  <2>3. Becomes(Entry(r), "adding")
    BY <1>8, <2>1, <2>2 DEF Admit, Audited, Guarded, Allows, Logs
  <2> QED  BY <1>3, <2>3 DEF Becomes, JobTypes
<1>9. ASSUME Next1(r) = "mail", Proceed(r), todo'[r] # <<>>
      PROVE  job'[Mail(r)] # "none"
  <2>1. AddMail(r)
    BY <1>9 DEF RequestStep, Authenticate, Admit, Find, Change, Again, CreateWallet, Begin, Look, Load,
         Claim, SaveWallet, Reread, AddMail, Commit, Reply, At, Next1
  <2>2. ASSUME NEW why, Refuse(r, why) PROVE FALSE
    BY <1>1, <1>9, <2>2 DEF Refuse, Shapes
  <2>3. Becomes(Mail(r), "waiting")
    BY <2>1, <2>2 DEF AddMail
  <2> QED  BY <1>3, <2>3 DEF Becomes, JobTypes
<1>10. ASSUME route[r] \in AdminRoutes, r \in done' \/ (todo'[r] # <<>> /\ "admit" \notin Left(r)')
       PROVE  job'[Entry(r)] # "none"
  <2>1. CASE r \in done \/ "admit" \notin Left(r)
    BY <1>1, <1>3, <1>10, <2>1 DEF Trail, JobsGoOn
  <2>2. CASE r \notin done /\ "admit" \in Left(r)
    <3>1. todo'[r] # <<>> /\ "admit" \notin Left(r)'
      BY <1>5, <1>6, <1>10, <2>2
    <3>2. Proceed(r) /\ Next1(r) = "admit"
      BY <1>2, <1>7, <2>2, <3>1
    <3> QED  BY <1>8, <1>10, <3>1, <3>2
  <2> QED  BY <2>1, <2>2
<1>11. ASSUME route[r] = "adminResetPassword",
              r \in done' \/ (todo'[r] # <<>> /\ "mail" \notin Left(r)')
       PROVE  job'[Mail(r)] # "none"
  <2>1. CASE r \in done \/ "mail" \notin Left(r)
    BY <1>1, <1>3, <1>11, <2>1 DEF Trail, JobsGoOn
  <2>2. CASE r \notin done /\ "mail" \in Left(r)
    <3>1. todo'[r] # <<>> /\ "mail" \notin Left(r)'
      BY <1>5, <1>6, <1>11, <2>2
    <3>2. Proceed(r) /\ Next1(r) = "mail"
      BY <1>2, <1>7, <2>2, <3>1
    <3> QED  BY <1>9, <3>1, <3>2
  <2> QED  BY <2>1, <2>2
<1>12. job'[Mail(r)] \notin {"adding", "lost"}
  BY DEF Trail, JobsGoOn
<1> QED  BY <1>1, <1>10, <1>11, <1>12 DEF Trail, Entry, Mail

LEMMA TrailsKept ==
  ASSUME Whole, JobTypes, Trails, [RequestsNext]_allVars
  PROVE  Trails'
<1>1. JobsGoOn /\ Shapes
  BY JobsKept DEF Whole
<1> SUFFICES ASSUME NEW q \in Requests PROVE Trail(q)'
  BY DEF Trails
<1>2. Trail(q) /\ Entry(q) \in Jobs /\ Mail(q) \in Jobs
  BY JobsAreThere DEF Trails
<1>3. ASSUME /\ todo'[q] = todo[q] \/ todo'[q] = <<>>
             /\ q \in done' <=> q \in done
             /\ route'[q] = route[q]
      PROVE  Trail(q)'
  <2>1. todo'[q] = todo[q] => Left(q)' = Left(q)
    BY DEF Left
  <2> QED  BY <1>1, <1>2, <1>3, <2>1 DEF Trail, JobsGoOn, Entry, Mail
<1>4. ASSUME NEW r \in Requests, Arrive(r) PROVE Trail(q)'
  <2>1. PICK rt \in Routes : /\ route' = [route EXCEPT ![r] = rt]
                             /\ todo' = [todo EXCEPT ![r] = Program(rt)]
    BY <1>4, RequestConstants DEF Arrive
  <2>2. done' = done /\ route[r] = "none" /\ r \notin done
    BY <1>1, <1>4 DEF Arrive, Shapes
  <2>3. CASE q # r
    BY <1>1, <1>3, <2>1, <2>2, <2>3 DEF Shapes
  <2>4. CASE q = r
    <3>1. route'[q] = rt /\ todo'[q] = Program(rt) /\ q \notin done'
      BY <1>1, <2>1, <2>2, <2>4 DEF Shapes
    <3>2. Left(q)' = ToSet(Program(rt))
      BY <3>1 DEF Left
    <3>3. "admit" \in Left(q)' /\ (rt = "adminResetPassword" => "mail" \in Left(q)')
      BY <3>2, RestBegins DEF HasAll
    <3> QED  BY <1>1, <1>2, <3>1, <3>3 DEF Trail, JobsGoOn, Entry, Mail
  <2> QED  BY <2>3, <2>4
<1>5. ASSUME NEW r \in Requests, RequestStep(r) PROVE Trail(q)'
  <2>1. CASE q = r
    BY <1>1, <1>2, <1>5, <2>1, OwnTrail
  <2>2. CASE q # r
    BY <1>1, <1>3, <1>5, <2>2, StepEffects, OthersUntouched DEF Untouched
  <2> QED  BY <2>1, <2>2
<1>6. CASE Exit
  BY <1>3, <1>6 DEF Exit
<1>7. CASE UNCHANGED requestVars
  BY <1>3, <1>7 DEF requestVars
<1> QED  BY <1>4, <1>5, <1>6, <1>7 DEF RequestsNext, JobStep, allVars

-----------------------------------------------------------------------------
\* The theorems.
Inv == Whole /\ JobTypes /\ Trails

LEMMA InvInit == RequestsInit => Inv
<1> SUFFICES ASSUME RequestsInit PROVE Inv
  OBVIOUS
<1>1. Whole
  BY WholeInit
<1>2. JobTypes
  BY JobConstants DEF RequestsInit, JobsInit, JobTypes, JobState
<1>3. ASSUME NEW r \in Requests PROVE Trail(r)
  <2>1. route[r] = "none" /\ job[Mail(r)] = "none"
    BY JobsAreThere DEF RequestsInit, JobsInit
  <2>2. "none" \notin AdminRoutes
    BY DEF AdminRoutes, AdminReads, AdminChanges
  <2> QED  BY <2>1, <2>2 DEF Trail
<1> QED  BY <1>1, <1>2, <1>3 DEF Inv, Trails

LEMMA InvStep == Inv /\ [RequestsNext]_allVars => Inv'
<1> SUFFICES ASSUME Inv, [RequestsNext]_allVars PROVE Inv'
  OBVIOUS
<1>1. Whole /\ JobTypes /\ Trails
  BY DEF Inv
<1>2. Whole' /\ JobsGoOn /\ Trails'
  BY <1>1, WholeStep, JobsKept, TrailsKept
<1> QED  BY <1>2 DEF Inv, JobsGoOn

LEMMA InvAlways == RequestsSpec => []Inv
  BY InvInit, InvStep, PTL DEF RequestsSpec

\* Whatever throws, and whenever the process exits, what is left of a request is a suffix
\* of its route's steps, a connection is kept only up to a commit that is still to come,
\* a lock only with a connection, and no more connections are kept than the pool has.
THEOREM RequestsTypeCorrect == RequestsSpec => []RequestsTypeOK
<1>1. Inv => RequestsTypeOK
  <2> SUFFICES ASSUME Inv PROVE RequestsTypeOK
    OBVIOUS
  <2>1. Shapes /\ JobTypes /\ \A r \in Requests : InTransaction(r)
    BY DEF Inv, Whole
  <2>2. \A r \in Requests : todo[r] = <<>> \/ IsSuffix(todo[r], Program(route[r]))
    BY <2>1 DEF Shapes, Rest
  <2>3. \A r \in Requests : (r \in pool => "commit" \in ToSet(todo[r])) /\ (claim[r] # "none" => r \in pool)
    BY <2>1 DEF InTransaction, Left
  <2> QED  BY <2>1, <2>2, <2>3 DEF RequestsTypeOK, Shapes, JobTypes
<1> QED  BY <1>1, InvAlways, PTL

\* An answer is about the database as it is: ok after the commit or the save, a refusal
\* only when nothing has been changed (the controllers, errorHandler).
THEOREM AnswersMeanWhatTheySay == RequestsSpec => []OkMeansDone
<1>1. Inv => OkMeansDone
  BY DEF Inv, Whole, OkMeansDone, Progress
<1> QED  BY <1>1, InvAlways, PTL

\* What an administrator's rights have changed has an entry in the audit log, on its way
\* to it, or lost by an exit (auditMiddleware, RoleGuard).
THEOREM ChangesAreLogged == RequestsSpec => []Accountable
<1>1. Inv => Accountable
  BY DEF Inv, Whole, Shapes, Accountable, Trails, Trail
<1> QED  BY <1>1, InvAlways, PTL

\* A password that an administrator has reset is never saved without its mail
\* (adminResetPassword, resetPassword).
THEOREM ResetsAreMailed == RequestsSpec => []ResetIsMailed
<1>1. Inv => ResetIsMailed
  <2> SUFFICES ASSUME Inv, NEW r \in done, route[r] = "adminResetPassword"
               PROVE  job[Mail(r)] \notin {"none", "lost"}
    BY DEF ResetIsMailed
  <2>1. r \in Requests
    BY DEF Inv, Whole, Shapes
  <2> QED  BY <2>1 DEF Inv, Trails, Trail
<1> QED  BY <1>1, InvAlways, PTL

\* Of any number of requests that claim an address at most one gets it, and an account
\* that is committed has its owner and the wallets of its country (registerUser,
\* updateUser, the unique index of users.email).
THEOREM AccountsAreWhole == RequestsSpec => []AccountsWhole
<1>1. Inv => AccountsWhole
  <2> SUFFICES ASSUME Inv PROVE AccountsWhole
    OBVIOUS
  <2>1. /\ Shapes /\ Owners /\ done \subseteq Requests
        /\ \A r \in Requests : Registration(r)
    BY DEF Inv, Whole, Shapes
  <2>2. \A r, q \in done : Email(r) \in Emails /\ Email(r) = Email(q) => r = q
    BY <2>1 DEF Owners
  <2>3. ASSUME NEW r \in done, route[r] = "registerUser"
        PROVE  owner[Email(r)] = r /\ wallets[r] = DefaultWallets(subject[r][2])
    <3>1. subject[r] \in Emails \X Countries
      BY <2>1, <2>3 DEF Shapes, Subject
    <3>2. Email(r) \in Emails
      BY <3>1 DEF Email
    <3> QED  BY <2>1, <2>3, <3>2 DEF Owners, Registration
  <2> QED  BY <2>2, <2>3 DEF AccountsWhole
<1> QED  BY <1>1, InvAlways, PTL

\* Who keeps a connection is at a step of its transaction.
LEMMA PoolIsInside ==
  ASSUME Whole, NEW r \in pool
  PROVE  /\ r \in Requests /\ todo[r] # <<>>
         /\ Head(todo[r]) \in Inside \cup {"commit"}
         /\ Head(todo[r]) \in {"look", "reread"} => route[r] \in {"registerUser", "updateUser"}
<1>1. Shapes /\ r \in Requests /\ "commit" \in Left(r) /\ "begin" \notin Left(r)
  BY DEF Whole, Shapes, InTransaction
<1>2. todo[r] # <<>>
  BY <1>1, NothingLeft DEF Left
<1>3. PICK later : Left(r) = {Next1(r)} \cup later /\ Follows(route[r], Next1(r), later)
  BY <1>1, <1>2, AtHand
<1>4. Next1(r) \in Inside \cup {"commit"}
  BY <1>1, <1>3 DEF Follows
<1> QED  BY <1>1, <1>2, <1>3, <1>4 DEF Follows, Next1

\* Who waits for a row waits for a transaction that waits for no row.
LEMMA HoldersDoNotWait ==
  ASSUME Whole, NEW r \in Requests, At(r, "claim"), Held(r)
  PROVE  \E q \in pool : ~(At(q, "claim") /\ Held(q))
<1>1. Shapes /\ Locks /\ \A q \in Requests : InTransaction(q)
  BY DEF Whole
<1>2. PICK q \in Requests : claim[q] = Email(r)
  BY DEF Held
<1>3. claim[q] # "none"
  <2>1. todo[r] # <<>>
    BY DEF At
  <2>2. subject[r] \in Subject(route[r])
    BY <1>1, <2>1, AtHand
  <2>3. Email(r) \in Emails \cup {"user"}
    BY <2>2 DEF Subject, Email
  <2> QED  BY <1>2, <2>3, RequestConstants
<1>4. q \in pool /\ claim[q] = Email(q)
  BY <1>1, <1>3 DEF InTransaction
<1>5. ~Held(q)
  BY <1>1, <1>3, <1>4 DEF Held, Locks
<1> QED  BY <1>4, <1>5

\* However many requests and connections there are, only transactions that ask for a
\* second connection can make everybody wait (registerUser, updateUser, Transactional).
THEOREM OnlyThePoolBlocks == RequestsSpec => []PoolAloneBlocks
<1>1. Inv => PoolAloneBlocks
  <2> SUFFICES ASSUME Inv PROVE PoolAloneBlocks
    OBVIOUS
  <2> DEFINE Query == {"token", "find", "change", "again", "create", "begin", "look", "reread"}
  <2>1. Whole /\ Shapes /\ JobTypes
    BY DEF Inv, Whole
  <2>2. Free \in Nat /\ (Free = 0 => pool # {})
    <3>1. Cardinality(pool) \in Nat /\ Cardinality(pool) <= PoolSize /\ PoolSize \in Nat \ {0}
      BY <2>1, PoolIsFinite, RequestConstants DEF Shapes
    <3>2. pool = {} => Cardinality(pool) = 0
      BY FS_EmptySet
    <3> QED  BY <3>1, <3>2 DEF Free
  <2>3. ASSUME Stuck PROVE \E r \in pool : route[r] \in {"registerUser", "updateUser"}
    <3>1. PICK r \in pool : Waits(r)
      BY <2>2, <2>3 DEF Stuck
    <3>2. \E q \in pool : Waits(q) /\ ~(At(q, "claim") /\ Held(q))
      BY <2>1, <2>3, <3>1, HoldersDoNotWait, PoolIsInside DEF Stuck
    <3>3. PICK q \in pool : At(q, "look") \/ At(q, "reread")
      BY <3>2 DEF Waits
    <3> QED  BY <2>1, <3>3, PoolIsInside DEF At
  <2>4. ASSUME ~Stuck, Free = 0 PROVE \E r \in Requests : MayGo(r)
    <3>1. PICK r \in pool : ~Waits(r)
      BY <2>4 DEF Stuck
    <3>2. r \in Requests /\ todo[r] # <<>> /\ Head(todo[r]) \in Inside \cup {"commit"}
      BY <2>1, PoolIsInside
    <3>3. Head(todo[r]) \notin Query
      BY <3>1, <3>2 DEF Waits, At, Inside
    <3> QED  BY <3>1, <3>2, <3>3 DEF MayGo, Waits
  <2>5. ASSUME Free > 0, ~Quiet
        PROVE  (\E r \in Requests : MayGo(r)) \/ (\E j \in Jobs : MayRun(j))
    <3>1. ASSUME NEW j \in Jobs, job[j] \in {"adding", "waiting"} PROVE MayRun(j)
      BY <2>5, <3>1 DEF MayRun
    <3>2. ASSUME NEW r \in Requests, todo[r] # <<>>, ~(At(r, "claim") /\ Held(r)) PROVE MayGo(r)
      BY <2>5, <3>2 DEF MayGo
    <3>3. ASSUME NEW r \in Requests, At(r, "claim"), Held(r) PROVE \E q \in Requests : MayGo(q)
      <4>1. PICK q \in pool : ~(At(q, "claim") /\ Held(q))
        BY <2>1, <3>3, HoldersDoNotWait
      <4>2. q \in Requests /\ todo[q] # <<>>
        BY <2>1, PoolIsInside
      <4> QED  BY <3>2, <4>1, <4>2
    <3> QED  BY <2>5, <3>1, <3>2, <3>3 DEF Quiet
  <2>6. Free = 0 \/ Free > 0
    BY <2>2
  <2> QED  BY <2>3, <2>4, <2>5, <2>6 DEF PoolAloneBlocks
<1> QED  BY <1>1, InvAlways, PTL

\* The audit log shows no secret: what an entry carries has been through sanitizeAudit
\* (auditMiddleware), and that lets none through.
THEOREM NoSecretIsLogged == RequestsSpec => []NoSecretLogged
<1>1. NoSecretLogged
  BY SanitizedWhole DEF NoSecretLogged
<1> QED  BY <1>1, PTL
=============================================================================
