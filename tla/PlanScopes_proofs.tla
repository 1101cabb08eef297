--------------------------- MODULE PlanScopes_proofs ---------------------------
(***************************************************************************)
(* What the two provers of PlanScopes say of patterns of any length and of  *)
(* any path.  prove_included is sound.  prove_disjoint is sound for         *)
(* patterns that have "**" at their end only; of others it may say that     *)
(* they are apart when they are not, as TLC shows in MCPlanScopes.          *)
(***************************************************************************)
EXTENDS PlanScopes, SequenceTheorems, OrderFacts, TLAPS

Strings == Seq(STRING)

\* A pattern that matches any number of segments at its end only.
Rooted(pattern) == \A i \in DOMAIN pattern : pattern[i] = "**" => i = Len(pattern)

-----------------------------------------------------------------------------
(* The recursion of the matcher *)

Row(pattern, path, i, S) ==
    IF i > Len(pattern) THEN {Len(path) + 1}
    ELSE IF pattern[i] = "**"
         THEN {j \in 1 .. Len(path) + 1 : \E k \in S : j <= k}
         ELSE {j \in 1 .. Len(path) : SegmentMatches(pattern[i], path[j]) /\ j + 1 \in S}

Rows(pattern, path, m) ==
    m = [i \in 1 .. Len(pattern) + 1 |-> Row(pattern, path, i, m[i + 1])]

LEMMA RowsExist ==
    ASSUME NEW p \in Strings, NEW q \in Strings
    PROVE  \E m : Rows(p, q, m)
<1> DEFINE D == 1 .. Len(p) + 1
           Upto(n, g) == \A i \in D : Len(p) + 1 - i <= n => g[i] = Row(p, q, i, g[i + 1])
           Good == {n \in 0 .. Len(p) : \E g : g = [i \in D |-> g[i]] /\ Upto(n, g)}
<1>1. Len(p) \in Nat
  BY DEF Strings
<1>2. 0 \in Good
  <2> DEFINE g == [i \in D |-> {Len(q) + 1}]
  <2>1. g = [i \in D |-> g[i]]
    OBVIOUS
  <2>2. Upto(0, g)
    <3> SUFFICES ASSUME NEW i \in D, Len(p) + 1 - i <= 0
                 PROVE  g[i] = Row(p, q, i, g[i + 1])
      OBVIOUS
    <3>1. i > Len(p)
      BY <1>1
    <3> QED
      BY <3>1 DEF Row
  <2>3. 0 \in 0 .. Len(p)
    BY <1>1
  <2> HIDE DEF g, Upto, D
  <2> QED
    BY <2>1, <2>2, <2>3
<1>3. ASSUME NEW n \in 0 .. Len(p) - 1, n \in Good PROVE n + 1 \in Good
  <2>1. PICK g : g = [i \in D |-> g[i]] /\ Upto(n, g)
    BY <1>3
  <2> DEFINE h == [i \in D |-> Row(p, q, i, g[i + 1])]
  <2>2. h = [i \in D |-> h[i]]
    OBVIOUS
  <2>3. Upto(n + 1, h)
    <3> SUFFICES ASSUME NEW i \in D, Len(p) + 1 - i <= n + 1
                 PROVE  h[i] = Row(p, q, i, h[i + 1])
      OBVIOUS
    <3>1. CASE i > Len(p)
      BY <3>1 DEF Row
    <3>2. CASE i <= Len(p)
      <4>1. i + 1 \in D /\ Len(p) + 1 - (i + 1) <= n
        BY <1>1, <3>2
      <4>2. h[i + 1] = g[i + 1]
        BY <2>1, <4>1
      <4> QED
        BY <4>2
    <3> QED
      BY <1>1, <3>1, <3>2
  <2>4. n + 1 \in 0 .. Len(p)
    BY <1>1
  <2> HIDE DEF h, D, Upto
  <2> QED
    BY <2>2, <2>3, <2>4
<1>4. \A n \in 0 .. Len(p) : n \in Good
  <2> HIDE DEF Good
  <2> QED
    BY <1>1, <1>2, <1>3, UpTo
<1>5. Len(p) \in Good
  BY <1>1, <1>4
<1>6. PICK g : g = [i \in D |-> g[i]] /\ Upto(Len(p), g)
  BY <1>5
<1>7. \A i \in D : g[i] = Row(p, q, i, g[i + 1])
  <2> SUFFICES ASSUME NEW i \in D PROVE g[i] = Row(p, q, i, g[i + 1])
    OBVIOUS
  <2>1. Len(p) + 1 - i <= Len(p)
    BY <1>1
  <2> QED
    BY <1>6, <2>1
<1>8. g = [i \in D |-> Row(p, q, i, g[i + 1])]
  BY <1>6, <1>7
<1> QED
  BY <1>8 DEF Rows

LEMMA MatchesRows ==
    ASSUME NEW p \in Strings, NEW q \in Strings
    PROVE  \E m : Rows(p, q, m) /\ (Matches(p, q) <=> 1 \in m[1])
<1>1. \E m : m = [i \in 1 .. Len(p) + 1 |->
            IF i > Len(p) THEN {Len(q) + 1}
            ELSE IF p[i] = "**"
                 THEN {j \in 1 .. Len(q) + 1 : \E k \in m[i + 1] : j <= k}
                 ELSE {j \in 1 .. Len(q) :
                          SegmentMatches(p[i], q[j]) /\ j + 1 \in m[i + 1]}]
  BY RowsExist, Zenon DEF Rows, Row
<1> QED
  BY <1>1, Zenon DEF Matches, Rows, Row

\* The recursive equation, position by position.
LEMMA RowEquation ==
    ASSUME NEW p \in Strings, NEW q \in Strings, NEW m, Rows(p, q, m),
           NEW i \in 1 .. Len(p) + 1
    PROVE  /\ m[i] = Row(p, q, i, m[i + 1])
           /\ m[i] \subseteq 1 .. Len(q) + 1
<1>1. m[i] = Row(p, q, i, m[i + 1])
  BY DEF Rows
<1>2. Len(q) \in Nat
  BY DEF Strings
<1> QED
  BY <1>1, <1>2 DEF Row

-----------------------------------------------------------------------------
(* What a match says of the path *)

\* As far as a pattern has no "**", it matches segment by segment; a pattern
\* without any matches no longer path.
LEMMA Prefix ==
    ASSUME NEW p \in Strings, NEW q \in Strings, Matches(p, q),
           NEW n \in 0 .. Len(p), \A k \in 1 .. n : p[k] # "**"
    PROVE  /\ n <= Len(q) /\ \A k \in 1 .. n : SegmentMatches(p[k], q[k])
           /\ n = Len(p) => Len(q) = n
<1>1. PICK m : Rows(p, q, m) /\ 1 \in m[1]
  BY MatchesRows
<1>2. Len(p) \in Nat /\ Len(q) \in Nat
  BY DEF Strings
<1> DEFINE S == {k \in 0 .. n : k + 1 \in m[k + 1]}
<1>3. ASSUME NEW k \in 1 .. n, k \in m[k]
      PROVE  k <= Len(q) /\ SegmentMatches(p[k], q[k]) /\ k + 1 \in m[k + 1]
  <2>1. k \in 1 .. Len(p) + 1 /\ ~(k > Len(p)) /\ p[k] # "**"
    BY <1>2
  <2>2. m[k] = Row(p, q, k, m[k + 1])
    BY <1>1, <2>1, RowEquation
  <2> QED
    BY <1>3, <2>1, <2>2 DEF Row
<1>4. \A k \in 0 .. n : k \in S
  <2>1. 0 \in S
    BY <1>1, <1>2
  <2>2. ASSUME NEW k \in 0 .. n - 1, k \in S PROVE k + 1 \in S
    <3>1. k + 1 \in 1 .. n /\ k + 1 \in m[k + 1]
      BY <1>2, <2>2
    <3> QED
      BY <1>3, <3>1
  <2>3. n \in Nat
    BY <1>2
  <2> HIDE DEF S
  <2> QED
    BY <2>1, <2>2, <2>3, UpTo
<1>5. \A k \in 1 .. n : k <= Len(q) /\ SegmentMatches(p[k], q[k])
  <2> SUFFICES ASSUME NEW k \in 1 .. n
               PROVE  k <= Len(q) /\ SegmentMatches(p[k], q[k])
    OBVIOUS
  <2>1. k - 1 \in 0 .. n /\ (k - 1) + 1 = k
    BY <1>2
  <2>2. k \in m[k]
    BY <1>4, <2>1
  <2> QED
    BY <1>3, <2>2
<1>6. n <= Len(q)
  BY <1>2, <1>5
<1>7. ASSUME n = Len(p) PROVE Len(q) = n
  <2>1. n \in 0 .. n /\ n + 1 \in 1 .. Len(p) + 1 /\ n + 1 > Len(p)
    BY <1>2, <1>7
  <2>2. n + 1 \in m[n + 1]
    BY <1>4, <2>1
  <2>3. m[n + 1] = {Len(q) + 1}
    BY <1>1, <2>1, RowEquation DEF Row
  <2> QED
    BY <1>2, <2>2, <2>3
<1> QED
  BY <1>5, <1>6, <1>7

\* A pattern without a star matches itself and nothing else.
LEMMA LiteralMatches ==
    ASSUME NEW p \in Strings, NEW q \in Strings, IsLiteral(p), Matches(p, q)
    PROVE  q = p
<1>1. Len(p) \in Nat /\ DOMAIN p = 1 .. Len(p)
  BY DEF Strings
<1>2. \A k \in 1 .. Len(p) : p[k] # "**" /\ p[k] # "*"
  BY <1>1 DEF IsLiteral, Wild
<1>3. Len(q) = Len(p) /\ \A k \in 1 .. Len(p) : SegmentMatches(p[k], q[k])
  BY <1>1, <1>2, Prefix
<1>4. \A k \in 1 .. Len(p) : p[k] = q[k]
  BY <1>2, <1>3 DEF SegmentMatches
<1> QED
  BY <1>3, <1>4 DEF Strings

LEMMA StarMatches ==
    ASSUME NEW p \in Strings, Len(p) = 1, p[1] = "**", NEW q \in Strings
    PROVE  Matches(p, q)
<1>1. Len(p) = 1 /\ p[1] = "**" /\ 1 \in 1 .. Len(p) + 1 /\ 2 \in 1 .. Len(p) + 1
  OBVIOUS
<1>2. PICK m : Rows(p, q, m) /\ (Matches(p, q) <=> 1 \in m[1])
  BY <1>1, MatchesRows
<1>3. Len(q) \in Nat
  BY DEF Strings
<1>4. m[2] = {Len(q) + 1}
  <2>1. m[2] = Row(p, q, 2, m[2 + 1])
    BY <1>1, <1>2, RowEquation
  <2> QED
    BY <1>1, <2>1 DEF Row
<1>5. m[1] = {j \in 1 .. Len(q) + 1 : \E k \in m[2] : j <= k}
  <2>1. m[1] = Row(p, q, 1, m[1 + 1])
    BY <1>1, <1>2, RowEquation
  <2> QED
    BY <1>1, <2>1 DEF Row
<1>6. 1 \in m[1]
  BY <1>3, <1>4, <1>5
<1> QED
  BY <1>2, <1>6

\* A pattern that ends in "**" matches what a pattern with the same beginning
\* matches, wherever else the two have a "**".
LEMMA SameBeginning ==
    ASSUME NEW p \in Strings, NEW r \in Strings, NEW q \in Strings, Matches(p, q),
           NEW n \in Nat, Len(r) = n + 1, r[n + 1] = "**", n <= Len(p),
           \A i \in 1 .. n : p[i] = r[i]
    PROVE  Matches(r, q)
<1>1. PICK m : Rows(p, q, m) /\ 1 \in m[1]
  BY MatchesRows
<1>2. PICK w : Rows(r, q, w) /\ (Matches(r, q) <=> 1 \in w[1])
  BY MatchesRows
<1>3. Len(p) \in Nat /\ Len(q) \in Nat
  BY DEF Strings
<1>4. m[n + 1] \subseteq 1 .. Len(q) + 1
  <2>1. n + 1 \in 1 .. Len(p) + 1
    BY <1>3
  <2> QED
    BY <1>1, <2>1, RowEquation
<1>5. w[n + 1] = 1 .. Len(q) + 1
  <2>1. n + 1 \in 1 .. Len(r) + 1 /\ n + 2 \in 1 .. Len(r) + 1
        /\ n + 2 > Len(r) /\ ~(n + 1 > Len(r)) /\ (n + 1) + 1 = n + 2
    OBVIOUS
  <2>2. w[n + 2] = {Len(q) + 1}
    <3>1. w[n + 2] = Row(r, q, n + 2, w[(n + 2) + 1])
      BY <1>2, <2>1, RowEquation
    <3> QED
      BY <2>1, <3>1 DEF Row
  <2>3. w[n + 1] = Row(r, q, n + 1, w[n + 2])
    BY <1>2, <2>1, RowEquation
  <2>4. w[n + 1] = {j \in 1 .. Len(q) + 1 : \E k \in w[n + 2] : j <= k}
    BY <2>1, <2>3 DEF Row
  <2>5. \A j \in 1 .. Len(q) + 1 : \E k \in w[n + 2] : j <= k
    BY <1>3, <2>2
  <2> QED
    BY <2>4, <2>5
<1> DEFINE S == {d \in 0 .. n : m[n + 1 - d] \subseteq w[n + 1 - d]}
<1>6. \A d \in 0 .. n : d \in S
  <2>1. 0 \in S
    BY <1>4, <1>5
  <2>2. ASSUME NEW d \in 0 .. n - 1, d \in S PROVE d + 1 \in S
    <3> DEFINE i == n + 1 - (d + 1)
    <3>1. /\ i \in 1 .. n /\ i \in 1 .. Len(p) + 1 /\ i \in 1 .. Len(r) + 1
          /\ ~(i > Len(p)) /\ ~(i > Len(r)) /\ i + 1 = n + 1 - d /\ p[i] = r[i]
      <4>1. i \in 1 .. n /\ i + 1 = n + 1 - d
        OBVIOUS
      <4> HIDE DEF i
      <4>2. /\ i \in 1 .. Len(p) + 1 /\ i \in 1 .. Len(r) + 1
            /\ ~(i > Len(p)) /\ ~(i > Len(r))
        BY <1>3, <4>1
      <4> QED
        BY <4>1, <4>2
    <3>2. m[i + 1] \subseteq w[i + 1]
      BY <2>2, <3>1
    <3> HIDE DEF i
    <3>3. m[i] = Row(p, q, i, m[i + 1]) /\ w[i] = Row(r, q, i, w[i + 1])
      <4>1. m[i] = Row(p, q, i, m[i + 1])
        <5>1. Rows(p, q, m) /\ i \in 1 .. Len(p) + 1
          BY <1>1, <3>1
        <5> QED
          BY <5>1, RowEquation
      <4>2. w[i] = Row(r, q, i, w[i + 1])
        <5>1. Rows(r, q, w) /\ i \in 1 .. Len(r) + 1
          BY <1>2, <3>1
        <5> QED
          BY <5>1, RowEquation
      <4> QED
        BY <4>1, <4>2
    <3>4. m[i] \subseteq w[i]
      BY <3>1, <3>2, <3>3 DEF Row
    <3> USE DEF i
    <3> QED
      BY <3>4
  <2> HIDE DEF S
  <2> QED
    BY <2>1, <2>2, UpTo
<1>7. n \in S /\ n + 1 - n = 1
  BY <1>6
<1> QED
  BY <1>1, <1>2, <1>7

-----------------------------------------------------------------------------
(* The provers *)

\* What prove_included accepts is included: a path that the first pattern allows
\* is allowed by the second.
THEOREM IncludedIsSound ==
    ASSUME NEW p \in Strings \ {<<>>}, NEW r \in Strings \ {<<>>}, Included(p, r),
           NEW q \in Strings, Matches(p, q)
    PROVE  Matches(r, q)
<1>1. CASE p = r
  BY <1>1
<1>2. CASE r = <<"**">>
  <2>1. Len(r) = 1 /\ r[1] = "**"
    BY <1>2
  <2> QED
    BY <2>1, StarMatches
<1>3. CASE IsLiteral(p) /\ Matches(r, p)
  BY <1>3, LiteralMatches
<1>4. CASE /\ r[Len(r)] = "**" /\ Len(p) >= Len(r) - 1
           /\ SubSeq(p, 1, Len(r) - 1) = SubSeq(r, 1, Len(r) - 1)
  <2> DEFINE n == Len(r) - 1
  <2>1. Len(p) \in Nat /\ n \in Nat /\ Len(r) = n + 1 /\ n <= Len(p) /\ r[n + 1] = "**"
    BY <1>4 DEF Strings
  <2>2. ASSUME NEW i \in 1 .. n PROVE p[i] = r[i]
    <3>1. SubSeq(p, 1, n)[i] = p[i] /\ SubSeq(r, 1, n)[i] = r[i]
      BY <2>1 DEF Strings
    <3> QED
      BY <1>4, <3>1
  <2> HIDE DEF n
  <2> QED
    BY <2>1, <2>2, SameBeginning
<1> QED
  BY <1>1, <1>2, <1>3, <1>4 DEF Included

\* Patterns that prove_disjoint takes to be apart have no path in common, as far
\* as they have "**" at their end only: behind it, the segments of the two are
\* not those that match the same segment of a path.
THEOREM DisjointIsSoundForRooted ==
    ASSUME NEW p \in Strings, NEW r \in Strings, Rooted(p), Rooted(r), Disjoint(p, r),
           NEW q \in Strings, Matches(p, q), Matches(r, q)
    PROVE  FALSE
<1>1. CASE IsLiteral(p) /\ IsLiteral(r)
  <2>1. p # r
    BY <1>1 DEF Disjoint
  <2> QED
    BY <1>1, <2>1, LiteralMatches
<1>2. CASE IsLiteral(p) /\ ~Matches(r, p)
  BY <1>2, LiteralMatches
<1>3. CASE IsLiteral(r) /\ ~Matches(p, r)
  BY <1>3, LiteralMatches
<1>4. ASSUME NEW i \in (DOMAIN p) \cap (DOMAIN r),
             {p[i], r[i]} \cap Wild = {}, p[i] # r[i]
      PROVE  FALSE
  <2>1. /\ i \in 0 .. Len(p) /\ i \in 0 .. Len(r) /\ i \in 1 .. i
        /\ \A k \in 1 .. i : k \in DOMAIN p /\ k \in DOMAIN r
        /\ Len(p) \in Nat /\ Len(r) \in Nat
    BY DEF Strings
  <2>2. p[i] \notin {"*", "**"} /\ r[i] \notin {"*", "**"}
    BY <1>4 DEF Wild
  <2>3. \A k \in 1 .. i : p[k] # "**" /\ r[k] # "**"
    BY <2>1, <2>2 DEF Rooted
  <2>4. SegmentMatches(p[i], q[i]) /\ SegmentMatches(r[i], q[i])
    BY <2>1, <2>3, Prefix
  <2> QED
    BY <1>4, <2>2, <2>4 DEF SegmentMatches
<1> QED
  BY <1>1, <1>2, <1>3, <1>4 DEF Disjoint
====
