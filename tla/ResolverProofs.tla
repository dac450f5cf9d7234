--------------------------- MODULE ResolverProofs ---------------------------
(***************************************************************************)
(* Theorems about Resolver, for any endpoints, latencies, options, caches  *)
(* and feeds, and for any MaxCandidates and MaxResults.                    *)
(*                                                                         *)
(* Three groups of lemmas say what the pure parts compute: the sort of     *)
(* sortEndpoints, the selection of trimAndSort, the two sanitisers. The    *)
(* selection is the heart: trimming after the first batch loses nothing,   *)
(* since who is not among the best of that batch is not among the best of  *)
(* both. The invariant then follows which endpoints were tried, which of   *)
(* those that passed the selection already stands for, and why a verdict   *)
(* may be missing.                                                         *)
(***************************************************************************)
EXTENDS Resolver, FiniteSetTheorems, WellFoundedInduction, TLAPS

Measured == [Endpoint -> Nat]

(* sortEndpoints compares with a strict total order: no two endpoints tie. *)
LEMMA FasterOrder ==
    ASSUME NEW m \in Measured, NEW a \in Endpoint, NEW b \in Endpoint,
           NEW c \in Endpoint
    PROVE  /\ ~Faster(m, a, a)
           /\ Faster(m, a, b) /\ Faster(m, b, c) => Faster(m, a, c)
           /\ a # b => Faster(m, a, b) \/ Faster(m, b, a)
           /\ Faster(m, a, b) => ~Faster(m, b, a)
<1>1. /\ a \in Nat /\ b \in Nat /\ c \in Nat
      /\ m[a] \in Nat /\ m[b] \in Nat /\ m[c] \in Nat
  BY EndpointAssumption DEF Measured
<1> QED
  BY <1>1 DEF Faster

-----------------------------------------------------------------------------
(* The sort. *)
Distinct(s) == \A i, k \in DOMAIN s : s[i] = s[k] => i = k

Rank(s, m, i) == Cardinality(Ahead(s, m, i))

(* The rank of an endpoint grows with its latency, and no two endpoints    *)
(* share one, when none stands in the list twice (find.go:587-597).        *)
LEMMA RankGrows ==
    ASSUME NEW s \in Seq(Endpoint), Distinct(s), NEW m \in Measured,
           NEW i \in DOMAIN s, NEW k \in DOMAIN s
    PROVE  /\ Rank(s, m, i) \in 0..(Len(s) - 1)
           /\ Faster(m, s[i], s[k]) => Rank(s, m, i) < Rank(s, m, k)
           /\ Rank(s, m, i) = Rank(s, m, k) => i = k
<1> DEFINE D == DOMAIN s
           A(j) == Ahead(s, m, j)
<1>1. /\ D = 1..Len(s) /\ Len(s) \in Nat
      /\ IsFiniteSet(D) /\ Cardinality(D) = Len(s)
  BY FS_Interval
<1>2. \A j \in D : s[j] \in Endpoint
  OBVIOUS
<1>3. \A j \in D : A(j) \in SUBSET (D \ {j})
  BY <1>1, <1>2, FasterOrder DEF Ahead
<1>4. \A j \in D : IsFiniteSet(A(j)) /\ Rank(s, m, j) \in 0..(Len(s) - 1)
  <2> TAKE j \in D
  <2>1. IsFiniteSet(D \ {j}) /\ Cardinality(D \ {j}) = Len(s) - 1
    BY <1>1, FS_RemoveElement
  <2>2. IsFiniteSet(A(j)) /\ Cardinality(A(j)) <= Len(s) - 1
    BY <1>3, <2>1, FS_Subset
  <2> QED
    BY <1>1, <2>2, FS_CardinalityType DEF Rank
<1>5. ASSUME NEW a \in D, NEW b \in D, Faster(m, s[a], s[b])
      PROVE  Rank(s, m, a) < Rank(s, m, b)
  <2>1. A(a) \in SUBSET A(b) /\ a \in A(b) /\ a \notin A(a)
    <3>1. \A j \in D : Faster(m, s[j], s[a]) => Faster(m, s[j], s[b])
      BY <1>2, <1>5, FasterOrder
    <3>2. \A j \in D : s[j] = s[a] => Faster(m, s[j], s[b])
      BY <1>5
    <3> QED
      BY <1>3, <1>5, <3>1, <3>2 DEF Ahead
  <2>2. /\ Cardinality(A(a)) <= Cardinality(A(b))
        /\ Cardinality(A(b)) = Cardinality(A(a)) => A(b) = A(a)
    BY <1>4, <2>1, FS_Subset
  <2>3. Rank(s, m, a) # Rank(s, m, b)
    BY <2>1, <2>2 DEF Rank
  <2> QED
    BY <1>4, <2>2, <2>3 DEF Rank
<1>6. Rank(s, m, i) = Rank(s, m, k) => i = k
  <2>1. s[i] # s[k] => Faster(m, s[i], s[k]) \/ Faster(m, s[k], s[i])
    BY <1>2, FasterOrder
  <2>2. Rank(s, m, i) \in Int /\ Rank(s, m, k) \in Int
    BY <1>4
  <2> QED
    BY <1>5, <2>1, <2>2 DEF Distinct
<1> QED
  BY <1>4, <1>5, <1>6

(* sortEndpoints rearranges the list, loses nothing and leaves it strictly *)
(* increasing (find.go:587-597).                                           *)
LEMMA SortedSorts ==
    ASSUME NEW s \in Seq(Endpoint), Distinct(s), NEW m \in Measured
    PROVE  LET t == Sorted(s, m)
           IN  /\ t \in Seq(Endpoint) /\ Len(t) = Len(s)
               /\ Range(t) = Range(s)
               /\ \A i, k \in DOMAIN t : i < k => Faster(m, t[i], t[k])
<1> DEFINE n == Len(s)
           t == Sorted(s, m)
           R(i) == Rank(s, m, i)
           from(p) == CHOOSE i \in DOMAIN s :
                          Cardinality(Ahead(s, m, i)) = p - 1
           up == [i \in 1..n |-> R(i) + 1]
<1>1. n \in Nat /\ DOMAIN s = 1..n /\ \A i \in 1..n : s[i] \in Endpoint
  OBVIOUS
<1>2. \A i, k \in 1..n :
          /\ R(i) \in 0..(n - 1)
          /\ Faster(m, s[i], s[k]) => R(i) < R(k)
          /\ R(i) = R(k) => i = k
  BY <1>1, RankGrows
<1>3. up \in Injection(1..n, 1..n)
  <2>1. up \in [1..n -> 1..n]
    BY <1>1, <1>2
  <2>2. \A i, k \in 1..n : up[i] = up[k] => i = k
    <3> HIDE DEF R
    <3> QED BY <1>1, <1>2
  <2> QED
    BY <2>1, <2>2 DEF Injection, IsInjective
<1>4. \A p \in 1..n : \E i \in 1..n : R(i) = p - 1
  <2>1. IsFiniteSet(1..n)
    BY <1>1, FS_Interval
  <2>2. up \in Surjection(1..n, 1..n)
    BY <1>3, <2>1, FS_Injection
  <2>3. \A p \in 1..n : \E i \in 1..n : up[i] = p
    BY <2>2 DEF Surjection
  <2> TAKE p \in 1..n
  <2>4. PICK i \in 1..n : up[i] = p
    BY <2>3
  <2>5. R(i) \in Int /\ R(i) + 1 = p
    BY <1>2, <2>4
  <2> HIDE DEF R
  <2> QED
    BY <2>5
<1>5. \A p \in 1..n : from(p) \in 1..n /\ R(from(p)) = p - 1
  BY <1>1, <1>4 DEF Rank
<1>6. t = [p \in 1..n |-> s[from(p)]]
  BY <1>1 DEF Sorted
<1> HIDE DEF from, t, R
<1>7. t \in [1..n -> Endpoint]
  BY <1>1, <1>5, <1>6
<1>8. t \in Seq(Endpoint) /\ Len(t) = n /\ DOMAIN t = 1..n
  BY <1>1, <1>7
<1>9. Range(t) = Range(s)
  <2>1. \A p \in 1..n : t[p] \in Range(s)
    BY <1>1, <1>5, <1>6 DEF Range
  <2>2. ASSUME NEW i \in 1..n PROVE s[i] \in Range(t)
    <3>1. R(i) + 1 \in 1..n
      BY <1>1, <1>2
    <3>2. R(from(R(i) + 1)) = R(i)
      BY <1>2, <1>5, <3>1
    <3>3. from(R(i) + 1) = i
      BY <1>2, <1>5, <3>1, <3>2
    <3> QED
      BY <1>6, <1>8, <3>1, <3>3 DEF Range
  <2> QED
    BY <1>1, <1>8, <2>1, <2>2 DEF Range
<1>10. ASSUME NEW i \in 1..n, NEW k \in 1..n, i < k
       PROVE  Faster(m, t[i], t[k])
  <2>1. R(from(i)) < R(from(k))
    BY <1>1, <1>5, <1>10
  <2>2. from(i) \in 1..n /\ from(k) \in 1..n
    BY <1>5
  <2>3. ~Faster(m, s[from(k)], s[from(i)]) /\ s[from(k)] # s[from(i)]
    <3>1. R(from(i)) \in Nat /\ R(from(k)) \in Nat
      BY <1>1, <1>2, <2>2
    <3> QED
      BY <1>1, <1>2, <2>1, <2>2, <3>1 DEF Distinct
  <2> QED
    BY <1>1, <1>6, <2>2, <2>3, FasterOrder
<1> QED
  BY <1>8, <1>9, <1>10 DEF t

-----------------------------------------------------------------------------
(* The selection. *)

(* chosen is what Resolve should return of pool: the fastest, in order.    *)
Best(chosen, pool, m, limit) ==
    /\ Len(chosen) = Lesser(limit, Cardinality(pool))
    /\ Range(chosen) \subseteq pool
    /\ \A i, k \in DOMAIN chosen : i < k => Faster(m, chosen[i], chosen[k])
    /\ \A i \in DOMAIN chosen, e \in pool \ Range(chosen) :
           Faster(m, chosen[i], e)

(* A list without copies has as many members as positions. *)
LEMMA DistinctRange ==
    ASSUME NEW s, NEW n \in Nat, DOMAIN s = 1..n, Distinct(s)
    PROVE  IsFiniteSet(Range(s)) /\ Cardinality(Range(s)) = n
<1>1. IsFiniteSet(1..n) /\ Cardinality(1..n) = n
  BY FS_Interval
<1>2. [i \in 1..n |-> s[i]] \in Bijection(1..n, Range(s))
  BY DEF Distinct, Range, Bijection, Injection, Surjection, IsInjective
<1> QED
  BY <1>1, <1>2, FS_Bijection DEF ExistsBijection

(* A list has finitely many members. *)
LEMMA RangeIsFinite ==
    ASSUME NEW s, NEW n \in Nat, DOMAIN s = 1..n
    PROVE  IsFiniteSet(Range(s))
<1>1. IsFiniteSet(1..n)
  BY FS_Interval
<1>2. [i \in 1..n |-> s[i]] \in Surjection(1..n, Range(s))
  BY DEF Range, Surjection
<1> QED
  BY <1>1, <1>2, FS_Surjection

(* What verifyMany returns lists those that passed, each once              *)
(* (find.go:250-269).                                                      *)
LEMMA SetToSeqLists ==
    ASSUME NEW S \in SUBSET Endpoint, IsFiniteSet(S)
    PROVE  LET s == SetToSeq(S)
           IN  /\ s \in Seq(Endpoint) /\ Len(s) = Cardinality(S)
               /\ Distinct(s) /\ Range(s) = S
<1> DEFINE n == Cardinality(S)
           s == SetToSeq(S)
<1>1. n \in Nat /\ \E f : f \in Bijection(1..n, S)
  BY FS_CardinalityType DEF ExistsBijection
<1>2. \E f \in [1..n -> S] : IsInjective(f)
  BY <1>1 DEF Bijection, Injection
<1>3. s \in [1..n -> S] /\ IsInjective(s)
  BY <1>2 DEF SetToSeq
<1> HIDE DEF s
<1>4. s \in Seq(Endpoint) /\ Len(s) = n /\ DOMAIN s = 1..n
  BY <1>1, <1>3
<1>5. Distinct(s)
  BY <1>3 DEF Distinct, IsInjective
<1>6. Range(s) = S
  <2>1. Cardinality(Range(s)) = n
    BY <1>1, <1>4, <1>5, DistinctRange
  <2>2. Range(s) \in SUBSET S
    BY <1>3 DEF Range
  <2> QED
    BY <2>1, <2>2, FS_Subset
<1> QED
  BY <1>4, <1>5, <1>6 DEF s

(* What is in strictly increasing order has no copies. *)
LEMMA OrderedIsDistinct ==
    ASSUME NEW s \in Seq(Endpoint), NEW m \in Measured,
           \A i, k \in DOMAIN s : i < k => Faster(m, s[i], s[k])
    PROVE  Distinct(s)
<1>1. \A i, k \in DOMAIN s : i < k => s[i] # s[k]
  BY FasterOrder
<1>2. \A i, k \in DOMAIN s : i \in Int /\ k \in Int
  OBVIOUS
<1> QED
  BY <1>1, <1>2 DEF Distinct

(* The best of a pool, joined with the survivors of another batch, sorted  *)
(* and trimmed, are the best of both: an endpoint dropped before has limit *)
(* faster ones ahead of it, so it cannot come back (find.go:164-167).      *)
LEMMA TrimAndSortIsBest ==
    ASSUME NEW m \in Measured, NEW limit \in Nat \ {0},
           NEW A \in SUBSET Endpoint, IsFiniteSet(A),
           NEW B \in SUBSET Endpoint, IsFiniteSet(B), A \intersect B = {},
           NEW chosen \in Seq(Endpoint), Best(chosen, A, m, limit)
    PROVE  LET u == TrimAndSort(chosen \o SetToSeq(B), m, limit)
           IN  u \in Seq(Endpoint) /\ Best(u, A \union B, m, limit)
<1> DEFINE b == SetToSeq(B)
           s == chosen \o b
           t == Sorted(s, m)
           cut == Lesser(limit, Len(s))
           u == SubSeq(t, 1, cut)
           C == Range(chosen)
<1>1. /\ b \in Seq(Endpoint) /\ Len(b) = Cardinality(B)
      /\ Distinct(b) /\ Range(b) = B
  BY SetToSeqLists
<1>2. Cardinality(A) \in Nat /\ Cardinality(B) \in Nat
  BY FS_CardinalityType
<1>3. /\ Len(chosen) = Lesser(limit, Cardinality(A))
      /\ C \in SUBSET A
      /\ \A i, k \in DOMAIN chosen : i < k => Faster(m, chosen[i], chosen[k])
      /\ \A i \in DOMAIN chosen, e \in A \ C : Faster(m, chosen[i], e)
  BY DEF Best
<1>4. Distinct(chosen)
  BY <1>3, OrderedIsDistinct
<1>5. IsFiniteSet(C) /\ Cardinality(C) = Len(chosen)
  BY <1>4, DistinctRange
<1> HIDE DEF b, C
<1>6. /\ s \in Seq(Endpoint) /\ Len(s) = Len(chosen) + Len(b)
      /\ \A i \in DOMAIN s :
             s[i] = IF i <= Len(chosen) THEN chosen[i]
                                        ELSE b[i - Len(chosen)]
  BY <1>1
<1> HIDE DEF s
<1>7. Range(s) = C \union B
  <2>1. ASSUME NEW i \in DOMAIN s PROVE s[i] \in C \union B
    <3>1. CASE i <= Len(chosen)
      BY <1>6, <3>1 DEF C, Range
    <3>2. CASE ~(i <= Len(chosen))
      <4>1. i - Len(chosen) \in DOMAIN b
        BY <1>1, <1>6, <3>2
      <4>2. b[i - Len(chosen)] \in B
        BY <1>1, <4>1 DEF Range
      <4> QED
        BY <1>6, <3>2, <4>2
    <3> QED
      BY <3>1, <3>2
  <2>2. ASSUME NEW i \in DOMAIN chosen PROVE chosen[i] \in Range(s)
    <3>1. i \in DOMAIN s /\ s[i] = chosen[i]
      BY <1>1, <1>6
    <3> QED
      BY <3>1 DEF Range
  <2>3. ASSUME NEW i \in DOMAIN b PROVE b[i] \in Range(s)
    <3>1. i + Len(chosen) \in DOMAIN s /\ s[i + Len(chosen)] = b[i]
      BY <1>1, <1>6
    <3> QED
      BY <3>1 DEF Range
  <2>4. \A e \in C : \E i \in DOMAIN chosen : e = chosen[i]
    BY DEF C, Range
  <2>5. \A e \in B : \E i \in DOMAIN b : e = b[i]
    BY <1>1 DEF Range
  <2>6. Range(s) \subseteq C \union B
    BY <2>1 DEF Range
  <2> QED
    BY <2>2, <2>3, <2>4, <2>5, <2>6
<1>8. Distinct(s)
  <2> SUFFICES ASSUME NEW i \in DOMAIN s, NEW k \in DOMAIN s, s[i] = s[k]
               PROVE  i = k
    BY DEF Distinct
  <2>1. \A j \in DOMAIN s : j <= Len(chosen) =>
            j \in DOMAIN chosen /\ s[j] = chosen[j] /\ s[j] \in A
    BY <1>3, <1>6 DEF C, Range
  <2>2. \A j \in DOMAIN s : ~(j <= Len(chosen)) =>
            /\ j - Len(chosen) \in DOMAIN b
            /\ s[j] = b[j - Len(chosen)] /\ s[j] \in B
    BY <1>1, <1>6 DEF Range
  <2>3. CASE i <= Len(chosen) /\ k <= Len(chosen)
    BY <1>4, <2>1, <2>3 DEF Distinct
  <2>4. CASE ~(i <= Len(chosen)) /\ ~(k <= Len(chosen))
    <3>1. i - Len(chosen) = k - Len(chosen)
      BY <1>1, <2>2, <2>4 DEF Distinct
    <3> QED
      BY <1>6, <3>1
  <2> QED
    BY <2>1, <2>2, <2>3, <2>4
<1>9. /\ t \in Seq(Endpoint) /\ Len(t) = Len(s)
      /\ Range(t) = C \union B
      /\ \A i, k \in DOMAIN t : i < k => Faster(m, t[i], t[k])
  BY <1>6, <1>7, <1>8, SortedSorts
<1> HIDE DEF t
<1>10. cut \in 0..Len(t) /\ cut <= limit
  BY <1>6, <1>9 DEF Lesser
<1>11. /\ u \in Seq(Endpoint) /\ Len(u) = cut /\ DOMAIN u = 1..cut
       /\ \A i \in 1..cut : u[i] = t[i] /\ i \in DOMAIN t
  BY <1>9, <1>10
<1>12. cut = Lesser(limit, Cardinality(A \union B))
  <2>1. Cardinality(A \union B) = Cardinality(A) + Cardinality(B)
    <3>1. Cardinality(A \intersect B) = 0
      BY FS_EmptySet
    <3>2. Cardinality(A \union B)
              = Cardinality(A) + Cardinality(B) - Cardinality(A \intersect B)
      BY FS_Union
    <3> QED
      BY <1>2, <3>1, <3>2
  <2>2. \A x, y \in Nat :
            Lesser(limit, Lesser(limit, x) + y) = Lesser(limit, x + y)
    BY DEF Lesser
  <2>3. cut = Lesser(limit, Lesser(limit, Cardinality(A)) + Cardinality(B))
    BY <1>1, <1>3, <1>6
  <2> QED
    BY <1>2, <2>1, <2>2, <2>3
<1> HIDE DEF u, cut
<1>13. Range(u) \subseteq A \union B
  BY <1>3, <1>9, <1>11 DEF Range
<1>14. \A i, k \in DOMAIN u : i < k => Faster(m, u[i], u[k])
  BY <1>9, <1>11
<1>15. ASSUME NEW i \in DOMAIN u, NEW e \in (A \union B) \ Range(u)
       PROVE  Faster(m, u[i], e)
  <2>1. CASE e \in C \union B
    <3>1. PICK q \in DOMAIN t : t[q] = e
      BY <1>9, <2>1 DEF Range
    <3>2. q \notin 1..cut
      BY <1>11, <3>1 DEF Range
    <3>3. i < q
      BY <1>9, <1>10, <1>11, <3>2
    <3> QED
      BY <1>9, <1>11, <3>1, <3>3
  <2>2. CASE e \in A \ C
    <3>1. Cardinality(C) = limit
      <4>1. Cardinality(C) # Cardinality(A)
        BY <1>3, <2>2, FS_Subset
      <4> QED
        BY <1>2, <1>3, <1>5, <4>1 DEF Lesser
    <3>2. ASSUME NEW c \in C, Faster(m, u[i], c) \/ u[i] = c
          PROVE  Faster(m, u[i], e)
      <4>1. Faster(m, c, e)
        BY <1>3, <2>2 DEF C, Range
      <4>2. u[i] \in Endpoint /\ c \in Endpoint /\ e \in Endpoint
        BY <1>3, <1>11
      <4> QED
        BY <3>2, <4>1, <4>2, FasterOrder
    <3>3. \E c \in C : \E q \in DOMAIN t : i <= q /\ t[q] = c
      <4> SUFFICES ASSUME \A q \in DOMAIN t : t[q] \in C => ~(i <= q)
                   PROVE  FALSE
        BY <1>9
      <4> DEFINE before == [q \in 1..(i - 1) |-> t[q]]
      <4>1. i \in 1..limit /\ i - 1 \in Nat
        BY <1>10, <1>11
      <4>2. C \subseteq Range(before)
        <5>1. ASSUME NEW c \in C PROVE c \in Range(before)
          <6>1. PICK q \in DOMAIN t : t[q] = c
            BY <1>9 DEF Range
          <6>2. q \in 1..(i - 1)
            BY <1>9, <4>1, <6>1
          <6> QED
            BY <6>1, <6>2 DEF Range
        <5> QED
          BY <5>1
      <4>3. IsFiniteSet(Range(before)) /\ Cardinality(Range(before)) = i - 1
        <5>1. Distinct(t)
          BY <1>9, OrderedIsDistinct
        <5>2. Distinct(before)
          BY <1>9, <1>10, <1>11, <4>1, <5>1 DEF Distinct
        <5> QED
          BY <4>1, <5>2, DistinctRange
      <4>4. Cardinality(C) <= i - 1
        BY <4>2, <4>3, FS_Subset
      <4> QED
        BY <3>1, <4>1, <4>4
    <3>4. PICK c \in C, q \in DOMAIN t : i <= q /\ t[q] = c
      BY <3>3
    <3>5. Faster(m, u[i], c) \/ u[i] = c
      BY <1>9, <1>11, <3>4
    <3> QED
      BY <3>2, <3>5
  <2> QED
    BY <2>1, <2>2
<1>16. u \in Seq(Endpoint) /\ Best(u, A \union B, m, limit)
  BY <1>11, <1>12, <1>13, <1>14, <1>15 DEF Best
<1> QED
  BY <1>16 DEF u, t, s, b, cut, TrimAndSort

-----------------------------------------------------------------------------
(* The sanitisers. *)

(* A set of natural numbers that is not empty has a least member. *)
LEMMA LeastNatural ==
    ASSUME NEW T \in SUBSET Nat, T # {}
    PROVE  \E x \in T : \A y \in T : x <= y
<1>1. PICK x \in T : \A y \in T : <<y, x>> \notin OpToRel(<, Nat)
  BY NatLessThanWellFounded, WFMin
<1>2. \A y \in T : ~(y < x)
  BY <1>1 DEF OpToRel
<1> QED
  BY <1>2

(* A set of positions that is not empty has a last one. *)
LEMMA GreatestIndex ==
    ASSUME NEW n \in Nat, NEW J \in SUBSET (1..n), J # {}
    PROVE  \E j \in J : \A k \in J : k <= j
<1> DEFINE T == {n - j : j \in J}
<1>1. T \in SUBSET Nat /\ T # {}
  <2>1. \A j \in J : n - j \in Nat
    OBVIOUS
  <2>2. PICK j \in J : TRUE
    OBVIOUS
  <2>3. n - j \in T
    OBVIOUS
  <2> QED
    BY <2>1, <2>3
<1>2. PICK x \in T : \A y \in T : x <= y
  BY <1>1, LeastNatural
<1>3. PICK j \in J : x = n - j
  OBVIOUS
<1>4. \A k \in J : n - j <= n - k
  BY <1>2, <1>3
<1> QED
  BY <1>4

(* sanitizeCandidates keeps acceptable records and at most limit of them:  *)
(* fewer than limit come before the last one kept (find.go:599-620).       *)
LEMMA SanitizeKeepsLimit ==
    ASSUME NEW records \in Seq(Endpoint \union {Refused}), NEW limit \in Nat
    PROVE  LET kept == Sanitize(records, limit)
           IN  /\ kept \in SUBSET Endpoint /\ IsFiniteSet(kept)
               /\ Cardinality(kept) <= limit
<1> DEFINE n == Len(records)
           J == {k \in DOMAIN records :
                     /\ records[k] # Refused
                     /\ Cardinality(AcceptedBefore(records, k)) < limit}
           kept == {records[i] : i \in J}
<1>1. /\ n \in Nat /\ DOMAIN records = 1..n /\ J \in SUBSET (1..n)
      /\ \A k \in J : records[k] \in Endpoint /\ records[k] # Refused
  OBVIOUS
<1> HIDE DEF J
<1> DEFINE Good == /\ kept \in SUBSET Endpoint /\ IsFiniteSet(kept)
                   /\ Cardinality(kept) <= limit
<1>2. ASSUME J = {} PROVE Good
  <2>1. kept = {}
    BY <1>2
  <2> HIDE DEF kept
  <2> QED
    BY <2>1, FS_EmptySet
<1>3. ASSUME J # {} PROVE Good
  <2>1. PICK j \in J : \A k \in J : k <= j
    BY <1>1, <1>3, GreatestIndex
  <2>0. Cardinality(AcceptedBefore(records, j)) < limit
    BY DEF J
  <2> DEFINE before == AcceptedBefore(records, j)
  <2>2. \A r : r \in before
                   <=> r # Refused /\ \E i \in 1..(j - 1) : r = records[i]
    <3>1. DOMAIN SubSeq(records, 1, j - 1) = 1..(j - 1)
      BY <1>1
    <3>2. \A i \in 1..(j - 1) : SubSeq(records, 1, j - 1)[i] = records[i]
      BY <1>1
    <3> QED
      BY <3>1, <3>2 DEF AcceptedBefore, Range
  <2>3. IsFiniteSet(before)
    <3>1. IsFiniteSet(Range(records))
      BY <1>1, RangeIsFinite
    <3>2. before \in SUBSET Range(records)
      BY <1>1, <2>2 DEF Range
    <3> QED
      BY <3>1, <3>2, FS_Subset
  <2>4. kept \in SUBSET (before \union {records[j]})
    <3>1. ASSUME NEW k \in J, k # j PROVE records[k] \in before
      BY <1>1, <2>1, <2>2, <3>1
    <3> QED
      BY <3>1
  <2>5. /\ IsFiniteSet(before \union {records[j]})
        /\ Cardinality(before \union {records[j]}) <= Cardinality(before) + 1
    <3>1. /\ IsFiniteSet(before \union {records[j]})
          /\ Cardinality(before \union {records[j]})
                 = IF records[j] \in before THEN Cardinality(before)
                                            ELSE Cardinality(before) + 1
      BY <2>3, FS_AddElement
    <3>2. Cardinality(before) \in Nat
      BY <2>3, FS_CardinalityType
    <3> QED
      BY <3>1, <3>2
  <2>6. Cardinality(before) \in Nat /\ Cardinality(before) < limit
    BY <2>0, <2>3, FS_CardinalityType
  <2>7. /\ IsFiniteSet(kept)
        /\ Cardinality(kept) <= Cardinality(before \union {records[j]})
    BY <2>4, <2>5, FS_Subset
  <2>8. /\ Cardinality(kept) \in Nat
        /\ Cardinality(before \union {records[j]}) \in Nat
    BY <2>5, <2>7, FS_CardinalityType
  <2> QED
    BY <1>1, <2>5, <2>6, <2>7, <2>8
<1> QED
  BY <1>2, <1>3 DEF J, Sanitize

(* parseProxyScrape returns acceptable rows and at most limit of them      *)
(* (fetch.go:36-65).                                                       *)
LEMMA ParsedKeepsLimit ==
    ASSUME NEW rows \in Seq(Endpoint \union {Refused}), NEW limit \in Nat,
           NEW candidates \in Parsed(rows, limit)
    PROVE  /\ candidates \in SUBSET Endpoint /\ IsFiniteSet(candidates)
           /\ Cardinality(candidates) <= limit
<1> DEFINE accepted == Range(rows) \ {Refused}
<1>1. IsFiniteSet(Range(rows)) /\ accepted \in SUBSET Range(rows)
  BY RangeIsFinite
<1>2. IsFiniteSet(accepted) /\ accepted \in SUBSET Endpoint
  BY <1>1, FS_Subset DEF Range
<1> HIDE DEF accepted
<1>3. /\ candidates \in SUBSET accepted
      /\ Cardinality(candidates) = Lesser(limit, Cardinality(accepted))
  BY DEF Parsed, kSubset, accepted
<1>4. Cardinality(accepted) \in Nat
  BY <1>2, FS_CardinalityType
<1> QED
  BY <1>2, <1>3, <1>4, FS_Subset DEF Lesser

-----------------------------------------------------------------------------
(* The invariant. *)

(* What is given to verifyMany: the cache first, then other candidates,    *)
(* together within the budget.                                             *)
TriedInv ==
    /\ \A e \in Endpoint : tried[e] <= 1
    /\ IsFiniteSet(TriedSet)
    /\ Cardinality(TriedSet) <= limits.candidates
    /\ cached \subseteq TriedSet /\ batch \subseteq TriedSet
    /\ pc = "entry" => TriedSet = {}
    /\ pc \in {"cache", "fetch"} => TriedSet = cached
    /\ pc = "cache" => batch = cached
    /\ pc = "fresh" => batch \intersect cached = {}

(* What Resolve has selected so far, of those that passed so far.          *)
SelectedInv ==
    /\ survivors \subseteq TriedSet
    /\ pc \in {"entry", "cache", "fresh"} =>
           survivors \intersect batch = passed
    /\ pc \in {"entry", "cache"} => selected = <<>> /\ survivors = passed
    /\ pc \in {"fetch", "returned"} =>
           Best(selected, survivors, latency, limits.results)
    /\ pc = "fresh" =>
           Best(selected, survivors \ passed, latency, limits.results)

(* A candidate without verdict means an ended context.                     *)
VerdictInv ==
    /\ outcome = "running" => pc \in {"cache", "fresh"}
    /\ pc \in {"entry", "fetch"} => outcome = "complete"
    /\ outcome # "cancelled" => unchecked = {}

StageInv ==
    /\ pc \in {"entry", "cache"} => ~fetched
    /\ pc \in {"fetch", "fresh"} => fetched

IInv == /\ TypeOK /\ TriedInv /\ SelectedInv /\ VerdictInv /\ StageInv
        /\ ErrorsAreTrue /\ FetchRule

(* What a verification measures is a number. *)
LEMMA LatencyIsMeasured == TypeOK => latency \in Measured
<1> SUFFICES ASSUME TypeOK PROVE latency \in Measured
  OBVIOUS
<1>1. latency \in [Endpoint -> Latency \union {0}]
  BY DEF TypeOK
<1>2. Latency \union {0} \subseteq Nat
  BY LatencyAssumption
<1> QED
  BY <1>1, <1>2 DEF Measured

(* What is measured of other endpoints does not matter to a selection. *)
LEMMA BestIgnoresOthers ==
    ASSUME NEW m, NEW measured, NEW A, NEW chosen, NEW limit,
           \A e \in A : m[e] = measured[e], Best(chosen, A, m, limit)
    PROVE  Best(chosen, A, measured, limit)
<1>1. \A i \in DOMAIN chosen : chosen[i] \in A
  BY DEF Best, Range
<1> QED
  BY <1>1 DEF Best, Faster

(* Of nothing, nothing is selected. *)
LEMMA NothingIsBest ==
    ASSUME NEW m, NEW limit \in Nat \ {0}
    PROVE  Best(<<>>, {}, m, limit)
<1>1. Cardinality({}) = 0
  BY FS_EmptySet
<1> QED
  BY <1>1 DEF Best, Lesser, Range

(* After each batch the selection is the best of all that passed so far    *)
(* (find.go:134-135, 166-167).                                             *)
LEMMA SelectionIsBest ==
    ASSUME TypeOK, TriedInv, SelectedInv, pc \in {"cache", "fresh"}
    PROVE  /\ Selection \in Seq(Endpoint)
           /\ Best(Selection, survivors, latency, limits.results)
<1> DEFINE A == IF pc = "cache" THEN {} ELSE survivors \ passed
<1>1. latency \in Measured /\ limits.results \in Nat \ {0}
  BY LatencyIsMeasured DEF TypeOK
<1>2. /\ A \in SUBSET Endpoint /\ passed \in SUBSET Endpoint
      /\ A \intersect passed = {} /\ A \union passed = survivors
  BY DEF TypeOK, SelectedInv
<1>3. IsFiniteSet(A) /\ IsFiniteSet(passed)
  <2>1. IsFiniteSet(survivors)
    BY FS_Subset DEF TriedInv, SelectedInv
  <2>2. A \in SUBSET survivors /\ passed \in SUBSET survivors
    BY <1>2
  <2> QED
    BY <2>1, <2>2, FS_Subset
<1>4. selected \in Seq(Endpoint)
      /\ Best(selected, A, latency, limits.results)
  BY <1>1, NothingIsBest DEF TypeOK, SelectedInv
<1> HIDE DEF A
<1> QED
  BY <1>1, <1>2, <1>3, <1>4, TrimAndSortIsBest DEF Selection

(* The invariant holds before the call. *)
LEMMA InitInvariant == Init => IInv
<1> SUFFICES ASSUME Init PROVE IInv
  OBVIOUS
<1>1. TypeOK
  <2>1. limits \in [candidates : 1..MaxCandidates, results : 1..MaxResults]
    BY LimitAssumption DEF Init, Normalised, Bounded, DefaultResultLimit
  <2>2. Batch!BatchTypeOK
    BY DEF Init, Batch!BatchTypeOK, Batch!Outcome
  <2>3. selected \in Seq(Endpoint)
    BY DEF Init
  <2> QED
    BY <2>1, <2>2, <2>3 DEF Init, TypeOK, Error
<1>2. TriedSet = {}
  BY DEF Init, TriedSet
<1>3. TriedInv
  BY <1>1, <1>2, FS_EmptySet DEF Init, TriedInv, TypeOK
<1>4. /\ SelectedInv /\ VerdictInv /\ StageInv
      /\ ErrorsAreTrue /\ FetchRule
  BY DEF Init, SelectedInv, VerdictInv, StageInv, ErrorsAreTrue, FetchRule,
         Returned
<1> QED
  BY <1>1, <1>3, <1>4 DEF IInv

(* The options are normalised and the cache goes to the first batch        *)
(* (find.go:124-134).                                                      *)
LEMMA BeginKeeps == IInv /\ Begin => IInv'
<1> SUFFICES ASSUME IInv, Begin PROVE IInv'
  OBVIOUS
<1> USE DEF IInv
<1>1. PICK options \in OptionInputs, records \in CachedInputs :
          /\ limits' = Normalised(options)
          /\ cached' = Sanitize(records,
                                Lesser(limits'.candidates, MaxResults))
          /\ StartBatch(cached')
  BY DEF Begin
<1>2. limits' \in [candidates : 1..MaxCandidates, results : 1..MaxResults]
  <2>1. options[1] \in Int /\ options[2] \in Int
    BY InputAssumption
  <2> QED
    BY <1>1, <2>1, LimitAssumption DEF Normalised, Bounded, DefaultResultLimit
<1>3. /\ cached' \in SUBSET Endpoint /\ IsFiniteSet(cached')
      /\ Cardinality(cached') <= limits'.candidates
  <2> DEFINE limit == Lesser(limits'.candidates, MaxResults)
  <2>1. limit \in Nat /\ limit <= limits'.candidates
    BY <1>2, LimitAssumption DEF Lesser
  <2>2. records \in Seq(Endpoint \union {Refused})
    BY InputAssumption
  <2> HIDE DEF limit
  <2>3. /\ cached' \in SUBSET Endpoint /\ IsFiniteSet(cached')
        /\ Cardinality(cached') <= limit
    BY <1>1, <2>1, <2>2, SanitizeKeepsLimit DEF limit
  <2>4. Cardinality(cached') \in Nat /\ limits'.candidates \in Nat
    BY <1>2, <2>3, FS_CardinalityType
  <2> QED
    BY <2>1, <2>3, <2>4
<1>4. /\ pc = "entry" /\ pc' = "cache"
      /\ batch' = cached' /\ reported' = {} /\ passed' = {}
      /\ outcome' = "running"
      /\ tried' = [e \in Endpoint |->
                       tried[e] + IF e \in cached' THEN 1 ELSE 0]
      /\ UNCHANGED <<ctxErr, latency, selected, fetched, err, survivors,
                     unchecked, fetches>>
  BY <1>1 DEF Begin, StartBatch
<1>5. \A e \in Endpoint : tried[e] = 0
  BY <1>4 DEF TypeOK, TriedInv, TriedSet
<1>6. TriedSet' = cached' /\ \A e \in Endpoint : tried'[e] \in 0..1
  BY <1>3, <1>4, <1>5 DEF TriedSet
<1>7. TypeOK'
  BY <1>2, <1>3, <1>4, <1>6 DEF TypeOK, Batch!BatchTypeOK, Batch!Outcome
<1>8. TriedInv'
  BY <1>3, <1>4, <1>6 DEF TriedInv
<1>9. SelectedInv'
  BY <1>4 DEF SelectedInv, TriedInv
<1>10. /\ VerdictInv' /\ StageInv' /\ ErrorsAreTrue' /\ FetchRule'
  BY <1>4 DEF VerdictInv, StageInv, ErrorsAreTrue, FetchRule, Returned
<1> QED
  BY <1>7, <1>8, <1>9, <1>10

(* Refused options end the call before any endpoint is tried. *)
LEMMA RefuseOptionsKeeps == IInv /\ RefuseOptions => IInv'
<1> SUFFICES ASSUME IInv, RefuseOptions PROVE IInv'
  OBVIOUS
<1> USE DEF IInv, RefuseOptions, ReturnWith, batchVars, historyVars
<1>1. TypeOK'
  BY DEF TypeOK, Batch!BatchTypeOK, Error
<1>2. TriedInv'
  BY DEF TriedInv, TriedSet
<1>3. SelectedInv'
  <2>1. survivors = {} /\ selected = <<>>
    BY DEF SelectedInv, TriedInv
  <2>2. limits.results \in Nat \ {0}
    BY DEF TypeOK
  <2>3. Best(<<>>, {}, latency, limits.results)
    BY <2>2, NothingIsBest
  <2> QED
    BY <2>1, <2>3 DEF SelectedInv
<1>4. /\ VerdictInv' /\ StageInv' /\ ErrorsAreTrue' /\ FetchRule'
  BY DEF VerdictInv, StageInv, ErrorsAreTrue, FetchRule
<1> QED
  BY <1>1, <1>2, <1>3, <1>4

(* The deadline alone changes no invariant. *)
LEMMA CancelKeeps == IInv /\ Cancel => IInv'
<1> SUFFICES ASSUME IInv, Cancel PROVE IInv'
  OBVIOUS
<1> USE DEF IInv, Cancel, Batch!Cancel, historyVars
<1>1. TypeOK'
  BY DEF TypeOK, Batch!BatchTypeOK
<1>2. TriedInv' /\ SelectedInv'
  BY DEF TriedInv, SelectedInv, TriedSet
<1>3. /\ VerdictInv' /\ StageInv' /\ ErrorsAreTrue' /\ FetchRule'
  BY DEF VerdictInv, StageInv, ErrorsAreTrue, FetchRule, Returned, Remaining
<1> QED
  BY <1>1, <1>2, <1>3

(* A verdict concerns an endpoint of the current batch, so it touches no   *)
(* earlier selection and, in the second batch, none of the cache.          *)
LEMMA ReportVerdictKeeps == IInv /\ ReportVerdict => IInv'
<1> SUFFICES ASSUME IInv, ReportVerdict PROVE IInv'
  OBVIOUS
<1> USE DEF IInv
<1>1. PICK e \in Endpoint, ok \in BOOLEAN, time \in Latency :
          /\ Batch!Report(e, ok)
          /\ latency' = IF ok THEN [latency EXCEPT ![e] = time] ELSE latency
          /\ survivors' = IF ok THEN survivors \union {e} ELSE survivors
  BY DEF ReportVerdict
<1>2. UNCHANGED <<pc, limits, cached, selected, fetched, err, tried,
                  unchecked, fetches, batch, ctxErr, outcome>>
  BY <1>1 DEF ReportVerdict, Batch!Report
<1>3. /\ pc \in {"cache", "fresh"} /\ outcome = "running"
      /\ e \in batch /\ e \notin reported /\ e \notin passed
      /\ e \notin survivors
      /\ reported' = reported \union {e}
      /\ passed' = IF ok THEN passed \union {e} ELSE passed
  BY <1>1 DEF Batch!Report, VerdictInv, SelectedInv, TypeOK, Batch!BatchTypeOK
<1>4. TypeOK'
  BY <1>1, <1>2, <1>3 DEF TypeOK, Batch!BatchTypeOK
<1>5. TriedInv'
  BY <1>2 DEF TriedInv, TriedSet
<1>6. SelectedInv'
  <2>1. survivors' \subseteq TriedSet'
    BY <1>1, <1>2, <1>3 DEF SelectedInv, TriedInv, TriedSet
  <2>2. survivors' \intersect batch' = passed'
    BY <1>1, <1>2, <1>3 DEF SelectedInv
  <2>3. ASSUME pc' = "cache" PROVE selected' = <<>> /\ survivors' = passed'
    BY <1>1, <1>2, <1>3, <2>3 DEF SelectedInv
  <2>4. ASSUME pc' = "fresh"
        PROVE  Best(selected', survivors' \ passed', latency',
                    limits'.results)
    <3>1. survivors' \ passed' = survivors \ passed
      BY <1>1, <1>3
    <3>2. \A x \in survivors \ passed : latency[x] = latency'[x]
      BY <1>1, <1>3
    <3>3. Best(selected, survivors \ passed, latency, limits.results)
      BY <1>2, <2>4 DEF SelectedInv
    <3> QED
      BY <1>2, <3>1, <3>2, <3>3, BestIgnoresOthers
  <2> QED
    BY <1>2, <1>3, <2>1, <2>2, <2>3, <2>4 DEF SelectedInv
<1>7. VerdictInv' /\ StageInv' /\ ErrorsAreTrue'
  BY <1>2, <1>3 DEF VerdictInv, StageInv, ErrorsAreTrue, Returned
<1>8. FetchRule'
  <2>1. fetched => survivors' \intersect cached = survivors \intersect cached
    BY <1>1, <1>3 DEF StageInv, TriedInv
  <2> QED
    BY <1>2, <1>3, <2>1 DEF FetchRule, Returned
<1> QED
  BY <1>4, <1>5, <1>6, <1>7, <1>8

(* Only a batch that was cut leaves candidates without verdict             *)
(* (find.go:269).                                                          *)
LEMMA BatchReturnsKeeps == IInv /\ BatchReturns => IInv'
<1> SUFFICES ASSUME IInv, BatchReturns PROVE IInv'
  OBVIOUS
<1> USE DEF IInv, BatchReturns, Batch!ReturnBatch
<1>1. TypeOK'
  BY DEF TypeOK, Batch!BatchTypeOK, Batch!Outcome
<1>2. TriedInv' /\ SelectedInv'
  BY DEF TriedInv, SelectedInv, TriedSet
<1>3. /\ VerdictInv' /\ StageInv' /\ ErrorsAreTrue' /\ FetchRule'
  BY DEF VerdictInv, StageInv, ErrorsAreTrue, FetchRule, Returned
<1> QED
  BY <1>1, <1>2, <1>3

(* The ways to return with the selection of the last batch. *)
ReturnSelected ==
    /\ pc \in {"cache", "fresh"} /\ outcome # "running"
    /\ selected' = Selection
    /\ pc' = "returned" /\ err' \in Error
    /\ UNCHANGED <<limits, cached, batchVars, ctxErr, latency, fetched,
                   historyVars>>

(* Whatever the error, returning the selection returns the best. *)
LEMMA ReturnSelectedKeeps ==
    ASSUME IInv, ReturnSelected
    PROVE  /\ TypeOK' /\ TriedInv' /\ SelectedInv' /\ VerdictInv'
           /\ StageInv'
<1> USE DEF IInv, ReturnSelected, batchVars, historyVars
<1>1. /\ Selection \in Seq(Endpoint)
      /\ Best(Selection, survivors, latency, limits.results)
  BY SelectionIsBest
<1> HIDE DEF Selection
<1>2. TypeOK'
  BY <1>1 DEF TypeOK, Batch!BatchTypeOK
<1>3. TriedInv'
  BY DEF TriedInv, TriedSet
<1>4. SelectedInv'
  BY <1>1 DEF SelectedInv, TriedSet
<1>5. VerdictInv' /\ StageInv'
  BY DEF VerdictInv, StageInv
<1> QED
  BY <1>2, <1>3, <1>4, <1>5

(* The selection is as long as the limit and the survivors allow, so it is *)
(* empty only when none passed.                                            *)
LEMMA SelectionSize ==
    ASSUME IInv, pc \in {"cache", "fresh"}
    PROVE  /\ Len(Selection) = Lesser(limits.results, Cardinality(survivors))
           /\ Len(Selection) \in Nat /\ Cardinality(survivors) \in Nat
           /\ limits.results \in Nat \ {0}
           /\ Selection = <<>> <=> survivors = {}
           /\ Selection = <<>> <=> Len(Selection) = 0
<1>1. /\ Selection \in Seq(Endpoint)
      /\ Best(Selection, survivors, latency, limits.results)
  BY SelectionIsBest DEF IInv
<1>2. limits.results \in Nat \ {0}
  BY DEF IInv, TypeOK
<1>3. IsFiniteSet(survivors)
  BY FS_Subset DEF IInv, TriedInv, SelectedInv
<1>4. /\ Cardinality(survivors) \in Nat
      /\ Cardinality(survivors) = 0 <=> survivors = {}
  BY <1>3, FS_CardinalityType, FS_EmptySet
<1>5. Selection = <<>> <=> Len(Selection) = 0
  BY <1>1
<1>6. Len(Selection) = Lesser(limits.results, Cardinality(survivors))
  BY <1>1 DEF Best
<1> HIDE DEF Selection
<1> QED
  BY <1>2, <1>4, <1>5, <1>6 DEF Lesser

(* The context ended in the first batch (find.go:136-138). *)
LEMMA CacheCancelledKeeps == IInv /\ CacheCancelled => IInv'
<1> SUFFICES ASSUME IInv, CacheCancelled PROVE IInv'
  OBVIOUS
<1> USE DEF CacheCancelled, AfterBatch, ReturnWith
<1>1. ReturnSelected
  BY DEF ReturnSelected, Error
<1>2. ErrorsAreTrue' /\ FetchRule'
  BY DEF IInv, ErrorsAreTrue, FetchRule, historyVars
<1> QED
  BY <1>1, <1>2, ReturnSelectedKeeps DEF IInv

(* The cache was enough (find.go:139-141). *)
LEMMA CacheSufficesKeeps == IInv /\ CacheSuffices => IInv'
<1> SUFFICES ASSUME IInv, CacheSuffices PROVE IInv'
  OBVIOUS
<1> USE DEF CacheSuffices, AfterBatch, ReturnWith
<1>1. ReturnSelected
  BY DEF ReturnSelected, Error
<1>2. selected' # <<>> /\ Len(selected') = limits.results
  BY SelectionSize DEF Lesser
<1>3. ErrorsAreTrue' /\ FetchRule'
  BY <1>2 DEF IInv, ErrorsAreTrue, FetchRule, VerdictInv, historyVars
<1> QED
  BY <1>1, <1>3, ReturnSelectedKeeps DEF IInv

(* The first batch never overdraws the budget. *)
LEMMA RemainingIsNat == IInv => Remaining \in Nat
<1> SUFFICES ASSUME IInv PROVE Remaining \in Nat
  OBVIOUS
<1>1. IsFiniteSet(cached) /\ Cardinality(cached) <= Cardinality(TriedSet)
  BY FS_Subset DEF IInv, TriedInv
<1>2. Cardinality(cached) \in Nat /\ Cardinality(TriedSet) \in Nat
  BY <1>1, FS_CardinalityType DEF IInv, TriedInv
<1> QED
  BY <1>1, <1>2 DEF IInv, TypeOK, TriedInv, Remaining

(* The cache has used the whole budget (find.go:142-148). *)
LEMMA BudgetSpentKeeps == IInv /\ BudgetSpent => IInv'
<1> SUFFICES ASSUME IInv, BudgetSpent PROVE IInv'
  OBVIOUS
<1> USE DEF BudgetSpent, AfterBatch, ReturnWith
<1>1. ReturnSelected
  BY DEF ReturnSelected, Error
<1>2. Remaining = 0 /\ Remaining' = 0
  BY RemainingIsNat DEF Remaining
<1>3. ErrorsAreTrue'
  BY SelectionSize DEF IInv, ErrorsAreTrue, VerdictInv, historyVars
<1>4. FetchRule'
  BY <1>2 DEF IInv, FetchRule, historyVars
<1> QED
  BY <1>1, <1>3, <1>4, ReturnSelectedKeeps DEF IInv

(* Both batches are done (find.go:166-176). *)
LEMMA FreshDoneKeeps == IInv /\ FreshDone => IInv'
<1> SUFFICES ASSUME IInv, FreshDone PROVE IInv'
  OBVIOUS
<1> USE DEF FreshDone, AfterBatch, ReturnWith
<1>1. ReturnSelected
  BY DEF ReturnSelected, Error
<1>2. ErrorsAreTrue'
  BY SelectionSize DEF IInv, ErrorsAreTrue, VerdictInv, historyVars
<1>3. FetchRule'
  BY DEF IInv, FetchRule, StageInv, historyVars
<1> QED
  BY <1>1, <1>2, <1>3, ReturnSelectedKeeps DEF IInv

(* The source is read because the cache fell short (find.go:150-163). *)
LEMMA StartFetchKeeps == IInv /\ StartFetch => IInv'
<1> SUFFICES ASSUME IInv, StartFetch PROVE IInv'
  OBVIOUS
<1> USE DEF StartFetch, AfterBatch, batchVars
<1>1. /\ Selection \in Seq(Endpoint)
      /\ Best(Selection, survivors, latency, limits.results)
  BY SelectionIsBest DEF IInv
<1>2. Cardinality(survivors) < limits.results
  BY SelectionSize DEF Lesser
<1> HIDE DEF Selection
<1>3. TypeOK'
  BY <1>1 DEF IInv, TypeOK, Batch!BatchTypeOK
<1>4. TriedInv'
  BY DEF IInv, TriedInv, TriedSet
<1>5. SelectedInv'
  BY <1>1 DEF IInv, SelectedInv, TriedSet
<1>6. VerdictInv' /\ StageInv' /\ ErrorsAreTrue'
  BY DEF IInv, VerdictInv, StageInv, ErrorsAreTrue, Returned
<1>7. FetchRule'
  <2>1. survivors \intersect cached = survivors
    BY DEF IInv, SelectedInv, TriedInv
  <2>2. Cardinality((survivors \intersect cached)') < limits'.results
    BY <1>2, <2>1
  <2>3. fetches = 0
    BY DEF IInv, FetchRule, StageInv
  <2> QED
    BY <2>2, <2>3 DEF FetchRule
<1> QED
  BY <1>3, <1>4, <1>5, <1>6, <1>7 DEF IInv

(* A failed fetch keeps what is selected (find.go:162-164). *)
LEMMA FetchFailsKeeps == IInv /\ FetchFails => IInv'
<1> SUFFICES ASSUME IInv, FetchFails PROVE IInv'
  OBVIOUS
<1> USE DEF IInv, FetchFails, ReturnWith, batchVars, historyVars
<1>1. TypeOK'
  BY DEF TypeOK, Batch!BatchTypeOK, Error
<1>2. TriedInv' /\ SelectedInv'
  BY DEF TriedInv, SelectedInv, TriedSet
<1>3. /\ VerdictInv' /\ StageInv' /\ ErrorsAreTrue' /\ FetchRule'
  BY DEF VerdictInv, StageInv, ErrorsAreTrue, FetchRule
<1> QED
  BY <1>1, <1>2, <1>3

(* The second batch is new and within what is left of the budget           *)
(* (find.go:165-166).                                                      *)
LEMMA FetchSucceedsKeeps == IInv /\ FetchSucceeds => IInv'
<1> SUFFICES ASSUME IInv, FetchSucceeds PROVE IInv'
  OBVIOUS
<1> USE DEF IInv
<1>1. PICK rows \in FeedInputs : \E candidates \in Parsed(rows, Remaining) :
          StartBatch(candidates \ cached)
  BY DEF FetchSucceeds, Without
<1>2. PICK candidates \in Parsed(rows, Remaining) :
          StartBatch(candidates \ cached)
  BY <1>1
<1> DEFINE new == candidates \ cached
<1>3. /\ pc = "fetch" /\ pc' = "fresh"
      /\ batch' = new /\ reported' = {} /\ passed' = {}
      /\ outcome' = "running"
      /\ tried' = [e \in Endpoint |-> tried[e] + IF e \in new THEN 1 ELSE 0]
      /\ UNCHANGED <<limits, cached, ctxErr, latency, selected, fetched, err,
                     survivors, unchecked, fetches>>
  BY <1>2 DEF FetchSucceeds, StartBatch
<1>4. /\ candidates \in SUBSET Endpoint /\ IsFiniteSet(candidates)
      /\ Cardinality(candidates) <= Remaining
  BY <1>2, RemainingIsNat, ParsedKeepsLimit, InputAssumption
<1>5. /\ new \in SUBSET Endpoint /\ IsFiniteSet(new)
      /\ Cardinality(new) <= Remaining /\ new \intersect cached = {}
  <2>1. new \in SUBSET candidates
    OBVIOUS
  <2>2. IsFiniteSet(new) /\ Cardinality(new) <= Cardinality(candidates)
    BY <1>4, <2>1, FS_Subset
  <2>3. /\ Cardinality(new) \in Nat /\ Cardinality(candidates) \in Nat
        /\ Remaining \in Nat
    BY <1>4, <2>2, FS_CardinalityType, RemainingIsNat
  <2> HIDE DEF Remaining
  <2> QED
    BY <1>4, <2>2, <2>3
<1> HIDE DEF new
<1>6. cached = TriedSet /\ IsFiniteSet(cached)
  BY <1>3 DEF TriedInv
<1>7. /\ TriedSet' = cached \union new
      /\ \A e \in Endpoint : tried'[e] \in 0..1
  BY <1>3, <1>5, <1>6 DEF TypeOK, TriedInv, TriedSet
<1>8. /\ IsFiniteSet(cached \union new)
      /\ Cardinality(cached \union new) <= limits.candidates
  <2>1. Cardinality(cached) \in Nat /\ Cardinality(new) \in Nat
    BY <1>5, <1>6, FS_CardinalityType
  <2>2. Cardinality(cached \intersect new) = 0
    BY <1>5, FS_EmptySet
  <2>3. /\ IsFiniteSet(cached \union new)
        /\ Cardinality(cached \union new)
               = Cardinality(cached) + Cardinality(new)
                     - Cardinality(cached \intersect new)
    BY <1>5, <1>6, FS_Union
  <2>4. limits.candidates \in Int
    BY DEF TypeOK
  <2> QED
    BY <1>5, <2>1, <2>2, <2>3, <2>4 DEF Remaining
<1>9. TypeOK'
  BY <1>3, <1>5, <1>7 DEF TypeOK, Batch!BatchTypeOK, Batch!Outcome
<1>10. TriedInv'
  BY <1>3, <1>5, <1>7, <1>8 DEF TriedInv
<1>11. SelectedInv'
  BY <1>3, <1>5, <1>6, <1>7 DEF SelectedInv
<1>12. /\ VerdictInv' /\ StageInv' /\ ErrorsAreTrue' /\ FetchRule'
  BY <1>3 DEF VerdictInv, StageInv, ErrorsAreTrue, FetchRule, Returned
<1> QED
  BY <1>9, <1>10, <1>11, <1>12

(* Every step keeps the invariant. *)
LEMMA NextKeeps == IInv /\ [Next]_vars => IInv'
<1> SUFFICES ASSUME IInv, [Next]_vars PROVE IInv'
  OBVIOUS
<1>1. CASE ResolveStep
  BY <1>1, RefuseOptionsKeeps, BeginKeeps, ReportVerdictKeeps,
     BatchReturnsKeeps, CacheCancelledKeeps, CacheSufficesKeeps,
     BudgetSpentKeeps, StartFetchKeeps, FetchFailsKeeps, FetchSucceedsKeeps,
     FreshDoneKeeps
     DEF ResolveStep
<1>2. CASE Cancel
  BY <1>2, CancelKeeps
<1>3. CASE UNCHANGED vars
  <2> USE <1>3 DEF IInv, vars, batchVars, historyVars
  <2>1. TypeOK'
    BY DEF TypeOK, Batch!BatchTypeOK
  <2>2. TriedInv' /\ SelectedInv'
    BY DEF TriedInv, SelectedInv, TriedSet
  <2>3. /\ VerdictInv' /\ StageInv' /\ ErrorsAreTrue' /\ FetchRule'
    BY DEF VerdictInv, StageInv, ErrorsAreTrue, FetchRule, Returned, Remaining
  <2> QED
    BY <2>1, <2>2, <2>3
<1> QED
  BY <1>1, <1>2, <1>3 DEF Next, Terminated

(* The invariant holds in every state of every call. *)
THEOREM Inductive == Spec => []IInv
<1> QED
  BY InitInvariant, NextKeeps, PTL DEF Spec

(* The limits are in range whatever the options say, and the call keeps    *)
(* every variable in its domain (find.go:531-539).                         *)
THEOREM TypeCorrect == Spec => []TypeOK
<1>1. IInv => TypeOK
  BY DEF IInv
<1> QED
  BY <1>1, Inductive, PTL

(* However large the cache, the feed and the options, no endpoint is       *)
(* verified twice and the two batches together keep to CandidateLimit      *)
(* (find.go:132-133, 142, 165).                                            *)
THEOREM Budget == Spec => []TriedOnceWithinBudget
<1>1. IInv => TriedOnceWithinBudget
  BY DEF IInv, TriedInv, TriedOnceWithinBudget
<1> QED
  BY <1>1, Inductive, PTL

(* Whichever way Resolve returns, it returns the fastest of all endpoints  *)
(* that passed in either batch, in order (find.go:134-177).                *)
THEOREM ReturnsTheBest == Spec => []ReturnsBest
<1>1. IInv => ReturnsBest
  BY DEF IInv, SelectedInv, Returned, Best, ReturnsBest
<1> QED
  BY <1>1, Inductive, PTL

(* A nil error comes with a proxy; "no verified proxies" means that every  *)
(* candidate has failed (find.go:136-148, 171-176).                        *)
THEOREM ErrorsTellTheTruth == Spec => []ErrorsAreTrue
<1>1. IInv => ErrorsAreTrue
  BY DEF IInv
<1> QED
  BY <1>1, Inductive, PTL

(* ProxyScrape is read at most once, and only when the cache fell short    *)
(* (find.go:108-109, 139-150).                                             *)
THEOREM FetchedByNeed == Spec => []FetchRule
<1>1. IInv => FetchRule
  BY DEF IInv
<1> QED
  BY <1>1, Inductive, PTL
=============================================================================
