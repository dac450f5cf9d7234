-------------------------- MODULE DiscoveryProofs --------------------------
(***************************************************************************)
(* Theorems about Discovery, for any finite set of directory names, of any *)
(* length, and any number of changes by Update.exe.                        *)
(*                                                                         *)
(* Most of this is about versions. Strings, components and versions all    *)
(* compare by the first difference, so one lemma gives their orders;       *)
(* another says that components compare as the numbers they stand for.     *)
(* The parts of a version lie between the cuts that its dots make. The     *)
(* invariant then follows the candidates through the scan.                 *)
(***************************************************************************)
EXTENDS Discovery, FiniteSetTheorems, WellFoundedInduction, TLAPS

-----------------------------------------------------------------------------
(* A set of natural numbers that is not empty has a least member.          *)
LEMMA LeastNatural ==
    ASSUME NEW S \in SUBSET Nat, S # {}
    PROVE  \E n \in S : \A k \in S : n <= k
<1>1. PICK n \in S : \A k \in S : <<k, n>> \notin OpToRel(<, Nat)
  BY NatLessThanWellFounded, WFMin
<1>2. \A k \in S : ~(k < n)
  BY <1>1 DEF OpToRel
<1> QED
  BY <1>2

(* Comparisons by the first position that differs: characters of a string, *)
(* components of a version.                                                *)
Position == Nat \ {0}

StrictlyOrders(R, T) ==
    /\ R \subseteq T \X T
    /\ \A a, b, c \in T : /\ <<a, a>> \notin R
                          /\ <<a, b>> \in R /\ <<b, c>> \in R => <<a, c>> \in R
                          /\ a = b \/ <<a, b>> \in R \/ <<b, a>> \in R

FirstDiffers(f, g, R) ==
    \E i \in Position : /\ <<f[i], g[i]>> \in R
                        /\ \A k \in 1..(i - 1) : f[k] = g[k]

(* Comparing by the first difference is a strict total order when the      *)
(* comparison at a position is one (install.go:155-178).                   *)
LEMMA Lexicographic ==
    ASSUME NEW T, NEW R, StrictlyOrders(R, T),
           NEW f \in [Position -> T], NEW g \in [Position -> T],
           NEW h \in [Position -> T]
    PROVE  /\ ~FirstDiffers(f, f, R)
           /\ FirstDiffers(f, g, R) /\ FirstDiffers(g, h, R) =>
                  FirstDiffers(f, h, R)
           /\ f = g \/ FirstDiffers(f, g, R) \/ FirstDiffers(g, f, R)
<1>1. \A i \in Position : f[i] \in T /\ g[i] \in T /\ h[i] \in T
  OBVIOUS
<1>2. ~FirstDiffers(f, f, R)
  BY <1>1 DEF FirstDiffers, StrictlyOrders
<1>3. ASSUME FirstDiffers(f, g, R), FirstDiffers(g, h, R)
      PROVE  FirstDiffers(f, h, R)
  <2>1. PICK i \in Position : /\ <<f[i], g[i]>> \in R
                              /\ \A k \in 1..(i - 1) : f[k] = g[k]
    BY <1>3 DEF FirstDiffers
  <2>2. PICK j \in Position : /\ <<g[j], h[j]>> \in R
                              /\ \A k \in 1..(j - 1) : g[k] = h[k]
    BY <1>3 DEF FirstDiffers
  <2>3. i \in Nat /\ i > 0 /\ j \in Nat /\ j > 0
    BY DEF Position
  <2>4. CASE i < j
    <3>1. g[i] = h[i] /\ \A k \in 1..(i - 1) : f[k] = h[k]
      BY <2>1, <2>2, <2>3, <2>4
    <3> QED
      BY <2>1, <3>1 DEF FirstDiffers
  <2>5. CASE j < i
    <3>1. f[j] = g[j] /\ \A k \in 1..(j - 1) : f[k] = h[k]
      BY <2>1, <2>2, <2>3, <2>5
    <3> QED
      BY <2>2, <3>1 DEF FirstDiffers
  <2>6. CASE i = j
    <3>1. <<f[i], h[i]>> \in R
      BY <1>1, <2>1, <2>2, <2>6 DEF StrictlyOrders
    <3>2. \A k \in 1..(i - 1) : f[k] = h[k]
      BY <2>1, <2>2, <2>6
    <3> QED
      BY <3>1, <3>2 DEF FirstDiffers
  <2> QED
    BY <2>3, <2>4, <2>5, <2>6
<1>4. ASSUME f # g PROVE FirstDiffers(f, g, R) \/ FirstDiffers(g, f, R)
  <2> DEFINE S == {i \in Position : f[i] # g[i]}
  <2>1. S # {} /\ S \in SUBSET Nat
    BY <1>4 DEF Position
  <2>2. PICK i \in S : \A k \in S : i <= k
    BY <2>1, LeastNatural
  <2>3. i \in Position /\ f[i] # g[i]
    BY <2>2
  <2>4. \A k \in 1..(i - 1) : f[k] = g[k]
    BY <2>2, <2>3 DEF Position
  <2>5. <<f[i], g[i]>> \in R \/ <<g[i], f[i]>> \in R
    BY <1>1, <2>3 DEF StrictlyOrders
  <2> QED
    BY <2>3, <2>4, <2>5 DEF FirstDiffers
<1> QED
  BY <1>2, <1>3, <1>4
-----------------------------------------------------------------------------
(* Strings, each followed by an end that comes before every character.     *)
Character == Digit \union {Dot, Other}
End == -2
CharacterOrder == {p \in (Character \union {End}) \X (Character \union {End}) :
                       p[1] < p[2]}
Padded(s) == [i \in Position |-> IF i <= Len(s) THEN s[i] ELSE End]

(* Characters compare as numbers do.                                       *)
LEMMA CharacterOrdered ==
    StrictlyOrders(CharacterOrder, Character \union {End})
<1> DEFINE C == Character \union {End}
<1>1. \A c \in C : c \in Int
  BY DEF Character, Digit
<1>2. /\ CharacterOrder \subseteq C \X C
      /\ \A a, b \in C : <<a, b>> \in CharacterOrder <=> a < b
  BY DEF CharacterOrder
<1> HIDE DEF C
<1>3. StrictlyOrders(CharacterOrder, C)
  BY <1>1, <1>2 DEF StrictlyOrders
<1> QED
  BY <1>3 DEF C

(* StringLess is the comparison by the first difference, the end of the    *)
(* shorter string included (install.go:107, 171-176).                      *)
LEMMA PaddedString ==
    ASSUME NEW s \in Seq(Character), NEW t \in Seq(Character)
    PROVE  /\ Padded(s) \in [Position -> Character \union {End}]
           /\ StringLess(s, t) <=>
                  FirstDiffers(Padded(s), Padded(t), CharacterOrder)
           /\ Padded(s) = Padded(t) => s = t
<1>1. /\ Len(s) \in Nat /\ DOMAIN s = 1..Len(s)
      /\ Len(t) \in Nat /\ DOMAIN t = 1..Len(t)
      /\ \A i \in DOMAIN s : s[i] \in Character
      /\ \A i \in DOMAIN t : t[i] \in Character
  OBVIOUS
<1>2. \A c \in Character : c \in Int /\ End < c /\ c # End
  BY DEF Character, Digit, Dot, Other, End
<1>3. /\ \A i \in DOMAIN s : i \in Position /\ Padded(s)[i] = s[i]
      /\ \A i \in DOMAIN t : i \in Position /\ Padded(t)[i] = t[i]
      /\ \A i \in Position \ DOMAIN s : Padded(s)[i] = End
      /\ \A i \in Position \ DOMAIN t : Padded(t)[i] = End
  BY <1>1 DEF Padded, Position
<1>4. Padded(s) \in [Position -> Character \union {End}]
  <2>1. \A i \in Position : Padded(s)[i] \in Character \union {End}
    BY <1>1, <1>3
  <2> QED
    BY <2>1 DEF Padded
<1>5. ASSUME StringLess(s, t)
      PROVE  FirstDiffers(Padded(s), Padded(t), CharacterOrder)
  <2>1. CASE \E i \in DOMAIN s \intersect DOMAIN t :
                s[i] < t[i] /\ \A k \in 1..(i - 1) : s[k] = t[k]
    <3>1. PICK i \in DOMAIN s \intersect DOMAIN t :
             s[i] < t[i] /\ \A k \in 1..(i - 1) : s[k] = t[k]
      BY <2>1
    <3>2. <<Padded(s)[i], Padded(t)[i]>> \in CharacterOrder
      BY <1>1, <1>3, <3>1 DEF CharacterOrder
    <3>3. \A k \in 1..(i - 1) : k \in DOMAIN s /\ k \in DOMAIN t
      BY <1>1
    <3>4. \A k \in 1..(i - 1) : Padded(s)[k] = Padded(t)[k]
      BY <1>3, <3>1, <3>3
    <3> QED
      BY <1>3, <3>2, <3>4 DEF FirstDiffers
  <2>2. CASE Len(s) < Len(t) /\ \A k \in DOMAIN s : s[k] = t[k]
    <3> DEFINE i == Len(s) + 1
    <3>1. i \in Position /\ i \in DOMAIN t /\ i \notin DOMAIN s
      BY <1>1, <2>2 DEF Position
    <3>2. <<Padded(s)[i], Padded(t)[i]>> \in CharacterOrder
      BY <1>1, <1>2, <1>3, <3>1 DEF CharacterOrder
    <3>3. \A k \in 1..(i - 1) : k \in DOMAIN s /\ k \in DOMAIN t
      BY <1>1, <2>2
    <3>4. \A k \in 1..(i - 1) : Padded(s)[k] = Padded(t)[k]
      BY <1>3, <2>2, <3>3
    <3> QED
      BY <3>1, <3>2, <3>4 DEF FirstDiffers
  <2> QED
    BY <1>5, <2>1, <2>2 DEF StringLess
<1>6. ASSUME FirstDiffers(Padded(s), Padded(t), CharacterOrder)
      PROVE  StringLess(s, t)
  <2>1. PICK i \in Position :
           /\ <<Padded(s)[i], Padded(t)[i]>> \in CharacterOrder
           /\ \A k \in 1..(i - 1) : Padded(s)[k] = Padded(t)[k]
    BY <1>6 DEF FirstDiffers
  <2>2. Padded(s)[i] < Padded(t)[i] /\ i \in Nat /\ i > 0
    BY <2>1 DEF CharacterOrder, Position
  <2>3. i \in DOMAIN t
    <3> SUFFICES ASSUME i \notin DOMAIN t PROVE FALSE
      OBVIOUS
    <3>1. Padded(t)[i] = End
      BY <1>3
    <3>2. Padded(s)[i] \in Character \union {End}
      BY <1>1, <1>3
    <3> QED
      BY <1>2, <2>2, <3>1, <3>2 DEF End
  <2>4. \A k \in 1..(i - 1) : k \in DOMAIN t /\ k \in Position
    BY <1>1, <2>2, <2>3 DEF Position
  <2>5. \A k \in 1..(i - 1) : k \in DOMAIN s
    <3> SUFFICES ASSUME NEW k \in 1..(i - 1), k \notin DOMAIN s PROVE FALSE
      OBVIOUS
    <3>1. Padded(s)[k] = End /\ Padded(t)[k] = t[k] /\ t[k] \in Character
      BY <1>1, <1>3, <2>4
    <3> QED
      BY <1>2, <2>1, <3>1
  <2>6. \A k \in 1..(i - 1) : s[k] = t[k]
    BY <1>3, <2>1, <2>4, <2>5
  <2>7. CASE i \in DOMAIN s
    BY <1>3, <2>2, <2>3, <2>6, <2>7 DEF StringLess
  <2>8. CASE i \notin DOMAIN s
    <3>1. Len(s) < i
      BY <1>1, <2>2, <2>8
    <3>2. i > 1 => i - 1 \in DOMAIN s
      BY <2>2, <2>5
    <3>3. Len(s) = i - 1 /\ Len(s) < Len(t)
      BY <1>1, <2>2, <2>3, <3>1, <3>2
    <3> QED
      BY <1>1, <2>6, <3>3 DEF StringLess
  <2> QED
    BY <2>7, <2>8
<1>7. ASSUME Padded(s) = Padded(t) PROVE s = t
  <2>1. \A i \in Position : i \in DOMAIN s <=> i \in DOMAIN t
    <3> TAKE i \in Position
    <3>1. i \in DOMAIN s <=> Padded(s)[i] # End
      BY <1>1, <1>2, <1>3
    <3>2. i \in DOMAIN t <=> Padded(t)[i] # End
      BY <1>1, <1>2, <1>3
    <3> QED
      BY <1>7, <3>1, <3>2
  <2>2. DOMAIN s = DOMAIN t
    BY <1>3, <2>1
  <2>3. \A i \in DOMAIN s : s[i] = t[i]
    BY <1>3, <1>7, <2>2
  <2> QED
    BY <1>1, <2>2, <2>3
<1> QED
  BY <1>4, <1>5, <1>6, <1>7

(* Strings compare by a strict total order.                                *)
LEMMA StringOrder ==
    ASSUME NEW s \in Seq(Character), NEW t \in Seq(Character),
           NEW u \in Seq(Character)
    PROVE  /\ ~StringLess(s, s)
           /\ StringLess(s, t) /\ StringLess(t, u) => StringLess(s, u)
           /\ s = t \/ StringLess(s, t) \/ StringLess(t, s)
<1> DEFINE C == Character \union {End}
<1>1. /\ Padded(s) \in [Position -> C] /\ Padded(t) \in [Position -> C]
      /\ Padded(u) \in [Position -> C]
  BY PaddedString
<1>2. /\ ~FirstDiffers(Padded(s), Padded(s), CharacterOrder)
      /\ /\ FirstDiffers(Padded(s), Padded(t), CharacterOrder)
         /\ FirstDiffers(Padded(t), Padded(u), CharacterOrder)
         => FirstDiffers(Padded(s), Padded(u), CharacterOrder)
      /\ \/ Padded(s) = Padded(t)
         \/ FirstDiffers(Padded(s), Padded(t), CharacterOrder)
         \/ FirstDiffers(Padded(t), Padded(s), CharacterOrder)
  BY <1>1, CharacterOrdered, Lexicographic
<1> QED
  BY <1>2, PaddedString

-----------------------------------------------------------------------------
(* Components of a version.                                                *)
Part == Seq(Digit)
PartOrder == {p \in Part \X Part : ComponentLess(p[1], p[2])}

(* Components compare by a strict total order: by length, then as strings  *)
(* (install.go:165-176).                                                   *)
LEMMA PartOrdered == StrictlyOrders(PartOrder, Part)
<1>1. Part \subseteq Seq(Character)
  BY DEF Part, Character
<1>2. /\ PartOrder \subseteq Part \X Part
      /\ \A s, t \in Part : <<s, t>> \in PartOrder <=> ComponentLess(s, t)
  BY DEF PartOrder
<1>3. \A s \in Part : Len(s) \in Nat
  OBVIOUS
<1>4. ASSUME NEW s \in Part, NEW t \in Part, NEW u \in Part
      PROVE  /\ ~ComponentLess(s, s)
             /\ ComponentLess(s, t) /\ ComponentLess(t, u) =>
                    ComponentLess(s, u)
             /\ s = t \/ ComponentLess(s, t) \/ ComponentLess(t, s)
  <2>1. /\ ~StringLess(s, s)
        /\ StringLess(s, t) /\ StringLess(t, u) => StringLess(s, u)
        /\ s = t \/ StringLess(s, t) \/ StringLess(t, s)
    BY <1>1, StringOrder
  <2> QED
    BY <1>3, <2>1 DEF ComponentLess
<1> QED
  BY <1>2, <1>4 DEF StrictlyOrders

Components(parts) == [i \in Position |-> Component(parts, i)]

(* compareNumericVersions is the comparison by the first component that    *)
(* differs, with zeros after the last one (install.go:150-179).            *)
LEMMA OlderIsLexicographic ==
    ASSUME NEW left \in Seq(Part), NEW right \in Seq(Part)
    PROVE  /\ Components(left) \in [Position -> Part]
           /\ Older(left, right) <=>
                  FirstDiffers(Components(left), Components(right), PartOrder)
<1>1. /\ Len(left) \in Nat /\ DOMAIN left = 1..Len(left)
      /\ Len(right) \in Nat /\ DOMAIN right = 1..Len(right)
  OBVIOUS
<1>2. /\ \A i \in DOMAIN left : left[i] \in Part
      /\ \A i \in DOMAIN right : right[i] \in Part
  OBVIOUS
<1>3. <<0>> \in Part
  BY DEF Part, Digit
<1>4. \A i \in Position :
         Component(left, i) \in Part /\ Component(right, i) \in Part
  BY <1>1, <1>2, <1>3 DEF Component, Position
<1>5. \A s, t \in Part : <<s, t>> \in PartOrder <=> ComponentLess(s, t)
  BY DEF PartOrder
<1>6. ASSUME Older(left, right)
      PROVE  FirstDiffers(Components(left), Components(right), PartOrder)
  <2>1. PICK i \in DOMAIN left \union DOMAIN right :
           /\ ComponentLess(Component(left, i), Component(right, i))
           /\ \A k \in 1..(i - 1) : Component(left, k) = Component(right, k)
    BY <1>6 DEF Older
  <2>2. i \in Position /\ \A k \in 1..(i - 1) : k \in Position
    BY <1>1 DEF Position
  <2> QED
    BY <1>4, <1>5, <2>1, <2>2 DEF FirstDiffers, Components
<1>7. ASSUME FirstDiffers(Components(left), Components(right), PartOrder)
      PROVE  Older(left, right)
  <2>1. PICK i \in Position :
           /\ <<Components(left)[i], Components(right)[i]>> \in PartOrder
           /\ \A k \in 1..(i - 1) : Components(left)[k] = Components(right)[k]
    BY <1>7 DEF FirstDiffers
  <2>2. \A k \in 1..(i - 1) : k \in Position
    BY DEF Position
  <2>3. /\ ComponentLess(Component(left, i), Component(right, i))
        /\ \A k \in 1..(i - 1) : Component(left, k) = Component(right, k)
    BY <1>4, <1>5, <2>1, <2>2 DEF Components
  <2>4. i \in DOMAIN left \union DOMAIN right
    <3> SUFFICES ASSUME i \notin DOMAIN left \union DOMAIN right PROVE FALSE
      OBVIOUS
    <3>1. Component(left, i) = <<0>> /\ Component(right, i) = <<0>>
      BY <1>1 DEF Component, Position
    <3>2. <<(<<0>>), (<<0>>)>> \in PartOrder
      BY <1>3, <1>5, <2>3, <3>1
    <3> QED
      BY <1>3, <3>2, PartOrdered DEF StrictlyOrders
  <2> QED
    BY <2>3, <2>4 DEF Older
<1> QED
  BY <1>4, <1>6, <1>7 DEF Components

-----------------------------------------------------------------------------
(* A later position has more positions before it.                          *)
LEMMA BelowGrows ==
    ASSUME NEW J \in SUBSET Int, IsFiniteSet(J), NEW i \in J, NEW k \in J,
           i < k
    PROVE  Cardinality(Below(J, i)) < Cardinality(Below(J, k))
<1>1. \A j \in J : j \in Int
  OBVIOUS
<1>2. IsFiniteSet(Below(J, k)) /\ Cardinality(Below(J, k)) \in Nat
  <2>1. Below(J, k) \in SUBSET J
    BY DEF Below
  <2> QED
    BY <2>1, FS_Subset, FS_CardinalityType
<1>3. i \in Below(J, k)
  BY DEF Below
<1>4. /\ IsFiniteSet(Below(J, k) \ {i})
      /\ Cardinality(Below(J, k) \ {i}) = Cardinality(Below(J, k)) - 1
  BY <1>2, <1>3, FS_RemoveElement
<1>5. ASSUME NEW j \in Below(J, i) PROVE j \in Below(J, k) \ {i}
  BY <1>1, <1>5 DEF Below
<1>6. /\ Cardinality(Below(J, i)) <= Cardinality(Below(J, k) \ {i})
      /\ IsFiniteSet(Below(J, i))
  BY <1>4, <1>5, FS_Subset
<1>7. Cardinality(Below(J, i)) \in Nat
  BY <1>6, FS_CardinalityType
<1> QED
  BY <1>2, <1>4, <1>6, <1>7

(* Nth counts a set of positions in ascending order, each of them once.    *)
LEMMA NthTakesEachOnce ==
    ASSUME NEW n \in Nat, NEW J \in SUBSET (0..n)
    PROVE  /\ IsFiniteSet(J) /\ Cardinality(J) \in Nat
           /\ \A k \in 1..Cardinality(J) :
                  /\ Nth(J, k) \in J
                  /\ Cardinality(Below(J, Nth(J, k))) = k - 1
           /\ \A i \in J : \E k \in 1..Cardinality(J) : Nth(J, k) = i
<1> DEFINE c == Cardinality(J)
           rank == [i \in J |-> Cardinality(Below(J, i)) + 1]
<1>1. IsFiniteSet(J) /\ c \in Nat
  <2>1. IsFiniteSet(0..n)
    BY FS_Interval
  <2>2. IsFiniteSet(J)
    BY <2>1, FS_Subset
  <2> QED
    BY <2>2, FS_CardinalityType
<1>2. J \in SUBSET Int
  OBVIOUS
<1>3. \A i, k \in J : i < k =>
         Cardinality(Below(J, i)) < Cardinality(Below(J, k))
  BY <1>1, <1>2, BelowGrows
<1>4. \A i \in J : Cardinality(Below(J, i)) \in 0..(c - 1)
  <2> TAKE i \in J
  <2>1. Below(J, i) \in SUBSET (J \ {i})
    BY DEF Below
  <2>2. IsFiniteSet(J \ {i}) /\ Cardinality(J \ {i}) = c - 1
    BY <1>1, FS_RemoveElement
  <2>3. IsFiniteSet(Below(J, i)) /\ Cardinality(Below(J, i)) <= c - 1
    BY <2>1, <2>2, FS_Subset
  <2>4. Cardinality(Below(J, i)) \in Nat
    BY <2>3, FS_CardinalityType
  <2> QED
    BY <1>1, <2>3, <2>4
<1>5. \A i, k \in J :
         Cardinality(Below(J, i)) = Cardinality(Below(J, k)) => i = k
  <2> TAKE i \in J, k \in J
  <2>1. i \in Int /\ k \in Int
    OBVIOUS
  <2>2. Cardinality(Below(J, i)) \in Int /\ Cardinality(Below(J, k)) \in Int
    BY <1>4
  <2> QED
    BY <1>3, <2>1, <2>2
<1>6. rank \in Injection(J, 1..c)
  <2>1. \A i, k \in J : rank[i] = rank[k] => i = k
    <3> SUFFICES ASSUME NEW i \in J, NEW k \in J, rank[i] = rank[k]
                 PROVE  i = k
      OBVIOUS
    <3>1. Cardinality(Below(J, i)) = Cardinality(Below(J, k))
      BY <1>4
    <3> QED
      BY <1>5, <3>1
  <2>2. rank \in [J -> 1..c]
    BY <1>1, <1>4
  <2> QED
    BY <2>1, <2>2 DEF Injection, IsInjective
<1>7. rank \in Surjection(J, 1..c)
  <2>1. IsFiniteSet(1..c) /\ Cardinality(1..c) = c
    BY <1>1, FS_Interval
  <2> QED
    BY <1>1, <1>6, <2>1, FS_Injection
<1>8. ASSUME NEW k \in 1..c
      PROVE  Nth(J, k) \in J /\ Cardinality(Below(J, Nth(J, k))) = k - 1
  <2>1. \E i \in J : rank[i] = k
    <3> HIDE DEF rank
    <3> QED
      BY <1>7, <1>8 DEF Surjection
  <2>2. PICK i \in J : Cardinality(Below(J, i)) + 1 = k
    BY <2>1
  <2>3. Cardinality(Below(J, i)) = k - 1
    BY <1>4, <2>2
  <2> QED
    BY <2>3 DEF Nth
<1>9. ASSUME NEW i \in J PROVE \E k \in 1..c : Nth(J, k) = i
  <2> DEFINE k == Cardinality(Below(J, i)) + 1
  <2>1. k \in 1..c /\ k - 1 = Cardinality(Below(J, i))
    BY <1>1, <1>4
  <2>2. Nth(J, k) = i
    BY <1>5, <1>8, <2>1
  <2> QED
    BY <2>1, <2>2
<1> QED
  BY <1>1, <1>8, <1>9

(* Nothing of the set lies between a position and the next.                *)
LEMMA NthAscends ==
    ASSUME NEW n \in Nat, NEW J \in SUBSET (0..n),
           NEW k \in 1..(Cardinality(J) - 1)
    PROVE  /\ Nth(J, k) \in J /\ Nth(J, k + 1) \in J
           /\ Nth(J, k) < Nth(J, k + 1)
           /\ \A j \in J : ~(Nth(J, k) < j /\ j < Nth(J, k + 1))
<1> DEFINE a == Nth(J, k)
           b == Nth(J, k + 1)
           B(i) == Cardinality(Below(J, i))
<1>1. IsFiniteSet(J) /\ Cardinality(J) \in Nat
  BY NthTakesEachOnce
<1>2. k \in 1..Cardinality(J) /\ k + 1 \in 1..Cardinality(J)
  BY <1>1
<1>3. a \in J /\ b \in J /\ B(a) = k - 1 /\ B(b) = k
  <2>1. a \in J /\ B(a) = k - 1
    BY <1>2, NthTakesEachOnce
  <2>2. b \in J /\ B(b) = (k + 1) - 1
    <3> DEFINE l == k + 1
    <3>1. l \in 1..Cardinality(J)
      BY <1>2
    <3> HIDE DEF l
    <3>2. Nth(J, l) \in J /\ Cardinality(Below(J, Nth(J, l))) = l - 1
      BY <3>1, NthTakesEachOnce
    <3> QED
      BY <3>2 DEF l
  <2>3. (k + 1) - 1 = k
    BY <1>2
  <2> HIDE DEF a, b, B
  <2> QED
    BY <2>1, <2>2, <2>3
<1>4. J \in SUBSET Int
  OBVIOUS
<1>5. \A i, j \in J : i < j => B(i) < B(j)
  BY <1>1, <1>4, BelowGrows
<1>6. \A j \in J : IsFiniteSet(Below(J, j)) /\ B(j) \in Nat
  <2> TAKE j \in J
  <2>1. Below(J, j) \in SUBSET J
    BY DEF Below
  <2> QED
    BY <1>1, <2>1, FS_Subset, FS_CardinalityType
<1> HIDE DEF a, b, B
<1>7. k \in Nat /\ a \in Int /\ b \in Int
  BY <1>1, <1>3
<1>8. a < b
  <2>1. ~(b < a) /\ a # b
    BY <1>3, <1>5, <1>7
  <2> QED
    BY <1>7, <2>1
<1>9. ASSUME NEW j \in J, a < j, j < b PROVE FALSE
  <2>1. B(a) < B(j) /\ B(j) < B(b) /\ B(j) \in Int
    BY <1>3, <1>5, <1>6, <1>9
  <2> QED
    BY <1>3, <1>7, <2>1
<1> QED
  BY <1>3, <1>8, <1>9 DEF a, b

-----------------------------------------------------------------------------
(* The parts of a version.                                                 *)
Adjacent(a, b, J) ==
    a \in J /\ b \in J /\ a < b /\ \A j \in J : ~(a < j /\ j < b)

(* strings.Split returns at least one part; every part stands between two  *)
(* adjacent cuts, and every two adjacent cuts have their part              *)
(* (install.go:130).                                                       *)
LEMMA SplitPieces ==
    ASSUME NEW v \in Seq(Character)
    PROVE  /\ Split(v) \in Seq(Seq(Character)) /\ Split(v) # <<>>
           /\ \A k \in DOMAIN Split(v) : \E a, b \in Cuts(v) :
                  /\ Adjacent(a, b, Cuts(v))
                  /\ Split(v)[k] = SubSeq(v, a + 1, b - 1)
           /\ \A a \in Cuts(v) \ {Len(v) + 1} :
                  \E k \in DOMAIN Split(v), b \in Cuts(v) :
                      /\ Adjacent(a, b, Cuts(v))
                      /\ Split(v)[k] = SubSeq(v, a + 1, b - 1)
<1> DEFINE C == Cuts(v)
           c == Cardinality(C)
           n == Len(v) + 1
           B(i) == Cardinality(Below(C, i))
<1>1. /\ n \in Nat /\ n > 0 /\ DOMAIN v = 1..(n - 1)
      /\ C \in SUBSET (0..n) /\ 0 \in C /\ n \in C
  BY DEF Cuts
<1> DEFINE Piece(k) == SubSeq(v, Nth(C, k) + 1, Nth(C, k + 1) - 1)
<1>2. Split(v) = [k \in 1..(c - 1) |-> Piece(k)]
  BY DEF Split
<1> HIDE DEF C, n
<1>3. /\ IsFiniteSet(C) /\ c \in Nat
      /\ \A k \in 1..c : Nth(C, k) \in C /\ B(Nth(C, k)) = k - 1
      /\ \A i \in C : \E k \in 1..c : Nth(C, k) = i
  BY <1>1, NthTakesEachOnce
<1>4. \A k \in 1..(c - 1) : Adjacent(Nth(C, k), Nth(C, k + 1), C)
  BY <1>1, NthAscends DEF Adjacent
<1>5. ASSUME NEW a \in C \ {n} PROVE \E k \in 1..(c - 1) : Nth(C, k) = a
  <2>1. PICK k \in 1..c : Nth(C, k) = a
    BY <1>3
  <2>2. PICK l \in 1..c : Nth(C, l) = n
    BY <1>1, <1>3
  <2>3. B(a) = k - 1 /\ B(n) = l - 1
    BY <1>3, <2>1, <2>2
  <2>4. C \in SUBSET Int /\ a < n
    BY <1>1
  <2>5. B(a) < B(n)
    BY <1>1, <1>3, <2>4, BelowGrows
  <2>6. k \in 1..(c - 1)
    <3> HIDE DEF c, B
    <3> QED
      BY <1>3, <2>3, <2>5
  <2> QED
    BY <2>1, <2>6
<1>6. c - 1 \in Nat \ {0}
  <2>1. 0 \in C \ {n}
    BY <1>1
  <2>2. \E k \in 1..(c - 1) : Nth(C, k) = 0
    BY <1>5, <2>1
  <2> QED
    BY <1>3, <2>2
<1> HIDE DEF c
<1>7. \A k \in 1..(c - 1) : Piece(k) \in Seq(Character)
  <2> TAKE k \in 1..(c - 1)
  <2>1. Nth(C, k) \in 0..n /\ Nth(C, k + 1) \in 0..n
    BY <1>1, <1>4 DEF Adjacent
  <2> QED
    BY <1>1, <2>1
<1>8. DOMAIN Split(v) = 1..(c - 1) /\ Split(v) \in Seq(Seq(Character))
  <2> HIDE DEF Piece
  <2>1. Split(v) \in [1..(c - 1) -> Seq(Character)]
    BY <1>2, <1>7
  <2> QED
    BY <1>6, <2>1
<1>9. Split(v) # <<>>
  <2>1. 1 \in 1..(c - 1)
    <3>1. c \in Nat
      BY <1>3
    <3> QED
      BY <1>6, <3>1
  <2>2. 1 \in DOMAIN Split(v)
    BY <1>8, <2>1
  <2> QED
    BY <2>2
<1>10. \A k \in DOMAIN Split(v) : \E a, b \in C :
           Adjacent(a, b, C) /\ Split(v)[k] = SubSeq(v, a + 1, b - 1)
  BY <1>2, <1>4, <1>8 DEF Adjacent
<1>11. ASSUME NEW a \in C \ {n}
       PROVE  \E k \in DOMAIN Split(v), b \in C :
                  Adjacent(a, b, C) /\ Split(v)[k] = SubSeq(v, a + 1, b - 1)
  <2>1. PICK k \in 1..(c - 1) : Nth(C, k) = a
    BY <1>5
  <2>2. k \in DOMAIN Split(v) /\ Split(v)[k] = Piece(k)
    BY <1>2, <1>8
  <2>3. Adjacent(a, Nth(C, k + 1), C) /\ Nth(C, k + 1) \in C
    BY <1>4, <2>1 DEF Adjacent
  <2> QED
    BY <2>1, <2>2, <2>3
<1> QED
  BY <1>8, <1>9, <1>10, <1>11 DEF C, n

(* What the loop over the parts accepts, said of the whole text.           *)
Wellformed(v) ==
    /\ v # <<>>
    /\ \A i \in DOMAIN v :
          \/ v[i] \in Digit
          \/ v[i] = Dot /\ i \notin {1, Len(v)} /\ v[i + 1] # Dot

(* parseNumericVersion accepts digits with single dots between them, and   *)
(* nothing else: no part is empty and none has another character           *)
(* (install.go:125-140).                                                   *)
LEMMA AcceptedIsWellformed ==
    ASSUME NEW v \in Seq(Character)
    PROVE  Accepted(v) <=> Wellformed(v)
<1> DEFINE C == Cuts(v)
           n == Len(v) + 1
<1>1. /\ n \in Nat /\ n > 0 /\ DOMAIN v = 1..(n - 1) /\ Len(v) \in Nat
      /\ C \in SUBSET (0..n) /\ 0 \in C /\ n \in C
      /\ \A i \in DOMAIN v : i \in C <=> v[i] = Dot
      /\ \A i \in C \ {0, n} : i \in DOMAIN v /\ v[i] = Dot
  BY DEF Cuts
<1>2. \A a, b \in C : a < b =>
         LET part == SubSeq(v, a + 1, b - 1)
         IN  /\ DOMAIN part = 1..(b - 1 - a)
             /\ \A j \in 1..(b - 1 - a) : part[j] = v[a + j]
  <2> TAKE a \in C, b \in C
  <2> HAVE a < b
  <2> HIDE DEF C
  <2>1. a \in 0..Len(v) /\ b \in 1..(Len(v) + 1)
    BY <1>1
  <2> QED
    BY <2>1
<1> HIDE DEF C, n
<1>3. ASSUME Accepted(v) PROVE Wellformed(v)
  <2>1. ASSUME NEW a \in C \ {n}
        PROVE  \E b \in C : /\ Adjacent(a, b, C) /\ b # a + 1
                            /\ \A i \in (a + 1)..(b - 1) : v[i] \in Digit
    <3>1. PICK k \in DOMAIN Split(v), b \in C :
             Adjacent(a, b, C) /\ Split(v)[k] = SubSeq(v, a + 1, b - 1)
      BY SplitPieces DEF C, n
    <3> DEFINE part == SubSeq(v, a + 1, b - 1)
    <3>2. part # <<>> /\ \A j \in DOMAIN part : part[j] \in Digit
      BY <1>3, <3>1 DEF Accepted, Range
    <3>3. /\ DOMAIN part = 1..(b - 1 - a)
          /\ \A j \in 1..(b - 1 - a) : part[j] = v[a + j]
      BY <1>2, <3>1 DEF Adjacent
    <3>4. a \in Int /\ b \in Int /\ a < b
      BY <1>1, <3>1 DEF Adjacent
    <3> HIDE DEF part
    <3>5. b # a + 1
      <4>1. part \in Seq(Character)
        BY <1>1, <3>4 DEF part
      <4> QED
        BY <3>2, <3>3, <3>4, <4>1
    <3>6. ASSUME NEW i \in (a + 1)..(b - 1) PROVE v[i] \in Digit
      <4>1. i - a \in 1..(b - 1 - a) /\ a + (i - a) = i
        BY <3>4
      <4> QED
        BY <3>2, <3>3, <4>1
    <3> QED
      BY <3>1, <3>5, <3>6
  <2>2. \A a \in C \ {n} : a + 1 \notin C
    <3> SUFFICES ASSUME NEW a \in C \ {n}, a + 1 \in C PROVE FALSE
      OBVIOUS
    <3>1. PICK b \in C : Adjacent(a, b, C) /\ b # a + 1
      BY <2>1
    <3>2. a \in Int /\ b \in Int
      BY <1>1
    <3> QED
      BY <3>1, <3>2 DEF Adjacent
  <2>3. v # <<>>
    <3>1. n # 1
      BY <1>1, <2>2
    <3> QED
      BY <3>1 DEF n
  <2>4. ASSUME NEW i \in DOMAIN v, v[i] # Dot PROVE v[i] \in Digit
    <3> DEFINE S == {i - a : a \in Below(C, i)}
    <3>1. S # {} /\ S \in SUBSET Nat
      BY <1>1 DEF Below
    <3>2. PICK d \in S : \A e \in S : d <= e
      BY <3>1, LeastNatural
    <3>3. PICK a \in Below(C, i) : d = i - a
      BY <3>2
    <3>4. a \in C /\ a < i /\ a \in Int
      BY <1>1, <3>3 DEF Below
    <3>10. ASSUME NEW e \in C, e < i PROVE e <= a
      <4>1. i - e \in S
        BY <3>10 DEF Below
      <4>2. e \in Int /\ i \in Int
        BY <1>1
      <4>3. i - a <= i - e
        BY <3>2, <3>3, <4>1
      <4> QED
        BY <3>4, <4>2, <4>3
    <3>5. a # n
      BY <1>1, <3>4
    <3>6. PICK b \in C : /\ Adjacent(a, b, C)
                         /\ \A x \in (a + 1)..(b - 1) : v[x] \in Digit
      BY <2>1, <3>4, <3>5
    <3>7. a \in Int /\ b \in Int /\ i \in Int /\ a < b
      BY <1>1, <3>6 DEF Adjacent
    <3>8. i \notin C
      BY <1>1, <2>4
    <3>9. i \in (a + 1)..(b - 1)
      BY <3>4, <3>6, <3>7, <3>8, <3>10
    <3> QED
      BY <3>6, <3>9
  <2>5. ASSUME NEW i \in DOMAIN v, v[i] = Dot
        PROVE  i \notin {1, Len(v)} /\ v[i + 1] # Dot
    <3>1. i \in C /\ i \in Int /\ i < n
      BY <1>1, <2>5
    <3>2. i + 1 \notin C
      BY <1>1, <2>2, <3>1
    <3>3. i # 1
      BY <1>1, <2>2, <3>1
    <3>4. i # Len(v)
      BY <1>1, <3>2
    <3>5. i + 1 \in DOMAIN v
      BY <1>1, <3>1, <3>4
    <3> QED
      BY <1>1, <3>2, <3>3, <3>4, <3>5
  <2> QED
    BY <2>3, <2>4, <2>5 DEF Wellformed
<1>4. ASSUME Wellformed(v) PROVE Accepted(v)
  <2> SUFFICES ASSUME NEW k \in DOMAIN Split(v)
               PROVE  Split(v)[k] # <<>> /\ Range(Split(v)[k]) \subseteq Digit
    BY DEF Accepted
  <2>1. PICK a \in C, b \in C :
           Adjacent(a, b, C) /\ Split(v)[k] = SubSeq(v, a + 1, b - 1)
    BY SplitPieces DEF C
  <2> DEFINE part == SubSeq(v, a + 1, b - 1)
  <2>2. /\ DOMAIN part = 1..(b - 1 - a)
        /\ \A j \in 1..(b - 1 - a) : part[j] = v[a + j]
    BY <1>2, <2>1 DEF Adjacent
  <2>3. a \in 0..n /\ b \in 0..n /\ a < b /\ n \in Nat
    BY <1>1, <2>1 DEF Adjacent
  <2> HIDE DEF part
  <2>4. n # 1
    BY <1>1, <1>4 DEF Wellformed, n
  <2>5. b # a + 1
    <3> SUFFICES ASSUME b = a + 1 PROVE FALSE
      OBVIOUS
    <3>1. CASE a = 0
      <4>1. 1 \in DOMAIN v /\ v[1] = Dot
        BY <1>1, <2>3, <2>4, <3>1
      <4> QED
        BY <1>4, <4>1 DEF Wellformed, Digit, Dot
    <3>2. CASE a # 0
      <4>1. a \in DOMAIN v /\ v[a] = Dot
        BY <1>1, <2>3, <3>2
      <4>2. a # Len(v) /\ v[a + 1] # Dot
        <5>1. v[a] \notin Digit
          BY <4>1 DEF Digit, Dot
        <5>2. \/ v[a] \in Digit
              \/ v[a] = Dot /\ a \notin {1, Len(v)} /\ v[a + 1] # Dot
          BY <1>4, <4>1 DEF Wellformed
        <5> QED
          BY <5>1, <5>2
      <4>3. b # n
        <5>1. n = Len(v) + 1 /\ Len(v) \in Int /\ a \in Int
          BY <1>1, <2>3
        <5> QED
          BY <4>2, <5>1
      <4>4. b \in DOMAIN v /\ v[b] = Dot
        BY <1>1, <2>3, <4>3
      <4> QED
        BY <4>2, <4>4
    <3> QED
      BY <3>1, <3>2
  <2>6. \A j \in DOMAIN part : part[j] \in Digit
    <3> TAKE j \in DOMAIN part
    <3> DEFINE i == a + j
    <3>1. j \in 1..(b - 1 - a) /\ part[j] = v[i]
      BY <2>2
    <3>2. i \in DOMAIN v /\ a < i /\ i < b
      BY <1>1, <2>3, <3>1
    <3>3. i \notin C
      BY <2>1, <3>2 DEF Adjacent
    <3> HIDE DEF i
    <3> QED
      BY <1>1, <1>4, <3>1, <3>2, <3>3 DEF Wellformed
  <2>7. part # <<>>
    <3>1. 1 \in DOMAIN part
      BY <2>2, <2>3, <2>5
    <3> QED
      BY <3>1
  <2> QED
    BY <2>1, <2>6, <2>7 DEF Range, part
<1> QED
  BY <1>3, <1>4

-----------------------------------------------------------------------------
(* Induction along an interval of the integers, for a set.                 *)
LEMMA IntervalInduction ==
    ASSUME NEW a \in Int, NEW b \in Int, NEW S, a \in S,
           \A k \in a..(b - 1) : k \in S => k + 1 \in S
    PROVE  \A k \in a..b : k \in S
<1> SUFFICES ASSUME NEW m \in a..b, m \notin S PROVE FALSE
  OBVIOUS
<1> DEFINE T == {d \in Nat : a + d <= b /\ a + d \notin S}
<1>1. m - a \in Nat /\ a + (m - a) = m /\ m <= b
  OBVIOUS
<1>2. T \in SUBSET Nat /\ T # {}
  BY <1>1
<1>3. PICK d \in T : \A e \in T : d <= e
  BY <1>2, LeastNatural
<1>4. d \in Nat /\ a + d <= b /\ a + d \notin S /\ d # 0
  BY <1>3
<1>5. d - 1 \in Nat /\ ~(d <= d - 1) /\ a + (d - 1) \in a..(b - 1)
  BY <1>4
<1>6. a + (d - 1) \in S
  BY <1>3, <1>5
<1>7. (a + (d - 1)) + 1 \in S
  BY <1>5, <1>6
<1> QED
  BY <1>4, <1>7

(* The value of digits, digit by digit. Number is defined by recursion, so *)
(* that there is such a function has to be shown first.                    *)
Accumulates(g, part, n) ==
    g = [k \in 0..n |-> IF k = 0 THEN 0 ELSE 10 * g[k - 1] + part[k]]

(* The recursion of Number defines a function.                             *)
LEMMA AccumulationExists ==
    ASSUME NEW part, NEW n \in Nat
    PROVE  \E g : Accumulates(g, part, n)
<1> DEFINE S == {m \in Nat : \E g : Accumulates(g, part, m)}
<1>1. 0 \in S
  <2> DEFINE g == [k \in 0..0 |-> 0]
  <2>1. g = [k \in 0..0 |-> IF k = 0 THEN 0 ELSE 10 * g[k - 1] + part[k]]
    OBVIOUS
  <2>2. Accumulates(g, part, 0)
    BY <2>1 DEF Accumulates
  <2> QED
    BY <2>2
<1>2. ASSUME NEW m \in 0..(n - 1), m \in S PROVE m + 1 \in S
  <2>1. PICK g : Accumulates(g, part, m)
    BY <1>2
  <2> DEFINE h == [k \in 0..(m + 1) |->
                      IF k <= m THEN g[k] ELSE 10 * g[m] + part[k]]
             next == [k \in 0..(m + 1) |->
                      IF k = 0 THEN 0 ELSE 10 * h[k - 1] + part[k]]
  <2>2. \A k \in 0..m : g[k] = IF k = 0 THEN 0 ELSE 10 * g[k - 1] + part[k]
    BY <2>1 DEF Accumulates
  <2>3. \A k \in 0..m : h[k] = g[k]
    OBVIOUS
  <2>4. h[m + 1] = 10 * g[m] + part[m + 1]
    OBVIOUS
  <2> HIDE DEF h
  <2>5. ASSUME NEW k \in 0..(m + 1)
        PROVE  h[k] = IF k = 0 THEN 0 ELSE 10 * h[k - 1] + part[k]
    <3>1. CASE k \in 0..m
      <4>1. k # 0 => k - 1 \in 0..m
        BY <3>1
      <4> QED
        BY <2>2, <2>3, <3>1, <4>1
    <3>2. CASE k = m + 1
      <4>1. k # 0 /\ k - 1 = m /\ m \in 0..m
        BY <3>2
      <4> QED
        BY <2>3, <2>4, <3>2, <4>1
    <3> QED
      BY <3>1, <3>2
  <2>6. h = next
    <3>1. h = [k \in 0..(m + 1) |-> h[k]]
      BY DEF h
    <3> QED
      BY <2>5, <3>1
  <2>7. Accumulates(h, part, m + 1)
    BY <2>6 DEF Accumulates
  <2> QED
    BY <2>7
<1> HIDE DEF S
<1>3. \A m \in 0..n : m \in S
  BY <1>1, <1>2, IntervalInduction
<1> QED
  BY <1>3 DEF S

Accumulation(g, part) ==
    /\ g \in [0..Len(part) -> Nat] /\ g[0] = 0
    /\ \A k \in 1..Len(part) : g[k] = 10 * g[k - 1] + part[k]

(* Number is the last value of a function that takes one more digit at a   *)
(* time.                                                                   *)
LEMMA NumberAccumulates ==
    ASSUME NEW part \in Seq(Digit)
    PROVE  \E g : Accumulation(g, part) /\ Number(part) = g[Len(part)]
<1> DEFINE n == Len(part)
           g == CHOOSE f : Accumulates(f, part, n)
<1>1. n \in Nat /\ \A k \in 1..n : part[k] \in Nat
  BY DEF Digit
<1>2. Number(part) = g[n]
  BY DEF Number, Accumulates
<1>3. Accumulates(g, part, n)
  BY <1>1, AccumulationExists
<1> HIDE DEF g, n
<1>4. /\ DOMAIN g = 0..n /\ g = [k \in 0..n |-> g[k]]
      /\ \A k \in 0..n : g[k] = IF k = 0 THEN 0 ELSE 10 * g[k - 1] + part[k]
  BY <1>3 DEF Accumulates
<1>10. g[0] = 0 /\ \A k \in 1..n : g[k] = 10 * g[k - 1] + part[k]
  <2>1. 0 \in 0..n
    BY <1>1
  <2>2. g[0] = 0
    BY <1>4, <2>1
  <2>3. ASSUME NEW k \in 1..n PROVE g[k] = 10 * g[k - 1] + part[k]
    <3>1. k \in 0..n /\ k # 0
      BY <1>1
    <3> QED
      BY <1>4, <3>1
  <2> QED
    BY <2>2, <2>3
<1> DEFINE S == {k \in 0..n : g[k] \in Nat}
<1>5. 0 \in S
  <2>1. 0 \in 0..n /\ 0 \in Nat
    BY <1>1
  <2> QED
    BY <1>10, <2>1
<1>6. ASSUME NEW k \in 0..(n - 1), k \in S PROVE k + 1 \in S
  <2>1. k + 1 \in 0..n /\ k + 1 # 0 /\ (k + 1) - 1 = k /\ k + 1 \in 1..n
    BY <1>1
  <2>2. g[k + 1] = 10 * g[k] + part[k + 1]
    BY <1>10, <2>1
  <2>3. g[k] \in Nat /\ part[k + 1] \in Nat
    BY <1>1, <1>6, <2>1
  <2> QED
    BY <2>1, <2>2, <2>3
<1> HIDE DEF S
<1>7. \A k \in 0..n : k \in S
  <2>1. n \in Int
    BY <1>1
  <2> QED
    BY <1>5, <1>6, <2>1, IntervalInduction
<1>8. \A k \in 0..n : g[k] \in Nat
  BY <1>7 DEF S
<1>9. g \in [0..n -> Nat]
  BY <1>4, <1>8
<1> QED
  BY <1>2, <1>9, <1>10 DEF Accumulation, n

(* What TrimZeros returns.                                                 *)
Trimmed(part) ==
    part \in Seq(Digit) /\ part # <<>> /\ (Len(part) = 1 \/ part[1] # 0)

(* The component put in the place of a missing one stands for zero.        *)
LEMMA ZeroIsZero == Trimmed(<<0>>) /\ Number(<<0>>) = 0
<1>1. <<0>> \in Seq(Digit) /\ Len(<<0>>) = 1 /\ (<<0>>)[1] = 0
  BY DEF Digit
<1>2. PICK h : Accumulation(h, <<0>>) /\ Number(<<0>>) = h[Len(<<0>>)]
  BY <1>1, NumberAccumulates
<1>3. h[1] = 10 * h[0] + 0 /\ h[0] = 0
  BY <1>1, <1>2 DEF Accumulation
<1>4. Trimmed(<<0>>)
  BY <1>1 DEF Trimmed
<1> QED
  BY <1>1, <1>2, <1>3, <1>4

(* Without its leading zeros a component means the same number, and a zero *)
(* keeps one digit (install.go:141-144).                                   *)
LEMMA TrimKeepsNumber ==
    ASSUME NEW s \in Seq(Digit)
    PROVE  Trimmed(TrimZeros(s)) /\ Number(TrimZeros(s)) = Number(s)
<1> DEFINE kept == {i \in DOMAIN s : s[i] # 0}
           n == Len(s)
<1>1. n \in Nat /\ DOMAIN s = 1..n /\ \A i \in 1..n : s[i] \in Nat
  BY DEF Digit
<1>2. PICK g : Accumulation(g, s) /\ Number(s) = g[n]
  BY NumberAccumulates
<1>3. /\ g \in [0..n -> Nat] /\ g[0] = 0
      /\ \A k \in 1..n : g[k] = 10 * g[k - 1] + s[k]
  BY <1>2 DEF Accumulation
<1>4. ASSUME NEW m \in 0..n, \A i \in 1..m : s[i] = 0
      PROVE  g[m] = 0
  <2> DEFINE S == {k \in 0..m : g[k] = 0}
  <2>1. 0 \in S
    BY <1>3
  <2>2. ASSUME NEW k \in 0..(m - 1), k \in S PROVE k + 1 \in S
    <3>1. k + 1 \in 1..m /\ k + 1 \in 1..n /\ (k + 1) - 1 = k
      BY <1>1
    <3>2. g[k + 1] = 10 * g[k] + s[k + 1]
      BY <1>3, <3>1
    <3> QED
      BY <1>4, <2>2, <3>1, <3>2
  <2> HIDE DEF S
  <2>3. m \in Int
    BY <1>1
  <2>4. \A k \in 0..m : k \in S
    BY <2>1, <2>2, <2>3, IntervalInduction
  <2>5. m \in 0..m
    BY <1>1
  <2> QED
    BY <2>4, <2>5 DEF S
<1>5. CASE kept = {}
  <2>1. TrimZeros(s) = <<0>>
    BY <1>5 DEF TrimZeros
  <2>2. g[n] = 0
    BY <1>1, <1>4, <1>5
  <2> QED
    BY <1>2, <2>1, <2>2, ZeroIsZero
<1>6. CASE kept # {}
  <2>1. kept \in SUBSET Nat
    BY <1>1
  <2>2. \E i \in kept : \A k \in kept : i <= k
    BY <1>6, <2>1, LeastNatural
  <2> DEFINE f == CHOOSE i \in kept : \A k \in kept : i <= k
             t == SubSeq(s, f, n)
  <2>3. f \in kept /\ \A k \in kept : f <= k
    BY <2>2
  <2>4. TrimZeros(s) = t
    BY <1>6 DEF TrimZeros
  <2> HIDE DEF f
  <2>5. f \in 1..n /\ s[f] # 0 /\ \A i \in 1..(f - 1) : s[i] = 0
    BY <1>1, <2>3
  <2>6. /\ t \in Seq(Digit) /\ Len(t) = n - f + 1
        /\ \A j \in 1..(n - f + 1) : t[j] = s[f + j - 1]
    BY <1>1, <2>5
  <2> HIDE DEF t
  <2>7. Trimmed(t)
    BY <1>1, <2>5, <2>6 DEF Trimmed
  <2>8. PICK h : Accumulation(h, t) /\ Number(t) = h[Len(t)]
    BY <2>6, NumberAccumulates
  <2> DEFINE m == n - f + 1
             S == {k \in 0..m : h[k] = g[k + (f - 1)]}
  <2>9. /\ m \in Int /\ m \in 0..m
        /\ h[0] = 0 /\ \A k \in 1..m : h[k] = 10 * h[k - 1] + t[k]
    BY <1>1, <2>5, <2>6, <2>8 DEF Accumulation
  <2>10. g[f - 1] = 0
    BY <1>1, <1>4, <2>5
  <2>11. 0 \in S
    BY <1>1, <2>5, <2>9, <2>10
  <2>12. ASSUME NEW k \in 0..(m - 1), k \in S PROVE k + 1 \in S
    <3> DEFINE l == k + f
    <3>1. /\ k + 1 \in 1..m /\ (k + 1) - 1 = k /\ k + 1 \in 0..m
          /\ l \in 1..n /\ l - 1 = k + (f - 1) /\ l = (k + 1) + (f - 1)
          /\ f + (k + 1) - 1 = l
      BY <1>1, <2>5
    <3>2. h[k + 1] = 10 * h[k] + t[k + 1]
      BY <2>9, <3>1
    <3>3. t[k + 1] = s[l]
      BY <2>6, <3>1
    <3>4. g[l] = 10 * g[l - 1] + s[l]
      BY <1>3, <3>1
    <3>5. h[k] = g[l - 1]
      BY <2>12, <3>1
    <3>6. h[k + 1] = g[l]
      BY <3>2, <3>3, <3>4, <3>5
    <3> QED
      BY <3>1, <3>6
  <2> HIDE DEF S, m
  <2>13. \A k \in 0..m : k \in S
    <3>1. m \in Int
      BY <2>9
    <3> QED
      BY <2>11, <2>12, <3>1, IntervalInduction
  <2>14. h[m] = g[m + (f - 1)]
    BY <2>9, <2>13 DEF S
  <2>15. m + (f - 1) = n
    BY <1>1, <2>5 DEF m
  <2> QED
    BY <1>2, <2>4, <2>6, <2>7, <2>8, <2>14, <2>15 DEF m
<1> QED
  BY <1>5, <1>6

(* One more digit does not turn a lead.                                    *)
LEMMA OneMoreDigit ==
    ASSUME NEW a \in Nat, NEW b \in Nat, a < b,
           NEW p \in 0..9, NEW q \in 0..9
    PROVE  10 * a + p < 10 * b + q
OBVIOUS

(* Who leads with as many digits to come leads in the end.                 *)
LEMMA LeadIsKept ==
    ASSUME NEW s \in Seq(Digit), NEW t \in Seq(Digit),
           NEW g, Accumulation(g, s), NEW h, Accumulation(h, t),
           NEW d \in Nat, Len(t) = Len(s) + d,
           NEW i \in 0..Len(s), g[i] < h[i + d]
    PROVE  g[Len(s)] < h[Len(t)]
<1> DEFINE n == Len(s)
           S == {k \in i..n : g[k] < h[k + d]}
<1>1. n \in Nat /\ i \in Nat /\ i <= n
  OBVIOUS
<1>2. i \in S
  BY <1>1
<1>3. ASSUME NEW k \in i..(n - 1), k \in S PROVE k + 1 \in S
  <2>1. /\ k \in Nat /\ k + 1 \in 1..n /\ (k + 1) - 1 = k /\ k + 1 \in i..n
        /\ (k + 1) + d \in 1..Len(t) /\ ((k + 1) + d) - 1 = k + d
        /\ k \in 0..n /\ k + d \in 0..Len(t)
    BY <1>1
  <2>2. g[k + 1] = 10 * g[k] + s[k + 1]
    BY <2>1 DEF Accumulation
  <2>3. h[(k + 1) + d] = 10 * h[k + d] + t[(k + 1) + d]
    BY <2>1 DEF Accumulation
  <2>4. s[k + 1] \in 0..9 /\ t[(k + 1) + d] \in 0..9
    <3>1. s[k + 1] \in Digit /\ t[(k + 1) + d] \in Digit
      BY <2>1
    <3> QED
      BY <3>1 DEF Digit
  <2>5. g[k] \in Nat /\ h[k + d] \in Nat
    BY <2>1 DEF Accumulation
  <2>6. g[k] < h[k + d]
    BY <1>3
  <2>7. g[k + 1] < h[(k + 1) + d]
    <3>1. 10 * g[k] + s[k + 1] < 10 * h[k + d] + t[(k + 1) + d]
      BY <2>4, <2>5, <2>6, OneMoreDigit
    <3> QED
      BY <2>2, <2>3, <3>1
  <2> QED
    BY <2>1, <2>7
<1> HIDE DEF S
<1>4. \A k \in i..n : k \in S
  <2>1. i \in Int /\ n \in Int
    BY <1>1
  <2> QED
    BY <1>2, <1>3, <2>1, IntervalInduction
<1>5. n \in i..n
  BY <1>1
<1> QED
  BY <1>4, <1>5 DEF S

(* Comparing lengths, then digits, compares the numbers, however long they *)
(* are: no component is ever converted to an integer that could overflow   *)
(* (install.go:123-124, 165-176).                                          *)
LEMMA ComponentsCompareAsNumbers ==
    ASSUME NEW s, Trimmed(s), NEW t, Trimmed(t), ComponentLess(s, t)
    PROVE  Number(s) < Number(t)
<1>1. /\ s \in Seq(Digit) /\ Len(s) \in Nat /\ Len(s) > 0
      /\ t \in Seq(Digit) /\ Len(t) \in Nat /\ Len(t) > 0
      /\ DOMAIN s = 1..Len(s) /\ DOMAIN t = 1..Len(t)
  BY DEF Trimmed
<1>2. PICK g : Accumulation(g, s) /\ Number(s) = g[Len(s)]
  BY <1>1, NumberAccumulates
<1>3. PICK h : Accumulation(h, t) /\ Number(t) = h[Len(t)]
  BY <1>1, NumberAccumulates
<1>4. g[0] = 0 /\ h[0] = 0
  BY <1>2, <1>3 DEF Accumulation
<1>5. CASE Len(s) < Len(t)
  <2> DEFINE d == Len(t) - Len(s)
             S == {k \in 1..Len(t) : h[k] > 0}
  <2>1. d \in Nat /\ d \in 1..Len(t) /\ Len(t) = Len(s) + d
    BY <1>1, <1>5
  <2>2. t[1] # 0 /\ t[1] \in Nat
    BY <1>1, <1>5 DEF Trimmed, Digit
  <2>3. 1 \in S
    <3>1. h[1] = 10 * h[0] + t[1]
      BY <1>1, <1>3 DEF Accumulation
    <3> QED
      BY <1>1, <1>4, <2>2, <3>1
  <2>4. ASSUME NEW k \in 1..(Len(t) - 1), k \in S PROVE k + 1 \in S
    <3>1. k + 1 \in 1..Len(t) /\ (k + 1) - 1 = k /\ k \in 0..Len(t)
      BY <1>1
    <3>2. h[k + 1] = 10 * h[k] + t[k + 1] /\ h[k] \in Nat
      BY <1>3, <3>1 DEF Accumulation
    <3>3. t[k + 1] \in Nat
      BY <1>1, <3>1 DEF Digit
    <3>4. h[k] > 0
      BY <2>4
    <3>5. h[k + 1] > 0
      BY <3>2, <3>3, <3>4
    <3> QED
      BY <3>1, <3>5
  <2> HIDE DEF S
  <2>5. \A k \in 1..Len(t) : k \in S
    <3>1. 1 \in Int /\ Len(t) \in Int
      BY <1>1
    <3>2. \A k \in 1..(Len(t) - 1) : k \in S => k + 1 \in S
      BY <2>4
    <3> QED
      BY <2>3, <3>1, <3>2, IntervalInduction
  <2>6. h[d] > 0
    BY <2>1, <2>5 DEF S
  <2> HIDE DEF d
  <2>7. 0 \in 0..Len(s) /\ g[0] < h[0 + d]
    BY <1>1, <1>4, <2>1, <2>6
  <2>8. g[Len(s)] < h[Len(t)]
    BY <1>1, <1>2, <1>3, <2>1, <2>7, LeadIsKept
  <2> QED
    BY <1>2, <1>3, <2>8
<1>6. CASE Len(s) = Len(t) /\ StringLess(s, t)
  <2>1. PICK i \in DOMAIN s \intersect DOMAIN t :
           s[i] < t[i] /\ \A k \in 1..(i - 1) : s[k] = t[k]
    BY <1>1, <1>6 DEF StringLess
  <2> DEFINE S == {k \in 0..(i - 1) : g[k] = h[k]}
  <2>2. /\ i \in 1..Len(s) /\ i - 1 \in Int
        /\ i - 1 \in 0..(i - 1) /\ 0 \in 0..(i - 1)
    BY <1>1, <2>1
  <2>3. 0 \in S
    BY <1>4, <2>2
  <2>4. ASSUME NEW k \in 0..((i - 1) - 1), k \in S PROVE k + 1 \in S
    <3>1. /\ k + 1 \in 1..(i - 1) /\ k + 1 \in 0..(i - 1) /\ (k + 1) - 1 = k
          /\ k + 1 \in 1..Len(s) /\ k + 1 \in 1..Len(t)
      BY <1>1, <1>6, <2>2
    <3>2. g[k + 1] = 10 * g[k] + s[k + 1] /\ h[k + 1] = 10 * h[k] + t[k + 1]
      BY <1>2, <1>3, <3>1 DEF Accumulation
    <3>3. g[k] = h[k] /\ s[k + 1] = t[k + 1]
      BY <2>1, <2>4, <3>1
    <3> QED
      BY <3>1, <3>2, <3>3
  <2> HIDE DEF S
  <2>5. \A k \in 0..(i - 1) : k \in S
    <3>1. i - 1 \in Int
      BY <2>2
    <3> QED
      BY <2>3, <2>4, <3>1, IntervalInduction
  <2>6. g[i - 1] = h[i - 1]
    BY <2>2, <2>5 DEF S
  <2>7. /\ g[i] = 10 * g[i - 1] + s[i] /\ h[i] = 10 * h[i - 1] + t[i]
        /\ g[i - 1] \in Nat
    <3>1. i \in 1..Len(s) /\ i \in 1..Len(t) /\ i - 1 \in 0..Len(s)
      BY <1>1, <1>6, <2>2
    <3> QED
      BY <1>2, <1>3, <3>1 DEF Accumulation
  <2>8. s[i] \in Int /\ t[i] \in Int
    BY <1>1, <2>1 DEF Digit
  <2>9. g[i] < h[i]
    BY <2>1, <2>6, <2>7, <2>8
  <2>10. i \in 0..Len(s) /\ g[i] < h[i + 0] /\ Len(t) = Len(s) + 0
    BY <1>1, <1>6, <2>2, <2>9
  <2>11. g[Len(s)] < h[Len(t)]
    BY <1>1, <1>2, <1>3, <2>10, LeadIsKept
  <2> QED
    BY <1>2, <1>3, <2>11
<1> QED
  BY <1>5, <1>6 DEF ComponentLess

-----------------------------------------------------------------------------
(* A component of a version as a number, zero after the last one.          *)
Value(v, i) == IF i <= Len(Split(v)) THEN Number(Split(v)[i]) ELSE 0

(* parseNumericVersion keeps the number of each component                  *)
(* (install.go:130-147).                                                   *)
LEMMA ParsedVersion ==
    ASSUME NEW v \in Seq(Character), Accepted(v)
    PROVE  /\ Parse(v) \in Seq(Part)
           /\ DOMAIN Parse(v) = DOMAIN Split(v)
           /\ DOMAIN Split(v) = 1..Len(Split(v)) /\ Len(Split(v)) \in Nat
           /\ \A i \in Position :
                  /\ Trimmed(Component(Parse(v), i))
                  /\ Number(Component(Parse(v), i)) = Value(v, i)
<1> DEFINE n == Len(Split(v))
<1>1. Split(v) \in Seq(Seq(Character))
  BY SplitPieces
<1>2. n \in Nat /\ DOMAIN Split(v) = 1..n
  BY <1>1
<1>3. \A i \in 1..n : Split(v)[i] \in Seq(Digit)
  <2> TAKE i \in 1..n
  <2> DEFINE part == Split(v)[i]
  <2>1. part \in Seq(Character) /\ Range(part) \subseteq Digit
    BY <1>1, <1>2 DEF Accepted
  <2> HIDE DEF part
  <2>2. \A k \in DOMAIN part : part[k] \in Digit
    BY <2>1 DEF Range
  <2>3. part \in Seq(Digit)
    BY <2>1, <2>2
  <2> QED
    BY <2>3 DEF part
<1> HIDE DEF n
<1>4. \A i \in 1..n : /\ Trimmed(TrimZeros(Split(v)[i]))
                      /\ Number(TrimZeros(Split(v)[i])) = Number(Split(v)[i])
  BY <1>3, TrimKeepsNumber
<1>5. Parse(v) = [i \in 1..n |-> TrimZeros(Split(v)[i])]
  BY <1>2 DEF Parse
<1>6. Parse(v) \in Seq(Part) /\ DOMAIN Parse(v) = 1..n /\ Len(Parse(v)) = n
  <2>1. Parse(v) \in [1..n -> Part]
    BY <1>4, <1>5 DEF Trimmed, Part
  <2> QED
    BY <1>2, <2>1
<1>7. ASSUME NEW i \in Position
      PROVE  /\ Trimmed(Component(Parse(v), i))
             /\ Number(Component(Parse(v), i)) = Value(v, i)
  <2>1. CASE i <= n
    <3>1. i \in 1..n
      BY <1>2, <2>1 DEF Position
    <3>2. Component(Parse(v), i) = TrimZeros(Split(v)[i])
      BY <1>5, <1>6, <2>1, <3>1 DEF Component
    <3>3. Value(v, i) = Number(Split(v)[i])
      BY <2>1 DEF Value, n
    <3> QED
      BY <1>4, <3>1, <3>2, <3>3
  <2>2. CASE ~(i <= n)
    <3>1. Component(Parse(v), i) = <<0>> /\ Value(v, i) = 0
      BY <1>6, <2>2 DEF Component, Value, n
    <3> QED
      BY <3>1, ZeroIsZero
  <2> QED
    BY <2>1, <2>2
<1> QED
  BY <1>2, <1>6, <1>7

(* The names that findStableInRoot takes for versions (install.go:65-74).  *)
Numbered == {n \in Name : n.prefix = "app-" /\ Accepted(n.version)}
NumberedOrder == {p \in Numbered \X Numbered : SortsBefore(p[1], p[2])}

(* A version is told apart from the others by its text alone.              *)
LEMMA NumberedVersion ==
    ASSUME NEW n \in Numbered
    PROVE  /\ n.version \in Seq(Character)
           /\ n = [prefix |-> "app-", version |-> n.version]
           /\ Accepted(n.version)
BY NameAssumption DEF Numbered, Character

(* The sort compares by a strict total order: equal versions under         *)
(* different names are told apart, so the last one does not depend on the  *)
(* order of the directory (install.go:104-110).                            *)
LEMMA NumberedOrdered == StrictlyOrders(NumberedOrder, Numbered)
<1> DEFINE F(n) == Components(Parse(n.version))
           Before(m, n) == FirstDiffers(F(m), F(n), PartOrder)
<1>1. /\ NumberedOrder \subseteq Numbered \X Numbered
      /\ \A m, n \in Numbered :
             <<m, n>> \in NumberedOrder <=> SortsBefore(m, n)
  BY DEF NumberedOrder
<1>2. \A n \in Numbered : n.version \in Seq(Character) /\ Accepted(n.version)
  BY NumberedVersion
<1>3. \A n \in Numbered : Parse(n.version) \in Seq(Part)
  BY <1>2, ParsedVersion
<1>4. \A n \in Numbered : F(n) \in [Position -> Part]
  BY <1>3, OlderIsLexicographic
<1>5. \A m, n \in Numbered :
         Older(Parse(m.version), Parse(n.version)) <=> Before(m, n)
  BY <1>3, OlderIsLexicographic
<1>6. \A a, b, c \in Numbered :
         /\ ~Before(a, a)
         /\ Before(a, b) /\ Before(b, c) => Before(a, c)
         /\ F(a) = F(b) \/ Before(a, b) \/ Before(b, a)
  <2> HIDE DEF F
  <2> QED
    BY <1>4, PartOrdered, Lexicographic
<1>7. \A a, b, c \in Numbered : F(a) = F(b) => /\ Before(a, c) <=> Before(b, c)
                                               /\ Before(c, a) <=> Before(c, b)
  OBVIOUS
<1> HIDE DEF F, Before
<1>8. \A m, n \in Numbered : SortsBefore(m, n) <=>
         \/ Before(m, n)
         \/ F(m) = F(n) /\ StringLess(m.version, n.version)
  <2> TAKE m \in Numbered, n \in Numbered
  <2>1. SortsBefore(m, n) <=>
           Before(m, n) \/ (~Before(n, m) /\ StringLess(m.version, n.version))
    BY <1>5 DEF SortsBefore
  <2>2. F(m) = F(n) => ~Before(n, m)
    BY <1>6, <1>7
  <2> QED
    BY <1>6, <2>1, <2>2
<1>9. \A a, b, c \in Numbered :
         /\ ~StringLess(a.version, a.version)
         /\ /\ StringLess(a.version, b.version)
            /\ StringLess(b.version, c.version)
            => StringLess(a.version, c.version)
         /\ \/ a.version = b.version
            \/ StringLess(a.version, b.version)
            \/ StringLess(b.version, a.version)
  BY <1>2, StringOrder
<1>10. \A a, b \in Numbered : a.version = b.version => a = b
  BY NumberedVersion
<1>11. ASSUME NEW a \in Numbered, NEW b \in Numbered, NEW c \in Numbered
       PROVE  /\ ~SortsBefore(a, a)
              /\ SortsBefore(a, b) /\ SortsBefore(b, c) => SortsBefore(a, c)
              /\ a = b \/ SortsBefore(a, b) \/ SortsBefore(b, a)
  <2>1. ~SortsBefore(a, a)
    BY <1>6, <1>8, <1>9
  <2>2. ASSUME SortsBefore(a, b), SortsBefore(b, c) PROVE SortsBefore(a, c)
    <3>1. CASE Before(a, b)
      BY <1>6, <1>7, <1>8, <2>2, <3>1
    <3>2. CASE F(a) = F(b) /\ StringLess(a.version, b.version)
      BY <1>7, <1>8, <1>9, <2>2, <3>2
    <3> QED
      BY <1>8, <2>2, <3>1, <3>2
  <2>3. a = b \/ SortsBefore(a, b) \/ SortsBefore(b, a)
    BY <1>6, <1>8, <1>9, <1>10
  <2> QED
    BY <2>1, <2>2, <2>3
<1> QED
  BY <1>1, <1>11 DEF StrictlyOrders

(* A version that is newer by its numbers sorts later (install.go:104-110, *)
(* 150-179).                                                               *)
LEMMA NewerSortsLater ==
    ASSUME NEW m \in Numbered, NEW n \in Numbered, Newer(m, n)
    PROVE  SortsBefore(n, m)
<1> DEFINE M(i) == Component(Parse(m.version), i)
           N(i) == Component(Parse(n.version), i)
           Index == DOMAIN Split(m.version) \union DOMAIN Split(n.version)
<1>1. PICK i \in Index :
         /\ Value(m.version, i) > Value(n.version, i)
         /\ \A k \in Index : k < i => Value(m.version, k) = Value(n.version, k)
  BY DEF Newer, Value
<1>2. /\ m.version \in Seq(Character) /\ Accepted(m.version)
      /\ n.version \in Seq(Character) /\ Accepted(n.version)
  BY NumberedVersion
<1>3. /\ DOMAIN Parse(m.version) = DOMAIN Split(m.version)
      /\ DOMAIN Parse(n.version) = DOMAIN Split(n.version)
      /\ DOMAIN Split(m.version) = 1..Len(Split(m.version))
      /\ DOMAIN Split(n.version) = 1..Len(Split(n.version))
  BY <1>2, ParsedVersion
<1>4. \A k \in Position :
         /\ Trimmed(M(k)) /\ Number(M(k)) = Value(m.version, k)
         /\ Trimmed(N(k)) /\ Number(N(k)) = Value(n.version, k)
  BY <1>2, ParsedVersion
<1> HIDE DEF M, N
<1>5. ASSUME NEW k \in Position
      PROVE  \/ M(k) = N(k)
             \/ /\ ComponentLess(M(k), N(k))
                /\ Value(m.version, k) < Value(n.version, k)
             \/ /\ ComponentLess(N(k), M(k))
                /\ Value(n.version, k) < Value(m.version, k)
  <2>1. M(k) \in Part /\ N(k) \in Part
    BY <1>4 DEF Trimmed, Part
  <2>2. M(k) = N(k) \/ ComponentLess(M(k), N(k)) \/ ComponentLess(N(k), M(k))
    BY <2>1, PartOrdered DEF StrictlyOrders, PartOrder
  <2>3. ComponentLess(M(k), N(k)) => Number(M(k)) < Number(N(k))
    BY <1>4, ComponentsCompareAsNumbers
  <2>4. ComponentLess(N(k), M(k)) => Number(N(k)) < Number(M(k))
    BY <1>4, ComponentsCompareAsNumbers
  <2> QED
    BY <1>4, <2>2, <2>3, <2>4
<1>6. \A k \in Position :
         Value(m.version, k) \in Nat /\ Value(n.version, k) \in Nat
  <2> TAKE k \in Position
  <2>1. M(k) \in Seq(Digit) /\ N(k) \in Seq(Digit)
    BY <1>4 DEF Trimmed
  <2>2. \A part \in Seq(Digit) : Number(part) \in Nat
    <3> TAKE part \in Seq(Digit)
    <3>1. PICK g : Accumulation(g, part) /\ Number(part) = g[Len(part)]
      BY NumberAccumulates
    <3> QED
      BY <3>1 DEF Accumulation
  <2> QED
    BY <1>4, <2>1, <2>2
<1>7. /\ i \in Position
      /\ \A k \in 1..(i - 1) : k \in Position /\ k \in Index /\ k < i
  BY <1>3 DEF Position
<1>8. ComponentLess(N(i), M(i))
  BY <1>1, <1>4, <1>5, <1>6, <1>7
<1>9. \A k \in 1..(i - 1) : N(k) = M(k)
  BY <1>1, <1>5, <1>6, <1>7
<1>10. i \in DOMAIN Parse(n.version) \union DOMAIN Parse(m.version)
  BY <1>3
<1>11. Older(Parse(n.version), Parse(m.version))
  BY <1>8, <1>9, <1>10 DEF Older, M, N
<1> QED
  BY <1>11 DEF SortsBefore

-----------------------------------------------------------------------------
(* A finite set in a strict total order has a greatest element.            *)
LEMMA GreatestExists ==
    ASSUME NEW T, NEW R, StrictlyOrders(R, T),
           NEW S \in SUBSET T, IsFiniteSet(S), S # {}
    PROVE  \E x \in S : \A y \in S \ {x} : <<y, x>> \in R
<1> DEFINE Before(x) == {y \in S : <<y, x>> \in R}
           c == Cardinality(S)
           rank == [x \in S |-> Cardinality(Before(x))]
<1>1. c \in Nat /\ c # 0
  BY FS_CardinalityType, FS_EmptySet
<1>2. \A x \in S : Before(x) \in SUBSET (S \ {x})
  BY DEF StrictlyOrders
<1>3. \A x \in S : /\ IsFiniteSet(S \ {x}) /\ Cardinality(S \ {x}) = c - 1
  BY FS_RemoveElement
<1>4. \A x \in S :
         IsFiniteSet(Before(x)) /\ Cardinality(Before(x)) \in 0..(c - 1)
  <2> TAKE x \in S
  <2> HIDE DEF Before, c
  <2>1. IsFiniteSet(Before(x)) /\ Cardinality(Before(x)) <= c - 1
    <3>1. /\ Before(x) \in SUBSET (S \ {x}) /\ IsFiniteSet(S \ {x})
          /\ Cardinality(S \ {x}) = c - 1
      BY <1>2, <1>3
    <3>2. /\ IsFiniteSet(Before(x))
          /\ Cardinality(Before(x)) <= Cardinality(S \ {x})
      BY <3>1, FS_Subset
    <3> QED
      BY <3>1, <3>2
  <2>2. Cardinality(Before(x)) \in Nat
    BY <2>1, FS_CardinalityType
  <2> QED
    BY <1>1, <2>1, <2>2
<1>5. ASSUME NEW x \in S, NEW y \in S, <<x, y>> \in R
      PROVE  Cardinality(Before(x)) # Cardinality(Before(y))
  <2>1. x \in Before(y) /\ x \notin Before(x)
    BY <1>2, <1>5
  <2>2. Before(x) \in SUBSET Before(y)
    BY <1>5 DEF StrictlyOrders
  <2> HIDE DEF Before
  <2>3. Cardinality(Before(y)) = Cardinality(Before(x)) =>
           Before(y) = Before(x)
    BY <1>4, <2>2, FS_Subset
  <2> QED
    BY <2>1, <2>3
<1>6. rank \in Injection(S, 0..(c - 1))
  <2>1. \A x, y \in S : rank[x] = rank[y] => x = y
    <3> SUFFICES ASSUME NEW x \in S, NEW y \in S, rank[x] = rank[y], x # y
                 PROVE  FALSE
      OBVIOUS
    <3>1. <<x, y>> \in R \/ <<y, x>> \in R
      BY DEF StrictlyOrders
    <3>2. Cardinality(Before(x)) = Cardinality(Before(y))
      OBVIOUS
    <3> QED
      BY <1>5, <3>1, <3>2
  <2>2. rank \in [S -> 0..(c - 1)]
    BY <1>4
  <2> QED
    BY <2>1, <2>2 DEF Injection, IsInjective
<1>7. rank \in Surjection(S, 0..(c - 1))
  <2>1. IsFiniteSet(0..(c - 1)) /\ Cardinality(0..(c - 1)) = c
    <3>1. 0 \in Int /\ c - 1 \in Int /\ 0 <= c - 1 /\ (c - 1) - 0 + 1 = c
      BY <1>1
    <3> HIDE DEF c
    <3> QED
      BY <1>1, <3>1, FS_Interval
  <2> HIDE DEF rank
  <2>2. Cardinality(S) = Cardinality(0..(c - 1))
    BY <2>1
  <2> QED
    BY <1>6, <2>1, <2>2, FS_Injection
<1>8. PICK x \in S : rank[x] = c - 1
  <2>1. c - 1 \in 0..(c - 1)
    BY <1>1
  <2> HIDE DEF rank
  <2> QED
    BY <1>7, <2>1 DEF Surjection
<1>9. Cardinality(Before(x)) = Cardinality(S \ {x})
  BY <1>3, <1>8
<1>10. Before(x) = S \ {x}
  <2> HIDE DEF Before
  <2> QED
    BY <1>2, <1>3, <1>9, FS_Subset
<1> QED
  BY <1>10

(* A name is a version if the loop over the entries takes it for one       *)
(* (install.go:65-74).                                                     *)
LEMMA VersionsAreNumbered ==
    ASSUME NEW n \in Name PROVE IsVersion(n) <=> n \in Numbered
<1>1. n.version \in Seq(Character)
  BY NameAssumption DEF Character
<1>2. Accepted(n.version) <=> Wellformed(n.version)
  BY <1>1, AcceptedIsWellformed
<1> QED
  BY <1>2 DEF IsVersion, Wellformed, Numbered

(* The invariant. While the entries are looked into, a version that was    *)
(* complete all the time is still listed or already a candidate; the       *)
(* selected one is the greatest candidate.                                 *)
Types ==
    /\ root \in [Name -> {"absent", "partial", "complete"}]
    /\ pc \in {"entry", "scanning", "found", "failed"}
    /\ entries \subseteq Name
    /\ candidates \subseteq seen \intersect Numbered
    /\ steady \subseteq seen /\ seen \subseteq Name
    /\ changes \in 0..MaxChanges

ScanInv ==
    /\ pc = "entry" => steady = {} /\ seen = {}
    /\ pc = "scanning" =>
           /\ Complete \subseteq seen /\ steady \subseteq Complete
           /\ steady \intersect Numbered \subseteq entries \union candidates
    /\ pc = "failed" => steady \intersect Numbered = {}
    /\ pc = "found" =>
           /\ steady \intersect Numbered \subseteq candidates
           /\ \E x \in candidates :
                  /\ selected = {x}
                  /\ \A m \in candidates \ {x} : SortsBefore(m, x)
    /\ pc # "found" => selected = {}

IInv == Types /\ ScanInv

(* The invariant holds before the directories are listed.                  *)
LEMMA InitInvariant == Init => IInv
BY BoundAssumption DEF Init, IInv, Types, ScanInv

(* What Update.exe changes was not complete all the time any more.         *)
LEMMA UpdateKeeps == ASSUME IInv, Update PROVE IInv'
<1>1. PICK n \in Name, state \in {"absent", "partial", "complete"} :
         /\ root[n] # state
         /\ root' = [root EXCEPT ![n] = state]
         /\ steady' = steady \ {n}
         /\ seen' = IF state = "complete" THEN seen \union {n} ELSE seen
  BY DEF Update
<1>2. /\ pc = "scanning" /\ changes < MaxChanges /\ changes' = changes + 1
      /\ UNCHANGED <<pc, entries, candidates, selected>>
  BY DEF Update, scanVars
<1>3. Types'
  BY <1>1, <1>2, BoundAssumption DEF IInv, Types
<1>4. Complete' \subseteq seen' /\ steady' \subseteq Complete'
  BY <1>1, <1>2 DEF IInv, ScanInv, Complete
<1>5. ScanInv'
  BY <1>1, <1>2, <1>4 DEF IInv, ScanInv
<1> QED
  BY <1>3, <1>5 DEF IInv

(* The listing has every version that is complete when it is made          *)
(* (install.go:54).                                                        *)
LEMMA ReadDirKeeps == ASSUME IInv, ReadDir PROVE IInv'
<1>1. Types'
  BY DEF IInv, Types, ReadDir, Complete
<1>2. Complete' = Complete
  BY DEF ReadDir, Complete
<1>3. Complete \subseteq {n \in Name : Present(n)}
  BY DEF Complete, Present
<1>4. ScanInv'
  BY <1>2, <1>3 DEF IInv, ScanInv, ReadDir
<1> QED
  BY <1>1, <1>4 DEF IInv

(* A complete version becomes a candidate when it is looked into           *)
(* (install.go:64-88).                                                     *)
LEMMA StatKeeps == ASSUME IInv, NEW n \in Name, Stat(n) PROVE IInv'
<1>1. /\ pc = "scanning" /\ entries' = entries \ {n}
      /\ UNCHANGED <<root, pc, selected, steady, seen, changes>>
  BY DEF Stat
<1>2. candidates' = IF n \in Numbered /\ root[n] = "complete"
                    THEN candidates \union {n} ELSE candidates
  BY DEF Stat, Numbered
<1>3. Complete' = Complete
  BY <1>1 DEF Complete
<1>4. root[n] = "complete" => n \in seen
  BY <1>1 DEF IInv, ScanInv, Complete
<1>5. Types'
  BY <1>1, <1>2, <1>4 DEF IInv, Types
<1>6. n \in steady => root[n] = "complete"
  BY <1>1 DEF IInv, ScanInv, Complete
<1>7. ScanInv'
  BY <1>1, <1>2, <1>3, <1>6 DEF IInv, ScanInv
<1> QED
  BY <1>5, <1>7 DEF IInv

(* The last after the sort is the only greatest (install.go:90-111).       *)
LEMMA SelectKeeps == ASSUME IInv, Select PROVE IInv'
<1>1. /\ pc = "scanning" /\ entries = {}
      /\ pc' = IF candidates = {} THEN "failed" ELSE "found"
      /\ selected' = {n \in candidates :
                          \A m \in candidates \ {n} : SortsBefore(m, n)}
      /\ UNCHANGED <<root, entries, candidates, steady, seen, changes>>
  BY DEF Select
<1>2. Types'
  BY <1>1 DEF IInv, Types
<1>3. steady \intersect Numbered \subseteq candidates
  BY <1>1 DEF IInv, ScanInv
<1>4. CASE candidates = {}
  BY <1>1, <1>2, <1>3, <1>4 DEF IInv, ScanInv
<1>5. CASE candidates # {}
  <2>1. candidates \in SUBSET Numbered
    BY DEF IInv, Types
  <2>2. IsFiniteSet(candidates)
    <3>1. candidates \in SUBSET Name
      BY <2>1 DEF Numbered
    <3> QED
      BY <3>1, NameAssumption, FS_Subset
  <2>3. PICK x \in candidates :
           \A m \in candidates \ {x} : <<m, x>> \in NumberedOrder
    BY <1>5, <2>1, <2>2, NumberedOrdered, GreatestExists
  <2>4. \A m \in candidates \ {x} : SortsBefore(m, x)
    BY <2>3 DEF NumberedOrder
  <2>5. \A m \in candidates \ {x} : ~SortsBefore(x, m)
    <3>1. \A m \in candidates :
             <<x, m>> \in NumberedOrder <=> SortsBefore(x, m)
      BY <2>1 DEF NumberedOrder
    <3> QED
      BY <2>1, <2>3, <3>1, NumberedOrdered DEF StrictlyOrders
  <2>6. selected' = {x}
    BY <1>1, <2>4, <2>5
  <2> QED
    BY <1>1, <1>2, <1>3, <1>5, <2>4, <2>6 DEF IInv, ScanInv
<1> QED
  BY <1>4, <1>5

(* Every step keeps the invariant.                                         *)
LEMMA NextInvariant == IInv /\ [Next]_vars => IInv'
<1> SUFFICES ASSUME IInv, [Next]_vars PROVE IInv'
  OBVIOUS
<1>1. CASE Unreadable
  BY <1>1 DEF IInv, Types, ScanInv, Unreadable
<1>2. CASE UNCHANGED vars
  BY <1>2 DEF IInv, Types, ScanInv, vars, scanVars, Complete
<1>3. CASE Terminated
  BY <1>2, <1>3 DEF Terminated
<1> QED
  BY <1>1, <1>2, <1>3, UpdateKeeps, ReadDirKeeps, StatKeeps, SelectKeeps
     DEF Next

(* Every reachable state is well typed; in particular exactly one          *)
(* installation is selected, however many names stand for the same version *)
(* (install.go:104-111).                                                   *)
THEOREM TypeCorrect == Spec => []TypeOK
<1>1. IInv => TypeOK
  <2> SUFFICES ASSUME IInv PROVE TypeOK
    OBVIOUS
  <2>1. Cardinality(selected) = IF pc = "found" THEN 1 ELSE 0
    BY FS_Singleton, FS_EmptySet DEF IInv, ScanInv
  <2>2. selected \subseteq candidates
    BY DEF IInv, ScanInv
  <2> QED
    BY <2>1, <2>2 DEF IInv, Types, TypeOK
<1> QED
  BY InitInvariant, NextInvariant, <1>1, PTL DEF Spec

(* What is found was complete during the scan, no version that was there   *)
(* all the time is newer by its numbers, its processes are recognised, and *)
(* "not installed" is said only when no version was there all the time     *)
(* (install.go:64-111, 150-179, client.go:86-103).                         *)
THEOREM Newest == Spec => []FindsNewest
<1>1. IInv => FindsNewest
  <2> SUFFICES ASSUME IInv PROVE FindsNewest
    OBVIOUS
  <2>1. steady \subseteq Name /\ candidates \subseteq Name
    BY DEF IInv, Types
  <2>2. ASSUME pc = "found", NEW n \in selected
        PROVE  /\ IsVersion(n) /\ n \in seen /\ IsStableImage(n)
               /\ \A m \in steady : IsVersion(m) => ~Newer(m, n)
    <3>1. /\ n \in candidates
          /\ \A m \in candidates \ {n} : SortsBefore(m, n)
          /\ steady \intersect Numbered \subseteq candidates
      BY <2>2 DEF IInv, ScanInv
    <3>2. n \in seen /\ n \in Numbered /\ n \in Name
      BY <2>1, <3>1 DEF IInv, Types
    <3>3. IsVersion(n)
      BY <3>2, VersionsAreNumbered
    <3>4. IsStableImage(n)
      BY <3>2, <3>3 DEF IsStableImage, IsVersion, Numbered
    <3>5. ASSUME NEW m \in steady, IsVersion(m), Newer(m, n) PROVE FALSE
      <4>1. m \in Numbered /\ m \in candidates
        BY <2>1, <3>1, <3>5, VersionsAreNumbered
      <4>2. SortsBefore(n, m)
        BY <3>2, <3>5, <4>1, NewerSortsLater
      <4>3. <<n, m>> \in NumberedOrder
        BY <3>2, <4>1, <4>2 DEF NumberedOrder
      <4>4. m = n \/ <<m, n>> \in NumberedOrder
        BY <3>1, <3>2, <4>1 DEF NumberedOrder
      <4> QED
        BY <3>2, <4>1, <4>3, <4>4, NumberedOrdered DEF StrictlyOrders
    <3> QED
      BY <3>2, <3>3, <3>4, <3>5
  <2>3. pc = "failed" => ~\E m \in steady : IsVersion(m)
    BY <2>1, VersionsAreNumbered DEF IInv, ScanInv
  <2> QED
    BY <2>2, <2>3 DEF FindsNewest
<1> QED
  BY InitInvariant, NextInvariant, <1>1, PTL DEF Spec
=============================================================================
