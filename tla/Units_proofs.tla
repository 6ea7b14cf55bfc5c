----------------------------- MODULE Units_proofs -----------------------------
(***************************************************************************)
(* Lemmas about sums: what becomes of one where one of the numbers changes *)
(* and what bounds it.                                                     *)
(***************************************************************************)
EXTENDS Units, FiniteSetTheorems, TLAPS

LEMMA UnitOf ==
  ASSUME NEW S, NEW f, NEW u
  PROVE  u \in Units(S, f) <=> \E s \in S : \E i \in 1 .. f[s] : u = <<s, i>>
  BY DEF Units

LEMMA UnitsOfOne ==
  ASSUME NEW s, NEW m \in Nat, NEW n \in Nat, m <= n
  PROVE  /\ IsFiniteSet({s} \X ((m + 1) .. n))
         /\ Cardinality({s} \X ((m + 1) .. n)) = n - m
<1> DEFINE k == m + 1
<1>1. k \in Int /\ n \in Int
  OBVIOUS
<1>2. (IF k > n THEN 0 ELSE n - k + 1) = n - m
  OBVIOUS
<1> HIDE DEF k
<1>3. IsFiniteSet(k .. n) /\ Cardinality(k .. n) = IF k > n THEN 0 ELSE n - k + 1
  BY <1>1, FS_Interval
<1>4. IsFiniteSet({s}) /\ Cardinality({s}) = 1
  BY FS_Singleton
<1>5. IsFiniteSet({s} \X (k .. n)) /\ Cardinality({s} \X (k .. n)) = 1 * Cardinality(k .. n)
  BY <1>3, <1>4, FS_Product
<1>6. Cardinality({s} \X (k .. n)) = n - m
  BY <1>2, <1>3, <1>5
<1> QED BY <1>5, <1>6 DEF k

\* Where all but one count the same, so do the sums but for the difference.
LEMMA OneCountsMore ==
  ASSUME NEW S, NEW f, NEW g, NEW s \in S, f[s] \in Nat, g[s] \in Nat, f[s] <= g[s],
         \A r \in S : r # s => g[r] = f[r], IsFiniteSet(Units(S, f))
  PROVE  /\ IsFiniteSet(Units(S, g))
         /\ Cardinality(Units(S, g)) = Cardinality(Units(S, f)) + (g[s] - f[s])
<1> DEFINE D == (f[s] + 1) .. g[s]
           E == {s} \X D
<1>3. IsFiniteSet(E) /\ Cardinality(E) = g[s] - f[s]
  BY UnitsOfOne
<1>4. ASSUME NEW u
      PROVE  u \in Units(S, g) <=> u \in Units(S, f) \cup E
  <2>1. u \in Units(S, g) => u \in Units(S, f) \cup E
    <3> SUFFICES ASSUME NEW r \in S, NEW i \in 1 .. g[r], u = <<r, i>>
                 PROVE  u \in Units(S, f) \cup E
      BY UnitOf
    <3>1. CASE r # s
      BY <3>1, UnitOf
    <3>2. CASE r = s /\ i <= f[s]
      <4>1. i \in 1 .. f[s]
        BY <3>2
      <4> QED BY <3>2, <4>1, UnitOf
    <3>3. CASE r = s /\ ~(i <= f[s])
      <4>1. i \in D
        BY <3>3
      <4> QED BY <3>3, <4>1
    <3> QED BY <3>1, <3>2, <3>3
  <2>2. u \in Units(S, f) => u \in Units(S, g)
    <3> SUFFICES ASSUME NEW r \in S, NEW i \in 1 .. f[r], u = <<r, i>>
                 PROVE  \E x \in S : \E j \in 1 .. g[x] : u = <<x, j>>
      BY UnitOf
    <3>1. i \in 1 .. g[r]
      BY DEF D
    <3> QED BY <3>1
  <2>3. u \in E => u \in Units(S, g)
    <3> SUFFICES ASSUME NEW i \in D, u = <<s, i>>
                 PROVE  \E x \in S : \E j \in 1 .. g[x] : u = <<x, j>>
      BY UnitOf
    <3>1. i \in 1 .. g[s]
      OBVIOUS
    <3> QED BY <3>1
  <2> QED BY <2>1, <2>2, <2>3
<1>5. Units(S, g) = Units(S, f) \cup E
  BY <1>4
<1>6. Units(S, f) \cap E = {}
  <2> SUFFICES ASSUME NEW u \in Units(S, f), u \in E PROVE FALSE
    OBVIOUS
  <2> PICK r \in S : \E i \in 1 .. f[r] : u = <<r, i>>
    BY UnitOf
  <2>1. PICK i \in 1 .. f[r] : u = <<r, i>>
    OBVIOUS
  <2>2. PICK j \in D : u = <<s, j>>
    OBVIOUS
  <2> QED BY <2>1, <2>2
<1>7. Cardinality({}) = 0
  BY FS_EmptySet
<1> HIDE DEF E
<1>8. Cardinality(Units(S, f)) \in Nat
  BY FS_CardinalityType
<1>9. /\ IsFiniteSet(Units(S, f) \cup E)
      /\ Cardinality(Units(S, f) \cup E) = Cardinality(Units(S, f)) + Cardinality(E)
                                                  - Cardinality(Units(S, f) \cap E)
  BY <1>3, FS_Union
<1>10. Cardinality(Units(S, f) \cap E) = 0
  BY <1>6, <1>7
<1> QED BY <1>3, <1>5, <1>8, <1>9, <1>10

\* Counting at most as much, but for one that may count up to m.
LEMMA SumBound ==
  ASSUME NEW S, NEW f, NEW g, NEW s, NEW m \in Nat, f[s] \in Nat, f[s] <= m, g[s] \in Int, g[s] <= m,
         \A r \in S : r # s => f[r] \in Int /\ g[r] \in Int /\ g[r] <= f[r],
         IsFiniteSet(Units(S, f))
  PROVE  /\ Cardinality(Units(S, g)) \in Nat
         /\ Cardinality(Units(S, g)) <= Cardinality(Units(S, f)) + (m - f[s])
<1> DEFINE D == (f[s] + 1) .. m
           E == {s} \X D
<1>3. IsFiniteSet(E) /\ Cardinality(E) = m - f[s]
  BY UnitsOfOne
<1>4. ASSUME NEW u \in Units(S, g)
      PROVE  u \in Units(S, f) \cup E
  <2> PICK r \in S : \E i \in 1 .. g[r] : u = <<r, i>>
    BY UnitOf
  <2>1. PICK i \in 1 .. g[r] : u = <<r, i>>
    OBVIOUS
  <2>2. CASE r # s
    <3>1. i \in 1 .. f[r]
      BY <2>2
    <3> QED BY <2>1, <3>1, UnitOf
  <2>3. CASE r = s /\ i <= f[s]
    <3>1. i \in 1 .. f[s]
      BY <2>3
    <3> QED BY <2>1, <2>3, <3>1, UnitOf
  <2>4. CASE r = s /\ ~(i <= f[s])
    <3>1. i \in D
      BY <2>4
    <3> QED BY <2>1, <2>4, <3>1
  <2> QED BY <2>2, <2>3, <2>4
<1> HIDE DEF E
<1>5. Units(S, g) \in SUBSET (Units(S, f) \cup E)
  BY <1>4
<1>6. /\ IsFiniteSet(Units(S, f) \cup E)
      /\ Cardinality(Units(S, f) \cup E) =
           Cardinality(Units(S, f)) + Cardinality(E) - Cardinality(Units(S, f) \cap E)
  BY <1>3, FS_Union
<1>7. Cardinality(Units(S, g)) <= Cardinality(Units(S, f) \cup E)
  BY <1>5, <1>6, FS_Subset
<1>8. Cardinality(Units(S, f) \cap E) \in Nat /\ Cardinality(Units(S, f)) \in Nat
  BY <1>3, FS_Intersection, FS_CardinalityType
<1>9. Cardinality(Units(S, g)) \in Nat
  BY <1>5, <1>6, FS_Subset, FS_CardinalityType
<1> QED BY <1>3, <1>6, <1>7, <1>8, <1>9

LEMMA NoneCountsMore ==
  ASSUME NEW S, NEW f, NEW g, IsFiniteSet(Units(S, f)),
         \A r \in S : f[r] \in Int /\ g[r] \in Int /\ g[r] <= f[r]
  PROVE  /\ IsFiniteSet(Units(S, g))
         /\ Cardinality(Units(S, g)) \in Nat
         /\ Cardinality(Units(S, g)) <= Cardinality(Units(S, f))
<1>1. ASSUME NEW u \in Units(S, g)
      PROVE  u \in Units(S, f)
  <2> PICK r \in S : \E i \in 1 .. g[r] : u = <<r, i>>
    BY UnitOf
  <2>1. PICK i \in 1 .. g[r] : u = <<r, i>>
    OBVIOUS
  <2>2. i \in 1 .. f[r]
    OBVIOUS
  <2> QED BY <2>1, <2>2, UnitOf
<1>2. Units(S, g) \in SUBSET Units(S, f)
  BY <1>1
<1> QED BY <1>2, FS_Subset, FS_CardinalityType

LEMMA SameSum ==
  ASSUME NEW S, NEW f, NEW g, \A s \in S : g[s] = f[s]
  PROVE  Units(S, g) = Units(S, f)
<1>1. \A u : u \in Units(S, g) <=> u \in Units(S, f)
  BY UnitOf
<1> QED BY <1>1

\* Nothing is counted where every weight is zero.
LEMMA NothingCounted ==
  ASSUME NEW S, NEW f, \A s \in S : f[s] = 0
  PROVE  IsFiniteSet(Units(S, f)) /\ Cardinality(Units(S, f)) = 0
<1>1. \A u : u \notin Units(S, f)
  <2> SUFFICES ASSUME NEW s \in S, NEW i \in 1 .. f[s]
               PROVE  FALSE
    BY UnitOf
  <2> QED OBVIOUS
<1>2. Units(S, f) = {}
  BY <1>1
<1> QED BY <1>2, FS_EmptySet

LEMMA OnlyOneCounts ==
  ASSUME NEW S, NEW f, NEW s \in S, f[s] \in Nat, \A r \in S : r # s => f[r] = 0
  PROVE  IsFiniteSet(Units(S, f)) /\ Cardinality(Units(S, f)) = f[s]
<1>1. \A u : u \in Units(S, f) <=> u \in {s} \X ((0 + 1) .. f[s])
  <2>1. ASSUME NEW u \in Units(S, f)
        PROVE  u \in {s} \X (1 .. f[s])
    <3> PICK r \in S : \E i \in 1 .. f[r] : u = <<r, i>>
      BY UnitOf
    <3>1. PICK i \in 1 .. f[r] : u = <<r, i>>
      OBVIOUS
    <3>2. r = s
      OBVIOUS
    <3> QED BY <3>1, <3>2
  <2>2. ASSUME NEW u \in {s} \X (1 .. f[s])
        PROVE  u \in Units(S, f)
    BY UnitOf
  <2> QED BY <2>1, <2>2
<1>2. Units(S, f) = {s} \X ((0 + 1) .. f[s])
  BY <1>1
<1> QED BY <1>2, UnitsOfOne
=============================================================================
