---------------------------- MODULE NaturalSets ----------------------------
(***************************************************************************)
(* Facts about sets of naturals that the proofs of the components share:   *)
(* a nonempty set has a least element, a bounded one a greatest one, and   *)
(* "the n largest elements" of a bounded set are one set of n elements.    *)
(***************************************************************************)
EXTENDS Integers, FiniteSets, FiniteSetTheorems, WellFoundedInduction, TLAPS

\* A nonempty set of naturals has a least element: what the induction theorems
\* say of an arbitrary predicate, said of a set.
LEMMA LeastExists ==
  ASSUME NEW T \in SUBSET Nat, T # {}
  PROVE  \E x \in T : \A y \in T : x <= y
<1>1. PICK x \in T : \A y \in T : <<y, x>> \notin OpToRel(<, Nat)
  BY NatLessThanWellFounded, WFMin
<1>2. \A y \in T : ~(y < x)
  BY <1>1 DEF OpToRel
<1>3. QED BY <1>2

\* A nonempty bounded set of naturals has a greatest element.
LEMMA GreatestExists ==
  ASSUME NEW N \in Nat, NEW T \in SUBSET (0..N), T # {}
  PROVE  \E x \in T : \A y \in T : y <= x
<1> DEFINE D == {d \in Nat : N - d \in T}
<1>1. D \in SUBSET Nat /\ D # {}
  <2>1. PICK x \in T : TRUE
    OBVIOUS
  <2>2. N - x \in Nat /\ N - (N - x) = x
    BY <2>1
  <2>3. QED BY <2>1, <2>2
<1>2. PICK d \in D : \A e \in D : d <= e
  BY <1>1, LeastExists
<1>3. ASSUME NEW y \in T PROVE y <= N - d
  <2>1. N - y \in Nat /\ N - (N - y) = y
    BY <1>3
  <2>2. d <= N - y
    BY <1>2, <1>3, <2>1
  <2>3. QED BY <1>2, <2>1, <2>2
<1>4. QED BY <1>2, <1>3

\* Sets of naturals up to N are finite.
LEMMA BoundedFinite ==
  ASSUME NEW N \in Nat, NEW rows \in SUBSET (0..N)
  PROVE  /\ IsFiniteSet(rows) /\ Cardinality(rows) \in Nat
         /\ \A L \in SUBSET rows : IsFiniteSet(L) /\ Cardinality(L) \in Nat
<1>1. 0 \in Int /\ N \in Int
  OBVIOUS
<1>2. IsFiniteSet(0..N)
  BY <1>1, FS_Interval
<1>3. IsFiniteSet(rows)
  BY <1>2, FS_Subset
<1>4. \A L \in SUBSET rows : IsFiniteSet(L)
  BY <1>3, FS_Subset
<1>5. QED BY <1>3, <1>4, FS_CardinalityType

\* The n largest elements of rows, by counting the ones above.
Largest(rows, n) == {i \in rows : Cardinality({j \in rows : j > i}) < n}

\* L is n elements of rows with all the others below them.
IsTop(L, rows, n) ==
  L \subseteq rows /\ Cardinality(L) = n /\ \A i \in L, j \in rows \ L : j < i

\* Only the set found by counting can be the n largest elements.
LEMMA TopIsLargest ==
  ASSUME NEW N \in Nat, NEW rows \in SUBSET (0..N), NEW n \in Nat, NEW L, IsTop(L, rows, n)
  PROVE  L = Largest(rows, n)
<1> DEFINE above(i) == {j \in rows : j > i}
<1>0. \A L0 \in SUBSET rows : IsFiniteSet(L0) /\ Cardinality(L0) \in Nat
  BY BoundedFinite
<1>1. IsFiniteSet(L) /\ Cardinality(L) = n
  BY <1>0 DEF IsTop
<1>2. ASSUME NEW i \in L PROVE Cardinality(above(i)) < n
  <2>1. above(i) \subseteq L \ {i}
    <3>1. \A j \in rows : j > i => j \in L /\ j # i
      BY <1>2 DEF IsTop
    <3>2. QED BY <3>1
  <2>2. IsFiniteSet(L \ {i}) /\ Cardinality(L \ {i}) = n - 1
    BY <1>1, <1>2, FS_RemoveElement
  <2>3. Cardinality(above(i)) <= n - 1 /\ Cardinality(above(i)) \in Nat
    BY <1>0, <2>1, <2>2, FS_Subset
  <2>4. QED BY <2>3
<1>3. ASSUME NEW i \in rows \ L PROVE ~(Cardinality(above(i)) < n)
  <2>1. L \subseteq above(i)
    BY DEF IsTop
  <2>2. IsFiniteSet(above(i)) /\ Cardinality(above(i)) \in Nat
    BY <1>0
  <2>3. n <= Cardinality(above(i))
    BY <1>1, <2>1, <2>2, FS_Subset
  <2>4. QED BY <2>2, <2>3
<1>4. QED BY <1>2, <1>3 DEF Largest, IsTop

\* A bounded set with at least n elements has n largest ones.
LEMMA TopExists ==
  ASSUME NEW N \in Nat, NEW rows \in SUBSET (0..N), NEW n \in Nat, n <= Cardinality(rows)
  PROVE  \E L \in SUBSET rows : IsTop(L, rows, n)
<1> DEFINE bad == {k \in Nat : k <= Cardinality(rows) /\ \A L \in SUBSET rows : ~IsTop(L, rows, k)}
<1>1. /\ IsFiniteSet(rows) /\ Cardinality(rows) \in Nat
      /\ \A L \in SUBSET rows : IsFiniteSet(L) /\ Cardinality(L) \in Nat
  BY BoundedFinite
<1>2. ASSUME bad # {} PROVE FALSE
  <2>1. PICK k \in bad : \A e \in bad : k <= e
    <3>1. bad \in SUBSET Nat
      OBVIOUS
    <3>2. QED BY <1>2, <3>1, LeastExists
  <2>2. k # 0
    BY <2>1, FS_EmptySet DEF IsTop
  <2>3. k - 1 \in Nat /\ k - 1 <= Cardinality(rows) /\ k - 1 \notin bad
    BY <1>1, <2>1, <2>2
  <2>4. PICK L \in SUBSET rows : IsTop(L, rows, k - 1)
    BY <2>3
  <2>5. rows \ L # {}
    <3>1. Cardinality(L) = k - 1 /\ L \subseteq rows
      BY <2>4 DEF IsTop
    <3>2. Cardinality(L) # Cardinality(rows)
      BY <1>1, <2>1, <3>1
    <3>3. L # rows
      BY <3>2, Zenon
    <3>4. QED BY <3>1, <3>3
  <2>6. PICK x \in rows \ L : \A y \in rows \ L : y <= x
    <3>1. rows \ L \in SUBSET (0..N)
      OBVIOUS
    <3>2. QED BY <2>5, <3>1, GreatestExists
  <2>7. Cardinality(L \cup {x}) = k
    BY <1>1, <2>1, <2>4, <2>6, FS_AddElement DEF IsTop
  <2>8. IsTop(L \cup {x}, rows, k)
    <3>1. \A i \in L \cup {x}, j \in rows \ (L \cup {x}) : j < i
      BY <2>4, <2>6 DEF IsTop
    <3>2. QED BY <2>4, <2>6, <2>7, <3>1 DEF IsTop
  <2>9. QED BY <2>1, <2>6, <2>8
<1>3. n \notin bad
  BY <1>2
<1>4. QED BY <1>3
=============================================================================
