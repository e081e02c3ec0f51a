------------------------------ MODULE NatSets -------------------------------
(***************************************************************************)
(* Facts about sets of naturals that the proofs of several components      *)
(* need.  Induction is stated for a set instead of a predicate, so that a  *)
(* prover without second-order instantiation can use it: to prove P(n) for *)
(* every n, take the set of the n for which P(n) holds.                    *)
(***************************************************************************)
EXTENDS Integers, FiniteSets, FiniteSetsExt, FiniteSetTheorems,
        WellFoundedInduction, TLAPS

\* A set of naturals that is not empty has a least element.
LEMMA LeastElement ==
  ASSUME NEW T \in SUBSET Nat, T # {}
  PROVE  \E x \in T : \A y \in T : x <= y
  <1>1. PICK x \in T : \A y \in T : ~ (<<y, x>> \in OpToRel(<, Nat))
    BY NatLessThanWellFounded, WFMin
  <1>2. ASSUME NEW y \in T PROVE x <= y
    <2>1. ~ (y < x)
      BY <1>1 DEF OpToRel
    <2> QED BY <2>1
  <1> QED BY <1>2

\* Induction on the naturals.
LEMMA SetInduction ==
  ASSUME NEW S, 0 \in S, \A n \in Nat : n \in S => n + 1 \in S
  PROVE  \A n \in Nat : n \in S
  <1> SUFFICES ASSUME Nat \ S # {} PROVE FALSE
    OBVIOUS
  <1>1. PICK x \in Nat \ S : \A y \in Nat \ S : x <= y
    BY LeastElement
  <1>2. x - 1 \in Nat /\ x - 1 \in S
    BY <1>1
  <1> QED BY <1>1, <1>2

\* A finite set of naturals that is not empty has a greatest element.
LEMMA GreatestElement ==
  ASSUME NEW T \in SUBSET Nat, T # {}, IsFiniteSet(T)
  PROVE  \E x \in T : \A y \in T : x >= y
  <1> DEFINE Has(U) == \E x \in U : \A y \in U : x >= y
             S == {n \in Nat : \A U \in SUBSET Nat :
                     IsFiniteSet(U) /\ Cardinality(U) = n + 1 => Has(U)}
  <1>1. 0 \in S
    <2> SUFFICES ASSUME NEW U \in SUBSET Nat, IsFiniteSet(U), Cardinality(U) = 0 + 1
                 PROVE  Has(U)
      OBVIOUS
    <2>0. Cardinality(U) = 1
      OBVIOUS
    <2>1. PICK x : U = {x}
      BY <2>0, FS_Singleton, Zenon
    <2> QED BY <2>1
  <1>2. ASSUME NEW n \in Nat, n \in S PROVE n + 1 \in S
    <2> SUFFICES ASSUME NEW U \in SUBSET Nat, IsFiniteSet(U), Cardinality(U) = n + 2
                 PROVE  Has(U)
      OBVIOUS
    <2>1. U # {}
      BY FS_EmptySet
    <2>2. PICK u \in U : TRUE
      BY <2>1
    <2>3. IsFiniteSet(U \ {u}) /\ Cardinality(U \ {u}) = n + 1
      BY FS_RemoveElement
    <2>4. PICK x \in U \ {u} : \A y \in U \ {u} : x >= y
      BY <1>2, <2>3
    <2>5. CASE x >= u
      BY <2>4, <2>5
    <2>6. CASE u >= x
      BY <2>4, <2>6
    <2> QED BY <2>5, <2>6
  <1>3. \A n \in Nat : n \in S
    <2> HIDE DEF S
    <2> QED BY <1>1, <1>2, SetInduction
  <1>4. Cardinality(T) \in Nat /\ Cardinality(T) # 0
    BY FS_CardinalityType, FS_EmptySet
  <1>5. Cardinality(T) - 1 \in S
    BY <1>3, <1>4
  <1> QED BY <1>4, <1>5

LEMMA MinProperties ==
  ASSUME NEW T \in SUBSET Nat, T # {}
  PROVE  Min(T) \in T /\ \A y \in T : Min(T) <= y
  BY LeastElement DEF Min

LEMMA MaxProperties ==
  ASSUME NEW T \in SUBSET Nat, T # {}, IsFiniteSet(T)
  PROVE  Max(T) \in T /\ \A y \in T : Max(T) >= y
  BY GreatestElement DEF Max

\* The greatest of some of the numbers up to n is n if n is one of them.
LEMMA MaxOfPrefix ==
  ASSUME NEW n \in Nat, NEW t \in SUBSET (1 .. n), t # {}
  PROVE  Max(t) \in t /\ (n \in t => Max(t) = n)
  <1>1. \A i \in 1 .. n : i \in Nat /\ i <= n
    OBVIOUS
  <1>2. t \in SUBSET Nat
    BY <1>1
  <1>3. IsFiniteSet(t)
    <2>1. IsFiniteSet(1 .. n)
      BY FS_Interval
    <2> QED BY <2>1, FS_Subset
  <1>4. Max(t) \in t /\ \A y \in t : Max(t) >= y
    BY <1>2, <1>3, MaxProperties
  <1>5. ASSUME n \in t PROVE Max(t) = n
    <2>1. Max(t) \in Nat /\ Max(t) <= n /\ Max(t) >= n
      BY <1>1, <1>2, <1>4, <1>5
    <2> HIDE <1>4
    <2> QED BY <2>1
  <1> QED BY <1>4, <1>5

\* More numbers than elements: one of the numbers 0..n is not in a set of at
\* most n elements.
LEMMA FreeNumber ==
  ASSUME NEW T, IsFiniteSet(T), NEW n \in Nat, Cardinality(T) <= n
  PROVE  (0..n) \ T # {}
  <1> SUFFICES ASSUME 0..n \subseteq T PROVE FALSE
    OBVIOUS
  <1>1. Cardinality(0..n) <= Cardinality(T)
    BY FS_Subset
  <1>2. Cardinality(0..n) = n + 1
    BY FS_Interval
  <1> QED BY <1>1, <1>2, FS_CardinalityType

\* w is the function on the naturals with the value a at 0 and the step G.
DefinedBy(w, S, a, G) == /\ w \in [Nat -> S]
                         /\ w[0] = a
                         /\ \A k \in Nat : w[k + 1] = G[<<k + 1, w[k]>>]

\* A function on the naturals may be defined from its value at 0 and a step
\* that is a function itself.
LEMMA Recursion ==
  ASSUME NEW S, NEW a \in S, NEW G \in [Nat \X S -> S]
  PROVE  \E w : DefinedBy(w, S, a, G)
  <1> DEFINE Upto(n, w) == /\ w[0] = a
                           /\ \A k \in 0..(n - 1) : w[k + 1] = G[<<k + 1, w[k]>>]
             Good == {n \in Nat : \E w \in [0..n -> S] : Upto(n, w)}
             part == [n \in Nat |-> CHOOSE w \in [0..n -> S] : Upto(n, w)]
             Same == {k \in Nat : \A m, n \in Nat : k <= m /\ k <= n => part[m][k] = part[n][k]}
             whole == [n \in Nat |-> part[n][n]]
  <1>1. 0 \in Good
    <2>1. [k \in 0..0 |-> a] \in [0..0 -> S] /\ Upto(0, [k \in 0..0 |-> a])
      OBVIOUS
    <2> QED BY <2>1
  <1>2. ASSUME NEW n \in Nat, n \in Good PROVE n + 1 \in Good
    <2>1. PICK w \in [0..n -> S] : Upto(n, w)
      BY <1>2
    <2> DEFINE v == [k \in 0..(n + 1) |-> IF k <= n THEN w[k] ELSE G[<<n + 1, w[n]>>]]
    <2>2. G[<<n + 1, w[n]>>] \in S
      OBVIOUS
    <2>3. v \in [0..(n + 1) -> S]
      BY <2>2
    <2>4. v[0] = a
      BY <2>1
    <2>5. ASSUME NEW k \in 0..n PROVE v[k + 1] = G[<<k + 1, v[k]>>]
      <3>1. CASE k = n
        <4>1. v[n + 1] = G[<<n + 1, w[n]>>] /\ v[n] = w[n]
          OBVIOUS
        <4> HIDE DEF v
        <4> QED BY <3>1, <4>1
      <3>2. CASE k # n
        <4>1. k \in 0..(n - 1) /\ v[k] = w[k] /\ v[k + 1] = w[k + 1]
          BY <3>2
        <4> QED BY <2>1, <4>1
      <3> QED BY <3>1, <3>2
    <2>6. Upto(n + 1, v)
      <3>1. (n + 1) - 1 = n
        OBVIOUS
      <3> QED BY <2>4, <2>5, <3>1
    <2> HIDE DEF v
    <2>7. \E u \in [0..(n + 1) -> S] : Upto(n + 1, u)
      BY <2>3, <2>6, Zenon
    <2> QED BY <2>7
  <1>3. \A n \in Nat : n \in Good
    <2> HIDE DEF Good
    <2> QED BY <1>1, <1>2, SetInduction
  <1>4. ASSUME NEW n \in Nat PROVE part[n] \in [0..n -> S] /\ Upto(n, part[n])
    <2>1. \E w \in [0..n -> S] : Upto(n, w)
      BY <1>3
    <2>2. part[n] = CHOOSE w \in [0..n -> S] : Upto(n, w)
      OBVIOUS
    <2> HIDE DEF Upto, part
    <2> QED BY <2>1, <2>2, Zenon
  <1> HIDE DEF part
  <1>5. 0 \in Same
    BY <1>4
  <1>6. ASSUME NEW k \in Nat, k \in Same PROVE k + 1 \in Same
    <2> SUFFICES ASSUME NEW m \in Nat, NEW n \in Nat, k + 1 <= m, k + 1 <= n
                 PROVE  part[m][k + 1] = part[n][k + 1]
      OBVIOUS
    <2>1. part[m][k] = part[n][k]
      BY <1>6
    <2>2. k \in 0..(m - 1) /\ k \in 0..(n - 1)
      OBVIOUS
    <2>3. part[m][k + 1] = G[<<k + 1, part[m][k]>>]
      BY <1>4, <2>2
    <2>4. part[n][k + 1] = G[<<k + 1, part[n][k]>>]
      BY <1>4, <2>2
    <2> QED BY <2>1, <2>3, <2>4
  <1>7. \A k \in Nat : k \in Same
    <2> HIDE DEF Same
    <2> QED BY <1>5, <1>6, SetInduction
  <1>8. whole \in [Nat -> S] /\ whole[0] = a
    <2>1. ASSUME NEW n \in Nat PROVE part[n][n] \in S
      <3>1. n \in 0..n
        OBVIOUS
      <3> QED BY <1>4, <3>1
    <2>2. part[0][0] = a
      BY <1>4
    <2> QED BY <2>1, <2>2
  <1>9. ASSUME NEW k \in Nat PROVE whole[k + 1] = G[<<k + 1, whole[k]>>]
    <2>1. part[k + 1][k] = part[k][k]
      BY <1>7
    <2>2. k \in 0..((k + 1) - 1)
      OBVIOUS
    <2>3. part[k + 1][k + 1] = G[<<k + 1, part[k + 1][k]>>]
      BY <1>4, <2>2
    <2> QED BY <2>1, <2>3
  <1> HIDE DEF whole
  <1>10. DefinedBy(whole, S, a, G)
    BY <1>8, <1>9 DEF DefinedBy
  <1> QED BY <1>10
=============================================================================
