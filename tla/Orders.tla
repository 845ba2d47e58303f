-------------------------------- MODULE Orders --------------------------------
(***************************************************************************)
(* Facts about finite sets in order, that proofs about the reports need:   *)
(* a finite set has a greatest element and an enumeration in order, and a  *)
(* strictly increasing sequence of 1 .. n counts from 1 to n.              *)
(*                                                                         *)
(* An order is a set R of pairs, so that it can be a bound variable.       *)
(* Induction is on the least counterexample, which exists since the        *)
(* naturals are well founded.                                              *)
(***************************************************************************)
EXTENDS Integers, Sequences, FiniteSets, FiniteSetTheorems, WellFoundedInduction, TLAPS

StrictTotalOrder(R, S) ==
  /\ \A x \in S : <<x, x>> \notin R
  /\ \A x, y \in S : x # y => <<x, y>> \in R \/ <<y, x>> \in R
  /\ \A x, y, z \in S : <<x, y>> \in R /\ <<y, z>> \in R => <<x, z>> \in R

LEMMA LeastNat ==
  ASSUME NEW T, T \subseteq Nat, T # {}
  PROVE  \E n \in T : \A m \in T : n <= m
<1> DEFINE Less == {p \in Nat \X Nat : p[1] < p[2]}
<1>1. IsWellFoundedOn(Less, Nat)
  BY NatLessThanWellFounded DEF OpToRel
<1>2. PICK n \in T : \A m \in T : ~ (<<m, n>> \in Less)
  <2> HIDE DEF Less
  <2> QED BY <1>1, WFMin
<1>3. ASSUME NEW m \in T PROVE n <= m
  <2>1. <<m, n>> \in Nat \X Nat /\ ~ (m < n)
    BY <1>2
  <2> QED BY <2>1
<1> QED BY <1>3

\* A finite set that is not empty has a greatest element.
LEMMA Greatest ==
  ASSUME NEW S, IsFiniteSet(S), S # {}, NEW R, StrictTotalOrder(R, S)
  PROVE  \E x \in S : \A y \in S \ {x} : <<y, x>> \in R
<1> DEFINE Has(U) == \E x \in U : \A y \in U \ {x} : <<y, x>> \in R
           Bad == {n \in Nat : \E U \in SUBSET S : U # {} /\ Cardinality(U) = n /\ ~ Has(U)}
<1>1. SUFFICES ASSUME ~ Has(S) PROVE FALSE
  OBVIOUS
<1>2. Cardinality(S) \in Bad
  BY <1>1, FS_CardinalityType
<1>3. PICK n \in Bad : \A m \in Bad : n <= m
  <2> HIDE DEF Bad
  <2>1. Bad \subseteq Nat
    BY DEF Bad
  <2> QED BY <1>2, <2>1, LeastNat
<1>4. PICK U \in SUBSET S : U # {} /\ Cardinality(U) = n /\ ~ Has(U)
  BY <1>3
<1>5. PICK z \in U : TRUE
  BY <1>4
<1>6. IsFiniteSet(U) /\ IsFiniteSet(U \ {z}) /\ Cardinality(U \ {z}) = n - 1 /\ n \in Nat
  BY <1>3, <1>4, <1>5, FS_Subset, FS_RemoveElement
<1>7. U \ {z} # {}
  BY <1>4, <1>5
<1>8. Has(U \ {z})
  <2>1. n - 1 \in Nat
    BY <1>6, FS_CardinalityType
  <2>2. n - 1 \notin Bad
    BY <1>3, <1>6, <2>1
  <2> QED BY <1>6, <1>7, <2>1, <2>2
<1>9. PICK m \in U \ {z} : \A y \in (U \ {z}) \ {m} : <<y, m>> \in R
  BY <1>8
<1>10. CASE <<z, m>> \in R
  <2>1. \A y \in U \ {m} : <<y, m>> \in R
    BY <1>9, <1>10
  <2> QED BY <1>4, <1>9, <2>1
<1>11. CASE <<m, z>> \in R
  <2>1. \A y \in U \ {z} : <<y, z>> \in R
    BY <1>4, <1>5, <1>9, <1>11 DEF StrictTotalOrder
  <2> QED BY <1>4, <1>5, <2>1
<1> QED BY <1>4, <1>5, <1>9, <1>10, <1>11 DEF StrictTotalOrder

InOrderOf(s, R) == \A i, j \in DOMAIN s : i < j => <<s[i], s[j]>> \in R

\* A finite set can be enumerated in order.
LEMMA Enumerated ==
  ASSUME NEW S, IsFiniteSet(S), NEW R, StrictTotalOrder(R, S)
  PROVE  \E s \in [1 .. Cardinality(S) -> S] : InOrderOf(s, R)
<1> DEFINE Has(U) == \E s \in [1 .. Cardinality(U) -> U] : InOrderOf(s, R)
           Bad == {n \in Nat : \E U \in SUBSET S : Cardinality(U) = n /\ ~ Has(U)}
<1>1. SUFFICES ASSUME ~ Has(S) PROVE FALSE
  OBVIOUS
<1>2. Cardinality(S) \in Bad
  BY <1>1, FS_CardinalityType
<1>3. PICK n \in Bad : \A m \in Bad : n <= m
  <2> HIDE DEF Bad
  <2>1. Bad \subseteq Nat
    BY DEF Bad
  <2> QED BY <1>2, <2>1, LeastNat
<1>4. PICK U \in SUBSET S : Cardinality(U) = n /\ ~ Has(U)
  BY <1>3
<1>5. IsFiniteSet(U) /\ n \in Nat
  BY <1>3, <1>4, FS_Subset
<1>6. U # {}
  <2> SUFFICES ASSUME U = {} PROVE FALSE
    OBVIOUS
  <2>1. n = 0
    BY <1>4, FS_EmptySet
  <2> DEFINE e == [i \in 1 .. 0 |-> i]
  <2>2. e \in [1 .. 0 -> U] /\ DOMAIN e = {}
    OBVIOUS
  <2>3. InOrderOf(e, R)
    <3> HIDE DEF e
    <3> QED BY <2>2 DEF InOrderOf
  <2> HIDE DEF e
  <2> QED BY <1>4, <2>1, <2>2, <2>3
<1>7. PICK m \in U : \A y \in U \ {m} : <<y, m>> \in R
  <2>1. StrictTotalOrder(R, U)
    BY DEF StrictTotalOrder
  <2> QED BY <1>5, <1>6, <2>1, Greatest
<1>8. IsFiniteSet(U \ {m}) /\ Cardinality(U \ {m}) = n - 1 /\ n - 1 \in Nat
  <2>1. IsFiniteSet(U \ {m}) /\ Cardinality(U \ {m}) = n - 1
    BY <1>4, <1>5, FS_RemoveElement
  <2> QED BY <2>1, FS_CardinalityType
<1>9. n - 1 \notin Bad
  BY <1>3, <1>5, <1>8
<1>10. PICK s \in [1 .. n - 1 -> U \ {m}] : InOrderOf(s, R)
  BY <1>8, <1>9
<1> DEFINE t == [i \in 1 .. n |-> IF i = n THEN m ELSE s[i]]
<1>11. t \in [1 .. n -> U]
  BY <1>5, <1>8, <1>10
<1>12. InOrderOf(t, R)
  <2> SUFFICES ASSUME NEW i \in 1 .. n, NEW j \in 1 .. n, i < j PROVE <<t[i], t[j]>> \in R
    BY DEF InOrderOf
  <2>1. i \in 1 .. n - 1 /\ t[i] = s[i] /\ s[i] \in U \ {m}
    BY <1>5, <1>8, <1>10
  <2>2. CASE j = n
    BY <1>7, <2>1, <2>2
  <2>3. CASE j # n
    BY <1>5, <1>10, <2>1, <2>3 DEF InOrderOf
  <2> QED BY <2>2, <2>3
<1> QED BY <1>4, <1>11, <1>12

\* An enumeration without repetition leaves nothing out.
LEMMA InjectionIsOnto ==
  ASSUME NEW S, IsFiniteSet(S), NEW s \in [1 .. Cardinality(S) -> S], IsInjective(s)
  PROVE  \A x \in S : \E i \in 1 .. Cardinality(S) : s[i] = x
<1> DEFINE D == 1 .. Cardinality(S)
           T == {s[i] : i \in D}
<1>1. Cardinality(S) \in Nat /\ IsFiniteSet(D)
  BY FS_CardinalityType, FS_Interval
<1>2. Cardinality(D) = Cardinality(S)
  BY <1>1, FS_Interval
<1>3. s \in Bijection(D, T)
  BY DEF Bijection, Injection, Surjection
<1>4. Cardinality(T) = Cardinality(D)
  <2> HIDE DEF D, T
  <2> QED BY <1>1, <1>3, FS_Bijection DEF ExistsBijection
<1>5. T = S
  <2>1. T \in SUBSET S
    OBVIOUS
  <2> HIDE DEF T
  <2> QED BY <1>2, <1>4, <2>1, FS_Subset
<1> QED BY <1>5

\* A strictly increasing sequence of numbers of 1 .. n, of length n, is 1, 2, ..., n.
Increasing(f) == \A i, j \in DOMAIN f : i < j => f[i] < f[j]

LEMMA IncreasingAtLeast ==
  ASSUME NEW n \in Nat, NEW f \in [1 .. n -> Int], Increasing(f), \A i \in 1 .. n : 1 <= f[i]
  PROVE  \A i \in 1 .. n : i <= f[i]
<1> DEFINE Bad == {i \in Nat : i \in 1 .. n /\ f[i] < i}
<1> SUFFICES ASSUME Bad # {} PROVE FALSE
  OBVIOUS
<1>1. PICK i \in Bad : \A j \in Bad : i <= j
  <2> HIDE DEF Bad
  <2>1. Bad \subseteq Nat
    BY DEF Bad
  <2> QED BY <2>1, LeastNat
<1>2. i # 1 /\ i - 1 \in 1 .. n
  BY <1>1
<1>3. i - 1 <= f[i - 1]
  BY <1>1, <1>2
<1>4. f[i - 1] < f[i]
  BY <1>1, <1>2 DEF Increasing
<1> QED BY <1>1, <1>2, <1>3, <1>4

LEMMA Counting ==
  ASSUME NEW n \in Nat, NEW f \in [1 .. n -> 1 .. n], Increasing(f)
  PROVE  \A i \in 1 .. n : f[i] = i
<1>1. \A i \in 1 .. n : i <= f[i]
  BY IncreasingAtLeast
<1> DEFINE g == [i \in 1 .. n |-> n + 1 - f[n + 1 - i]]
<1>2. g \in [1 .. n -> Int] /\ Increasing(g) /\ \A i \in 1 .. n : 1 <= g[i]
  BY DEF Increasing
<1>3. \A i \in 1 .. n : i <= g[i]
  <2> HIDE DEF g
  <2> QED BY <1>2, IncreasingAtLeast
<1>4. \A i \in 1 .. n : f[i] <= i
  <2> TAKE i \in 1 .. n
  <2>1. n + 1 - i \in 1 .. n /\ n + 1 - (n + 1 - i) = i
    OBVIOUS
  <2>2. n + 1 - i <= n + 1 - f[i]
    BY <1>3, <2>1
  <2> QED BY <2>2
<1> QED BY <1>1, <1>4
=============================================================================
