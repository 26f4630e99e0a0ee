------------------------------- MODULE Extrema -------------------------------
(***************************************************************************)
(* Least and greatest elements of sets of numbers.  The proofs of the      *)
(* other modules use them for CHOOSE, Min and Max, and for induction: of   *)
(* the numbers at which a claim fails there would be a least.              *)
(***************************************************************************)
EXTENDS Integers, FiniteSets, FiniteSetsExt, FiniteSetTheorems, WellFoundedInduction, TLAPS

(* Every nonempty set of natural numbers has a least element.               *)
LEMMA Least ==
    ASSUME NEW T \in SUBSET Nat, T # {}
    PROVE  \E m \in T : \A n \in T : m <= n
  <1>1. PICK m \in T : \A n \in T : ~(<<n, m>> \in OpToRel(<, Nat))
    BY NatLessThanWellFounded, WFMin, Zenon
  <1>2. \A n \in T : <<n, m>> \in OpToRel(<, Nat) <=> n < m
    BY DEF OpToRel
  <1>3. \A n \in T : ~(n < m)
    BY <1>1, <1>2, Zenon
  <1> QED
    BY <1>3

(* Min of a nonempty set of naturals is its least element.                  *)
LEMMA MinLeast ==
    ASSUME NEW T \in SUBSET Nat, T # {}
    PROVE  Min(T) \in T /\ \A n \in T : Min(T) <= n
  <1>1. \E m \in T : \A n \in T : m <= n
    BY Least, Zenon
  <1> QED
    BY <1>1 DEF Min

(* Of finitely many things one weighs most: a smallest set without such a   *)
(* thing would lose an element and still have none.                         *)
LEMMA Heaviest ==
    ASSUME NEW S, S # {}, IsFiniteSet(S), NEW w \in [S -> Nat]
    PROVE  \E m \in S : \A n \in S : w[n] <= w[m]
  <1> DEFINE Topped(A) == \E m \in A : \A n \in A : w[n] <= w[m]
             Bad == {A \in SUBSET S : A # {} /\ ~Topped(A)}
  <1>1. SUFFICES ASSUME Bad # {} PROVE FALSE
    BY Zenon
  <1>2. \A A \in SUBSET S : IsFiniteSet(A) /\ Cardinality(A) \in Nat
    <2>1. \A A \in SUBSET S : IsFiniteSet(A)
      BY FS_Subset
    <2> QED
      BY <2>1, FS_CardinalityType
  <1>3. PICK c \in {Cardinality(A) : A \in Bad} : \A d \in {Cardinality(A) : A \in Bad} : c <= d
    <2>1. {Cardinality(A) : A \in Bad} \in SUBSET Nat
      BY <1>2
    <2>2. {Cardinality(A) : A \in Bad} # {}
      BY <1>1
    <2> QED
      BY <2>1, <2>2, Least, Zenon
  <1>4. PICK A \in Bad : c = Cardinality(A)
    BY <1>3
  <1>5. PICK a \in A : TRUE
    BY <1>4
  <1>6. Cardinality(A \ {a}) = Cardinality(A) - 1
    BY <1>2, <1>4, <1>5, FS_RemoveElement
  <1>7. A \ {a} \in SUBSET S /\ ~(A \ {a} \in Bad)
    <2>1. Cardinality(A) \in Nat
      BY <1>2, <1>4
    <2>2. ~(c <= Cardinality(A \ {a}))
      BY <2>1, <1>4, <1>6
    <2>3. ~(Cardinality(A \ {a}) \in {Cardinality(B) : B \in Bad})
      BY <2>2, <1>3, Zenon
    <2> QED
      BY <2>3, <1>4
  <1>8. CASE A \ {a} = {}
    <2>1. \A n \in A : n = a
      BY <1>8
    <2>2. w[a] <= w[a]
      BY <1>4, <1>5
    <2> QED
      BY <2>1, <2>2, <1>4, <1>5
  <1>9. CASE A \ {a} # {}
    <2>1. PICK b \in A \ {a} : \A n \in A \ {a} : w[n] <= w[b]
      BY <1>7, <1>9
    <2>2. CASE w[a] <= w[b]
      <3>1. \A n \in A : w[n] <= w[b]
        BY <2>1, <2>2
      <3> QED
        BY <3>1, <1>4, <2>1
    <2>3. CASE ~(w[a] <= w[b])
      <3>1. \A n \in A : w[n] <= w[a]
        BY <2>1, <2>3, <1>4, <1>5
      <3> QED
        BY <3>1, <1>4, <1>5
    <2> QED
      BY <2>2, <2>3
  <1> QED
    BY <1>8, <1>9

(* Max of a finite nonempty set of naturals is its greatest element.        *)
LEMMA MaxGreatest ==
    ASSUME NEW T \in SUBSET Nat, T # {}, IsFiniteSet(T)
    PROVE  Max(T) \in T /\ \A n \in T : n <= Max(T)
  <1> DEFINE id == [n \in T |-> n]
  <1>1. \E m \in T : \A n \in T : n <= m
    <2>1. id \in [T -> Nat]
      OBVIOUS
    <2>2. \E m \in T : \A n \in T : id[n] <= id[m]
      <3> HIDE DEF id
      <3> QED
        BY <2>1, Heaviest, Zenon
    <2> QED
      BY <2>2
  <1> QED
    BY <1>1 DEF Max

(* The smaller of two numbers.                                              *)
LEMMA MinPair ==
    ASSUME NEW a \in Nat, NEW b \in Nat
    PROVE  Min({a, b}) = IF a <= b THEN a ELSE b
  BY MinLeast, {a, b} \in SUBSET Nat, {a, b} # {}

(* The larger of two numbers.                                               *)
LEMMA MaxPair ==
    ASSUME NEW a \in Nat, NEW b \in Nat
    PROVE  Max({a, b}) = IF a <= b THEN b ELSE a
  <1>1. Max({a, b}) \in {a, b} /\ \A n \in {a, b} : n <= Max({a, b})
    BY \E m \in {a, b} : \A n \in {a, b} : n <= m DEF Max
  <1> QED
    BY <1>1

(* Induction up to n, for a claim given by the set of numbers it holds for.  *)
LEMMA UpTo ==
    ASSUME NEW n \in Nat, NEW T, 0 \in T, \A i \in 0 .. n - 1 : i \in T => i + 1 \in T
    PROVE  \A i \in 0 .. n : i \in T
  <1> DEFINE Bad == {i \in 0 .. n : i \notin T}
  <1>1. SUFFICES ASSUME Bad # {} PROVE FALSE
    OBVIOUS
  <1>2. PICK m \in Bad : \A b \in Bad : m <= b
    BY <1>1, Least, Bad \in SUBSET Nat
  <1>3. m # 0 /\ m - 1 \in 0 .. n - 1 /\ m - 1 + 1 = m
    BY <1>2
  <1>4. m - 1 \in T
    BY <1>2, <1>3
  <1> QED
    BY <1>2, <1>3, <1>4
=============================================================================
