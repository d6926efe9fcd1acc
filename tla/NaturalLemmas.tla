---------------------------- MODULE NaturalLemmas ----------------------------
(***************************************************************************)
(* Least and greatest elements, multiples, and induction over the naturals *)
(* for the proofs of other modules.  They rest on the well-foundedness of  *)
(* the strict subsets of a set: an initial segment stands for its end.     *)
(***************************************************************************)
EXTENDS Integers, FiniteSetTheorems, TLAPS

\* A set of natural numbers that is not empty has a least element.
LEMMA Least ==
    ASSUME NEW T, T \subseteq Nat, T # {}
    PROVE  \E x \in T : \A y \in T : x <= y
<1> DEFINE Up == {0 .. x : x \in T}
<1>1. Up \subseteq FiniteSubsetsOf(Nat) /\ Up # {}
    <2>1. ASSUME NEW x \in T
          PROVE  0 .. x \in SUBSET Nat /\ IsFiniteSet(0 .. x)
        <3>1. 0 \in Int /\ x \in Int
            OBVIOUS
        <3>2. IsFiniteSet(0 .. x)
            BY <3>1, FS_Interval
        <3>q. QED
            BY <3>2
    <2>2. Up \subseteq FiniteSubsetsOf(Nat)
        BY <2>1 DEF FiniteSubsetsOf
    <2>q. QED
        BY <2>2
<1>2. PICK u \in Up : \A v \in Up : ~(<<v, u>> \in StrictSubsetOrdering(Nat))
    <2> HIDE DEF Up
    <2>q. QED
        BY <1>1, FS_StrictSubsetOrderingWellFounded, WFMin
<1>3. PICK x \in T : u = 0 .. x
    BY <1>2
<1>4. ASSUME NEW y \in T, y < x
      PROVE  FALSE
    <2>1. 0 .. y \in Up /\ x \in u /\ x \notin 0 .. y /\ 0 .. y \subseteq u
        BY <1>3, <1>4
    <2>2. <<0 .. y, u>> \in StrictSubsetOrdering(Nat)
        BY <1>1, <1>2, <2>1 DEF StrictSubsetOrdering, FiniteSubsetsOf
    <2>q. QED
        BY <1>2, <2>1, <2>2
<1>q. QED
    BY <1>4

\* A set of natural numbers that holds zero and, with a number, the next holds them all.
LEMMA SetInduction ==
    ASSUME NEW T, 0 \in T, \A n \in Nat : n \in T => n + 1 \in T
    PROVE  Nat \subseteq T
<1> SUFFICES ASSUME Nat \ T # {}
             PROVE  FALSE
    OBVIOUS
<1>1. PICK x \in Nat \ T : \A y \in Nat \ T : x <= y
    BY Least
<1>2. x # 0 /\ x - 1 \in Nat /\ x - 1 \notin Nat \ T
    BY <1>1
<1>3. x - 1 + 1 \in T
    BY <1>2
<1>q. QED
    BY <1>1, <1>3

\* A set of natural numbers that is not empty and has a bound has a greatest element.
LEMMA Greatest ==
    ASSUME NEW T, T \subseteq Nat, T # {}, NEW n \in Nat, \A x \in T : x <= n
    PROVE  \E x \in T : \A y \in T : y <= x
<1> DEFINE Left == {m \in Nat : n - m \in T}
<1>1. PICK x \in T : TRUE
    OBVIOUS
<1>2. n - x \in Left
    BY <1>1
<1>3. PICK m \in Left : \A k \in Left : m <= k
    BY <1>2, Least
<1>4. ASSUME NEW y \in T
      PROVE  y <= n - m
    <2>1. n - y \in Left
        BY <1>4
    <2>2. m \in Nat /\ y \in Nat /\ m <= n - y
        BY <1>3, <1>4, <2>1
    <2>q. QED
        BY <2>2
<1>5. n - m \in T
    BY <1>3
<1>q. QED
    BY <1>4, <1>5

\* Where no step goes down, a later element is not below an earlier one.
LEMMA Monotone ==
    ASSUME NEW n \in Nat, NEW f, \A i \in 0 .. n : f[i] \in Int,
           \A i \in 1 .. n : f[i - 1] <= f[i]
    PROVE  \A i, j \in 0 .. n : i <= j => f[i] <= f[j]
<1> SUFFICES ASSUME NEW i \in 0 .. n
             PROVE  \A j \in 0 .. n : i <= j => f[i] <= f[j]
    OBVIOUS
<1> DEFINE T == {k \in Nat : i + k <= n => f[i] <= f[i + k]}
<1>1. 0 \in T
    OBVIOUS
<1>2. ASSUME NEW k \in Nat, k \in T
      PROVE  k + 1 \in T
    <2> SUFFICES ASSUME i + (k + 1) <= n
                 PROVE  f[i] <= f[i + (k + 1)]
        OBVIOUS
    <2> DEFINE j == i + (k + 1)
    <2>1. j \in 1 .. n /\ j - 1 = i + k
        OBVIOUS
    <2>2. f[j - 1] <= f[j] /\ f[j - 1] \in Int /\ f[j] \in Int
        BY <2>1
    <2>q. QED
        BY <1>2, <2>1, <2>2
<1> HIDE DEF T
<1>3. Nat \subseteq T
    BY <1>1, <1>2, SetInduction
<1>4. ASSUME NEW j \in 0 .. n, i <= j
      PROVE  f[i] <= f[j]
    <2>1. j - i \in T /\ i + (j - i) = j
        BY <1>3, <1>4
    <2>q. QED
        BY <2>1 DEF T
<1>q. QED
    BY <1>4

\* Multiples are in the order of their factors.
LEMMA MultiplesOrdered ==
    ASSUME NEW m \in Nat, NEW n \in Nat, m <= n, NEW i \in Nat
    PROVE  m * i \in Nat /\ n * i \in Nat /\ m * i <= n * i
<1>1. \A a, b \in Nat : a * b \in Nat
    OBVIOUS
<1>2. n - m \in Nat /\ n * i = m * i + (n - m) * i
    OBVIOUS
<1>3. m * i \in Nat /\ n * i \in Nat /\ (n - m) * i \in Nat
    BY <1>1, <1>2
<1>q. QED
    BY <1>2, <1>3

=============================================================================
