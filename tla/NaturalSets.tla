----------------------------- MODULE NaturalSets -----------------------------
(***************************************************************************)
(* Facts about natural numbers that several of the proofs need: the first  *)
(* of a set of numbers, induction, and remainders.                         *)
(***************************************************************************)
EXTENDS Integers, FiniteSetTheorems, WellFoundedInduction, TLAPS

\* A set of natural numbers that is not empty has a least element.
LEMMA LeastElement ==
  ASSUME NEW S \in SUBSET Nat, S # {}
  PROVE  \E n \in S : \A m \in S : n <= m
<1> DEFINE R == StrictSubsetOrdering(Nat)
           T == {0..n : n \in S}
<1>1. T \subseteq FiniteSubsetsOf(Nat) /\ T # {}
  <2>1. ASSUME NEW n \in S PROVE IsFiniteSet(0..n) /\ 0..n \in SUBSET Nat
    BY FS_Interval
  <2> QED
    BY <2>1 DEF FiniteSubsetsOf
<1>2. PICK x \in T : \A y \in T : <<y, x>> \notin R
  <2> HIDE DEF R, T
  <2>1. IsWellFoundedOn(R, FiniteSubsetsOf(Nat))
    BY FS_StrictSubsetOrderingWellFounded DEF R
  <2> QED
    BY <1>1, <2>1, WFMin
<1>3. PICK n \in S : x = 0..n
  OBVIOUS
<1>4. ASSUME NEW m \in S, m < n PROVE FALSE
  <2>1. 0..m \in SUBSET Nat /\ 0..n \in SUBSET Nat /\ 0..m \subseteq 0..n
    BY <1>4
  <2>2. n \in 0..n /\ n \notin 0..m
    BY <1>4
  <2>3. <<0..m, 0..n>> \in R
    BY <2>1, <2>2, Zenon DEF StrictSubsetOrdering
  <2> QED
    BY <1>2, <1>3, <2>3
<1> QED
  BY <1>4

\* Induction over the natural numbers, for a property given as a set.
LEMMA InductionOverNat ==
  ASSUME NEW P \in SUBSET Nat, 0 \in P, \A n \in P : n + 1 \in P
  PROVE  P = Nat
<1> SUFFICES ASSUME Nat \ P # {} PROVE FALSE
  OBVIOUS
<1>1. PICK n \in Nat \ P : \A m \in Nat \ P : n <= m
  BY LeastElement
<1>2. n - 1 \in Nat
  BY <1>1
<1>3. n - 1 \in P
  BY <1>1, <1>2
<1> QED
  BY <1>1, <1>3

\* What holds of a number, up to len, when it holds of every smaller one.
LEMMA StrongInduction ==
  ASSUME NEW len \in Nat, NEW S,
         \A n \in 0..len : (\A m \in 0..n - 1 : m \in S) => n \in S
  PROVE  \A n \in 0..len : n \in S
<1> DEFINE T == {n \in 0..len : n \notin S}
<1> SUFFICES ASSUME T # {} PROVE FALSE
  OBVIOUS
<1>1. T \in SUBSET Nat
  OBVIOUS
<1>2. PICK n \in T : \A m \in T : n <= m
  BY <1>1, LeastElement
<1>3. ASSUME NEW m \in 0..n - 1 PROVE m \in S
  BY <1>2
<1> QED
  BY <1>2, <1>3

LEMMA Division ==
  ASSUME NEW N \in Nat \ {0}, NEW i \in Int
  PROVE  \E q \in Int : i = N * q + (i % N)
<1>1. i \div N \in Int /\ i = N * (i \div N) + (i % N)
  OBVIOUS
<1> QED
  BY <1>1

\* Numbers that are less than N apart differ modulo N.
LEMMA RemaindersDiffer ==
  ASSUME NEW N \in Nat \ {0}, NEW i \in Int, NEW j \in Int,
         i < j, j < i + N
  PROVE  i % N # j % N
<1>1. PICK q \in Int : i = N * q + (i % N)
  BY Division
<1>2. PICK r \in Int : j = N * r + (j % N)
  BY Division
<1> SUFFICES ASSUME i % N = j % N PROVE FALSE
  OBVIOUS
<1>3. j - i = N * r - N * q
  BY <1>1, <1>2
<1>4. N * r - N * q = N * (r - q)
  OBVIOUS
<1>5. ASSUME NEW d \in Int, d <= 0 PROVE N * d <= 0
  BY <1>5
<1>6. ASSUME NEW d \in Int, d >= 1 PROVE N * d >= N
  BY <1>6
<1>7. r - q <= 0 \/ r - q >= 1
  OBVIOUS
<1> QED
  BY <1>3, <1>4, <1>5, <1>6, <1>7

\* A number between -N and 0 is a multiple of N only at the ends.
LEMMA MultiplesApart ==
  ASSUME NEW N \in Nat \ {0}, NEW i \in Int, -N <= i, i < 0
  PROVE  i % N = 0 <=> i = -N
<1>1. PICK q \in Int : i = N * q + (i % N)
  BY Division
<1>2. i % N \in 0 .. N - 1
  OBVIOUS
<1>3. ASSUME NEW d \in Int, d <= -2 PROVE N * d <= -2 * N
  BY <1>3
<1>4. ASSUME NEW d \in Int, d >= 0 PROVE N * d >= 0
  BY <1>4
<1>5. N * (-1) = -N
  OBVIOUS
<1>6. q <= -2 \/ q = -1 \/ q >= 0
  OBVIOUS
<1> QED
  BY <1>1, <1>2, <1>3, <1>4, <1>5, <1>6
=============================================================================
