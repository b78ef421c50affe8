--------------------------- MODULE NaturalsLemmas ---------------------------
(***************************************************************************)
(* Facts about the natural numbers that the proofs need where they speak   *)
(* of every size of a scan: least and greatest elements, and induction     *)
(* over a set (the set of the numbers a statement holds for).              *)
(***************************************************************************)
EXTENDS FiniteSetTheorems, TLAPS

\* A set of naturals that is not empty has a least element.
LEMMA Least ==
  ASSUME NEW T \in SUBSET Nat, T # {}
  PROVE  \E m \in T : \A n \in T : m <= n
<1> DEFINE R == {ss \in Nat \X Nat : ss[1] < ss[2]}
<1>1. IsWellFoundedOn(R, Nat)
  BY NatLessThanWellFounded DEF OpToRel
<1>2. PICK m \in T : \A n \in T : ~(<<n, m>> \in R)
  BY <1>1, WFMin
<1>3. ASSUME NEW n \in T PROVE m <= n
  <2>1. <<n, m>> \in Nat \X Nat
    OBVIOUS
  <2>2. ~(<<n, m>>[1] < <<n, m>>[2])
    BY <1>2, <2>1
  <2> QED BY <2>2
<1> QED BY <1>3

\* A set that holds 0, and with each number the next, holds every number.
LEMMA SetInduction ==
  ASSUME NEW S, 0 \in S, \A n \in Nat : n \in S => n + 1 \in S
  PROVE  \A n \in Nat : n \in S
<1> DEFINE T == Nat \ S
<1> SUFFICES ASSUME T # {} PROVE FALSE
  OBVIOUS
<1>1. PICK m \in T : \A n \in T : m <= n
  BY Least
<1>2. m # 0 /\ m - 1 \in Nat /\ m - 1 \notin T
  BY <1>1, SMT
<1>3. (m - 1) + 1 \in S
  BY <1>2
<1> QED BY <1>2, <1>3, SMT

\* A function from a finite set to the naturals takes a greatest value.
LEMMA Greatest ==
  ASSUME NEW S, IsFiniteSet(S), S # {}, NEW f \in [S -> Nat]
  PROVE  \E e \in S : \A d \in S : f[d] <= f[e]
<1>1. PICK n \in Nat : ExistsSurjection(1..n, S)
  BY FS_NatSurjection
<1>2. PICK g \in [1..n -> S] : \A d \in S : \E k \in 1..n : g[k] = d
  BY <1>1 DEF ExistsSurjection, Surjection
<1> DEFINE Bounded == {m \in Nat : \E b \in Nat : \A k \in 1..n : k <= m => f[g[k]] <= b}
<1>3. 0 \in Bounded
  OBVIOUS
<1>4. ASSUME NEW m \in Nat, m \in Bounded PROVE m + 1 \in Bounded
  <2>1. PICK b \in Nat : \A k \in 1..n : k <= m => f[g[k]] <= b
    BY <1>4
  <2>2. CASE m + 1 \in 1..n
    <3> DEFINE c == IF f[g[m + 1]] <= b THEN b ELSE f[g[m + 1]]
    <3>1. f[g[m + 1]] \in Nat /\ \A k \in 1..n : f[g[k]] \in Nat
      BY <1>2, <2>2
    <3>2. c \in Nat /\ \A k \in 1..n : k <= m + 1 => f[g[k]] <= c
      BY <2>1, <3>1
    <3> HIDE DEF c
    <3> QED BY <3>2
  <2>3. CASE m + 1 \notin 1..n
    BY <2>1, <2>3
  <2> QED BY <2>2, <2>3
<1>5. n \in Bounded
  <2> HIDE DEF Bounded
  <2> QED BY <1>3, <1>4, SetInduction
<1> DEFINE Above == {b \in Nat : \A d \in S : f[d] <= b}
<1>6. Above # {}
  <2>1. PICK b \in Nat : \A k \in 1..n : k <= n => f[g[k]] <= b
    BY <1>5
  <2>2. \A d \in S : f[d] <= b
    BY <1>2, <2>1
  <2> QED BY <2>2
<1>7. PICK b \in Above : \A c \in Above : b <= c
  BY <1>6, Least
<1>8. \E e \in S : f[e] = b
  <2> SUFFICES ASSUME \A e \in S : f[e] # b PROVE FALSE
    OBVIOUS
  <2>1. \A d \in S : f[d] \in Nat /\ f[d] < b
    BY <1>7
  <2>2. b - 1 \in Above
    BY <2>1, <1>7
  <2> QED BY <2>2, <1>7
<1> QED BY <1>7, <1>8

\* Induction over the dims of a shape, from the inside out and from the outside in.
LEMMA DownInduction ==
  ASSUME NEW L \in Nat, NEW S, L + 1 \in S, \A k \in 1..L : k + 1 \in S => k \in S
  PROVE  \A k \in 1..(L + 1) : k \in S
<1> DEFINE T == {n \in Nat : n <= L => L + 1 - n \in S}
<1>1. 0 \in T
  OBVIOUS
<1>2. ASSUME NEW n \in Nat, n \in T PROVE n + 1 \in T
  <2> SUFFICES ASSUME n + 1 <= L PROVE L + 1 - (n + 1) \in S
    OBVIOUS
  <2>1. L - n \in 1..L /\ L - n + 1 = L + 1 - n /\ L + 1 - (n + 1) = L - n
    OBVIOUS
  <2> QED BY <1>2, <2>1
<1>3. \A n \in Nat : n \in T
  <2> HIDE DEF T
  <2> QED BY <1>1, <1>2, SetInduction
<1> SUFFICES ASSUME NEW k \in 1..(L + 1) PROVE k \in S
  OBVIOUS
<1>4. L + 1 - k \in Nat /\ L + 1 - k <= L /\ L + 1 - (L + 1 - k) = k
  OBVIOUS
<1> QED BY <1>3, <1>4

LEMMA UpInduction ==
  ASSUME NEW L \in Nat, NEW S, 1 \in S, \A k \in 1..L : k \in S => k + 1 \in S
  PROVE  \A k \in 1..(L + 1) : k \in S
<1> DEFINE T == {n \in Nat : n <= L => n + 1 \in S}
<1>1. 0 \in T
  OBVIOUS
<1>2. ASSUME NEW n \in Nat, n \in T PROVE n + 1 \in T
  <2> SUFFICES ASSUME n + 1 <= L PROVE n + 1 + 1 \in S
    OBVIOUS
  <2>1. n + 1 \in 1..L /\ n <= L
    OBVIOUS
  <2> QED BY <1>2, <2>1
<1>3. \A n \in Nat : n \in T
  <2> HIDE DEF T
  <2> QED BY <1>1, <1>2, SetInduction
<1> SUFFICES ASSUME NEW k \in 1..(L + 1) PROVE k \in S
  OBVIOUS
<1>4. k - 1 \in Nat /\ k - 1 <= L /\ (k - 1) + 1 = k
  OBVIOUS
<1> QED BY <1>3, <1>4

=============================================================================
