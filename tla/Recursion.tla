-------------------------------- MODULE Recursion --------------------------------
(***************************************************************************)
(* Functions that are defined from one number to the next, and induction   *)
(* over numbers.  A property is given as the set of the numbers that have  *)
(* it, since a theorem about any operator cannot be used by the provers.   *)
(***************************************************************************)
EXTENDS Integers, WellFoundedInduction, TLAPS

LEMMA SetInduction ==
    ASSUME NEW S, 0 \in S, \A n \in Nat : n \in S => n + 1 \in S
    PROVE  Nat \subseteq S
<1> DEFINE T == Nat \ S
           R == {ss \in Nat \X Nat : ss[1] < ss[2]}
<1>1. SUFFICES ASSUME T # {}
               PROVE  FALSE
  OBVIOUS
<1>2. IsWellFoundedOn(R, Nat)
  BY NatLessThanWellFounded DEF OpToRel
<1>3. T \subseteq Nat
  OBVIOUS
<1> HIDE DEF T, R
<1>4. PICK n \in T : \A m \in T : <<m, n>> \notin R
  BY <1>1, <1>2, <1>3, WFMin
<1> USE DEF T
<1>5. n # 0 /\ n \in Nat
  OBVIOUS
<1>6. n - 1 \in Nat /\ n - 1 < n
  BY <1>5
<1>7. <<n - 1, n>> \in R
  BY <1>5, <1>6 DEF R
<1>8. n - 1 \in S
  BY <1>4, <1>6, <1>7
<1> QED
  BY <1>5, <1>6, <1>8

\* f begins with a and goes on by the functions of g.
Follows(f, N, a, g) == f[0] = a /\ \A n \in 1 .. N : f[n] = g[n][f[n - 1]]

LEMMA RecursionExists ==
    ASSUME NEW N \in Nat, NEW V, NEW a \in V, NEW g \in [1 .. N -> [V -> V]]
    PROVE  \E f \in [0 .. N -> V] : Follows(f, N, a, g)
<1> USE DEF Follows
<1> DEFINE Upto(m) == [0 .. m -> V]
           Good(f, m) == Follows(f, m, a, g)
           S == {m \in Nat : m <= N => \E f \in Upto(m) : Good(f, m)}
<1>1. 0 \in S
  <2>1. [n \in 0 .. 0 |-> a] \in Upto(0) /\ Good([n \in 0 .. 0 |-> a], 0)
    OBVIOUS
  <2> QED
    BY <2>1
<1>2. ASSUME NEW m \in Nat, m \in S
      PROVE  m + 1 \in S
  <2>1. CASE m + 1 <= N
    <3>1. PICK f \in Upto(m) : Good(f, m)
      BY <1>2, <2>1
    <3> DEFINE h == [n \in 0 .. m + 1 |-> IF n <= m THEN f[n] ELSE g[m + 1][f[m]]]
    <3>2. m \in 0 .. m /\ m + 1 \in 1 .. N
      BY <2>1
    <3>3. f[m] \in V
      BY <3>1, <3>2
    <3>4. g[m + 1][f[m]] \in V
      BY <3>2, <3>3
    <3>5. h \in Upto(m + 1)
      <4>1. ASSUME NEW n \in 0 .. m + 1
            PROVE  (IF n <= m THEN f[n] ELSE g[m + 1][f[m]]) \in V
        <5>1. n <= m => n \in 0 .. m
          OBVIOUS
        <5> QED
          BY <3>1, <3>4, <5>1
      <4> QED
        BY <4>1
    <3>6. Good(h, m + 1)
      <4>1. h[0] = a
        BY <3>1
      <4>2. ASSUME NEW n \in 1 .. m + 1
            PROVE  h[n] = g[n][h[n - 1]]
        <5>1. CASE n <= m
          BY <3>1, <5>1
        <5>2. CASE n = m + 1
          BY <3>1, <5>2
        <5> QED
          BY <5>1, <5>2
      <4> QED
        BY <4>1, <4>2
    <3> HIDE DEF Good, Upto, h
    <3> QED
      BY <3>5, <3>6 DEF S
  <2>2. CASE ~(m + 1 <= N)
    BY <2>2
  <2> QED
    BY <2>1, <2>2
<1>3. N \in S
  <2> HIDE DEF S
  <2> QED
    BY <1>1, <1>2, SetInduction
<1> QED
  BY <1>3

\* A set that has 0, and with each number below N the next one, has all up to N.
LEMMA UptoInduction ==
    ASSUME NEW N \in Nat, NEW S, 0 \in S, \A n \in 0 .. N - 1 : n \in S => n + 1 \in S
    PROVE  0 .. N \subseteq S
<1> DEFINE T == {n \in Nat : n <= N => n \in S}
<1>1. 0 \in T
  OBVIOUS
<1>2. \A n \in Nat : n \in T => n + 1 \in T
  OBVIOUS
<1>3. Nat \subseteq T
  <2> HIDE DEF T
  <2> QED
    BY <1>1, <1>2, SetInduction
<1> QED
  BY <1>3

\* A function that stays in V as long as it has done so is in V all along.
LEMMA RecursionStays ==
    ASSUME NEW N \in Nat, NEW V, NEW f, DOMAIN f = 0 .. N, f = [n \in 0 .. N |-> f[n]],
           f[0] \in V, \A n \in 1 .. N : f[n - 1] \in V => f[n] \in V
    PROVE  f \in [0 .. N -> V]
<1> DEFINE S == {n \in 0 .. N : f[n] \in V}
<1>1. 0 \in S
  OBVIOUS
<1>2. ASSUME NEW n \in 0 .. N - 1, n \in S
      PROVE  n + 1 \in S
  <2>1. n + 1 \in 1 .. N /\ (n + 1) - 1 = n
    OBVIOUS
  <2> QED
    BY <1>2, <2>1
<1>3. 0 .. N \subseteq S
  <2> HIDE DEF S
  <2> QED
    BY <1>1, <1>2, UptoInduction
<1> QED
  BY <1>3

\* A set of numbers up to N has a greatest one.
LEMMA GreatestExists ==
    ASSUME NEW N \in Nat, NEW S \in SUBSET (1 .. N), S # {}
    PROVE  \E m \in S : \A n \in S : m >= n
<1> DEFINE T == {k \in Nat : \A R \in SUBSET (1 .. k) : R # {} => \E m \in R : \A n \in R : m >= n}
<1>1. 0 \in T
  <2>1. 1 .. 0 = {}
    OBVIOUS
  <2> QED
    BY <2>1
<1>2. ASSUME NEW k \in Nat, k \in T
      PROVE  k + 1 \in T
  <2>1. ASSUME NEW R \in SUBSET (1 .. k + 1), R # {}
        PROVE  \E m \in R : \A n \in R : m >= n
    <3>1. CASE k + 1 \in R
      BY <3>1
    <3>2. CASE k + 1 \notin R
      <4>1. R \in SUBSET (1 .. k)
        BY <3>2
      <4> QED
        BY <1>2, <2>1, <4>1
    <3> QED
      BY <3>1, <3>2
  <2> QED
    BY <2>1
<1>3. N \in T
  <2> HIDE DEF T
  <2> QED
    BY <1>1, <1>2, SetInduction
<1> QED
  BY <1>3

================================================================================
