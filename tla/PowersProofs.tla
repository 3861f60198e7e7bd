---------------------------- MODULE PowersProofs ----------------------------
(***************************************************************************)
(* Facts about natural numbers that the proofs about addresses, networks   *)
(* and serialized integers rest on: induction, functions defined by        *)
(* recursion, division, and the powers of two.                             *)
(***************************************************************************)
EXTENDS Powers, FiniteSets, FiniteSetTheorems, TLAPS

(* The numbers from zero up to one less than k.                            *)
LEMMA Below ==
  ASSUME NEW k \in Nat
  PROVE  IsFiniteSet(0 .. k - 1) /\ Cardinality(0 .. k - 1) = k
<1>1. /\ IsFiniteSet(0 .. k - 1)
      /\ Cardinality(0 .. k - 1) = IF 0 > k - 1 THEN 0 ELSE (k - 1) - 0 + 1
  BY FS_Interval
<1> QED
  BY <1>1

(* A set of natural numbers has a least one: as many numbers precede it as *)
(* lie before all of the set.                                              *)
LEMMA Least ==
  ASSUME NEW T \in SUBSET Nat, T # {}
  PROVE  \E m \in T : \A i \in 0 .. m - 1 : i \notin T
<1>1. PICK n \in T : TRUE
  OBVIOUS
<1> DEFINE D == {j \in 0 .. n - 1 : \A i \in 0 .. j : i \notin T}
           k == Cardinality(D)
<1>2. IsFiniteSet(D) /\ k \in Nat
  <2>1. D \in SUBSET (0 .. n - 1)
    OBVIOUS
  <2> HIDE DEF D
  <2>2. IsFiniteSet(D)
    BY <2>1, Below, FS_Subset
  <2> QED
    BY <2>2, FS_CardinalityType
<1>3. ASSUME NEW j \in D PROVE j < k
  <2>1. j \in Nat /\ 0 .. j \in SUBSET D
    OBVIOUS
  <2>2. Cardinality(0 .. (j + 1) - 1) = j + 1
    BY <2>1, Below
  <2> HIDE DEF D
  <2>3. Cardinality(0 .. j) <= k
    BY <1>2, <2>1, FS_Subset
  <2> QED
    BY <1>2, <2>1, <2>2, <2>3
<1>4. D = 0 .. k - 1
  <2>1. D \in SUBSET (0 .. k - 1)
    <3>1. D \in SUBSET Nat
      OBVIOUS
    <3> HIDE DEF D, k
    <3> QED
      BY <1>2, <1>3, <3>1
  <2> HIDE DEF D
  <2>2. IsFiniteSet(0 .. k - 1) /\ Cardinality(0 .. k - 1) = k
    BY <1>2, Below
  <2> QED
    BY <2>1, <2>2, FS_Subset
<1> HIDE DEF k
<1>5. k <= n /\ \A i \in 0 .. k - 1 : i \notin T
  BY <1>2, <1>4
<1>6. k \in T
  <2>1. CASE k = n
    BY <2>1
  <2>2. CASE k < n
    <3>1. k \in 0 .. n - 1 /\ k \notin D
      <4> HIDE DEF D
      <4> QED
        BY <1>2, <1>4, <2>2
    <3>2. PICK i \in 0 .. k : i \in T
      BY <3>1
    <3> QED
      BY <1>2, <1>5, <3>2
  <2> QED
    BY <1>2, <1>5, <2>1, <2>2
<1> QED
  BY <1>2, <1>5, <1>6

(* What is in a set with zero and all successors is every natural number.  *)
LEMMA Induction ==
  ASSUME NEW S, 0 \in S, \A n \in Nat : n \in S => n + 1 \in S
  PROVE  Nat \subseteq S
<1> SUFFICES ASSUME Nat \ S # {} PROVE FALSE
  OBVIOUS
<1>1. PICK m \in Nat \ S : \A i \in 0 .. m - 1 : i \notin Nat \ S
  BY Least
<1>2. m # 0 /\ m - 1 \in Nat /\ m - 1 \in 0 .. m - 1
  BY <1>1
<1>3. m - 1 \in S
  BY <1>1, <1>2
<1> QED
  BY <1>2, <1>3

(* A sequence of values has a first one, and each next one is a function   *)
(* of the one before it and of its place.                                  *)
Iterates(f, V, c, step) ==
  /\ f \in [Nat -> V]
  /\ f[0] = c
  /\ \A n \in Nat : f[n + 1] = step[n][f[n]]

(* There is such a sequence.                                               *)
LEMMA Recursion ==
  ASSUME NEW V, NEW c \in V, NEW step \in [Nat -> [V -> V]]
  PROVE  \E f : Iterates(f, V, c, step)
<1> DEFINE Begins(n) ==
             {g \in [0 .. n -> V] :
                g[0] = c /\ \A i \in 0 .. n - 1 : g[i + 1] = step[i][g[i]]}
           S == {n \in Nat : Begins(n) # {}}
<1>1. Nat \subseteq S
  <2>1. 0 \in S
    <3>1. [i \in 0 .. 0 |-> c] \in Begins(0)
      OBVIOUS
    <3> QED
      BY <3>1
  <2>2. ASSUME NEW n \in Nat, n \in S PROVE n + 1 \in S
    <3>1. PICK g \in [0 .. n -> V] :
            g[0] = c /\ \A i \in 0 .. n - 1 : g[i + 1] = step[i][g[i]]
      BY <2>2
    <3> DEFINE h == [i \in 0 .. n + 1 |-> IF i = n + 1 THEN step[n][g[n]] ELSE g[i]]
    <3>2. h \in [0 .. n + 1 -> V] /\ h[0] = c
      BY <3>1
    <3>3. ASSUME NEW i \in 0 .. (n + 1) - 1 PROVE h[i + 1] = step[i][h[i]]
      <4>1. CASE i = n
        <5>1. h[n + 1] = step[n][g[n]] /\ h[n] = g[n]
          OBVIOUS
        <5> HIDE DEF h
        <5> QED
          BY <4>1, <5>1
      <4>2. CASE i # n
        <5>1. i \in 0 .. n - 1 /\ h[i + 1] = g[i + 1] /\ h[i] = g[i]
          BY <4>2
        <5> QED
          BY <3>1, <5>1
      <4> QED
        BY <4>1, <4>2
    <3> HIDE DEF h
    <3>4. h \in Begins(n + 1)
      BY <3>2, <3>3
    <3> QED
      BY <3>4
  <2> HIDE DEF S
  <2> QED
    BY <2>1, <2>2, Induction
<1>2. ASSUME NEW m \in Nat, NEW n \in Nat, m <= n,
             NEW g \in Begins(m), NEW h \in Begins(n)
      PROVE  g[m] = h[m]
  <2> DEFINE T == {i \in Nat : i <= m => g[i] = h[i]}
  <2>1. 0 \in T
    OBVIOUS
  <2>2. ASSUME NEW i \in Nat, i \in T PROVE i + 1 \in T
    <3> SUFFICES ASSUME i + 1 <= m PROVE g[i + 1] = h[i + 1]
      OBVIOUS
    <3>1. i \in 0 .. m - 1 /\ i \in 0 .. n - 1 /\ g[i] = h[i]
      BY <1>2, <2>2
    <3> QED
      BY <3>1
  <2> HIDE DEF T
  <2>3. m \in T
    BY <2>1, <2>2, Induction
  <2> QED
    BY <2>3 DEF T
<1> DEFINE pick == [n \in Nat |-> CHOOSE g \in Begins(n) : TRUE]
           f == [n \in Nat |-> pick[n][n]]
<1>3. ASSUME NEW n \in Nat PROVE pick[n] \in Begins(n)
  BY <1>1
<1> HIDE DEF pick
<1>4. f \in [Nat -> V]
  BY <1>3
<1>5. f[0] = c
  BY <1>3
<1>6. ASSUME NEW n \in Nat PROVE f[n + 1] = step[n][f[n]]
  <2>1. pick[n + 1] \in Begins(n + 1) /\ pick[n] \in Begins(n)
    BY <1>3
  <2>2. pick[n + 1][n + 1] = step[n][pick[n + 1][n]]
    BY <2>1
  <2>3. pick[n + 1][n] = pick[n][n]
    <3> HIDE DEF Begins
    <3>1. n <= n + 1 /\ n + 1 \in Nat
      OBVIOUS
    <3>2. ASSUME NEW g \in Begins(n), NEW h \in Begins(n + 1) PROVE g[n] = h[n]
      BY <1>2, <3>1
    <3> QED
      BY <2>1, <3>2
  <2> QED
    BY <2>2, <2>3
<1> HIDE DEF f
<1>7. Iterates(f, V, c, step)
  BY <1>4, <1>5, <1>6 DEF Iterates
<1> QED
  BY <1>7

(* What holds of zero, and of the next number up to k, holds up to k.      *)
LEMMA InductionUpTo ==
  ASSUME NEW k \in Nat, NEW S, 0 \in S, \A n \in 0 .. k - 1 : n \in S => n + 1 \in S
  PROVE  \A n \in 0 .. k : n \in S
<1> DEFINE T == {n \in Nat : n <= k => n \in S}
<1>1. 0 \in T
  OBVIOUS
<1>2. ASSUME NEW n \in Nat, n \in T PROVE n + 1 \in T
  <2>1. n + 1 <= k => n + 1 \in S
    <3> SUFFICES ASSUME n + 1 <= k PROVE n + 1 \in S
      OBVIOUS
    <3>1. n \in 0 .. k - 1 /\ n \in S
      BY <1>2
    <3> QED
      BY <3>1
  <2> QED
    BY <2>1
<1> HIDE DEF T
<1>3. Nat \subseteq T
  BY <1>1, <1>2, Induction
<1> QED
  BY <1>3 DEF T

(* A sequence of k values after the first, each a function of the one      *)
(* before it and of its place.                                             *)
IteratesUpTo(k, g, V, c, step) ==
  /\ g \in [0 .. k -> V]
  /\ g[0] = c
  /\ \A i \in 0 .. k - 1 : g[i + 1] = step[i][g[i]]

(* There is such a sequence.                                               *)
LEMMA RecursionUpTo ==
  ASSUME NEW V, NEW c \in V, NEW k \in Nat, NEW step \in [0 .. k - 1 -> [V -> V]]
  PROVE  \E g : IteratesUpTo(k, g, V, c, step)
<1> DEFINE steps == [n \in Nat |-> IF n \in 0 .. k - 1 THEN step[n] ELSE [x \in V |-> c]]
<1>1. steps \in [Nat -> [V -> V]]
  OBVIOUS
<1>2. \A i \in 0 .. k - 1 : steps[i] = step[i]
  OBVIOUS
<1> HIDE DEF steps
<1>3. PICK f : Iterates(f, V, c, steps)
  BY <1>1, Recursion
<1>4. /\ f \in [Nat -> V] /\ f[0] = c
      /\ \A n \in Nat : f[n + 1] = steps[n][f[n]]
  BY <1>3 DEF Iterates
<1> DEFINE g == [i \in 0 .. k |-> f[i]]
<1>5. g \in [0 .. k -> V] /\ g[0] = c
  BY <1>4
<1>6. \A i \in 0 .. k - 1 : g[i + 1] = step[i][g[i]]
  <2> TAKE i \in 0 .. k - 1
  <2>1. i \in 0 .. k /\ i + 1 \in 0 .. k /\ i \in Nat
    OBVIOUS
  <2>2. g[i + 1] = f[i + 1] /\ g[i] = f[i]
    BY <2>1
  <2> HIDE DEF g
  <2> QED
    BY <1>2, <1>4, <2>1, <2>2
<1> HIDE DEF g
<1> QED
  BY <1>5, <1>6 DEF IteratesUpTo

(* The quotient and the remainder of a number are those it is made of.     *)
LEMMA Division ==
  ASSUME NEW n \in Int, NEW b \in Nat \ {0}
  PROVE  /\ n = b * (n \div b) + (n % b)
         /\ n \div b \in Int /\ n % b \in 0 .. b - 1
         /\ n \in Nat => n \div b \in Nat /\ n \div b <= n
OBVIOUS

(* A number made of a quotient and a remainder has no others.              *)
LEMMA DivisionIsUnique ==
  ASSUME NEW q \in Int, NEW b \in Nat \ {0}, NEW r \in 0 .. b - 1
  PROVE  (q * b + r) \div b = q /\ (q * b + r) % b = r
OBVIOUS

-----------------------------------------------------------------------------
(* The powers of two.                                                      *)
LEMMA Pow2Defined ==
  /\ Pow2 \in [Nat -> Nat \ {0}]
  /\ Pow2[0] = 1
  /\ \A n \in Nat : Pow2[n + 1] = 2 * Pow2[n]
<1> DEFINE V == Nat \ {0}
           step == [n \in Nat |-> [x \in V |-> 2 * x]]
           Solves(f) == f = [n \in Nat |-> IF n = 0 THEN 1 ELSE 2 * f[n - 1]]
<1>1. step \in [Nat -> [V -> V]] /\ 1 \in V
  OBVIOUS
<1>2. PICK f : Iterates(f, V, 1, step)
  <2> HIDE DEF step, V
  <2> QED
    BY <1>1, Recursion
<1>3. Solves(f)
  <2>1. ASSUME NEW n \in Nat, n # 0 PROVE f[n] = 2 * f[n - 1]
    <3>1. n - 1 \in Nat /\ (n - 1) + 1 = n
      BY <2>1
    <3>2. f[n - 1] \in V /\ f[n] = step[n - 1][f[n - 1]]
      BY <1>2, <3>1 DEF Iterates
    <3> QED
      BY <3>1, <3>2
  <2> QED
    BY <1>2, <2>1 DEF Iterates
<1>4. Pow2 = CHOOSE g : Solves(g)
  BY DEF Pow2
<1> HIDE DEF Solves
<1>5. Solves(Pow2)
  BY <1>3, <1>4
<1> USE DEF Solves
<1>6. Pow2 = [n \in Nat |-> IF n = 0 THEN 1 ELSE 2 * Pow2[n - 1]]
  BY <1>5
<1>7. Pow2[0] = 1 /\ \A n \in Nat : Pow2[n + 1] = 2 * Pow2[n]
  <2>1. ASSUME NEW n \in Nat PROVE Pow2[n] = IF n = 0 THEN 1 ELSE 2 * Pow2[n - 1]
    BY <1>6
  <2>2. Pow2[0] = 1
    BY <2>1
  <2>3. ASSUME NEW n \in Nat PROVE Pow2[n + 1] = 2 * Pow2[n]
    <3>1. n + 1 \in Nat /\ n + 1 # 0 /\ (n + 1) - 1 = n
      OBVIOUS
    <3> QED
      BY <2>1, <3>1
  <2> QED
    BY <2>2, <2>3
<1>8. \A n \in Nat : Pow2[n] \in V
  <2> DEFINE S == {n \in Nat : Pow2[n] \in V}
  <2>1. 0 \in S /\ \A n \in Nat : n \in S => n + 1 \in S
    BY <1>7
  <2> HIDE DEF S
  <2>2. Nat \subseteq S
    BY <2>1, Induction
  <2> QED
    BY <2>2 DEF S
<1> QED
  BY <1>6, <1>7, <1>8

(* Exponents add up.                                                       *)
LEMMA Pow2Sum ==
  ASSUME NEW m \in Nat, NEW n \in Nat
  PROVE  Pow2[m + n] = Pow2[m] * Pow2[n]
<1> DEFINE S == {k \in Nat : Pow2[m + k] = Pow2[m] * Pow2[k]}
<1>1. 0 \in S
  BY Pow2Defined
<1>2. ASSUME NEW k \in Nat, k \in S PROVE k + 1 \in S
  <2>1. /\ Pow2[m + (k + 1)] = 2 * Pow2[m + k]
        /\ Pow2[k + 1] = 2 * Pow2[k]
        /\ Pow2[m] \in Nat /\ Pow2[k] \in Nat
    <3>1. m + (k + 1) = (m + k) + 1 /\ m + k \in Nat
      OBVIOUS
    <3> QED
      BY <3>1, Pow2Defined
  <2>2. Pow2[m + k] = Pow2[m] * Pow2[k]
    BY <1>2
  <2> QED
    BY <2>1, <2>2
<1> HIDE DEF S
<1>3. n \in S
  BY <1>1, <1>2, Induction
<1> QED
  BY <1>3 DEF S

(* Powers grow with their exponents, to at least the double.               *)
LEMMA Pow2Grows ==
  ASSUME NEW m \in Nat, NEW n \in Nat, m <= n
  PROVE  /\ Pow2[m] <= Pow2[n]
         /\ m < n => 2 * Pow2[m] <= Pow2[n]
<1>1. n - m \in Nat /\ m + (n - m) = n
  OBVIOUS
<1>2. /\ Pow2[n] = Pow2[m] * Pow2[n - m]
      /\ Pow2[m] \in Nat \ {0} /\ Pow2[n - m] \in Nat \ {0}
  BY <1>1, Pow2Sum, Pow2Defined
<1>3. m < n => Pow2[n - m] = 2 * Pow2[n - m - 1] /\ Pow2[n - m - 1] \in Nat \ {0}
  <2> SUFFICES ASSUME m < n
               PROVE  /\ Pow2[n - m] = 2 * Pow2[n - m - 1]
                      /\ Pow2[n - m - 1] \in Nat \ {0}
    OBVIOUS
  <2>1. n - m - 1 \in Nat /\ (n - m - 1) + 1 = n - m
    OBVIOUS
  <2> QED
    BY <2>1, Pow2Defined
<1>4. \A x, y \in Nat \ {0} : x <= x * y /\ 2 * x <= x * (2 * y)
  OBVIOUS
<1> QED
  BY <1>2, <1>3, <1>4
=============================================================================
