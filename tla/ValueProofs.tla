---------------------------- MODULE ValueProofs -----------------------------
(***************************************************************************)
(* Proofs about serialized integers and varints, for integers, units and   *)
(* buffers of every size: what is written to a buffer of unsigned units is *)
(* read back, and a varint never runs out of room.  Proofs about checksums *)
(* of every width: those of chunks are those of their bytes.  Proofs about *)
(* texts of every length and characters of every kind: what is encoded is  *)
(* decoded to what it was, and what is replaced is what can be found.      *)
(* Proofs about the operators of varints of every width, and about urls    *)
(* of every length and characters of every kind: what is printed is parsed *)
(* to the same url again, and how a text is split.                         *)
(***************************************************************************)
EXTENDS Serialization, Crc32, Texts, VarintType, Url, PowersProofs,
  SequenceTheorems, FiniteSetTheorems

-----------------------------------------------------------------------------
(* Units                                                                   *)

(* The numbers of bits are positive, and there is more than one value.     *)
LEMMA Widths ==
  /\ UnitBits \in Nat /\ IntUnits \in Nat \ {0} /\ VarintBits \in Nat
  /\ BufferSize \in Nat
  /\ 1 < UnitBits /\ UnitBits <= VarintBits
BY SerializationAssumption

(* Radix is at least two, and half of what a unit may be.                  *)
LEMMA RadixIs ==
  /\ Radix \in Nat /\ Radix >= 2
  /\ Pow2[UnitBits] = Radix * 2
<1>1. UnitBits - 1 \in Nat /\ 1 <= UnitBits - 1 /\ (UnitBits - 1) + 1 = UnitBits
  BY Widths
<1>2. Pow2[1] = 2
  BY Pow2Defined, 0 + 1 = 1
<1>3. Pow2[1] <= Pow2[UnitBits - 1]
  BY <1>1, Pow2Grows
<1>4. Pow2[(UnitBits - 1) + 1] = 2 * Pow2[UnitBits - 1] /\ Pow2[UnitBits - 1] \in Nat
  BY <1>1, Pow2Defined
<1> QED
  BY <1>1, <1>2, <1>3, <1>4 DEF Radix

-----------------------------------------------------------------------------
(* Integers                                                                *)

(* What the last i units of a number are is its rest.                      *)
Rest(value, i) == value % Pow2[UnitBits * i]

(* One more unit is one more part of the rest.                             *)
LEMMA RestAndUnit ==
  ASSUME NEW value \in Nat, NEW i \in Nat
  PROVE  Rest(value, i + 1) = Rest(value, i)
           + ((value \div Pow2[UnitBits * i]) % Pow2[UnitBits]) * Pow2[UnitBits * i]
<1> DEFINE P == Pow2[UnitBits * i]
           Q == Pow2[UnitBits]
           q == value \div P
           r == value % P
           s == q \div Q
           t == q % Q
<1>1. P \in Nat \ {0} /\ Q \in Nat \ {0} /\ Pow2[UnitBits * (i + 1)] = P * Q
  <2>1. UnitBits * i \in Nat /\ UnitBits \in Nat
        /\ UnitBits * (i + 1) = UnitBits * i + UnitBits
    BY Widths
  <2> QED
    BY <2>1, Pow2Defined, Pow2Sum
<1> HIDE DEF P, Q
<1>2. value = P * q + r /\ q \in Nat /\ r \in 0 .. P - 1
  BY <1>1
<1> HIDE DEF q, r
<1>3. q = Q * s + t /\ s \in Nat /\ t \in 0 .. Q - 1
  BY <1>1, <1>2
<1> HIDE DEF s, t
<1>4. value = s * (P * Q) + (r + t * P)
  BY <1>1, <1>2, <1>3
<1>5. r + t * P \in 0 .. P * Q - 1 /\ P * Q \in Nat \ {0}
  <2>1. t * P <= (Q - 1) * P /\ t * P \in Nat
    BY <1>1, <1>3
  <2>2. (Q - 1) * P = P * Q - P /\ P * Q \in Nat \ {0}
    BY <1>1
  <2> QED
    BY <1>1, <1>2, <2>1, <2>2
<1> DEFINE N == P * Q
           R == r + t * P
<1>6. N \in Nat \ {0} /\ R \in 0 .. N - 1 /\ value = s * N + R
  BY <1>4, <1>5
<1> HIDE DEF N, R
<1>7. (s * N + R) % N = R
  BY <1>3, <1>6, DivisionIsUnique
<1>8. value % (P * Q) = r + t * P
  BY <1>6, <1>7 DEF N, R
<1> QED
  BY <1>1, <1>8 DEF Rest, P, Q, q, r, t

(* The units of a number, added up.                                        *)
LEMMA IntReadsBack ==
  ASSUME ~SignedUnits, NEW value \in Ints,
         NEW units, \A i \in 1 .. IntUnits : units[i] = Units(value)[i]
  PROVE  FromUnits(units) = value
<1> DEFINE B == UnitBits
           k == IntUnits
           sums == [i \in 0 .. k |-> Rest(value, i)]
           Solves(f) == f = [i \in 0 .. IntUnits |->
                IF i = 0 THEN 0
                ELSE f[i - 1] + Cast(units[IntUnits + 1 - i]) * Pow2[UnitBits * (i - 1)]]
           sum == CHOOSE f : Solves(f)
<1>1. B \in Nat /\ k \in Nat \ {0}
  BY Widths
<1>2. /\ B * k \in Nat /\ Pow2[B * k] \in Nat \ {0}
      /\ value \in Nat /\ value < Pow2[B * k]
  <2>1. B * k \in Nat
    BY <1>1
  <2>2. Pow2[B * k] \in Nat \ {0}
    BY <2>1, Pow2Defined
  <2> QED
    BY <2>1, <2>2 DEF Ints
<1>3. ASSUME NEW i \in 1 .. k
      PROVE  /\ Rest(value, i) = Rest(value, i - 1) +
                 Cast(units[k + 1 - i]) * Pow2[B * (i - 1)]
             /\ i - 1 \in 0 .. k
  <2>1. /\ i - 1 \in Nat /\ (i - 1) + 1 = i /\ k + 1 - i \in 1 .. k
        /\ k - (k + 1 - i) = i - 1
    BY <1>1
  <2>2. units[k + 1 - i] = (value \div Pow2[B * (i - 1)]) % Pow2[B]
    BY <2>1 DEF Units
  <2>3. Cast(units[k + 1 - i]) = units[k + 1 - i]
    BY DEF Cast
  <2> QED
    BY <1>1, <1>2, <2>1, <2>2, <2>3, RestAndUnit
<1>4. Rest(value, 0) = 0
  <2>1. B * 0 = 0
    BY <1>1
  <2> QED
    BY <1>2, <2>1, Pow2Defined DEF Rest
<1>5. Solves(sums)
  <2> DEFINE g == [i \in 0 .. k |->
                     IF i = 0 THEN 0
                     ELSE sums[i - 1] + Cast(units[k + 1 - i]) * Pow2[B * (i - 1)]]
  <2>1. \A i \in 0 .. k : sums[i] = g[i]
    <3> TAKE i \in 0 .. k
    <3>1. CASE i = 0
      BY <1>1, <1>4, <3>1
    <3>2. CASE i # 0
      <4>1. i \in 1 .. k
        BY <1>1, <3>2
      <4>2. sums[i] = Rest(value, i) /\ sums[i - 1] = Rest(value, i - 1)
        BY <1>3, <4>1
      <4> QED
        BY <1>3, <3>2, <4>1, <4>2
    <3> QED
      BY <3>1, <3>2
  <2>2. sums = g
    BY <2>1
  <2> QED
    BY <2>2
<1>6. FromUnits(units) = sum[k] % Pow2[B * k]
  BY DEF FromUnits
<1>7. Rest(value, k) = value
  BY <1>2 DEF Rest
<1>8. \A i \in 1 .. k : sum[i] = sum[i - 1] + Cast(units[k + 1 - i]) * Pow2[B * (i - 1)]
  <2> HIDE DEF sums
  <2>1. Solves(sum)
    <3> HIDE DEF Solves
    <3> QED
      BY <1>5
  <2> HIDE DEF sum
  <2> QED
    BY <1>1, <2>1
<1>9. sum[0] = 0
  <2> HIDE DEF sums
  <2>1. Solves(sum)
    <3> HIDE DEF Solves
    <3> QED
      BY <1>5
  <2> HIDE DEF sum
  <2> QED
    BY <1>1, <2>1
<1> HIDE DEF sum
<1>10. sum[k] = value
  <2> DEFINE S == {i \in Nat : i <= k => sum[i] = Rest(value, i)}
  <2>1. 0 \in S
    BY <1>4, <1>9
  <2>2. ASSUME NEW i \in Nat, i \in S PROVE i + 1 \in S
    <3>2. i + 1 <= k => sum[i + 1] = Rest(value, i + 1)
      <4> SUFFICES ASSUME i + 1 <= k PROVE sum[i + 1] = Rest(value, i + 1)
        OBVIOUS
      <4>1. i + 1 \in 1 .. k /\ (i + 1) - 1 = i /\ i <= k
        BY <1>1
      <4>2. sum[i] = Rest(value, i)
        BY <2>2, <4>1
      <4> QED
        BY <1>3, <1>8, <4>1, <4>2
    <3> QED
      BY <3>2
  <2> HIDE DEF S
  <2>3. k \in S
    BY <1>1, <2>1, <2>2, Induction
  <2> QED
    BY <1>7, <2>3 DEF S
<1> QED
  BY <1>2, <1>6, <1>10

-----------------------------------------------------------------------------
(* What is written of a varint                                             *)

(* What is left of a value after one more shift.                           *)
LEMMA InputDefined ==
  ASSUME NEW value \in Int
  PROVE  /\ Input(value) \in [Nat -> Int]
         /\ Input(value)[0] = value
         /\ \A n \in Nat : Input(value)[n + 1] = Input(value)[n] \div Radix - 1
<1> DEFINE step == [n \in Nat |-> [x \in Int |-> x \div Radix - 1]]
           Solves(f) == f = [i \in Nat |-> IF i = 0 THEN value ELSE f[i - 1] \div Radix - 1]
           input == CHOOSE f : Solves(f)
<1>1. step \in [Nat -> [Int -> Int]]
  BY RadixIs
<1>2. PICK f : Iterates(f, Int, value, step)
  <2> HIDE DEF step
  <2> QED
    BY <1>1, Recursion
<1>3. /\ f \in [Nat -> Int] /\ f[0] = value
      /\ \A n \in Nat : f[n + 1] = f[n] \div Radix - 1
  <2>1. /\ f \in [Nat -> Int] /\ f[0] = value
        /\ \A n \in Nat : f[n + 1] = step[n][f[n]]
    BY <1>2 DEF Iterates
  <2>2. \A n \in Nat : step[n][f[n]] = f[n] \div Radix - 1
    BY <2>1
  <2> HIDE DEF step
  <2> QED
    BY <2>1, <2>2
<1>4. Solves(f)
  <2>1. \A i \in Nat : f[i] = IF i = 0 THEN value ELSE f[i - 1] \div Radix - 1
    <3> TAKE i \in Nat
    <3>1. i = 0 \/ (i - 1 \in Nat /\ (i - 1) + 1 = i)
      OBVIOUS
    <3> QED
      BY <1>3, <3>1
  <2> QED
    BY <1>3, <2>1
<1>5. Solves(input)
  <2> HIDE DEF Solves
  <2> QED
    BY <1>4
<1>6. Input(value) = input
  BY DEF Input
<1> HIDE DEF input
<1>7. /\ input = [i \in Nat |-> IF i = 0 THEN value ELSE input[i - 1] \div Radix - 1]
  BY <1>5
<1> HIDE DEF Solves
<1>8. DOMAIN input = Nat /\ input[0] = value
  BY <1>7
<1>9. \A n \in Nat : input[n + 1] = input[n] \div Radix - 1
  <2> TAKE n \in Nat
  <2>1. n + 1 \in Nat /\ n + 1 # 0 /\ (n + 1) - 1 = n
    OBVIOUS
  <2> QED
    BY <1>7, <2>1
<1>10. \A n \in Nat : input[n] \in Int
  <2> DEFINE S == {n \in Nat : input[n] \in Int}
  <2>1. 0 \in S /\ \A n \in Nat : n \in S => n + 1 \in S
    BY <1>8, <1>9, RadixIs
  <2> HIDE DEF S
  <2>2. Nat \subseteq S
    BY <2>1, Induction
  <2> QED
    BY <2>2 DEF S
<1>11. input \in [Nat -> Int]
  <2>1. input = [n \in Nat |-> input[n]]
    BY <1>7
  <2> QED
    BY <1>10, <2>1
<1> QED
  BY <1>6, <1>8, <1>9, <1>11

(* While it is not negative, it falls by one at least.                     *)
LEMMA InputFalls ==
  ASSUME NEW value \in Nat, NEW n \in Nat, Input(value)[n] >= 0
  PROVE  Input(value)[n] <= value - n
<1> DEFINE input == Input(value)
           S == {i \in Nat : input[i] >= 0 => input[i] <= value - i}
<1>1. /\ input \in [Nat -> Int] /\ input[0] = value
      /\ \A i \in Nat : input[i + 1] = input[i] \div Radix - 1
  BY InputDefined
<1> HIDE DEF input
<1>2. 0 \in S
  BY <1>1
<1>3. ASSUME NEW i \in Nat, i \in S PROVE i + 1 \in S
  <2> DEFINE x == input[i]
  <2>1. x \in Int /\ (x >= 0 => x <= value - i) /\ input[i + 1] = x \div Radix - 1
    BY <1>1, <1>3
  <2> HIDE DEF x
  <2> DEFINE R == Radix
  <2>2. R \in Nat /\ R >= 2
    BY RadixIs
  <2> HIDE DEF R
  <2> DEFINE y == x \div R - 1
  <2>3. y \in Int /\ (y >= 0 => x >= 0 /\ y <= x - 1)
    BY <2>1, <2>2
  <2>4. input[i + 1] = y
    BY <2>1 DEF R
  <2> HIDE DEF y
  <2>5. input[i + 1] >= 0 => input[i + 1] <= value - (i + 1)
    BY <2>1, <2>3, <2>4
  <2> QED
    BY <2>5
<1> HIDE DEF S
<1>4. n \in S
  BY <1>2, <1>3, Induction
<1> QED
  BY <1>4 DEF S, input

(* There are as many units as shifts until it is negative.                 *)
LEMMA UnitCountIs ==
  ASSUME NEW value \in Nat
  PROVE  /\ UnitCount(value) \in Nat \ {0}
         /\ Input(value)[UnitCount(value)] < 0
         /\ \A i \in 0 .. UnitCount(value) - 1 : Input(value)[i] \in 0 .. value
<1> DEFINE input == Input(value)
           T == {n \in Nat : input[n] < 0}
<1>1. input \in [Nat -> Int] /\ input[0] = value
  BY InputDefined
<1>2. \A n \in Nat : input[n] >= 0 => input[n] <= value - n
  BY InputFalls
<1> HIDE DEF input
<1>3. value + 1 \in T
  BY <1>1, <1>2
<1>4. PICK m \in T : \A i \in 0 .. m - 1 : i \notin T
  <2>1. T \in SUBSET Nat /\ T # {}
    BY <1>3
  <2> HIDE DEF T
  <2> QED
    BY <2>1, Least
<1>5. m \in 1 .. value + 1 /\ input[m] < 0 /\ \A i \in 1 .. m - 1 : input[i] >= 0
  <2>1. m \in Nat /\ input[m] < 0 /\ m # 0
    BY <1>1, <1>4
  <2>2. m <= value + 1
    <3>1. value + 1 \in 0 .. m - 1 => FALSE
      BY <1>3, <1>4
    <3> QED
      BY <2>1, <3>1
  <2>3. \A i \in 1 .. m - 1 : input[i] >= 0
    BY <1>1, <1>4
  <2> QED
    BY <2>1, <2>2, <2>3
<1> DEFINE Is(k) == k \in 1 .. value + 1 /\ input[k] < 0 /\ \A i \in 1 .. k - 1 : input[i] >= 0
           count == CHOOSE k : Is(k)
<1>6. Is(count)
  <2>1. Is(m)
    BY <1>5
  <2> HIDE DEF Is
  <2> QED
    BY <2>1
<1>7. UnitCount(value) = CHOOSE k \in 1 .. value + 1 :
                           input[k] < 0 /\ \A i \in 1 .. k - 1 : input[i] >= 0
  BY DEF UnitCount, input
<1>8. UnitCount(value) = count
  BY <1>7
<1> HIDE DEF count
<1>9. \A i \in 0 .. count - 1 : input[i] \in 0 .. value
  <2> TAKE i \in 0 .. count - 1
  <2>1. i \in Nat /\ input[i] \in Int /\ input[i] >= 0
    BY <1>1, <1>6
  <2> QED
    BY <1>2, <2>1
<1> QED
  BY <1>6, <1>8, <1>9 DEF input

(* A value of so many bits has none of them left after as many shifts.     *)
LEMMA InputBound ==
  ASSUME NEW value \in Nat, NEW n \in Nat, value < Pow2[(UnitBits - 1) * n],
         NEW i \in 0 .. n
  PROVE  Input(value)[i] < Pow2[(UnitBits - 1) * (n - i)]
<1> DEFINE input == Input(value)
           E == UnitBits - 1
           S == {j \in Nat : j <= n => input[j] < Pow2[E * (n - j)]}
<1>1. /\ input \in [Nat -> Int] /\ input[0] = value
      /\ \A j \in Nat : input[j + 1] = input[j] \div Radix - 1
  <2>1. value \in Int
    OBVIOUS
  <2> QED
    BY ONLY <2>1, InputDefined
<1>2. E \in Nat /\ Radix = Pow2[E]
  BY Widths DEF Radix
<1> HIDE DEF input, E
<1>3. 0 \in S
  <2>1. n - 0 = n
    OBVIOUS
  <2> QED
    BY <1>1, <2>1 DEF E
<1>4. ASSUME NEW j \in Nat, j \in S PROVE j + 1 \in S
  <2> SUFFICES ASSUME j + 1 <= n PROVE input[j + 1] < Pow2[E * (n - (j + 1))]
    OBVIOUS
  <2> DEFINE x == input[j]
             P == Pow2[E * (n - (j + 1))]
             R == Radix
  <2>1. x \in Int /\ R \in Nat /\ R >= 2 /\ input[j + 1] = x \div R - 1
    BY <1>1, RadixIs
  <2>2. x < P * R /\ P \in Nat \ {0}
    <3>1. n - (j + 1) \in Nat /\ n - j = (n - (j + 1)) + 1
      OBVIOUS
    <3> DEFINE d == n - (j + 1)
    <3> HIDE DEF d
    <3>2. d \in Nat /\ n - j = d + 1
      BY <3>1 DEF d
    <3>3. E * d \in Nat /\ E * (d + 1) = E * d + E
      BY <1>2, <3>2
    <3>4. Pow2[E * (n - j)] = Pow2[E * d] * Pow2[E] /\ Pow2[E * d] \in Nat \ {0}
      <4> DEFINE a == E * d
      <4>1. a \in Nat /\ E * (n - j) = a + E
        BY <3>2, <3>3
      <4> HIDE DEF a
      <4>2. Pow2[a + E] = Pow2[a] * Pow2[E]
        BY <1>2, <4>1, Pow2Sum
      <4>3. Pow2[a] \in Nat \ {0}
        BY <4>1, Pow2Defined
      <4> QED
        BY <4>1, <4>2, <4>3 DEF a
    <3>5. x < Pow2[E * (n - j)]
      BY <1>4
    <3> QED
      BY <1>2, <3>4, <3>5 DEF d
  <2>3. P = Pow2[E * (n - (j + 1))]
    OBVIOUS
  <2> HIDE DEF x, P, R
  <2>4. x \div R - 1 < P
    BY <2>1, <2>2
  <2> QED
    BY <2>1, <2>3, <2>4
<1> HIDE DEF S
<1>5. i \in S
  BY <1>3, <1>4, Induction
<1> QED
  BY <1>5 DEF S, input, E

(* serialized_size() of a value that is not negative is the number of its  *)
(* bits over those in a unit.                                              *)
LEMMA SizeIs ==
  ASSUME NEW value \in 0 .. Pow2[VarintBits - 1] - 1
  PROVE  /\ SerializedSize(value) \in 1 .. VarintBits
         /\ value < Pow2[(UnitBits - 1) * SerializedSize(value)]
<1> DEFINE E == UnitBits - 1
           T == {n \in Nat : n > 0 /\ value < Pow2[E * n]}
           Is(n) == /\ n \in 1 .. VarintBits
                    /\ value < Pow2[E * n]
                    /\ \A m \in 1 .. n - 1 : value >= Pow2[E * m]
           size == CHOOSE n : Is(n)
<1>1. E \in Nat /\ E >= 1 /\ VarintBits \in Nat /\ VarintBits >= 1
  BY Widths
<1>2. \A n \in Nat : Pow2[E * n] \in Nat
  <2> TAKE n \in Nat
  <2>1. E * n \in Nat
    BY <1>1
  <2> QED
    BY <2>1, Pow2Defined
<1>3. value \in Nat /\ VarintBits \in T
  <2>1. E * VarintBits \in Nat /\ VarintBits - 1 \in Nat /\ VarintBits - 1 <= E * VarintBits
    <3>1. VarintBits <= E * VarintBits
      BY <1>1
    <3> QED
      BY <1>1, <3>1
  <2>2. Pow2[VarintBits - 1] <= Pow2[E * VarintBits]
    BY <2>1, Pow2Grows
  <2>3. Pow2[VarintBits - 1] \in Nat /\ Pow2[E * VarintBits] \in Nat
    BY <2>1, Pow2Defined
  <2> QED
    BY <1>1, <2>2, <2>3
<1>4. SerializedSize(value) = size
  BY DEF SerializedSize
<1> HIDE DEF E
<1>5. PICK m \in T : \A i \in 0 .. m - 1 : i \notin T
  <2>1. T \in SUBSET Nat /\ T # {}
    BY <1>3
  <2> HIDE DEF T
  <2> QED
    BY <2>1, Least
<1>6. Is(m)
  <2>1. m \in Nat /\ m > 0 /\ value < Pow2[E * m]
    BY <1>5
  <2>2. m <= VarintBits
    BY <1>1, <1>3, <1>5, <2>1
  <2>3. \A i \in 1 .. m - 1 : value >= Pow2[E * i]
    BY <1>2, <1>3, <1>5, <2>1
  <2>4. m \in 1 .. VarintBits
    BY <1>1, <2>1, <2>2
  <2> QED
    BY <2>1, <2>3, <2>4
<1>7. Is(size)
  <2> HIDE DEF Is
  <2> QED
    BY <1>6
<1> QED
  BY <1>4, <1>7 DEF E

(* serialize_varint() never runs out of room in the units that             *)
(* serialized_size() counts, so that it never returns zero behind its      *)
(* first write: no value has more units than that.                         *)
THEOREM NeverRunsOutOfRoom ==
  ASSUME NEW value \in 0 .. Pow2[VarintBits - 1] - 1
  PROVE  UnitCount(value) <= SerializedSize(value)
<1> DEFINE k == UnitCount(value)
           n == SerializedSize(value)
           input == Input(value)
<1>1. value \in Nat
  BY Widths, Pow2Defined
<1>2. k \in Nat \ {0} /\ \A i \in 0 .. k - 1 : input[i] \in 0 .. value
  BY <1>1, UnitCountIs
<1>3. n \in Nat /\ n >= 1 /\ value < Pow2[(UnitBits - 1) * n]
  BY SizeIs
<1>4. /\ input \in [Nat -> Int]
      /\ \A j \in Nat : input[j + 1] = input[j] \div Radix - 1
  <2>1. value \in Int
    BY <1>1
  <2> QED
    BY ONLY <2>1, InputDefined
<1>5. input[n - 1] < Pow2[(UnitBits - 1) * (n - (n - 1))]
  <2>1. n - 1 \in 0 .. n
    BY <1>3
  <2> HIDE DEF n
  <2> QED
    BY <1>1, <1>3, <2>1, InputBound
<1> HIDE DEF n, k, input
<1>6. input[n - 1] < Radix
  <2>1. (UnitBits - 1) * (n - (n - 1)) = UnitBits - 1
    BY <1>3, Widths
  <2> QED
    BY <1>5, <2>1 DEF Radix
<1>7. input[n] < 0
  <2> DEFINE x == input[n - 1]
             R == Radix
  <2>1. n - 1 \in Nat /\ (n - 1) + 1 = n
    BY <1>3
  <2>2. x \in Int /\ R \in Nat /\ R >= 2 /\ x < R /\ input[n] = x \div R - 1
    BY <1>4, <1>6, <2>1, RadixIs
  <2> HIDE DEF x, R
  <2>3. x \div R - 1 < 0
    BY <2>2
  <2> QED
    BY <2>2, <2>3
<1>8. k <= n
  BY <1>2, <1>3, <1>7
<1> QED
  BY <1>8 DEF k, n

-----------------------------------------------------------------------------
(* What is read of a varint                                                *)

(* The value up to each unit follows from that up to the one before.       *)
LEMMA ReadDefined ==
  ASSUME NEW units \in Seq(Nat)
  PROVE  /\ \A i \in 1 .. Len(units) : Read(units)[i] \in Nat
         /\ 1 <= Len(units) => Read(units)[1] = units[1] % Radix
         /\ \A i \in 1 .. Len(units) : i > 1 =>
              Read(units)[i] = (Read(units)[i - 1] + 1) * Radix + (units[i] % Radix)
<1> DEFINE k == Len(units)
           Next(x, i) == IF i = 1 THEN units[1] % Radix
                         ELSE (x + 1) * Radix + (units[i] % Radix)
           step == [n \in Nat |-> [x \in Nat |->
                      IF n + 1 \in 1 .. k THEN Next(x, n + 1) ELSE 0]]
           Solves(f) == f = [i \in DOMAIN units |->
                               IF i = 1 THEN units[1] % Radix
                               ELSE (f[i - 1] + 1) * Radix + (units[i] % Radix)]
           value == CHOOSE f : Solves(f)
<1>1. k \in Nat /\ DOMAIN units = 1 .. k /\ \A i \in 1 .. k : units[i] \in Nat
  BY LenProperties, ElementOfSeq
<1> HIDE DEF k
<1>2. \A i \in 1 .. k : units[i] % Radix \in Nat
  BY <1>1, RadixIs
<1>3. \A x \in Nat : \A i \in 1 .. k : Next(x, i) \in Nat
  <2> TAKE x \in Nat
  <2> TAKE i \in 1 .. k
  <2>1. units[i] % Radix \in Nat /\ (x + 1) * Radix \in Nat
    BY <1>2, RadixIs
  <2> QED
    BY <2>1, RadixIs
<1>4. step \in [Nat -> [Nat -> Nat]] /\ 0 \in Nat
  <2> HIDE DEF Next
  <2> QED
    BY <1>3
<1>5. PICK f : Iterates(f, Nat, 0, step)
  <2> HIDE DEF step
  <2> QED
    BY <1>4, Recursion
<1> DEFINE g == [i \in 1 .. k |-> f[i]]
<1>6. /\ \A i \in 1 .. k : g[i] \in Nat
      /\ \A i \in 1 .. k : g[i] = IF i = 1 THEN units[1] % Radix
                                  ELSE (g[i - 1] + 1) * Radix + (units[i] % Radix)
  <2>1. /\ f \in [Nat -> Nat]
        /\ \A n \in Nat : f[n + 1] = step[n][f[n]]
    BY <1>5 DEF Iterates
  <2>2. \A i \in 1 .. k : f[i] = Next(f[i - 1], i)
    <3> TAKE i \in 1 .. k
    <3>1. i - 1 \in Nat /\ (i - 1) + 1 = i
      BY <1>1
    <3>2. f[i] = step[i - 1][f[i - 1]] /\ f[i - 1] \in Nat
      BY <2>1, <3>1
    <3> HIDE DEF Next
    <3>3. step[i - 1][f[i - 1]] = Next(f[i - 1], i)
      BY <3>1, <3>2
    <3> QED
      BY <3>2, <3>3
  <2>3. \A i \in 1 .. k : i # 1 => i - 1 \in 1 .. k
    BY <1>1
  <2>4. \A i \in 1 .. k : g[i] = f[i] /\ g[i] \in Nat
    BY <2>1
  <2> HIDE DEF g
  <2>5. \A i \in 1 .. k : g[i] = IF i = 1 THEN Next(0, 1) ELSE Next(g[i - 1], i)
    <3> TAKE i \in 1 .. k
    <3>1. g[i] = Next(f[i - 1], i)
      BY <2>2, <2>4
    <3>2. CASE i = 1
      BY <3>1, <3>2
    <3>3. CASE i # 1
      <4>1. g[i - 1] = f[i - 1]
        BY <2>3, <2>4, <3>3
      <4> HIDE DEF Next
      <4> QED
        BY <3>1, <3>3, <4>1
    <3> QED
      BY <3>2, <3>3
  <2> QED
    BY <2>4, <2>5
<1>7. Solves(g)
  BY <1>1, <1>6
<1>8. Read(units) = value
  BY DEF Read
<1>9. Solves(value)
  <2> HIDE DEF Solves
  <2> QED
    BY <1>7
<1> HIDE DEF value
<1>10. \A i \in 1 .. k : value[i] = IF i = 1 THEN units[1] % Radix
                                   ELSE (value[i - 1] + 1) * Radix + (units[i] % Radix)
  BY <1>1, <1>9
<1> HIDE DEF Solves
<1>11. \A i \in 1 .. k : value[i] \in Nat
  <2> DEFINE S == {i \in Nat : i \in 1 .. k => value[i] \in Nat}
  <2>1. 0 \in S
    OBVIOUS
  <2>2. ASSUME NEW i \in Nat, i \in S PROVE i + 1 \in S
    <3> SUFFICES ASSUME i + 1 \in 1 .. k PROVE value[i + 1] \in Nat
      OBVIOUS
    <3>1. CASE i = 0
      <4>1. i + 1 = 1 /\ 1 \in 1 .. k
        BY <3>1
      <4> QED
        BY <1>2, <1>10, <4>1
    <3>2. CASE i # 0
      <4>1. i \in 1 .. k /\ (i + 1) - 1 = i /\ i + 1 # 1
        BY <1>1, <3>2
      <4>2. value[i] \in Nat /\ units[i + 1] % Radix \in Nat
        BY <1>2, <2>2, <4>1
      <4>3. value[i + 1] = (value[i] + 1) * Radix + (units[i + 1] % Radix)
        BY <1>10, <4>1
      <4>4. (value[i] + 1) * Radix \in Nat
        BY <4>2, RadixIs
      <4> QED
        BY <4>2, <4>3, <4>4
    <3> QED
      BY <3>1, <3>2
  <2> HIDE DEF S
  <2>3. Nat \subseteq S
    BY <2>1, <2>2, Induction
  <2> QED
    BY <2>3, <1>1 DEF S
<1>12. 1 <= k => value[1] = units[1] % Radix
  BY <1>1, <1>10
<1>13. \A i \in 1 .. k : i > 1 => value[i] = (value[i - 1] + 1) * Radix + (units[i] % Radix)
  BY <1>1, <1>10
<1> QED
  BY <1>8, <1>11, <1>12, <1>13 DEF k

(* The units of a varint carry its inputs, and all but the last are        *)
(* marked.                                                                 *)
LEMMA WrittenUnitsAre ==
  ASSUME ~SignedUnits, NEW value \in Nat
  PROVE  /\ WrittenUnits(value) \in Seq(Nat)
         /\ Len(WrittenUnits(value)) = UnitCount(value)
         /\ \A j \in 1 .. UnitCount(value) :
              /\ WrittenUnits(value)[j] % Radix
                   = Input(value)[UnitCount(value) - j] % Radix
              /\ Marked(WrittenUnits(value)[j]) <=> j < UnitCount(value)
<1> DEFINE k == UnitCount(value)
           input == Input(value)
           units == [j \in 1 .. k |->
                      (IF j < k THEN Radix ELSE 0) + (input[k - j] % Radix)]
<1>1. WrittenUnits(value) = units
  BY DEF WrittenUnits
<1>2. k \in Nat \ {0} /\ \A i \in 0 .. k - 1 : input[i] \in 0 .. value
  BY UnitCountIs
<1> HIDE DEF k, input
<1>3. ASSUME NEW j \in 1 .. k
      PROVE  /\ units[j] \in Nat
             /\ units[j] % Radix = input[k - j] % Radix
             /\ units[j] >= Radix <=> j < k
  <2> DEFINE R == Radix
             r == input[k - j] % R
  <2>1. k - j \in 0 .. k - 1 /\ input[k - j] \in Nat
    BY <1>2
  <2>2. R \in Nat /\ R >= 2
    BY RadixIs
  <2>3. r \in 0 .. R - 1
    <3> HIDE DEF R
    <3> QED
      BY <2>1, <2>2
  <2>4. units[j] = (IF j < k THEN R ELSE 0) + r /\ r = input[k - j] % Radix
    OBVIOUS
  <2> HIDE DEF units, r
  <2>5. r % R = r /\ (R + r) % R = r
    <3> HIDE DEF R
    <3>1. (1 * R + r) % R = r /\ (0 * R + r) % R = r
      BY <2>2, <2>3, DivisionIsUnique
    <3> QED
      BY <2>2, <2>3, <3>1
  <2>6. CASE j < k
    BY <2>2, <2>3, <2>4, <2>5, <2>6
  <2>7. CASE ~(j < k)
    BY <2>2, <2>3, <2>4, <2>5, <2>7
  <2> QED
    BY <2>6, <2>7
<1>4. DOMAIN units = 1 .. k
  OBVIOUS
<1> HIDE DEF units
<1>5. units \in Seq(Nat) /\ Len(units) = k
  <2>1. units \in [1 .. k -> Nat]
    BY <1>1, <1>3, <1>4 DEF WrittenUnits, units
  <2> QED
    BY <1>2, <2>1, LenProperties
<1> QED
  BY <1>1, <1>3, <1>5 DEF k, input, Marked

(* A varint that is not negative has less than all of its bits.            *)
LEMMA ValueIs ==
  ASSUME NEW value \in 0 .. Pow2[VarintBits - 1] - 1
  PROVE  /\ Pow2[VarintBits - 1] \in Nat
         /\ value \in Nat /\ value < Pow2[VarintBits - 1]
<1>1. VarintBits - 1 \in Nat
  BY Widths
<1> QED
  BY <1>1, Pow2Defined

(* A varint is read from more units than it has, with as many as it has,   *)
(* and is not read from fewer.                                             *)
LEMMA VarintReadsBack ==
  ASSUME ~SignedUnits, NEW value \in 0 .. Pow2[VarintBits - 1] - 1,
         NEW units \in Seq(Nat), Len(units) # UnitCount(value),
         \A i \in 1 .. Len(units) :
           i <= UnitCount(value) => units[i] = WrittenUnits(value)[i]
  PROVE  Decode(units) = IF Len(units) < UnitCount(value) THEN Failed
                         ELSE [value |-> value, size |-> UnitCount(value)]
<1> DEFINE k == UnitCount(value)
           m == Len(units)
           input == Input(value)
           R == Radix
           E == UnitBits - 1
           read == Read(units)
<1>1. /\ Pow2[VarintBits - 1] \in Nat /\ value \in Nat /\ value < Pow2[VarintBits - 1]
  BY ValueIs
<1>2. k \in Nat \ {0} /\ input[k] < 0 /\ \A i \in 0 .. k - 1 : input[i] \in 0 .. value
  BY <1>1, UnitCountIs
<1>3. /\ input \in [Nat -> Int]
      /\ \A j \in Nat : input[j + 1] = input[j] \div R - 1
  <2>1. value \in Int
    BY <1>1
  <2> QED
    BY ONLY <2>1, InputDefined
<1>4. m \in Nat /\ DOMAIN units = 1 .. m
  BY LenProperties
<1>5. \A j \in 1 .. k : /\ WrittenUnits(value)[j] % R = input[k - j] % R
                        /\ Marked(WrittenUnits(value)[j]) <=> j < k
  BY <1>1, WrittenUnitsAre
<1>6. /\ \A i \in 1 .. m : read[i] \in Nat
      /\ 1 <= m => read[1] = units[1] % R
      /\ \A i \in 1 .. m : i > 1 => read[i] = (read[i - 1] + 1) * R + (units[i] % R)
  BY ReadDefined
<1>7. R \in Nat /\ R >= 2 /\ R = Pow2[E] /\ E \in Nat /\ E <= VarintBits /\ VarintBits \in Nat
  BY RadixIs, Widths DEF Radix
<1>b. R \in Nat /\ R >= 2
  BY RadixIs
<1>8. m # k /\ \A i \in 1 .. m : i <= k => units[i] = WrittenUnits(value)[i]
  OBVIOUS
<1>9. \A i \in 1 .. m : GoesOn(units, i) <=>
        /\ Marked(units[i])
        /\ read[i] + 1 < Pow2[VarintBits - E]
        /\ i + 1 < m
  BY DEF GoesOn
<1>10. Decode(units) =
         LET ends == {n \in 1 .. m :
                        ~Marked(units[n]) /\ \A i \in 1 .. n - 1 : GoesOn(units, i)}
         IN  IF ends = {} THEN Failed
             ELSE LET n == CHOOSE n \in ends : TRUE
                  IN  [value |-> Signed(read[n]), size |-> n]
  BY <1>4 DEF Decode
<1> HIDE DEF k, m, input, R, E, read
<1>11. \A i \in 1 .. m : i <= k => units[i] % R = input[k - i] % R
  <2> TAKE i \in 1 .. m
  <2> SUFFICES ASSUME i <= k PROVE units[i] % R = input[k - i] % R
    OBVIOUS
  <2>1. i \in 1 .. k
    BY <1>2, <1>4
  <2>2. units[i] = WrittenUnits(value)[i]
    BY <1>8
  <2>3. WrittenUnits(value)[i] % R = input[k - i] % R
    BY <1>5, <2>1
  <2> QED
    BY <2>2, <2>3
<1>a. \A i \in 1 .. m : i <= k => (Marked(units[i]) <=> i < k)
  <2> TAKE i \in 1 .. m
  <2> SUFFICES ASSUME i <= k PROVE Marked(units[i]) <=> i < k
    OBVIOUS
  <2>1. i \in 1 .. k
    BY <1>2, <1>4
  <2>2. units[i] = WrittenUnits(value)[i]
    BY <1>8
  <2>3. Marked(WrittenUnits(value)[i]) <=> i < k
    BY <1>5, <2>1
  <2> QED
    BY <2>2, <2>3
(* Up to each unit the value is what was left of it there.                 *)
<1>12. \A i \in 1 .. m : i <= k => read[i] = input[k - i]
  <2> DEFINE S == {i \in Nat : i + 1 <= m /\ i + 1 <= k => read[i + 1] = input[k - (i + 1)]}
  <2>1. 0 \in S
    <3> SUFFICES ASSUME 1 <= m PROVE read[0 + 1] = input[k - (0 + 1)]
      OBVIOUS
    <3> DEFINE x == input[k - 1]
    <3>1. k - 1 \in Nat /\ (k - 1) + 1 = k /\ k - 1 \in 0 .. k - 1 /\ 1 <= k
          /\ 1 \in 1 .. m
      BY <1>2, <1>4
    <3>2. x \in Nat /\ x \div R - 1 < 0
      <4>1. x \in 0 .. value
        BY <1>2, <3>1
      <4>2. input[(k - 1) + 1] = input[k - 1] \div R - 1
        BY <1>3, <3>1
      <4>3. input[k] < 0
        BY <1>2
      <4>4. x \div R - 1 < 0
        BY <3>1, <4>2, <4>3
      <4> QED
        BY <1>1, <4>1, <4>4
    <3>3. read[1] = x % R
      <4>1. read[1] = units[1] % R
        BY <1>4, <1>6
      <4>2. units[1] % R = input[k - 1] % R
        BY <1>11, <3>1
      <4> QED
        BY <4>1, <4>2
    <3> HIDE DEF x
    <3>4. x % R = x
      BY ONLY <1>b, <3>2
    <3>5. read[1] = input[k - 1]
      BY <3>3, <3>4 DEF x
    <3> QED
      BY <3>5
  <2>2. ASSUME NEW i \in Nat, i \in S PROVE i + 1 \in S
    <3> SUFFICES ASSUME (i + 1) + 1 <= m, (i + 1) + 1 <= k
                 PROVE  read[(i + 1) + 1] = input[k - ((i + 1) + 1)]
      OBVIOUS
    <3> DEFINE j == (i + 1) + 1
               x == input[k - j]
    <3>1. /\ j \in 1 .. m /\ j > 1 /\ j - 1 = i + 1 /\ j <= k /\ k - j \in 0 .. k - 1
          /\ (k - j) + 1 = k - (i + 1) /\ i + 1 <= m /\ i + 1 <= k
      BY <1>2, <1>4
    <3> HIDE DEF j
    <3>2. read[j - 1] = input[(k - j) + 1]
      BY <2>2, <3>1
    <3>3. x \in Nat /\ input[(k - j) + 1] = x \div R - 1
      <4>1. k - j \in Nat /\ input[k - j] \in 0 .. value
        BY <1>2, <3>1
      <4>2. input[(k - j) + 1] = input[k - j] \div R - 1
        BY <1>3, <4>1
      <4> QED
        BY <1>1, <4>1, <4>2
    <3>4. read[j] = (read[j - 1] + 1) * R + (x % R)
      <4>1. read[j] = (read[j - 1] + 1) * R + (units[j] % R)
        BY <1>6, <3>1
      <4>2. units[j] % R = input[k - j] % R
        BY <1>11, <3>1
      <4> QED
        BY <4>1, <4>2
    <3>5. x \div R \in Nat /\ x % R \in Nat /\ x = R * (x \div R) + (x % R)
      <4> HIDE DEF x
      <4> QED
        BY ONLY <1>b, <3>3
    <3> HIDE DEF x
    <3>6. read[j] = x
      <4> DEFINE q == x \div R
                 r == x % R
      <4>1. q \in Nat /\ r \in Nat /\ x = R * q + r /\ read[j] = ((q - 1) + 1) * R + r
        BY <3>2, <3>3, <3>4, <3>5
      <4> HIDE DEF q, r
      <4>2. ((q - 1) + 1) * R + r = R * q + r
        BY <1>7, <4>1
      <4> QED
        BY <4>1, <4>2
    <3> QED
      BY <3>6 DEF x, j
  <2> HIDE DEF S
  <2>3. Nat \subseteq S
    BY <2>1, <2>2, Induction
  <2> TAKE i \in 1 .. m
  <2> SUFFICES ASSUME i <= k PROVE read[i] = input[k - i]
    OBVIOUS
  <2>4. i - 1 \in S /\ (i - 1) + 1 = i /\ i <= m
    BY <1>4, <2>3
  <2> QED
    BY <2>4 DEF S
(* What is read never has more bits than the value.                        *)
<1>13. \A i \in 1 .. m : i < k => read[i] + 1 < Pow2[VarintBits - E]
  <2> TAKE i \in 1 .. m
  <2> SUFFICES ASSUME i < k PROVE read[i] + 1 < Pow2[VarintBits - E]
    OBVIOUS
  <2> DEFINE x == input[k - (i + 1)]
             P == Pow2[VarintBits - E]
  <2>1. k - (i + 1) \in 0 .. k - 1 /\ (k - (i + 1)) + 1 = k - i /\ i <= k
    BY <1>2, <1>4
  <2>2. x \in 0 .. value /\ read[i] = x \div R - 1
    <3>1. read[i] = input[k - i] /\ x \in 0 .. value
      BY <1>2, <1>12, <2>1
    <3>2. k - (i + 1) \in Nat
      BY <2>1
    <3>3. input[(k - (i + 1)) + 1] = input[k - (i + 1)] \div R - 1
      BY <1>3, <3>2
    <3> QED
      BY <2>1, <3>1, <3>3
  <2>3. P \in Nat /\ P * R = Pow2[VarintBits]
    <3>1. VarintBits - E \in Nat /\ (VarintBits - E) + E = VarintBits
      BY <1>7
    <3> QED
      BY <1>7, <3>1, Pow2Sum, Pow2Defined
  <2>4. Pow2[VarintBits - 1] <= Pow2[VarintBits] /\ Pow2[VarintBits] \in Nat
    <3>1. VarintBits - 1 \in Nat /\ VarintBits - 1 <= VarintBits
      BY Widths
    <3> QED
      BY <1>7, <3>1, Pow2Grows, Pow2Defined
  <2> HIDE DEF P, x
  <2>5. x \in Nat /\ x < P * R
    BY <1>1, <2>2, <2>3, <2>4
  <2>6. x \div R \in Int /\ x \div R < P
    <3>1. P \in Nat
      BY <2>3
    <3> QED
      BY ONLY <1>b, <2>5, <3>1
  <2>7. read[i] + 1 < P
    <3> DEFINE q == x \div R
    <3>1. q \in Int /\ q < P /\ read[i] = q - 1
      BY <2>2, <2>6
    <3> HIDE DEF q
    <3> QED
      BY <2>3, <3>1
  <2> QED
    BY <2>7 DEF P
<1> DEFINE ends == {n \in 1 .. m :
                      ~Marked(units[n]) /\ \A i \in 1 .. n - 1 : GoesOn(units, i)}
<1>14. CASE m < k
  <2>1. \A n \in 1 .. m : Marked(units[n])
    BY <1>2, <1>4, <1>a, <1>14
  <2>2. ends = {}
    BY <2>1
  <2> QED
    BY <1>10, <1>14, <2>2 DEF k, m
<1>15. CASE k < m
  <2>1. k \in 1 .. m /\ ~Marked(units[k])
    <3>1. k \in 1 .. m /\ k <= k /\ ~(k < k)
      BY <1>2, <1>4, <1>15
    <3> QED
      BY <1>a, <3>1
  <2>2. \A i \in 1 .. k - 1 : GoesOn(units, i)
    <3> TAKE i \in 1 .. k - 1
    <3>1. i \in 1 .. m /\ i < k /\ i <= k /\ i + 1 < m
      BY <1>2, <1>4, <1>15
    <3> QED
      BY <1>9, <1>a, <1>13, <3>1
  <2>3. ASSUME NEW n \in ends PROVE n = k
    <3>1. n \in 1 .. m /\ ~Marked(units[n]) /\ \A i \in 1 .. n - 1 : GoesOn(units, i)
      OBVIOUS
    <3>2. ~(n < k)
      <4>1. n <= k => (Marked(units[n]) <=> n < k)
        BY <1>a, <3>1
      <4>2. n < k => n <= k
        BY <1>2, <1>4, <3>1
      <4> QED
        BY <3>1, <4>1, <4>2
    <3>3. ~(n > k)
      <4> SUFFICES ASSUME n > k PROVE FALSE
        OBVIOUS
      <4>1. k \in 1 .. n - 1
        BY <1>2, <1>4, <3>1
      <4>2. GoesOn(units, k)
        BY <3>1, <4>1
      <4> QED
        BY <1>9, <2>1, <4>2
    <3> QED
      BY <1>2, <1>4, <3>1, <3>2, <3>3
  <2>4. ends = {k}
    BY <2>1, <2>2, <2>3
  <2>5. Decode(units) = [value |-> Signed(read[k]), size |-> k]
    <3> DEFINE n == CHOOSE n \in ends : TRUE
    <3>1. n = k /\ ends # {}
      BY <2>4
    <3>2. Decode(units) = [value |-> Signed(read[n]), size |-> n]
      <4> HIDE DEF n
      <4> QED
        BY <1>10, <3>1 DEF n
    <3> QED
      BY <3>1, <3>2
  <2>6. read[k] = value
    <3>1. read[k] = input[0] /\ input[0] = value
      <4>1. read[k] = input[k - k] /\ k - k = 0
        BY <1>2, <1>12, <2>1
      <4>2. Input(value)[0] = value
        BY <1>1, InputDefined
      <4> QED
        BY <4>1, <4>2 DEF input
    <3> QED
      BY <3>1
  <2>7. Signed(value) = value
    BY <1>1 DEF Signed
  <2>8. ~(m < k)
    BY <1>2, <1>4, <1>15
  <2> QED
    BY <2>5, <2>6, <2>7, <2>8 DEF k, m
<1> QED
  BY <1>2, <1>4, <1>8, <1>14, <1>15

-----------------------------------------------------------------------------
(* The buffer                                                              *)

(* What was serialized last is in the buffer, from its first unit on,      *)
(* unless a varint left some of its units out.                             *)
SerialIInv ==
  /\ buffer \in [1 .. BufferSize -> Nat]
  /\ written.kind = "int" /\ written.size > 0 =>
       /\ written.value \in Ints /\ written.size = IntUnits /\ IntUnits <= BufferSize
       /\ \A i \in 1 .. IntUnits : buffer[i] = Units(written.value)[i]
  /\ written.kind = "varint" /\ written.size > 0 =>
       /\ written.value \in 0 .. Pow2[VarintBits - 1] - 1
       /\ written.size \in 1 .. BufferSize
       /\ Complete => \A i \in 1 .. written.size :
                        buffer[i] = WrittenUnits(written.value)[i]

(* Units fill the buffer from its start if they are as many as the size    *)
(* says.                                                                   *)
LEMMA StoreFills ==
  ASSUME buffer \in [1 .. BufferSize -> Nat],
         NEW units \in Seq(Nat), NEW size \in Nat, Store(units, size)
  PROVE  /\ buffer' \in [1 .. BufferSize -> Nat]
         /\ Len(units) = size =>
              \A i \in 1 .. BufferSize : i <= size => buffer'[i] = units[i]
<1> DEFINE k == Len(units)
<1>1. k \in Nat /\ \A i \in 1 .. k : units[i] \in Nat
  BY LenProperties, ElementOfSeq
<1>2. buffer' = [i \in 1 .. BufferSize |->
                   IF i \in size - k + 1 .. size THEN units[i - size + k]
                   ELSE buffer[i]]
  BY DEF Store
<1> HIDE DEF k
<1>3. ASSUME NEW i \in 1 .. BufferSize PROVE buffer'[i] \in Nat
  <2>1. CASE i \in size - k + 1 .. size
    <3>1. i - size + k \in 1 .. k /\ buffer'[i] = units[i - size + k]
      BY <1>1, <1>2, <2>1, Widths
    <3> QED
      BY <1>1, <3>1
  <2>2. CASE i \notin size - k + 1 .. size
    <3>1. buffer'[i] = buffer[i]
      BY <1>2, <2>2
    <3> QED
      BY <3>1
  <2> QED
    BY <2>1, <2>2
<1>4. ASSUME k = size, NEW i \in 1 .. BufferSize, i <= size
      PROVE  buffer'[i] = units[i]
  <2>1. i \in size - k + 1 .. size /\ i - size + k = i
    BY <1>1, <1>4, Widths
  <2> QED
    BY <1>2, <2>1
<1> QED
  BY <1>2, <1>3, <1>4 DEF k

(* The units of an integer.                                                *)
LEMMA UnitsType ==
  ASSUME NEW value \in Ints
  PROVE  Units(value) \in Seq(Nat) /\ Len(Units(value)) = IntUnits
<1>1. value \in Nat /\ UnitBits \in Nat /\ IntUnits \in Nat
  <2>1. UnitBits * IntUnits \in Nat
    BY Widths
  <2> QED
    BY <2>1, Widths, Pow2Defined DEF Ints
<1>2. ASSUME NEW i \in 1 .. IntUnits
      PROVE  (value \div Pow2[UnitBits * (IntUnits - i)]) % Pow2[UnitBits] \in Nat
  <2>1. UnitBits * (IntUnits - i) \in Nat
    BY <1>1
  <2> DEFINE P == Pow2[UnitBits * (IntUnits - i)]
             Q == Pow2[UnitBits]
  <2>2. P \in Nat \ {0} /\ Q \in Nat \ {0}
    BY <1>1, <2>1, Pow2Defined
  <2> HIDE DEF P, Q
  <2>3. (value \div P) % Q \in Nat
    <3>1. value \div P \in Nat
      BY <1>1, <2>2
    <3> QED
      BY <2>2, <3>1
  <2> QED
    BY <2>3 DEF P, Q
<1>3. Units(value) \in [1 .. IntUnits -> Nat]
  BY <1>2 DEF Units
<1> QED
  BY <1>1, <1>3, LenProperties

(* Serializing an integer.                                                 *)
LEMMA IntIsInBuffer ==
  ASSUME SerialIInv, NEW value \in Ints, NEW length \in 0 .. BufferSize,
         SerializeInt(value, length)
  PROVE  SerialIInv'
<1>1. BufferSize \in Nat /\ IntUnits \in Nat
  BY Widths
<1>2. buffer \in [1 .. BufferSize -> Nat]
  BY DEF SerialIInv
<1>3. CASE length < IntUnits
  <2>1. written' = [kind |-> "int", value |-> value, size |-> 0] /\ buffer' = buffer
    BY <1>3 DEF SerializeInt, Wrote
  <2> QED
    BY <1>2, <2>1 DEF SerialIInv
<1>4. CASE ~(length < IntUnits)
  <2>1. /\ written' = [kind |-> "int", value |-> value, size |-> IntUnits]
        /\ Store(Units(value), IntUnits)
    BY <1>4 DEF SerializeInt, Wrote
  <2>2. Units(value) \in Seq(Nat) /\ Len(Units(value)) = IntUnits
    BY UnitsType
  <2>3. /\ buffer' \in [1 .. BufferSize -> Nat]
        /\ \A i \in 1 .. BufferSize : i <= IntUnits => buffer'[i] = Units(value)[i]
    BY <1>1, <1>2, <2>1, <2>2, StoreFills
  <2>4. IntUnits <= BufferSize
    BY <1>1, <1>4
  <2>5. \A i \in 1 .. IntUnits : buffer'[i] = Units(value)[i]
    BY <1>1, <2>3, <2>4
  <2>6. written'.kind = "int" /\ written'.value = value /\ written'.size = IntUnits
    BY <2>1
  <2> QED
    BY <2>3, <2>4, <2>5, <2>6 DEF SerialIInv
<1> QED
  BY <1>3, <1>4

(* Serializing a varint.                                                   *)
LEMMA VarintIsInBuffer ==
  ASSUME ~SignedUnits, SerialIInv, NEW value \in Varints,
         NEW length \in 0 .. BufferSize, SerializeVarint(value, length)
  PROVE  SerialIInv'
<1>1. BufferSize \in Nat /\ Pow2[VarintBits - 1] \in Nat
  <2>1. VarintBits - 1 \in Nat
    BY Widths
  <2> QED
    BY <2>1, Widths, Pow2Defined
<1>2. buffer \in [1 .. BufferSize -> Nat]
  BY DEF SerialIInv
<1> DEFINE size == SerializedSize(value)
           units == WrittenUnits(value)
<1>3. \/ /\ UNCHANGED buffer
         /\ \/ written' = [kind |-> "varint", value |-> value, size |-> 0]
            \/ written' = [kind |-> "no_return", value |-> value, size |-> 0]
      \/ /\ value >= 0 /\ length >= size
         /\ written' = [kind |-> "varint", value |-> value, size |-> size]
         /\ Store(units, size)
  <2>1. value \in Int
    BY <1>1, SerializationAssumption
  <2>2. value >= 0 => size \in Nat
    <3> SUFFICES ASSUME value >= 0 PROVE size \in Nat
      OBVIOUS
    <3>1. value \in 0 .. Pow2[VarintBits - 1] - 1
      BY <1>1, <2>1, SerializationAssumption
    <3> QED
      BY <3>1, SizeIs
  <2> QED
    BY <2>1, <2>2 DEF SerializeVarint, Wrote
<1>4. CASE UNCHANGED buffer /\ written'.size = 0
  BY <1>2, <1>4 DEF SerialIInv
<1>5. CASE /\ value >= 0 /\ length >= size
           /\ written' = [kind |-> "varint", value |-> value, size |-> size]
           /\ Store(units, size)
  <2>1. value \in 0 .. Pow2[VarintBits - 1] - 1
    BY <1>1, <1>5, SerializationAssumption
  <2>2. value \in Nat
    BY <2>1, ValueIs
  <2>3. units \in Seq(Nat)
    BY <2>2, WrittenUnitsAre
  <2>4. size \in Nat /\ size >= 1
    BY <2>1, SizeIs
  <2> HIDE DEF size, units
  <2>5. /\ buffer' \in [1 .. BufferSize -> Nat]
        /\ Len(units) = size =>
             \A i \in 1 .. BufferSize : i <= size => buffer'[i] = units[i]
    BY <1>2, <1>5, <2>3, <2>4, StoreFills
  <2>6. size \in 1 .. BufferSize
    BY <1>1, <1>5, <2>4
  <2>7. /\ written'.kind = "varint" /\ written'.value = value /\ written'.size = size
        /\ Complete' => Len(units) = size
    BY <1>5 DEF Complete, units
  <2>8. Complete' => \A i \in 1 .. size : buffer'[i] = units[i]
    BY <1>1, <2>5, <2>6, <2>7
  <2>9. written'.size \in 1 .. BufferSize /\ written'.value \in 0 .. Pow2[VarintBits - 1] - 1
    BY <2>1, <2>6, <2>7
  <2>10. Complete' => \A i \in 1 .. written'.size :
                        buffer'[i] = WrittenUnits(written'.value)[i]
    BY <2>7, <2>8 DEF units
  <2> QED
    BY <2>5, <2>7, <2>9, <2>10 DEF SerialIInv
<1> QED
  BY <1>3, <1>4, <1>5

(* The invariant is inductive.                                             *)
LEMMA SerialInductive ==
  ASSUME ~SignedUnits
  PROVE  /\ SerialInit => SerialIInv
         /\ SerialIInv /\ [SerialNext]_serial_vars => SerialIInv'
<1>1. SerialInit => SerialIInv
  BY DEF SerialInit, SerialIInv
<1>2. ASSUME SerialIInv, [SerialNext]_serial_vars PROVE SerialIInv'
  <2>1. CASE SerialNext
    BY <1>2, <2>1, IntIsInBuffer, VarintIsInBuffer DEF SerialNext
  <2>2. CASE UNCHANGED serial_vars
    BY <1>2, <2>2 DEF SerialIInv, serial_vars, Complete
  <2> QED
    BY <1>2, <2>1, <2>2
<1> QED
  BY <1>1, <1>2

(* The start of the buffer.                                                *)
LEMMA ReceivedIs ==
  ASSUME buffer \in [1 .. BufferSize -> Nat], NEW n \in 0 .. BufferSize
  PROVE  /\ Received(n) \in Seq(Nat) /\ Len(Received(n)) = n
         /\ \A i \in 1 .. n : Received(n)[i] = buffer[i]
<1>1. n \in Int /\ n \in Nat /\ BufferSize \in Nat /\ 1 \in Int
  BY Widths
<1>2. \A i \in 1 .. n : buffer[i] \in Nat
  BY <1>1
<1> DEFINE t == SubSeq(buffer, 1, n)
<1>3. /\ t \in Seq(Nat) /\ Len(t) = IF 1 <= n THEN n - 1 + 1 ELSE 0
      /\ \A i \in 1 .. n - 1 + 1 : t[i] = buffer[1 + i - 1]
  BY ONLY <1>1, <1>2, SubSeqProperties
<1> HIDE DEF t
<1>4. Len(t) = n /\ n - 1 + 1 = n
  BY <1>1, <1>3
<1>5. \A i \in 1 .. n : t[i] = buffer[i]
  BY <1>1, <1>3, <1>4
<1> QED
  BY <1>3, <1>4, <1>5 DEF Received, t

(* What is in the buffer is read as it was written.                        *)
LEMMA SerialIsRead ==
  ASSUME ~SignedUnits, SerialIInv
  PROVE  ReadsWhatWasWritten
<1>1. /\ buffer \in [1 .. BufferSize -> Nat] /\ BufferSize \in Nat /\ IntUnits \in Nat
  BY Widths DEF SerialIInv
<1>2. ASSUME written.size > 0, written.kind = "int", NEW n \in 0 .. BufferSize
      PROVE  DecodeInt(Received(n)) =
               IF n < written.size THEN Failed
               ELSE [value |-> written.value, size |-> written.size]
  <2>1. /\ written.value \in Ints /\ written.size = IntUnits
        /\ \A i \in 1 .. IntUnits : buffer[i] = Units(written.value)[i]
    BY <1>2 DEF SerialIInv
  <2>2. Len(Received(n)) = n /\ \A i \in 1 .. n : Received(n)[i] = buffer[i]
    BY <1>1, <1>2, ReceivedIs
  <2>3. CASE n < IntUnits
    BY <2>1, <2>2, <2>3 DEF DecodeInt
  <2>4. CASE ~(n < IntUnits)
    <3>1. \A i \in 1 .. IntUnits : i \in 1 .. n
      BY <1>1, <1>2, <2>4
    <3>2. \A i \in 1 .. IntUnits : Received(n)[i] = Units(written.value)[i]
      BY <2>1, <2>2, <3>1
    <3>3. FromUnits(Received(n)) = written.value
      BY <2>1, <3>2, IntReadsBack
    <3> QED
      BY <2>1, <2>2, <2>4, <3>3 DEF DecodeInt
  <2> QED
    BY <2>3, <2>4
<1>3. ASSUME written.size > 0, written.kind = "varint", Complete,
             NEW n \in (0 .. BufferSize) \ {written.size}
      PROVE  Decode(Received(n)) =
               IF n < written.size THEN Failed
               ELSE [value |-> written.value, size |-> written.size]
  <2> DEFINE value == written.value
             size == written.size
             units == Received(n)
  <2>1. /\ value \in 0 .. Pow2[VarintBits - 1] - 1
        /\ size \in 1 .. BufferSize
        /\ \A i \in 1 .. size : buffer[i] = WrittenUnits(value)[i]
    BY <1>3 DEF SerialIInv
  <2>2. value \in Nat
    BY <2>1, ValueIs
  <2>3. size = UnitCount(value)
    BY <1>3, <2>2, WrittenUnitsAre DEF Complete
  <2>4. /\ units \in Seq(Nat) /\ Len(units) = n
        /\ \A i \in 1 .. n : units[i] = buffer[i]
    BY <1>1, <1>3, ReceivedIs
  <2>5. n \in Nat /\ n # size
    BY <1>1, <1>3
  <2> HIDE DEF value, size, units
  <2>6. \A i \in 1 .. n : i <= size => units[i] = WrittenUnits(value)[i]
    BY <1>1, <2>1, <2>4, <2>5
  <2>7. Decode(units) = IF Len(units) < UnitCount(value) THEN Failed
                        ELSE [value |-> value, size |-> UnitCount(value)]
    BY <2>1, <2>3, <2>4, <2>5, <2>6, VarintReadsBack
  <2> QED
    BY <2>3, <2>4, <2>7 DEF value, size, units
<1> QED
  BY <1>2, <1>3 DEF ReadsWhatWasWritten

(* What was written to a buffer of unsigned units is read back, whatever   *)
(* was in the buffer before: integers, and varints whose units were all    *)
(* written.                                                                *)
THEOREM SerializedReadsBack ==
  ASSUME ~SignedUnits
  PROVE  SerialSpec => []ReadsWhatWasWritten
<1>1. SerialInit => SerialIInv
  BY SerialInductive
<1>2. SerialIInv /\ [SerialNext]_serial_vars => SerialIInv'
  BY SerialInductive
<1>3. SerialIInv => ReadsWhatWasWritten
  BY SerialIsRead
<1> QED
  BY <1>1, <1>2, <1>3, PTL DEF SerialSpec

(* No unit of a signed type is ever taken for a marked one, so that a      *)
(* varint in a buffer of char is read from its first unit alone.           *)
THEOREM SignedUnitsEndVarints ==
  ASSUME SignedUnits, NEW units \in Seq(Nat), units # <<>>
  PROVE  Decode(units) = [value |-> Signed(units[1] % Radix), size |-> 1]
<1> DEFINE ends == {n \in DOMAIN units :
                      ~Marked(units[n]) /\ \A i \in 1 .. n - 1 : GoesOn(units, i)}
<1>1. \A u : ~Marked(u)
  BY DEF Marked
<1>2. DOMAIN units = 1 .. Len(units) /\ Len(units) \in Nat /\ 1 <= Len(units)
  BY EmptySeq, LenProperties
<1>3. ends = {1}
  <2>1. \A n \in DOMAIN units : n > 1 => 1 \in 1 .. n - 1 /\ ~GoesOn(units, 1)
    BY <1>1, <1>2 DEF GoesOn
  <2>2. 1 \in ends
    BY <1>1, <1>2
  <2> QED
    BY <1>2, <2>1, <2>2
<1>4. Decode(units) = IF ends = {} THEN Failed
                      ELSE LET n == CHOOSE n \in ends : TRUE
                           IN  [value |-> Signed(Read(units)[n]), size |-> n]
  BY DEF Decode
<1> HIDE DEF ends
<1>5. Decode(units) = [value |-> Signed(Read(units)[1]), size |-> 1]
  BY <1>3, <1>4
<1>6. Read(units)[1] = units[1] % Radix
  BY <1>2, ReadDefined
<1> QED
  BY <1>5, <1>6

-----------------------------------------------------------------------------
(* Checksums                                                               *)

(* How many bits there are, and which of them a byte has.                  *)
LEMMA BitsAre ==
  /\ CrcBits \in Nat \ {0} /\ OctetBits \in Nat \ {0} /\ OctetBits <= CrcBits
  /\ Polynomial \in Checksum /\ LowMask \subseteq Mask /\ 0 \in LowMask
  /\ Octet \subseteq Checksum
BY CrcAssumption DEF Checksum, Octet, LowMask, Mask

(* Exclusive or, and a shift to the right, give checksums.                 *)
LEMMA Closed ==
  ASSUME NEW a \in Checksum, NEW b \in Checksum, NEW n \in Nat
  PROVE  a ^^ b \in Checksum /\ Right(a, n) \in Checksum /\ Inverted(a) \in Checksum
BY DEF Checksum, Right, Inverted, ^^

(* A shift of an exclusive or is the exclusive or of the shifts.           *)
LEMMA RightDistributes ==
  ASSUME NEW a, NEW b, NEW n
  PROVE  Right(a ^^ b, n) = Right(a, n) ^^ Right(b, n)
BY DEF Right, ^^

(* A division step gives a checksum, and the one of an exclusive or is the *)
(* exclusive or of the two.                                                *)
LEMMA IterValueDistributes ==
  ASSUME NEW a \in Checksum, NEW b \in Checksum
  PROVE  /\ IterValue(a) \in Checksum
         /\ IterValue(a ^^ b) = IterValue(a) ^^ IterValue(b)
<1> DEFINE x == Right(a, 1)
           y == Right(b, 1)
           z == Right(a ^^ b, 1)
           p == Polynomial
<1>1. z = x ^^ y
  BY RightDistributes
<1>2. x \in Checksum /\ x ^^ p \in Checksum
  <2>1. x \in Checksum
    BY Closed, 1 \in Nat
  <2> HIDE DEF x
  <2> QED
    BY <2>1, BitsAre, Closed, 1 \in Nat
<1>3. 0 \in a ^^ b <=> ~(0 \in a <=> 0 \in b)
  BY DEF ^^
<1>4. /\ IterValue(a) = IF 0 \in a THEN x ^^ p ELSE x
      /\ IterValue(b) = IF 0 \in b THEN y ^^ p ELSE y
      /\ IterValue(a ^^ b) = IF 0 \in a ^^ b THEN z ^^ p ELSE z
  BY DEF IterValue
<1> HIDE DEF x, y, z, p
<1>5. /\ (x ^^ y) ^^ p = (x ^^ p) ^^ y
      /\ (x ^^ y) ^^ p = x ^^ (y ^^ p)
      /\ x ^^ y = (x ^^ p) ^^ (y ^^ p)
  BY DEF ^^
<1> QED
  BY <1>1, <1>2, <1>3, <1>4, <1>5

(* The values of an index: each is the division step of the one before.    *)
LEMMA IterValuesAre ==
  ASSUME NEW index \in Checksum
  PROVE  /\ IterValues(index) \in [0 .. OctetBits -> Checksum]
         /\ IterValues(index)[0] = index
         /\ \A n \in 0 .. OctetBits - 1 :
              IterValues(index)[n + 1] = IterValue(IterValues(index)[n])
<1> DEFINE k == OctetBits
           step == [n \in 0 .. k - 1 |-> [x \in Checksum |-> IterValue(x)]]
           Solves(f) == f = [n \in 0 .. OctetBits |->
                               IF n = 0 THEN index ELSE IterValue(f[n - 1])]
           value == CHOOSE f : Solves(f)
<1>1. k \in Nat /\ step \in [0 .. k - 1 -> [Checksum -> Checksum]]
  BY BitsAre, IterValueDistributes
<1>2. PICK g : IteratesUpTo(k, g, Checksum, index, step)
  <2> HIDE DEF step, k
  <2> QED
    BY <1>1, RecursionUpTo
<1>3. /\ g \in [0 .. k -> Checksum] /\ g[0] = index
      /\ \A i \in 0 .. k - 1 : g[i + 1] = IterValue(g[i])
  <2>1. /\ g \in [0 .. k -> Checksum] /\ g[0] = index
        /\ \A i \in 0 .. k - 1 : g[i + 1] = step[i][g[i]]
    BY <1>2 DEF IteratesUpTo
  <2>2. \A i \in 0 .. k - 1 : g[i] \in Checksum
    BY <1>1, <2>1
  <2>3. \A i \in 0 .. k - 1 : step[i][g[i]] = IterValue(g[i])
    BY <2>2
  <2> HIDE DEF step
  <2> QED
    BY <2>1, <2>3
<1>4. Solves(g)
  <2>1. \A i \in 0 .. k : g[i] = IF i = 0 THEN index ELSE IterValue(g[i - 1])
    <3> TAKE i \in 0 .. k
    <3>1. i = 0 \/ (i - 1 \in 0 .. k - 1 /\ (i - 1) + 1 = i)
      BY <1>1
    <3> HIDE DEF step
    <3> QED
      BY <1>3, <3>1
  <2> QED
    BY <1>3, <2>1
<1>5. Solves(value)
  <2> HIDE DEF Solves
  <2> QED
    BY <1>4
<1>6. IterValues(index) = value
  BY DEF IterValues
<1> HIDE DEF value, step
<1>7. value = [n \in 0 .. k |-> IF n = 0 THEN index ELSE IterValue(value[n - 1])]
  BY <1>5
<1> HIDE DEF Solves
<1>8. value[0] = index /\ \A n \in 0 .. k - 1 : value[n + 1] = IterValue(value[n])
  <2>1. value[0] = index
    BY <1>1, <1>7
  <2>2. ASSUME NEW n \in 0 .. k - 1 PROVE value[n + 1] = IterValue(value[n])
    <3>1. n + 1 \in 0 .. k /\ n + 1 # 0 /\ (n + 1) - 1 = n
      BY <1>1
    <3> QED
      BY <1>7, <3>1
  <2> QED
    BY <2>1, <2>2
<1>9. \A n \in 0 .. k : value[n] \in Checksum
  <2> DEFINE S == {n \in 0 .. k : value[n] \in Checksum}
  <2>1. 0 \in S /\ \A n \in 0 .. k - 1 : n \in S => n + 1 \in S
    BY <1>1, <1>8, IterValueDistributes
  <2> HIDE DEF S, k
  <2>2. \A n \in 0 .. k : n \in S
    BY <1>1, <2>1, InductionUpTo
  <2> QED
    BY <2>2 DEF S
<1> QED
  <2>1. value = [n \in 0 .. k |-> value[n]]
    BY <1>7
  <2> QED
    BY <1>6, <1>8, <1>9, <2>1

(* The values of an exclusive or are the exclusive or of the values.       *)
LEMMA IterValuesDistribute ==
  ASSUME NEW a \in Checksum, NEW b \in Checksum, NEW n \in 0 .. OctetBits
  PROVE  IterValues(a ^^ b)[n] = IterValues(a)[n] ^^ IterValues(b)[n]
<1> DEFINE k == OctetBits
           S == {i \in 0 .. k : IterValues(a ^^ b)[i] = IterValues(a)[i] ^^ IterValues(b)[i]}
<1>1. k \in Nat /\ a ^^ b \in Checksum
  BY BitsAre, Closed, 1 \in Nat
<1>2. 0 \in S
  BY <1>1, IterValuesAre
<1>3. ASSUME NEW i \in 0 .. k - 1, i \in S PROVE i + 1 \in S
  <2> DEFINE x == IterValues(a)[i]
             y == IterValues(b)[i]
             z == IterValues(a ^^ b)[i]
  <2>1. i \in 0 .. k /\ i + 1 \in 0 .. k
    BY <1>1
  <2>2. x \in Checksum /\ y \in Checksum /\ z = x ^^ y
    BY <1>3, <2>1, IterValuesAre
  <2>3. /\ IterValues(a)[i + 1] = IterValue(x)
        /\ IterValues(b)[i + 1] = IterValue(y)
        /\ IterValues(a ^^ b)[i + 1] = IterValue(z)
    BY <1>1, IterValuesAre
  <2> HIDE DEF x, y, z
  <2>4. IterValue(z) = IterValue(x) ^^ IterValue(y)
    BY <2>2, IterValueDistributes
  <2> QED
    BY <2>1, <2>3, <2>4
<1> HIDE DEF S
<1>4. n \in S
  <2> HIDE DEF k
  <2>1. \A i \in 0 .. k : i \in S
    BY <1>1, <1>2, <1>3, InductionUpTo
  <2> QED
    BY <2>1 DEF k
<1> QED
  BY <1>4 DEF S

(* One more shift.                                                         *)
LEMMA RightOnce ==
  ASSUME NEW a \in Checksum, NEW n \in Nat
  PROVE  Right(Right(a, n), 1) = Right(a, n + 1)
<1>1. ASSUME NEW i \in Mask
      PROVE  i + 1 \in Mask /\ (i + 1) + n \in a <=> i + (n + 1) \in a
  <2>1. i \in Nat /\ (i + 1) + n = i + (n + 1) /\ CrcBits \in Nat
    BY BitsAre DEF Mask
  <2>2. i + (n + 1) \in Mask => i + 1 \in Mask
    BY <2>1 DEF Mask
  <2> QED
    BY <2>1, <2>2 DEF Checksum
<1> QED
  BY <1>1 DEF Right

(* A shift by nothing.                                                     *)
LEMMA RightNone ==
  ASSUME NEW a \in Checksum
  PROVE  Right(a, 0) = a
<1>1. \A i \in Mask : i + 0 = i
  BY BitsAre DEF Mask
<1> QED
  BY <1>1 DEF Right, Checksum

(* The bits above those of a byte are only shifted.                        *)
LEMMA HighBitsAreShifted ==
  ASSUME NEW a \in Checksum, a \intersect LowMask = {}, NEW n \in 0 .. OctetBits
  PROVE  IterValues(a)[n] = Right(a, n)
<1> DEFINE k == OctetBits
           S == {i \in 0 .. k : IterValues(a)[i] = Right(a, i)}
<1>1. k \in Nat
  BY BitsAre
<1>2. 0 \in S
  BY <1>1, IterValuesAre, RightNone
<1>3. ASSUME NEW i \in 0 .. k - 1, i \in S PROVE i + 1 \in S
  <2>1. i \in Nat /\ i \in LowMask /\ i + 1 \in 0 .. k /\ 0 + i = i
    BY <1>1 DEF LowMask
  <2>2. 0 \notin Right(a, i)
    BY <2>1 DEF Right
  <2>3. IterValues(a)[i + 1] = IterValue(Right(a, i))
    BY <1>3, IterValuesAre
  <2>4. IterValue(Right(a, i)) = Right(a, i + 1)
    BY <2>1, <2>2, RightOnce DEF IterValue
  <2> QED
    BY <2>1, <2>3, <2>4
<1> HIDE DEF S
<1>4. n \in S
  <2> HIDE DEF k
  <2>1. \A i \in 0 .. k : i \in S
    BY <1>1, <1>2, <1>3, InductionUpTo
  <2> QED
    BY <2>1 DEF k
<1> QED
  BY <1>4 DEF S

(* The table's step is as many division steps as a byte has bits.          *)
LEMMA TableStepIs ==
  ASSUME NEW sum \in Checksum, NEW value \in Octet
  PROVE  /\ TableStep(sum, value) = IterValues(sum ^^ value)[OctetBits]
         /\ sum ^^ value \in Checksum
         /\ TableStep(sum, value) \in Checksum
<1> DEFINE x == sum ^^ value
           low == x \intersect LowMask
           high == x \ LowMask
           k == OctetBits
<1>1. value \in Checksum /\ k \in 0 .. k /\ k \in Nat
  BY BitsAre
<1>2. x \in Checksum
  BY <1>1, Closed
<1>3. Right(high, k) = Right(sum, k)
  <2>1. \A i \in Mask : i + k \notin LowMask
    BY <1>1 DEF Mask, LowMask
  <2>2. \A i \in Mask : i + k \in high <=> i + k \in sum
    BY <2>1 DEF ^^, Octet
  <2> HIDE DEF high, k
  <2> QED
    BY <2>2 DEF Right
<1> HIDE DEF x
<1>4. /\ low \in Checksum /\ high \in Checksum
      /\ low ^^ high = x /\ high \intersect LowMask = {}
  BY <1>2 DEF Checksum, ^^
<1>5. TableStep(sum, value) = IterValues(low)[k] ^^ Right(sum, k)
  BY DEF TableStep, TableElement, x
<1> HIDE DEF low, high
<1>6. IterValues(high)[k] = Right(high, k)
  BY <1>1, <1>4, HighBitsAreShifted
<1>7. IterValues(low ^^ high)[k] = IterValues(low)[k] ^^ IterValues(high)[k]
  BY <1>1, <1>4, IterValuesDistribute
<1>8. IterValues(x)[k] \in Checksum
  BY <1>1, <1>2, IterValuesAre
<1> QED
  BY <1>2, <1>3, <1>4, <1>5, <1>6, <1>7, <1>8 DEF x

-----------------------------------------------------------------------------
(* Registers                                                               *)

(* A byte of a text, and a bit of it.                                      *)
LEMMA BitsOfBytes ==
  ASSUME NEW bytes \in Seq(Octet), NEW j \in 0 .. Len(bytes) - 1,
         NEW i \in 0 .. OctetBits - 1
  PROVE  /\ bytes[j + 1] \in Octet
         /\ OctetBits * j + i \in 0 .. OctetBits * Len(bytes) - 1
         /\ BitOf(bytes, OctetBits * j + i) = IF i \in bytes[j + 1] THEN {0} ELSE {}
<1> DEFINE k == OctetBits
           n == Len(bytes)
<1>1. k \in Nat \ {0} /\ n \in Nat /\ j \in Nat
  BY BitsAre, LenProperties
<1>2. bytes[j + 1] \in Octet
  BY <1>1, ElementOfSeq
<1>3. (k * j + i) % k = i /\ (k * j + i) \div k = j /\ k * j \in Nat
  <2>1. j \in Int /\ k \in Nat \ {0} /\ i \in 0 .. k - 1
    BY <1>1
  <2> HIDE DEF k
  <2>2. (j * k + i) \div k = j /\ (j * k + i) % k = i
    BY <2>1, DivisionIsUnique
  <2>3. j * k = k * j /\ k * j \in Nat
    BY <1>1
  <2> QED
    BY <2>2, <2>3
<1>4. k * j + i < k * n
  <2> HIDE DEF n, k
  <2>1. j + 1 <= n /\ i < k /\ k * (j + 1) = k * j + k
    BY <1>1 DEF k, n
  <2>2. k * (j + 1) <= k * n
    BY ONLY <1>1, <2>1
  <2>3. i \in Nat /\ k * j \in Nat /\ k * n \in Nat
    BY <1>1, <1>3
  <2> QED
    BY <1>1, <2>1, <2>2, <2>3
<1>5. k * j + i \in 0 .. k * n - 1
  <2>1. i \in Nat /\ k * n \in Nat
    BY <1>1
  <2> HIDE DEF k, n
  <2> QED
    BY <1>3, <1>4, <2>1
<1>6. 1 + j = j + 1
  BY <1>1
<1> QED
  BY <1>2, <1>3, <1>5, <1>6 DEF BitOf

(* The register: each is the division step of the one before, with the     *)
(* next bit.                                                               *)
LEMMA RegisterIs ==
  ASSUME NEW bytes \in Seq(Octet)
  PROVE  /\ Register(bytes)[0] = Mask
         /\ \A n \in 0 .. OctetBits * Len(bytes) : Register(bytes)[n] \in Checksum
         /\ \A n \in 0 .. OctetBits * Len(bytes) - 1 :
              Register(bytes)[n + 1] = IterValue(Register(bytes)[n] ^^ BitOf(bytes, n))
<1> DEFINE k == OctetBits * Len(bytes)
           Next(x, n) == IterValue(x ^^ BitOf(bytes, n))
           step == [n \in 0 .. k - 1 |-> [x \in Checksum |-> Next(x, n)]]
           Solves(f) == f = [n \in 0 .. OctetBits * Len(bytes) |->
                        IF n = 0 THEN Mask ELSE IterValue(f[n - 1] ^^ BitOf(bytes, n - 1))]
           register == CHOOSE f : Solves(f)
<1>1. k \in Nat
  BY BitsAre, LenProperties
<1>2. ASSUME NEW x \in Checksum, NEW n PROVE Next(x, n) \in Checksum
  <2>1. {0} \in Checksum /\ {} \in Checksum
    BY BitsAre DEF Checksum, Mask
  <2>2. BitOf(bytes, n) \in Checksum
    BY <2>1 DEF BitOf
  <2>3. x ^^ BitOf(bytes, n) \in Checksum
    BY <2>2, Closed, 1 \in Nat
  <2> QED
    BY <2>3, IterValueDistributes
<1>3. Mask \in Checksum
  BY DEF Checksum
<1>4. step \in [0 .. k - 1 -> [Checksum -> Checksum]]
  <2> HIDE DEF Next, k
  <2> QED
    BY <1>2
<1>5. PICK g : IteratesUpTo(k, g, Checksum, Mask, step)
  <2> HIDE DEF step, k
  <2> QED
    BY <1>1, <1>3, <1>4, RecursionUpTo
<1>6. /\ g \in [0 .. k -> Checksum] /\ g[0] = Mask
      /\ \A i \in 0 .. k - 1 : g[i + 1] = Next(g[i], i)
  <2>1. /\ g \in [0 .. k -> Checksum] /\ g[0] = Mask
        /\ \A i \in 0 .. k - 1 : g[i + 1] = step[i][g[i]]
    BY <1>5 DEF IteratesUpTo
  <2> HIDE DEF k, Next
  <2>2. \A i \in 0 .. k - 1 : g[i] \in Checksum
    BY <1>1, <2>1
  <2>3. \A i \in 0 .. k - 1 : step[i][g[i]] = Next(g[i], i)
    BY <2>2
  <2> HIDE DEF step
  <2> QED
    BY <2>1, <2>3
<1> HIDE DEF k
<1>7. Solves(g)
  <2>1. \A i \in 0 .. k : g[i] = IF i = 0 THEN Mask ELSE Next(g[i - 1], i - 1)
    <3> TAKE i \in 0 .. k
    <3>1. i = 0 \/ (i - 1 \in 0 .. k - 1 /\ (i - 1) + 1 = i)
      BY <1>1
    <3> HIDE DEF Next, step
    <3> QED
      BY <1>6, <3>1
  <2> QED
    BY <1>6, <2>1 DEF k
<1>8. Solves(register)
  <2> HIDE DEF Solves
  <2> QED
    BY <1>7
<1>9. Register(bytes) = register
  BY DEF Register
<1> HIDE DEF register, step
<1>10. register = [n \in 0 .. k |-> IF n = 0 THEN Mask ELSE Next(register[n - 1], n - 1)]
  BY <1>8 DEF k
<1> HIDE DEF Solves
<1>11. register[0] = Mask /\ \A n \in 0 .. k - 1 : register[n + 1] = Next(register[n], n)
  <2> HIDE DEF Next
  <2>1. register[0] = Mask
    BY <1>1, <1>10
  <2>2. ASSUME NEW n \in 0 .. k - 1 PROVE register[n + 1] = Next(register[n], n)
    <3>1. n + 1 \in 0 .. k /\ n + 1 # 0 /\ (n + 1) - 1 = n
      BY <1>1
    <3> QED
      BY <1>10, <3>1
  <2> QED
    BY <2>1, <2>2
<1>12. \A n \in 0 .. k : register[n] \in Checksum
  <2> DEFINE S == {n \in 0 .. k : register[n] \in Checksum}
  <2>1. 0 \in S
    BY <1>1, <1>3, <1>11
  <2>2. \A n \in 0 .. k - 1 : n \in S => n + 1 \in S
    <3> HIDE DEF Next
    <3> QED
      BY <1>1, <1>2, <1>11
  <2> HIDE DEF S
  <2>3. \A n \in 0 .. k : n \in S
    BY <1>1, <2>1, <2>2, InductionUpTo
  <2> QED
    BY <2>3 DEF S
<1> QED
  BY <1>9, <1>11, <1>12 DEF k

(* The bits of a byte from the i-th on, shifted down to the first place.   *)
Pending(value, i) == Right({b \in value : b >= i}, i)

(* The bits pending are those after the next one, and the next one.        *)
LEMMA PendingIs ==
  ASSUME NEW value \in Octet
  PROVE  /\ Pending(value, 0) = value /\ Pending(value, OctetBits) = {}
         /\ \A i \in 0 .. OctetBits : Pending(value, i) \in Checksum
         /\ \A i \in 0 .. OctetBits - 1 :
              LET rest == Right({b \in value : b >= i + 1}, i)
                  bit  == IF i \in value THEN {0} ELSE {}
              IN  /\ Pending(value, i) ^^ bit = rest /\ 0 \notin rest
                  /\ bit \in Checksum
                  /\ Right(rest, 1) = Pending(value, i + 1)
<1>1. /\ OctetBits \in Nat \ {0} /\ CrcBits \in Nat \ {0} /\ OctetBits <= CrcBits
      /\ value \in Checksum /\ 0 \in Mask
  BY BitsAre DEF Mask
<1>2. \A b \in value : b \in Nat /\ b < OctetBits
  BY <1>1 DEF Octet, LowMask
<1>3. Pending(value, 0) = value
  <2>1. {b \in value : b >= 0} = value
    BY <1>2
  <2> QED
    BY <1>1, <2>1, RightNone DEF Pending
<1>4. Pending(value, OctetBits) = {}
  <2>1. {b \in value : b >= OctetBits} = {}
    BY <1>1, <1>2
  <2> QED
    BY <2>1 DEF Pending, Right
<1>5. \A i \in 0 .. OctetBits : Pending(value, i) \in Checksum
  BY DEF Pending, Right, Checksum
<1>6. ASSUME NEW i \in 0 .. OctetBits - 1
      PROVE  LET rest == Right({b \in value : b >= i + 1}, i)
                 bit  == IF i \in value THEN {0} ELSE {}
             IN  /\ Pending(value, i) ^^ bit = rest /\ 0 \notin rest
                 /\ bit \in Checksum
                 /\ Right(rest, 1) = Pending(value, i + 1)
  <2> DEFINE rest == Right({b \in value : b >= i + 1}, i)
             bit  == IF i \in value THEN {0} ELSE {}
  <2>1. i \in Nat /\ 0 + i = i /\ ~(i >= i + 1)
    BY <1>1
  <2>2. 0 \notin rest /\ bit \in Checksum
    BY <1>1, <2>1 DEF Right, Checksum
  <2>3. ASSUME NEW m PROVE m \in Pending(value, i) ^^ bit <=> m \in rest
    <3>1. CASE m = 0
      <4>1. 0 \in Pending(value, i) <=> i \in value
        BY <1>1, <2>1 DEF Pending, Right
      <4>2. 0 \in bit <=> i \in value
        OBVIOUS
      <4> HIDE DEF bit, rest
      <4> QED
        BY <2>2, <3>1, <4>1, <4>2 DEF ^^
    <3>2. CASE m # 0
      <4>1. m \in Mask => (m + i >= i /\ m + i >= i + 1)
        BY <2>1, <3>2 DEF Mask
      <4>2. m \in Pending(value, i) <=> m \in rest
        BY <4>1 DEF Pending, Right
      <4>3. m \notin bit
        BY <3>2
      <4> HIDE DEF bit, rest
      <4> QED
        BY <4>2, <4>3 DEF ^^
    <3> QED
      BY <3>1, <3>2
  <2>4. Right(rest, 1) = Pending(value, i + 1)
    <3>1. {b \in value : b >= i + 1} \in Checksum
      BY <1>1 DEF Checksum
    <3> QED
      BY <2>1, <3>1, RightOnce DEF Pending
  <2>5. Pending(value, i) ^^ bit = rest
    <3> HIDE DEF bit, rest
    <3> QED
      BY <2>3
  <2> QED
    BY <2>2, <2>4, <2>5
<1> QED
  BY <1>3, <1>4, <1>5, <1>6

(* The register after the next byte is the table's step.                   *)
LEMMA RegisterSteps ==
  ASSUME NEW bytes \in Seq(Octet), NEW j \in 0 .. Len(bytes) - 1
  PROVE  Register(bytes)[OctetBits * (j + 1)] =
           TableStep(Register(bytes)[OctetBits * j], bytes[j + 1])
<1> DEFINE k == OctetBits
           R == Register(bytes)
           s == R[k * j]
           v == bytes[j + 1]
           x == s ^^ v
           S == {i \in 0 .. k : R[k * j + i] = IterValues(x)[i] ^^ Pending(v, i)}
<1>1. k \in Nat \ {0} /\ j \in Nat /\ k * j \in Nat
  <2>1. k \in Nat \ {0} /\ j \in Nat
    BY BitsAre, LenProperties
  <2> QED
    BY <2>1
<1>2. \A i \in 0 .. k - 1 : k * j + i \in 0 .. k * Len(bytes) - 1
  BY BitsOfBytes
<1>3. v \in Octet /\ s \in Checksum
  <2>1. 0 \in 0 .. k - 1 /\ k * j + 0 = k * j
    BY <1>1
  <2>2. v \in Octet /\ k * j \in 0 .. k * Len(bytes) - 1
    BY <2>1, BitsOfBytes
  <2>3. k * j \in 0 .. k * Len(bytes)
    <3>1. k * Len(bytes) \in Nat
      BY <1>1, LenProperties
    <3> DEFINE n == k * Len(bytes)
               m == k * j
    <3>2. n \in Nat /\ m \in 0 .. n - 1
      BY <2>2, <3>1
    <3> HIDE DEF n, m
    <3>3. m \in 0 .. n
      BY <3>2
    <3> QED
      BY <3>3 DEF n, m
  <2> QED
    BY <2>2, <2>3, RegisterIs
<1>4. x \in Checksum /\ TableStep(s, v) = IterValues(x)[k]
  <2> HIDE DEF s, v
  <2> QED
    BY <1>3, TableStepIs
<1>5. 0 \in S
  <2>1. R[k * j + 0] = s /\ 0 \in 0 .. k
    BY <1>1
  <2>2. IterValues(x)[0] = x
    BY <1>4, IterValuesAre
  <2>3. Pending(v, 0) = v
    BY <1>3, PendingIs
  <2>4. (s ^^ v) ^^ v = s
    <3> HIDE DEF s, v
    <3> QED
      BY DEF ^^
  <2> QED
    BY <2>1, <2>2, <2>3, <2>4
<1>6. ASSUME NEW i \in 0 .. k - 1, i \in S PROVE i + 1 \in S
  <2> DEFINE w == R[k * j + i]
             y == IterValues(x)[i]
             rest == Right({b \in v : b >= i + 1}, i)
             bit == IF i \in v THEN {0} ELSE {}
  <2>1. i \in 0 .. k /\ i + 1 \in 0 .. k /\ (k * j + i) + 1 = k * j + (i + 1)
    BY <1>1
  <2>2. R[k * j + (i + 1)] = IterValue(w ^^ bit)
    <3>1. BitOf(bytes, k * j + i) = bit
      BY BitsOfBytes
    <3>2. R[(k * j + i) + 1] = IterValue(w ^^ BitOf(bytes, k * j + i))
      BY <1>2, RegisterIs
    <3> QED
      BY <2>1, <3>1, <3>2
  <2>3. w = y ^^ Pending(v, i)
    BY <1>6
  <2>4. y \in Checksum /\ IterValues(x)[i + 1] = IterValue(y)
    BY <1>1, <1>4, <2>1, IterValuesAre
  <2>5. /\ Pending(v, i) ^^ bit = rest /\ 0 \notin rest
        /\ Right(rest, 1) = Pending(v, i + 1)
    BY <1>3, PendingIs
  <2>6. rest \in Checksum
    BY DEF Right, Checksum
  <2>7. w ^^ bit = y ^^ rest
    <3> HIDE DEF w, y, bit, rest, v
    <3>1. (y ^^ Pending(v, i)) ^^ bit = y ^^ (Pending(v, i) ^^ bit)
      BY DEF ^^
    <3> QED
      BY <2>3, <2>5, <3>1
  <2> HIDE DEF w, y, bit, rest, x, v
  <2>8. IterValue(y ^^ rest) = IterValue(y) ^^ IterValue(rest)
    BY <2>4, <2>6, IterValueDistributes
  <2>9. IterValue(rest) = Pending(v, i + 1)
    BY <2>5 DEF IterValue
  <2> QED
    BY <2>1, <2>2, <2>4, <2>7, <2>8, <2>9
<1>7. k \in S
  <2>1. k \in Nat /\ k \in 0 .. k
    BY <1>1
  <2> HIDE DEF S, k
  <2>2. \A i \in 0 .. k : i \in S
    BY <1>5, <1>6, <2>1, InductionUpTo
  <2> QED
    BY <2>1, <2>2
<1>8. R[k * j + k] = IterValues(x)[k] ^^ {}
  <2>1. Pending(v, k) = {}
    BY <1>3, PendingIs
  <2> QED
    BY <1>7, <2>1
<1>9. IterValues(x)[k] ^^ {} = IterValues(x)[k]
  BY DEF ^^
<1>10. k * (j + 1) = k * j + k
  BY <1>1
<1> QED
  BY <1>4, <1>8, <1>9, <1>10

(* The register after a byte does not depend on the bytes after it.        *)
LEMMA RegisterOfPrefix ==
  ASSUME NEW a \in Seq(Octet), NEW b \in Seq(Octet), NEW j \in 0 .. Len(a)
  PROVE  Register(a \o b)[OctetBits * j] = Register(a)[OctetBits * j]
<1> DEFINE n == Len(a)
           all == a \o b
           S == {i \in 0 .. n : Register(all)[OctetBits * i] = Register(a)[OctetBits * i]}
<1>1. /\ n \in Nat /\ all \in Seq(Octet) /\ Len(all) \in Nat /\ n <= Len(all)
      /\ \A i \in 0 .. n - 1 : all[i + 1] = a[i + 1]
  <2>1. Len(all) = Len(a) + Len(b) /\ Len(a) \in Nat /\ Len(b) \in Nat
    BY LenProperties, ConcatProperties
  <2>2. ASSUME NEW i \in 0 .. n - 1 PROVE all[i + 1] = a[i + 1]
    <3>1. i + 1 \in 1 .. Len(a)
      BY <2>1
    <3> QED
      BY <3>1, ConcatProperties
  <2>3. all \in Seq(Octet)
    BY ConcatProperties
  <2> HIDE DEF all
  <2>4. n \in Nat /\ Len(all) \in Nat /\ n <= Len(all)
    BY <2>1
  <2> QED
    BY <2>2, <2>3, <2>4
<1>2. 0 \in S
  <2>1. OctetBits * 0 = 0
    BY BitsAre
  <2>2. Register(all)[0] = Mask /\ Register(a)[0] = Mask
    <3> HIDE DEF all
    <3> QED
      BY <1>1, RegisterIs
  <2>3. 0 \in 0 .. n
    BY <1>1
  <2> HIDE DEF all, n
  <2> QED
    BY <2>1, <2>2, <2>3
<1> HIDE DEF all
<1>3. ASSUME NEW i \in 0 .. n - 1, i \in S PROVE i + 1 \in S
  <2>1. i + 1 \in 0 .. n /\ i \in 0 .. Len(all) - 1
    BY <1>1
  <2>2. Register(all)[OctetBits * (i + 1)] =
          TableStep(Register(all)[OctetBits * i], all[i + 1])
    BY <1>1, <2>1, RegisterSteps
  <2>3. Register(a)[OctetBits * (i + 1)] =
          TableStep(Register(a)[OctetBits * i], a[i + 1])
    BY RegisterSteps
  <2> QED
    BY <1>1, <1>3, <2>1, <2>2, <2>3
<1> HIDE DEF S, n
<1>4. \A i \in 0 .. n : i \in S
  BY <1>1, <1>2, <1>3, InductionUpTo
<1> QED
  BY <1>4 DEF S, n, all

(* What a call accumulates: the table's step of each byte, from the start. *)
LEMMA AccumulatedIs ==
  ASSUME NEW bytes \in Seq(Octet), NEW initial \in Checksum
  PROVE  /\ Accumulated(bytes, initial)[0] = Start(initial)
         /\ \A n \in 0 .. Len(bytes) - 1 : Accumulated(bytes, initial)[n + 1] =
              TableStep(Accumulated(bytes, initial)[n], bytes[n + 1])
<1> DEFINE k == Len(bytes)
           Next(x, n) == TableStep(x, bytes[n + 1])
           step == [n \in 0 .. k - 1 |-> [x \in Checksum |-> Next(x, n)]]
           Solves(f) == f = [n \in 0 .. Len(bytes) |->
                        IF n = 0 THEN Start(initial) ELSE TableStep(f[n - 1], bytes[n])]
           sum == CHOOSE f : Solves(f)
<1>1. k \in Nat /\ Start(initial) \in Checksum
  BY LenProperties, Closed, 1 \in Nat DEF Start
<1>2. \A x \in Checksum : \A n \in 0 .. k - 1 : Next(x, n) \in Checksum
  <2> TAKE x \in Checksum
  <2> TAKE n \in 0 .. k - 1
  <2>1. n + 1 \in 1 .. k
    BY <1>1
  <2>2. bytes[n + 1] \in Octet
    BY <2>1, ElementOfSeq
  <2> QED
    BY <2>2, TableStepIs
<1>3. step \in [0 .. k - 1 -> [Checksum -> Checksum]]
  <2> HIDE DEF Next, k
  <2> QED
    BY <1>2
<1>4. PICK g : IteratesUpTo(k, g, Checksum, Start(initial), step)
  <2> DEFINE c == Start(initial)
  <2>1. c \in Checksum
    BY <1>1
  <2> HIDE DEF step, k, c
  <2>2. \E g : IteratesUpTo(k, g, Checksum, c, step)
    BY <1>1, <1>3, <2>1, RecursionUpTo
  <2> QED
    BY <2>2 DEF c
<1>5. /\ g \in [0 .. k -> Checksum] /\ g[0] = Start(initial)
      /\ \A i \in 0 .. k - 1 : g[i + 1] = Next(g[i], i)
  <2>1. /\ g \in [0 .. k -> Checksum] /\ g[0] = Start(initial)
        /\ \A i \in 0 .. k - 1 : g[i + 1] = step[i][g[i]]
    BY <1>4 DEF IteratesUpTo
  <2> HIDE DEF k, Next
  <2>2. \A i \in 0 .. k - 1 : g[i] \in Checksum
    BY <1>1, <2>1
  <2>3. \A i \in 0 .. k - 1 : step[i][g[i]] = Next(g[i], i)
    BY <2>2
  <2> HIDE DEF step
  <2> QED
    BY <2>1, <2>3
<1> HIDE DEF k, step
<1>6. Solves(g)
  <2>1. \A i \in 0 .. k : g[i] = IF i = 0 THEN Start(initial)
                                 ELSE TableStep(g[i - 1], bytes[i])
    <3> TAKE i \in 0 .. k
    <3>1. i = 0 \/ (i - 1 \in 0 .. k - 1 /\ (i - 1) + 1 = i)
      BY <1>1
    <3> QED
      BY <1>5, <3>1
  <2> QED
    BY <1>5, <2>1 DEF k
<1>7. Solves(sum)
  <2> HIDE DEF Solves
  <2> QED
    BY <1>6
<1>8. Accumulated(bytes, initial) = sum
  BY DEF Accumulated
<1> HIDE DEF sum, Next
<1>9. sum = [n \in 0 .. k |-> IF n = 0 THEN Start(initial) ELSE TableStep(sum[n - 1], bytes[n])]
  BY <1>7 DEF k
<1> HIDE DEF Solves
<1>10. sum[0] = Start(initial)
  BY <1>1, <1>9
<1>11. ASSUME NEW n \in 0 .. k - 1 PROVE sum[n + 1] = TableStep(sum[n], bytes[n + 1])
  <2>1. n + 1 \in 0 .. k /\ n + 1 # 0 /\ (n + 1) - 1 = n
    BY <1>1
  <2> QED
    BY <1>9, <2>1
<1> QED
  BY <1>8, <1>10, <1>11 DEF k

(* A call that starts with the register of the bytes before it, ends with  *)
(* the register of all.                                                    *)
LEMMA CallContinues ==
  ASSUME NEW a \in Seq(Octet), NEW b \in Seq(Octet), NEW initial \in Checksum,
         Start(initial) = Register(a)[OctetBits * Len(a)]
  PROVE  Crc(b, initial) = ByDefinition(a \o b)
<1> DEFINE n == Len(b)
           m == Len(a)
           k == OctetBits
           all == a \o b
           sum == Accumulated(b, initial)
           R == Register(all)
           S == {i \in 0 .. n : sum[i] = R[k * (m + i)]}
<1>1. /\ n \in Nat /\ m \in Nat /\ all \in Seq(Octet) /\ Len(all) = m + n
      /\ \A i \in 0 .. n - 1 : all[m + i + 1] = b[i + 1]
  <2>1. Len(all) = m + n /\ m \in Nat /\ n \in Nat
    BY LenProperties, ConcatProperties
  <2>2. ASSUME NEW i \in 0 .. n - 1 PROVE all[m + i + 1] = b[i + 1]
    <3>1. /\ m + i + 1 \in 1 .. m + n /\ m + i + 1 > m
          /\ (m + i + 1) - m = i + 1
      BY <2>1
    <3> QED
      BY <3>1, ConcatProperties
  <2> QED
    BY <2>1, <2>2, ConcatProperties
<1>2. 0 \in S
  <2>1. R[k * m] = Register(a)[k * m]
    BY <1>1, RegisterOfPrefix
  <2>2. m + 0 = m /\ sum[0] = Start(initial)
    BY <1>1, AccumulatedIs
  <2> QED
    BY <1>1, <2>1, <2>2
<1> HIDE DEF all
<1>3. ASSUME NEW i \in 0 .. n - 1, i \in S PROVE i + 1 \in S
  <2>1. /\ i + 1 \in 0 .. n /\ m + i \in 0 .. Len(all) - 1
        /\ m + (i + 1) = (m + i) + 1 /\ m + i + 1 = (m + i) + 1
    BY <1>1
  <2>2. R[k * ((m + i) + 1)] = TableStep(R[k * (m + i)], all[(m + i) + 1])
    BY <1>1, <2>1, RegisterSteps
  <2>3. sum[i + 1] = TableStep(sum[i], b[i + 1])
    BY AccumulatedIs
  <2> QED
    BY <1>1, <1>3, <2>1, <2>2, <2>3
<1> HIDE DEF S
<1>4. \A i \in 0 .. n : i \in S
  <2> HIDE DEF n
  <2> QED
    BY <1>1, <1>2, <1>3, InductionUpTo
<1>5. sum[n] = R[k * (m + n)]
  <2>1. n \in 0 .. n
    BY <1>1
  <2> QED
    BY <1>4, <2>1 DEF S
<1> QED
  BY <1>1, <1>5 DEF Crc, ByDefinition, all

-----------------------------------------------------------------------------
(* The client                                                              *)

(* As long as no checksum was taken for the default value, the next call   *)
(* starts with the register of the bytes before it: a checksum is theirs,  *)
(* or there are none and it is the default.                                *)
CrcIInv ==
  /\ accepted \in Seq(Octet) /\ checksum \in Checksum /\ restarts \in Nat
  /\ restarts = 0 =>
       \/ checksum = ByDefinition(accepted)
       \/ accepted = <<>> /\ checksum = Mask

(* What is inverted twice is what it was.                                  *)
LEMMA InvertedTwice ==
  ASSUME NEW a \in Checksum
  PROVE  Inverted(Inverted(a)) = a
BY DEF Inverted, Checksum

(* The register of no bytes.                                               *)
LEMMA RegisterOfNone ==
  /\ <<>> \in Seq(Octet) /\ Len(<<>>) = 0
  /\ Register(<<>>)[OctetBits * Len(<<>>)] = Mask
  /\ ByDefinition(<<>>) = {} /\ Start(Mask) = Mask /\ Start({}) = Mask
<1>1. <<>> \in Seq(Octet) /\ Len(<<>>) = 0 /\ OctetBits * 0 = 0
  BY BitsAre
<1>2. Register(<<>>)[0] = Mask
  BY <1>1, RegisterIs
<1> QED
  BY <1>1, <1>2, BitsAre DEF ByDefinition, Inverted, Start

(* The invariant is kept.                                                  *)
LEMMA CrcInductive == CrcSpec => []CrcIInv
<1>1. CrcInit => CrcIInv
  BY RegisterOfNone DEF CrcInit, CrcIInv, Checksum
<1>2. ASSUME CrcIInv, [CrcNext]_crc_vars PROVE CrcIInv'
  <2>1. CASE UNCHANGED crc_vars
    BY <1>2, <2>1 DEF CrcIInv, crc_vars
  <2>2. CASE CrcNext
    <3>1. PICK bytes \in BoundedSeq(Octet, MaxBytes - Len(accepted)) : Accumulate(bytes)
      BY <2>2 DEF CrcNext
    <3>2. bytes \in Seq(Octet)
      <4>1. PICK m \in 0 .. MaxBytes - Len(accepted) : bytes \in [1 .. m -> Octet]
        BY DEF BoundedSeq, SeqOf
      <4>2. m \in Nat
        BY <1>2, LenProperties, CrcAssumption DEF CrcIInv
      <4> QED
        BY <4>1, <4>2
    <3>3. accepted \in Seq(Octet) /\ checksum \in Checksum /\ restarts \in Nat
      BY <1>2 DEF CrcIInv
    <3>4. /\ checksum' = Crc(bytes, checksum) /\ accepted' = accepted \o bytes
          /\ restarts' = IF accepted # <<>> /\ checksum = Mask
                         THEN restarts + 1 ELSE restarts
      BY <3>1 DEF Accumulate
    <3>5. accepted' \in Seq(Octet) /\ checksum' \in Checksum /\ restarts' \in Nat
      <4>1. Crc(bytes, checksum) \in Checksum
        BY DEF Crc, Inverted, Checksum
      <4>2. accepted \o bytes \in Seq(Octet)
        BY <3>2, <3>3, ConcatProperties
      <4> QED
        BY <3>3, <3>4, <4>1, <4>2
    <3>6. ASSUME restarts' = 0 PROVE checksum' = ByDefinition(accepted')
      <4>1. restarts = 0 /\ ~(accepted # <<>> /\ checksum = Mask)
        BY <3>3, <3>4, <3>6
      <4>2. \/ checksum = ByDefinition(accepted)
            \/ accepted = <<>> /\ checksum = Mask
        BY <1>2, <4>1 DEF CrcIInv
      <4>3. Start(checksum) = Register(accepted)[OctetBits * Len(accepted)]
        <5>1. CASE accepted = <<>>
          BY <4>2, <5>1, RegisterOfNone
        <5>2. CASE accepted # <<>>
          <6> DEFINE r == Register(accepted)[OctetBits * Len(accepted)]
          <6>1. checksum = Inverted(r) /\ Start(checksum) = Inverted(checksum)
            BY <4>1, <4>2, <5>2 DEF ByDefinition, Start
          <6>2. r \in Checksum
            <7>1. OctetBits * Len(accepted) \in 0 .. OctetBits * Len(accepted)
              <8>1. OctetBits \in Nat /\ Len(accepted) \in Nat
                BY <3>3, BitsAre, LenProperties
              <8> QED
                BY <8>1
            <7> QED
              BY <3>3, <7>1, RegisterIs
          <6> HIDE DEF r
          <6>3. Inverted(checksum) = r
            BY <6>1, <6>2, InvertedTwice
          <6> QED
            BY <6>1, <6>3 DEF r
        <5> QED
          BY <5>1, <5>2
      <4> QED
        BY <3>2, <3>3, <3>4, <4>3, CallContinues
    <3> QED
      BY <3>5, <3>6 DEF CrcIInv
  <2> QED
    BY <1>2, <2>1, <2>2
<1> QED
  BY <1>1, <1>2, PTL DEF CrcSpec

(* Chunks of any length, accumulated one after the other, have the         *)
(* checksum that the definition gives all their bytes, for every width and *)
(* polynomial, as long as no call took a checksum for the default value.   *)
THEOREM ChunksAccumulate == CrcSpec => []AccumulatesByDefinition
<1>1. CrcIInv => AccumulatesByDefinition
  BY DEF CrcIInv, AccumulatesByDefinition
<1> QED
  BY <1>1, CrcInductive, PTL

-----------------------------------------------------------------------------
(* Hexadecimal digits                                                      *)

(* A half of a byte.                                                       *)
Halves == 0 .. 15

(* The halves of a character, and the character made of them.              *)
LEMMA HalvesOf ==
  ASSUME NEW c \in Characters
  PROVE  /\ c \div 16 \in Halves /\ c % 16 \in Halves
         /\ 16 * (c \div 16) + (c % 16) = c
BY DEF Characters, Halves

(* Two halves make a character whose halves they are.                      *)
LEMMA CharacterOf ==
  ASSUME NEW a \in Halves, NEW b \in Halves
  PROVE  /\ 16 * a + b \in Characters
         /\ (16 * a + b) \div 16 = a /\ (16 * a + b) % 16 = b
BY DEF Characters, Halves

(* A lower case digit, and its upper case, are decoded to their half; and  *)
(* so is a digit that hexalpha_upper has right.                            *)
LEMMA DigitIs ==
  ASSUME NEW d \in Halves
  PROVE  LET low == HexDigit(d, FALSE)
         IN  /\ low \in Characters /\ HexDigit(d, TRUE) \in Characters
             /\ DecodeHalf(low) = d
             /\ DecodeHalf(IF low \in Lower THEN low - 32 ELSE low) = d
             /\ d # 12 => DecodeHalf(HexDigit(d, TRUE)) = d
BY DEF Halves, HexDigit, DecodeHalf, ToLower, Decimals, Upper, Lower, Characters

(* What is decoded to a half is, in lower case, the digit of that half.    *)
LEMMA HalfIs ==
  ASSUME NEW c \in Characters
  PROVE  /\ DecodeHalf(c) \in Halves \union {-1}
         /\ DecodeHalf(c) \in Halves => HexDigit(DecodeHalf(c), FALSE) = ToLower(c)
BY DEF Halves, HexDigit, DecodeHalf, ToLower, Decimals, Upper, Lower, Characters

(* The places of the digits of two characters' worth.                      *)
LEMMA PlacesAre ==
  ASSUME NEW n \in Nat
  PROVE  /\ \A i \in 1 .. n : /\ 2 * i - 1 \in 1 .. 2 * n /\ 2 * i \in 1 .. 2 * n
                              /\ ((2 * i - 1) + 1) \div 2 = i /\ (2 * i - 1) % 2 = 1
                              /\ (2 * i + 1) \div 2 = i /\ (2 * i) % 2 = 0
         /\ \A j \in 1 .. 2 * n :
              /\ (j + 1) \div 2 \in 1 .. n
              /\ j % 2 = 1 => 2 * ((j + 1) \div 2) - 1 = j
              /\ j % 2 # 1 => 2 * ((j + 1) \div 2) = j
         /\ (2 * n) % 2 = 0 /\ (2 * n) \div 2 = n
OBVIOUS

-----------------------------------------------------------------------------
(* The digits of a text.                                                   *)
LEMMA HexEncodeIs ==
  ASSUME NEW s \in Seq(Characters), NEW uppercase \in BOOLEAN
  PROVE  LET hex == HexEncode(s, uppercase)
         IN  /\ hex \in Seq(Characters) /\ Len(hex) = 2 * Len(s)
             /\ \A i \in 1 .. Len(s) :
                  /\ s[i] \div 16 \in Halves /\ s[i] % 16 \in Halves
                  /\ hex[2 * i - 1] = HexDigit(s[i] \div 16, uppercase)
                  /\ hex[2 * i] = HexDigit(s[i] % 16, uppercase)
<1> DEFINE n == Len(s)
           hex == HexEncode(s, uppercase)
           At(i) == HexDigit(IF i % 2 = 1 THEN s[(i + 1) \div 2] \div 16
                             ELSE s[(i + 1) \div 2] % 16, uppercase)
<1>1. n \in Nat /\ \A i \in 1 .. n : s[i] \in Characters
  OBVIOUS
<1>2. hex = [i \in 1 .. 2 * n |-> At(i)]
  BY DEF HexEncode
<1> HIDE DEF n, hex
<1>3. \A d \in Halves : HexDigit(d, uppercase) \in Characters
  BY DigitIs
<1>4. \A i \in 1 .. n : s[i] \div 16 \in Halves /\ s[i] % 16 \in Halves
  BY <1>1, HalvesOf
<1>5. ASSUME NEW i \in 1 .. 2 * n PROVE At(i) \in Characters
  <2>1. (i + 1) \div 2 \in 1 .. n
    BY <1>1, PlacesAre
  <2> QED
    BY <1>3, <1>4, <2>1
<1>6. hex \in Seq(Characters) /\ Len(hex) = 2 * n
  <2>1. 2 * n \in Nat
    BY <1>1
  <2> HIDE DEF At
  <2>2. hex \in [1 .. 2 * n -> Characters]
    BY <1>2, <1>5
  <2> QED
    BY <2>1, <2>2
<1>7. ASSUME NEW i \in 1 .. n
      PROVE  /\ hex[2 * i - 1] = HexDigit(s[i] \div 16, uppercase)
             /\ hex[2 * i] = HexDigit(s[i] % 16, uppercase)
  <2>1. /\ 2 * i - 1 \in 1 .. 2 * n /\ 2 * i \in 1 .. 2 * n
        /\ ((2 * i - 1) + 1) \div 2 = i /\ (2 * i - 1) % 2 = 1
        /\ (2 * i + 1) \div 2 = i /\ (2 * i) % 2 = 0
    BY <1>1, PlacesAre
  <2>2. hex[2 * i - 1] = At(2 * i - 1) /\ hex[2 * i] = At(2 * i)
    <3> HIDE DEF At
    <3> QED
      BY <1>2, <2>1
  <2> QED
    BY <2>1, <2>2
<1> QED
  BY <1>4, <1>6, <1>7 DEF hex, n

(* A text of an even number of digits is decoded, pair by pair.            *)
LEMMA HexDecodeIs ==
  ASSUME NEW n \in Nat, NEW t \in Seq(Characters), Len(t) = 2 * n, NEW behind,
         \A j \in 1 .. 2 * n : DecodeHalf(t[j]) \in Halves
  PROVE  HexDecode(t, behind) =
           [i \in 1 .. n |-> 16 * DecodeHalf(t[2 * i - 1]) + DecodeHalf(t[2 * i])]
<1>1. Len(t) % 2 = 0 /\ Len(t) \div 2 = n /\ DOMAIN t = 1 .. 2 * n
  OBVIOUS
<1>2. ~ \E i \in DOMAIN t : DecodeHalf(t[i]) < 0
  BY <1>1 DEF Halves
<1> QED
  BY <1>1, <1>2 DEF HexDecode

(* What is decoded at all has an even number of characters, all digits.    *)
LEMMA HexDecodedIs ==
  ASSUME NEW t \in Seq(Characters), HexDecode(t, Nul) # <<>>
  PROVE  \E n \in Nat : /\ Len(t) = 2 * n
                        /\ \A j \in 1 .. 2 * n : DecodeHalf(t[j]) \in Halves
<1> DEFINE read == IF Len(t) % 2 = 0 THEN t ELSE Append(t, Nul)
<1>1. ~ \E i \in DOMAIN read : DecodeHalf(read[i]) < 0
  BY DEF HexDecode
<1>2. Len(t) % 2 = 0
  <2> SUFFICES ASSUME Len(t) % 2 # 0 PROVE FALSE
    OBVIOUS
  <2>1. /\ Len(t) + 1 \in DOMAIN Append(t, Nul)
        /\ Append(t, Nul)[Len(t) + 1] = Nul
    BY DEF Nul, Characters
  <2>2. DecodeHalf(Nul) < 0
    BY DEF DecodeHalf, Nul, Decimals, ToLower, Upper
  <2> QED
    BY <1>1, <2>1, <2>2
<1>3. PICK n \in Nat : Len(t) = 2 * n
  <2>1. Len(t) \div 2 \in Nat /\ Len(t) = 2 * (Len(t) \div 2)
    BY <1>2
  <2> QED
    BY <2>1
<1>4. ASSUME NEW j \in 1 .. 2 * n PROVE DecodeHalf(t[j]) \in Halves
  <2>1. j \in DOMAIN t /\ t[j] \in Characters
    BY <1>3
  <2>2. ~ (DecodeHalf(t[j]) < 0)
    BY <1>1, <1>2, <2>1
  <2>3. DecodeHalf(t[j]) \in Halves \union {-1}
    BY <2>1, HalfIs
  <2> QED
    BY <2>2, <2>3 DEF Halves
<1> QED
  BY <1>3, <1>4

(* Digits of either case are decoded to what they are digits of.           *)
LEMMA HexReadsBack ==
  ASSUME NEW s \in Seq(Characters)
  PROVE  LET hex   == HexEncode(s, FALSE)
             upper == [i \in DOMAIN hex |->
                         IF hex[i] \in Lower THEN hex[i] - 32 ELSE hex[i]]
         IN  HexDecode(hex, Nul) = s /\ HexDecode(upper, Nul) = s
<1> DEFINE n == Len(s)
           hex == HexEncode(s, FALSE)
           Raised(c) == IF c \in Lower THEN c - 32 ELSE c
           upper == [i \in DOMAIN hex |-> Raised(hex[i])]
<1>1. /\ n \in Nat /\ \A i \in 1 .. n : s[i] \in Characters
      /\ s = [i \in 1 .. n |-> s[i]]
  OBVIOUS
<1>2. /\ hex \in Seq(Characters) /\ Len(hex) = 2 * n
      /\ \A i \in 1 .. n :
           /\ s[i] \div 16 \in Halves /\ s[i] % 16 \in Halves
           /\ hex[2 * i - 1] = HexDigit(s[i] \div 16, FALSE)
           /\ hex[2 * i] = HexDigit(s[i] % 16, FALSE)
  BY HexEncodeIs
<1> HIDE DEF n, hex
<1>3. /\ upper \in Seq(Characters) /\ Len(upper) = 2 * n
      /\ \A j \in 1 .. 2 * n : upper[j] = Raised(hex[j])
  <2>1. \A c \in Characters : Raised(c) \in Characters
    BY DEF Characters, Lower
  <2>2. DOMAIN hex = 1 .. 2 * n /\ \A j \in 1 .. 2 * n : hex[j] \in Characters
    BY <1>1, <1>2
  <2>3. 2 * n \in Nat
    BY <1>1
  <2> HIDE DEF Raised
  <2>4. upper \in [1 .. 2 * n -> Characters]
    BY <2>1, <2>2
  <2> QED
    BY <2>2, <2>3, <2>4
<1>4. ASSUME NEW i \in 1 .. n
      PROVE  /\ DecodeHalf(hex[2 * i - 1]) = s[i] \div 16
             /\ DecodeHalf(hex[2 * i]) = s[i] % 16
             /\ DecodeHalf(Raised(hex[2 * i - 1])) = s[i] \div 16
             /\ DecodeHalf(Raised(hex[2 * i])) = s[i] % 16
  BY <1>2, DigitIs
<1>5. ASSUME NEW j \in 1 .. 2 * n
      PROVE  DecodeHalf(hex[j]) \in Halves /\ DecodeHalf(Raised(hex[j])) \in Halves
  <2>1. PICK i \in 1 .. n : j = 2 * i - 1 \/ j = 2 * i
    <3> DEFINE i == (j + 1) \div 2
    <3>1. i \in 1 .. n /\ (j % 2 = 1 => 2 * i - 1 = j) /\ (j % 2 # 1 => 2 * i = j)
      BY <1>1, PlacesAre
    <3> QED
      BY <3>1
  <2>2. s[i] \div 16 \in Halves /\ s[i] % 16 \in Halves
    BY <1>2
  <2> HIDE DEF Raised
  <2> QED
    BY <1>4, <2>1, <2>2
<1>6. HexDecode(hex, Nul) = s
  <2>1. HexDecode(hex, Nul) =
          [i \in 1 .. n |-> 16 * DecodeHalf(hex[2 * i - 1]) + DecodeHalf(hex[2 * i])]
    BY <1>1, <1>2, <1>5, HexDecodeIs
  <2>2. \A i \in 1 .. n :
          16 * DecodeHalf(hex[2 * i - 1]) + DecodeHalf(hex[2 * i]) = s[i]
    <3> TAKE i \in 1 .. n
    <3>1. 16 * (s[i] \div 16) + (s[i] % 16) = s[i]
      BY <1>1, HalvesOf
    <3>2. /\ DecodeHalf(hex[2 * i - 1]) = s[i] \div 16
          /\ DecodeHalf(hex[2 * i]) = s[i] % 16
      BY <1>4
    <3> QED
      BY <3>1, <3>2
  <2> QED
    BY <1>1, <2>1, <2>2
<1>7. HexDecode(upper, Nul) = s
  <2>1. \A j \in 1 .. 2 * n : DecodeHalf(upper[j]) \in Halves
    <3> HIDE DEF Raised, upper
    <3> QED
      BY <1>3, <1>5
  <2>2. HexDecode(upper, Nul) =
          [i \in 1 .. n |-> 16 * DecodeHalf(upper[2 * i - 1]) + DecodeHalf(upper[2 * i])]
    <3> HIDE DEF upper
    <3> QED
      BY <1>1, <1>3, <2>1, HexDecodeIs
  <2>3. \A i \in 1 .. n :
          16 * DecodeHalf(upper[2 * i - 1]) + DecodeHalf(upper[2 * i]) = s[i]
    <3> TAKE i \in 1 .. n
    <3>1. 2 * i - 1 \in 1 .. 2 * n /\ 2 * i \in 1 .. 2 * n
      BY <1>1, PlacesAre
    <3>2. /\ upper[2 * i - 1] = Raised(hex[2 * i - 1])
          /\ upper[2 * i] = Raised(hex[2 * i])
      BY <1>3, <3>1
    <3> HIDE DEF Raised, upper
    <3>3. 16 * (s[i] \div 16) + (s[i] % 16) = s[i]
      BY <1>1, HalvesOf
    <3>4. /\ DecodeHalf(upper[2 * i - 1]) = s[i] \div 16
          /\ DecodeHalf(upper[2 * i]) = s[i] % 16
      BY <1>4, <3>2
    <3> QED
      BY <3>3, <3>4
  <2> QED
    BY <1>1, <2>2, <2>3
<1> QED
  BY <1>6, <1>7 DEF hex

(* What is decoded from a text is encoded to its digits again.             *)
LEMMA DecodesDigits ==
  ASSUME NEW t \in Seq(Characters), HexDecode(t, Nul) # <<>>
  PROVE  HexEncode(HexDecode(t, Nul), FALSE) = Lowered(t)
<1> DEFINE bytes == HexDecode(t, Nul)
<1>1. PICK n \in Nat : /\ Len(t) = 2 * n
                       /\ \A j \in 1 .. 2 * n : DecodeHalf(t[j]) \in Halves
  BY HexDecodedIs
<1>2. bytes = [i \in 1 .. n |-> 16 * DecodeHalf(t[2 * i - 1]) + DecodeHalf(t[2 * i])]
  BY <1>1, HexDecodeIs
<1> HIDE DEF bytes
<1>3. \A i \in 1 .. n : 2 * i - 1 \in 1 .. 2 * n /\ 2 * i \in 1 .. 2 * n
  BY PlacesAre
<1>4. \A i \in 1 .. n : /\ bytes[i] \in Characters
                        /\ bytes[i] \div 16 = DecodeHalf(t[2 * i - 1])
                        /\ bytes[i] % 16 = DecodeHalf(t[2 * i])
  <2> TAKE i \in 1 .. n
  <2>1. bytes[i] = 16 * DecodeHalf(t[2 * i - 1]) + DecodeHalf(t[2 * i])
    BY <1>2
  <2>2. DecodeHalf(t[2 * i - 1]) \in Halves /\ DecodeHalf(t[2 * i]) \in Halves
    BY <1>1, <1>3
  <2> QED
    BY <2>1, <2>2, CharacterOf
<1>5. bytes \in Seq(Characters) /\ Len(bytes) = n
  <2>1. bytes \in [1 .. n -> Characters]
    BY <1>2, <1>4
  <2> QED
    BY <2>1
<1>6. /\ HexEncode(bytes, FALSE) \in Seq(Characters)
      /\ Len(HexEncode(bytes, FALSE)) = 2 * n
      /\ \A i \in 1 .. n :
           /\ HexEncode(bytes, FALSE)[2 * i - 1] = HexDigit(bytes[i] \div 16, FALSE)
           /\ HexEncode(bytes, FALSE)[2 * i] = HexDigit(bytes[i] % 16, FALSE)
  BY <1>5, HexEncodeIs
<1>7. \A j \in 1 .. 2 * n : HexEncode(bytes, FALSE)[j] = ToLower(t[j])
  <2> TAKE j \in 1 .. 2 * n
  <2>1. PICK i \in 1 .. n : j = 2 * i - 1 \/ j = 2 * i
    <3> DEFINE i == (j + 1) \div 2
    <3>1. i \in 1 .. n /\ (j % 2 = 1 => 2 * i - 1 = j) /\ (j % 2 # 1 => 2 * i = j)
      BY PlacesAre
    <3> QED
      BY <3>1
  <2>2. HexEncode(bytes, FALSE)[j] = HexDigit(DecodeHalf(t[j]), FALSE)
    BY <1>4, <1>6, <2>1
  <2>3. t[j] \in Characters /\ DecodeHalf(t[j]) \in Halves
    BY <1>1
  <2> QED
    BY <2>2, <2>3, HalfIs
<1>8. Lowered(t) = [j \in 1 .. 2 * n |-> ToLower(t[j])]
  BY <1>1 DEF Lowered
<1>9. HexEncode(bytes, FALSE) = [j \in 1 .. 2 * n |-> HexEncode(bytes, FALSE)[j]]
  <2> DEFINE h == HexEncode(bytes, FALSE)
  <2> HIDE DEF h
  <2>1. h = [j \in 1 .. Len(h) |-> h[j]]
    <3>1. h \in Seq(Characters)
      BY <1>6 DEF h
    <3> QED
      BY <3>1
  <2> QED
    BY <1>6, <2>1 DEF h
<1> QED
  BY <1>7, <1>8, <1>9 DEF bytes

-----------------------------------------------------------------------------
(* Sequences that are put together                                         *)

(* E[i] is what the first i sequences of toks make, and all of them make   *)
(* what FlattenSeq does.                                                   *)
Flattens(E, toks, S) ==
  /\ E \in [0 .. Len(toks) -> Seq(S)]
  /\ E[0] = <<>>
  /\ \A i \in 0 .. Len(toks) - 1 : E[i + 1] = E[i] \o toks[i + 1]
  /\ FlattenSeq(toks) = E[Len(toks)]

(* FlattenSeq puts one sequence behind the other.                          *)
LEMMA FlattenIs ==
  ASSUME NEW S, NEW toks \in Seq(Seq(S))
  PROVE  \E E : Flattens(E, toks, S)
<1> DEFINE n == Len(toks)
           V == Seq(S)
           step == [i \in 0 .. n - 1 |-> [x \in V |-> x \o toks[i + 1]]]
           Solves(f) == f = [i \in 1 .. n |-> IF i = 1 THEN toks[i] ELSE f[i - 1] \o toks[i]]
           value == CHOOSE f : Solves(f)
<1>1. n \in Nat /\ (\A i \in 1 .. n : toks[i] \in V) /\ <<>> \in V
  OBVIOUS
<1>2. step \in [0 .. n - 1 -> [V -> V]]
  <2>1. ASSUME NEW i \in 0 .. n - 1, NEW x \in V PROVE x \o toks[i + 1] \in V
    <3>1. i + 1 \in 1 .. n
      BY <1>1
    <3>2. toks[i + 1] \in V
      BY <1>1, <3>1
    <3> QED
      BY <3>2
  <2> HIDE DEF V, n
  <2> QED
    BY <2>1
<1>3. PICK g : IteratesUpTo(n, g, V, <<>>, step)
  <2> HIDE DEF step, n, V
  <2> QED
    BY <1>1, <1>2, RecursionUpTo
<1>4. /\ g \in [0 .. n -> V] /\ g[0] = <<>>
      /\ \A i \in 0 .. n - 1 : g[i + 1] = g[i] \o toks[i + 1]
  <2> HIDE DEF V, n
  <2>1. /\ g \in [0 .. n -> V] /\ g[0] = <<>>
        /\ \A i \in 0 .. n - 1 : g[i + 1] = step[i][g[i]]
    BY <1>3 DEF IteratesUpTo
  <2>2. \A i \in 0 .. n - 1 : g[i] \in V
    BY <1>1, <2>1
  <2> QED
    BY <2>1, <2>2
<1>5. n > 0 => g[1] = toks[1]
  <2> SUFFICES ASSUME n > 0 PROVE g[1] = toks[1]
    OBVIOUS
  <2>1. 0 \in 0 .. n - 1 /\ 1 \in 1 .. n /\ 0 + 1 = 1
    BY <1>1
  <2>2. g[1] = <<>> \o toks[1]
    BY <1>4, <2>1
  <2>3. toks[1] \in Seq(S)
    BY <1>1, <2>1
  <2> HIDE DEF n, V, step
  <2> QED
    BY <2>2, <2>3, ConcatEmptySeq
<1> DEFINE h == [i \in 1 .. n |-> g[i]]
<1>6. Solves(h)
  <2>1. \A i \in 1 .. n : h[i] = IF i = 1 THEN toks[i] ELSE h[i - 1] \o toks[i]
    <3> TAKE i \in 1 .. n
    <3>1. CASE i = 1
      BY <1>5, <3>1
    <3>2. CASE i # 1
      <4>1. i - 1 \in 1 .. n /\ i - 1 \in 0 .. n - 1 /\ (i - 1) + 1 = i
        BY <1>1, <3>2
      <4> HIDE DEF n, V, step
      <4>2. g[i] = g[i - 1] \o toks[i]
        BY <1>4, <4>1
      <4> QED
        BY <3>2, <4>1, <4>2
    <3> QED
      BY <3>1, <3>2
  <2> HIDE DEF n, V, step
  <2> QED
    BY <2>1
<1>7. Solves(value)
  <2> HIDE DEF Solves
  <2> QED
    BY <1>6
<1>8. n # 0 => FlattenSeq(toks) = value[n]
  BY DEF FlattenSeq
<1> HIDE DEF value, h, step
<1>9. \A i \in 1 .. n : value[i] = IF i = 1 THEN toks[i] ELSE value[i - 1] \o toks[i]
  BY <1>7
<1> HIDE DEF Solves
<1>10. \A i \in 1 .. n : value[i] = g[i]
  <2> DEFINE T == {i \in 0 .. n : i # 0 => value[i] = g[i]}
  <2>1. 0 \in T
    BY <1>1
  <2>2. ASSUME NEW i \in 0 .. n - 1, i \in T PROVE i + 1 \in T
    <3>1. i + 1 \in 1 .. n /\ i + 1 \in 0 .. n /\ (i + 1) - 1 = i
      BY <1>1
    <3> HIDE DEF n, V
    <3>2. value[i + 1] = IF i + 1 = 1 THEN toks[i + 1]
                         ELSE value[(i + 1) - 1] \o toks[i + 1]
      BY <1>9, <3>1
    <3>3. CASE i = 0
      <4>1. n > 0 /\ i + 1 = 1
        BY <1>1, <3>3
      <4>2. value[1] = g[1]
        BY <1>5, <3>2, <4>1
      <4> QED
        BY <3>1, <4>1, <4>2
    <3>4. CASE i # 0
      <4>1. i + 1 # 1
        BY <3>4
      <4>2. value[i + 1] = value[i] \o toks[i + 1]
        BY <3>1, <3>2, <4>1
      <4>3. value[i] = g[i] /\ g[i + 1] = g[i] \o toks[i + 1]
        BY <1>4, <2>2, <3>4
      <4> QED
        BY <3>1, <4>2, <4>3
    <3> QED
      BY <3>3, <3>4
  <2> HIDE DEF T, n, V
  <2>3. \A i \in 0 .. n : i \in T
    BY <1>1, <2>1, <2>2, InductionUpTo
  <2> QED
    BY <1>1, <2>3 DEF T
<1>11. FlattenSeq(toks) = g[n]
  <2>1. CASE n = 0
    <3>1. FlattenSeq(toks) = toks
      BY <2>1 DEF FlattenSeq
    <3>2. toks = <<>>
      BY <2>1, EmptySeq
    <3> QED
      BY <1>4, <2>1, <3>1, <3>2
  <2>2. CASE n # 0
    BY <1>1, <1>8, <1>10, <2>2
  <2> QED
    BY <2>1, <2>2
<1> QED
  BY <1>4, <1>11 DEF Flattens

(* What has been put together stays in front of what follows.              *)
LEMMA FlattensInFront ==
  ASSUME NEW S, NEW toks \in Seq(Seq(S)), NEW E, Flattens(E, toks, S),
         NEW i \in 0 .. Len(toks)
  PROVE  /\ Len(E[i]) <= Len(E[Len(toks)])
         /\ \A j \in 1 .. Len(E[i]) : E[Len(toks)][j] = E[i][j]
<1> DEFINE n == Len(toks)
           T == {m \in 0 .. n - i :
                   /\ Len(E[i]) <= Len(E[i + m])
                   /\ \A j \in 1 .. Len(E[i]) : E[i + m][j] = E[i][j]}
<1>1. /\ n \in Nat /\ n - i \in Nat /\ i \in Nat /\ i + (n - i) = n /\ i + 0 = i
      /\ \A k \in 1 .. n : toks[k] \in Seq(S)
  OBVIOUS
<1>2. /\ E \in [0 .. n -> Seq(S)]
      /\ \A k \in 0 .. n - 1 : E[k + 1] = E[k] \o toks[k + 1]
  BY DEF Flattens
<1> HIDE DEF n
<1>3. 0 \in T
  BY <1>1, <1>2
<1>4. ASSUME NEW m \in 0 .. (n - i) - 1, m \in T PROVE m + 1 \in T
  <2> DEFINE a == E[i + m]
             b == toks[i + m + 1]
  <2>1. /\ i + m \in 0 .. n - 1 /\ i + m \in 0 .. n /\ i + m + 1 \in 1 .. n
        /\ m + 1 \in 0 .. n - i /\ i + (m + 1) = (i + m) + 1
    BY <1>1
  <2>2. a \in Seq(S) /\ b \in Seq(S) /\ E[i + (m + 1)] = a \o b
    BY <1>1, <1>2, <2>1
  <2>3. E[i] \in Seq(S)
    BY <1>1, <1>2
  <2>4. Len(E[i]) <= Len(a) /\ \A j \in 1 .. Len(E[i]) : a[j] = E[i][j]
    BY <1>4
  <2> HIDE DEF a, b
  <2>5. Len(a \o b) = Len(a) + Len(b) /\ Len(a) \in Nat /\ Len(b) \in Nat
    BY <2>2, ConcatProperties
  <2>6. \A j \in 1 .. Len(a) : (a \o b)[j] = a[j]
    BY <2>2, ConcatProperties
  <2>7. Len(E[i]) \in Nat
    BY <2>3
  <2>8. /\ Len(E[i]) <= Len(a \o b)
        /\ \A j \in 1 .. Len(E[i]) : (a \o b)[j] = E[i][j]
    BY <2>4, <2>5, <2>6, <2>7
  <2> QED
    BY <2>1, <2>2, <2>8
<1> HIDE DEF T
<1>5. \A m \in 0 .. n - i : m \in T
  <2> DEFINE k == n - i
  <2>1. k \in Nat /\ \A m \in 0 .. k - 1 : m \in T => m + 1 \in T
    BY <1>1, <1>4
  <2> HIDE DEF k
  <2>2. \A m \in 0 .. k : m \in T
    BY <1>3, <2>1, InductionUpTo
  <2> QED
    BY <2>2 DEF k
<1>6. n - i \in T
  BY <1>1, <1>5
<1> QED
  BY <1>1, <1>6 DEF T, n

-----------------------------------------------------------------------------
(* urldecode()                                                             *)

(* What its loop and that of replace() carry from turn to turn.            *)
Loops == [next : Nat \ {0}, ret : Seq(Characters)]

(* What hexdecode() and urldecode() make are characters.                   *)
LEMMA HexDecodeType ==
  ASSUME NEW t \in Seq(Characters)
  PROVE  HexDecode(t, Nul) \in Seq(Characters)
<1>1. CASE HexDecode(t, Nul) = <<>>
  BY <1>1
<1>2. CASE HexDecode(t, Nul) # <<>>
  <2>1. PICK n \in Nat : /\ Len(t) = 2 * n
                         /\ \A j \in 1 .. 2 * n : DecodeHalf(t[j]) \in Halves
    BY <1>2, HexDecodedIs
  <2>2. HexDecode(t, Nul) =
          [i \in 1 .. n |-> 16 * DecodeHalf(t[2 * i - 1]) + DecodeHalf(t[2 * i])]
    BY <2>1, HexDecodeIs
  <2>3. \A i \in 1 .. n : 16 * DecodeHalf(t[2 * i - 1]) + DecodeHalf(t[2 * i]) \in Characters
    <3> TAKE i \in 1 .. n
    <3>1. 2 * i - 1 \in 1 .. 2 * n /\ 2 * i \in 1 .. 2 * n
      BY PlacesAre
    <3> QED
      BY <2>1, <3>1, CharacterOf
  <2>4. HexDecode(t, Nul) \in [1 .. n -> Characters]
    BY <2>2, <2>3
  <2> QED
    BY <2>4
<1> QED
  BY <1>1, <1>2

(* A turn of the loop.                                                     *)
LEMMA DecodeTurnType ==
  ASSUME NEW s \in Seq(Characters), NEW loop \in Loops
  PROVE  DecodeTurn(s, loop) \in Loops
<1> DEFINE i == loop.next
           At(k) == IF k <= Len(s) THEN s[k] ELSE Nul
           hex == <<At(i + 1), At(i + 2)>>
<1>1. i \in Nat \ {0} /\ loop.ret \in Seq(Characters) /\ Len(s) \in Nat
  BY DEF Loops
<1>2. CASE i > Len(s)
  BY <1>2 DEF DecodeTurn
<1>3. CASE ~ (i > Len(s)) /\ s[i] # Percent
  <2>1. s[i] \in Characters
    BY <1>1, <1>3
  <2>2. Append(loop.ret, s[i]) \in Seq(Characters)
    BY <1>1, <2>1
  <2>3. DecodeTurn(s, loop) = [next |-> i + 1, ret |-> Append(loop.ret, s[i])]
    BY <1>3 DEF DecodeTurn
  <2> QED
    BY <1>1, <2>2, <2>3 DEF Loops
<1>4. CASE ~ (i > Len(s)) /\ s[i] = Percent
  <2>1. At(i + 1) \in Characters /\ At(i + 2) \in Characters
    <3>1. \A k \in Nat \ {0} : At(k) \in Characters
      <4>1. Nul \in Characters
        BY DEF Nul, Characters
      <4>2. \A k \in 1 .. Len(s) : s[k] \in Characters
        OBVIOUS
      <4> QED
        BY <1>1, <4>1, <4>2
    <3>2. i + 1 \in Nat \ {0} /\ i + 2 \in Nat \ {0}
      BY <1>1
    <3> HIDE DEF At, i
    <3> QED
      BY <3>1, <3>2
  <2>2. hex \in Seq(Characters)
    BY <2>1
  <2>3. UrlDecoded(hex) \in Seq(Characters)
    <3> HIDE DEF hex
    <3>1. HexDecode(hex, Nul) \in Seq(Characters)
      BY <2>2, HexDecodeType
    <3>2. <<Question>> \in Seq(Characters)
      BY DEF Question, Characters
    <3> QED
      BY <3>1, <3>2 DEF UrlDecoded
  <2>4. DecodeTurn(s, loop) = [next |-> i + 3, ret |-> loop.ret \o UrlDecoded(hex)]
    BY <1>4 DEF DecodeTurn
  <2> HIDE DEF hex
  <2>5. loop.ret \o UrlDecoded(hex) \in Seq(Characters)
    BY <1>1, <2>3
  <2> QED
    BY <1>1, <2>4, <2>5 DEF Loops
<1> QED
  BY <1>2, <1>3, <1>4

(* The turns that the loop takes.                                          *)
LEMMA DecodeTurnsAre ==
  ASSUME NEW s \in Seq(Characters)
  PROVE  /\ DecodeTurns(s) \in [0 .. Len(s) -> Loops]
         /\ DecodeTurns(s)[0] = [next |-> 1, ret |-> <<>>]
         /\ \A n \in 0 .. Len(s) - 1 :
              DecodeTurns(s)[n + 1] = DecodeTurn(s, DecodeTurns(s)[n])
<1> DEFINE k == Len(s)
           first == [next |-> 1, ret |-> <<>>]
           step == [n \in 0 .. k - 1 |-> [x \in Loops |-> DecodeTurn(s, x)]]
           Solves(f) == f = [n \in 0 .. Len(s) |->
                               IF n = 0 THEN [next |-> 1, ret |-> <<>>]
                               ELSE DecodeTurn(s, f[n - 1])]
           value == CHOOSE f : Solves(f)
<1>1. k \in Nat /\ step \in [0 .. k - 1 -> [Loops -> Loops]] /\ first \in Loops
  <2>1. k \in Nat /\ first \in Loops
    BY DEF Loops
  <2>2. \A x \in Loops : DecodeTurn(s, x) \in Loops
    BY DecodeTurnType
  <2> HIDE DEF k
  <2> QED
    BY <2>1, <2>2
<1>2. PICK g : IteratesUpTo(k, g, Loops, first, step)
  <2> HIDE DEF step, k, first
  <2> QED
    BY <1>1, RecursionUpTo
<1>3. /\ g \in [0 .. k -> Loops] /\ g[0] = first
      /\ \A i \in 0 .. k - 1 : g[i + 1] = DecodeTurn(s, g[i])
  <2> HIDE DEF k, first
  <2>1. /\ g \in [0 .. k -> Loops] /\ g[0] = first
        /\ \A i \in 0 .. k - 1 : g[i + 1] = step[i][g[i]]
    BY <1>2 DEF IteratesUpTo
  <2>2. \A i \in 0 .. k - 1 : g[i] \in Loops
    BY <1>1, <2>1
  <2>3. \A i \in 0 .. k - 1 : step[i][g[i]] = DecodeTurn(s, g[i])
    BY <2>2
  <2> HIDE DEF step
  <2> QED
    BY <2>1, <2>3
<1>4. Solves(g)
  <2>1. \A i \in 0 .. k : g[i] = IF i = 0 THEN first ELSE DecodeTurn(s, g[i - 1])
    <3> TAKE i \in 0 .. k
    <3>1. i = 0 \/ (i - 1 \in 0 .. k - 1 /\ (i - 1) + 1 = i)
      BY <1>1
    <3> HIDE DEF step, k, first
    <3> QED
      BY <1>3, <3>1
  <2> HIDE DEF step
  <2> QED
    BY <1>3, <2>1
<1>5. Solves(value)
  <2> HIDE DEF Solves
  <2> QED
    BY <1>4
<1>6. DecodeTurns(s) = value
  BY DEF DecodeTurns
<1> HIDE DEF value, step
<1>7. value = [n \in 0 .. k |-> IF n = 0 THEN first ELSE DecodeTurn(s, value[n - 1])]
  BY <1>5
<1> HIDE DEF Solves, k, first
<1>8. value[0] = first /\ \A n \in 0 .. k - 1 : value[n + 1] = DecodeTurn(s, value[n])
  <2>1. value[0] = first
    BY <1>1, <1>7
  <2>2. ASSUME NEW n \in 0 .. k - 1 PROVE value[n + 1] = DecodeTurn(s, value[n])
    <3>1. n + 1 \in 0 .. k /\ n + 1 # 0 /\ (n + 1) - 1 = n
      BY <1>1
    <3> QED
      BY <1>7, <3>1
  <2> QED
    BY <2>1, <2>2
<1>9. \A n \in 0 .. k : value[n] \in Loops
  <2> DEFINE S == {n \in 0 .. k : value[n] \in Loops}
  <2>1. 0 \in S /\ \A n \in 0 .. k - 1 : n \in S => n + 1 \in S
    BY <1>1, <1>8, DecodeTurnType
  <2> HIDE DEF S
  <2>2. \A n \in 0 .. k : n \in S
    BY <1>1, <2>1, InductionUpTo
  <2> QED
    BY <2>2 DEF S
<1> QED
  <2>1. value = [n \in 0 .. k |-> value[n]]
    BY <1>7
  <2> QED
    BY <1>6, <1>8, <1>9, <2>1 DEF k, first

(* What is decoded are characters.                                         *)
LEMMA UrlDecodeType ==
  ASSUME NEW s \in Seq(Characters)
  PROVE  UrlDecode(s) \in Seq(Characters)
<1>1. Len(s) \in 0 .. Len(s)
  OBVIOUS
<1>2. DecodeTurns(s)[Len(s)] \in Loops
  BY <1>1, DecodeTurnsAre
<1> QED
  BY <1>2 DEF UrlDecode, Loops

(* An encoded character.                                                   *)
LEMMA UrlEncodedIs ==
  ASSUME NEW c \in Characters
  PROVE  LET b == UrlEncoded(c)
         IN  /\ b \in Seq(Characters)
             /\ c \in Kept => Len(b) = 1 /\ b[1] = c /\ c # Percent
             /\ c \notin Kept =>
                  /\ Len(b) = 3 /\ b[1] = Percent
                  /\ b[2] = HexDigit(c \div 16, TRUE) /\ b[3] = HexDigit(c % 16, TRUE)
<1> DEFINE b == UrlEncoded(c)
           hex == HexEncode(<<c>>, TRUE)
<1>1. CASE c \in Kept
  <2>1. b = <<c>>
    BY <1>1 DEF UrlEncoded
  <2>2. c # Percent
    BY <1>1 DEF Kept, Percent, Decimals, Upper, Lower
  <2> HIDE DEF b
  <2>3. b \in Seq(Characters) /\ Len(b) = 1 /\ b[1] = c
    BY <2>1
  <2> QED
    BY <1>1, <2>2, <2>3 DEF b
<1>2. CASE c \notin Kept
  <2> DEFINE one == <<c>>
             percent == <<Percent>>
  <2>1. one \in Seq(Characters) /\ Len(one) = 1 /\ one[1] = c
    OBVIOUS
  <2>2. percent \in Seq(Characters) /\ Len(percent) = 1 /\ percent[1] = Percent
    BY DEF Percent, Characters
  <2>3. b = percent \o hex
    BY <1>2 DEF UrlEncoded
  <2>4. hex = HexEncode(one, TRUE)
    OBVIOUS
  <2> HIDE DEF one, percent, hex, b
  <2>5. /\ hex \in Seq(Characters) /\ Len(hex) = 2 * Len(one)
        /\ \A i \in 1 .. Len(one) :
             /\ hex[2 * i - 1] = HexDigit(one[i] \div 16, TRUE)
             /\ hex[2 * i] = HexDigit(one[i] % 16, TRUE)
    BY <2>1, <2>4, HexEncodeIs
  <2>6. Len(hex) = 2 /\ hex[1] = HexDigit(c \div 16, TRUE) /\ hex[2] = HexDigit(c % 16, TRUE)
    <3>1. 1 \in 1 .. Len(one) /\ 2 * 1 - 1 = 1 /\ 2 * 1 = 2
      BY <2>1
    <3> QED
      BY <2>1, <2>5, <3>1
  <2>9. /\ b \in Seq(Characters) /\ Len(b) = Len(percent) + Len(hex)
        /\ \A i \in 1 .. Len(percent) + Len(hex) :
             b[i] = IF i <= Len(percent) THEN percent[i] ELSE hex[i - Len(percent)]
    BY <2>2, <2>3, <2>5, ConcatProperties
  <2>7. b \in Seq(Characters) /\ Len(b) = 3
    BY <2>2, <2>6, <2>9
  <2>8. b[1] = Percent /\ b[2] = hex[1] /\ b[3] = hex[2]
    <3>1. \A i \in 1 .. 3 : b[i] = IF i <= 1 THEN percent[i] ELSE hex[i - 1]
      BY <2>2, <2>6, <2>9
    <3> QED
      BY <2>2, <3>1
  <2> QED
    BY <1>2, <2>6, <2>7, <2>8 DEF b
<1> QED
  BY <1>1, <1>2

(* The two digits of a character that upper case digits can express.       *)
LEMMA UrlDecodedIs ==
  ASSUME NEW c \in Characters, 12 \notin {c \div 16, c % 16}
  PROVE  UrlDecoded(<<HexDigit(c \div 16, TRUE), HexDigit(c % 16, TRUE)>>) = <<c>>
<1> DEFINE hex == <<HexDigit(c \div 16, TRUE), HexDigit(c % 16, TRUE)>>
<1>1. c \div 16 \in Halves /\ c % 16 \in Halves /\ 16 * (c \div 16) + (c % 16) = c
  BY HalvesOf
<1>2. /\ HexDigit(c \div 16, TRUE) \in Characters /\ HexDigit(c % 16, TRUE) \in Characters
      /\ DecodeHalf(HexDigit(c \div 16, TRUE)) = c \div 16
      /\ DecodeHalf(HexDigit(c % 16, TRUE)) = c % 16
  BY <1>1, DigitIs
<1>3. /\ hex \in Seq(Characters) /\ Len(hex) = 2
      /\ hex[1] = HexDigit(c \div 16, TRUE) /\ hex[2] = HexDigit(c % 16, TRUE)
  <2> DEFINE x == HexDigit(c \div 16, TRUE)
             y == HexDigit(c % 16, TRUE)
  <2>1. x \in Characters /\ y \in Characters /\ hex = <<x, y>>
    BY <1>2
  <2> HIDE DEF x, y, hex
  <2>2. hex \in Seq(Characters) /\ Len(hex) = 2 /\ hex[1] = x /\ hex[2] = y
    BY <2>1
  <2> QED
    BY <2>2 DEF x, y
<1> HIDE DEF hex
<1>4. \A j \in 1 .. 2 * 1 : DecodeHalf(hex[j]) \in Halves
  <2>1. \A j \in 1 .. 2 * 1 : j = 1 \/ j = 2
    OBVIOUS
  <2> QED
    BY <1>1, <1>2, <1>3, <2>1
<1>5. HexDecode(hex, Nul) = [i \in 1 .. 1 |-> 16 * DecodeHalf(hex[2 * i - 1]) + DecodeHalf(hex[2 * i])]
  <2>1. Len(hex) = 2 * 1 /\ 1 \in Nat
    BY <1>3
  <2> QED
    BY <1>3, <1>4, <2>1, HexDecodeIs
<1>6. HexDecode(hex, Nul) \in Seq(Characters) /\ Len(HexDecode(hex, Nul)) = 1
      /\ HexDecode(hex, Nul)[1] = c
  <2>1. HexDecode(hex, Nul)[1] = c
    <3>1. 2 * 1 - 1 = 1 /\ 2 * 1 = 2 /\ 1 \in 1 .. 1
      OBVIOUS
    <3>2. HexDecode(hex, Nul)[1] = 16 * DecodeHalf(hex[1]) + DecodeHalf(hex[2])
      BY <1>5, <3>1
    <3> QED
      BY <1>1, <1>2, <1>3, <3>2
  <2>2. HexDecode(hex, Nul) \in Seq(Characters)
    BY <1>3, HexDecodeType
  <2>3. Len(HexDecode(hex, Nul)) = 1
    <3>1. DOMAIN HexDecode(hex, Nul) = 1 .. 1
      BY <1>5
    <3> QED
      BY <2>2, <3>1
  <2> QED
    BY <2>1, <2>2, <2>3
<1> DEFINE r == HexDecode(hex, Nul)
<1> HIDE DEF r
<1>7. r # <<>> /\ r = <<c>>
  <2>1. r \in Seq(Characters) /\ Len(r) = 1 /\ r[1] = c
    BY <1>6 DEF r
  <2> DEFINE one == <<c>>
  <2>2. one \in Seq(Characters) /\ Len(one) = 1 /\ one[1] = c /\ Len(<<>>) = 0
    OBVIOUS
  <2> HIDE DEF one
  <2>3. \A i \in 1 .. 1 : i = 1
    OBVIOUS
  <2>4. r = one
    BY <2>1, <2>2, <2>3, SeqEqual
  <2>5. r # <<>>
    <3> SUFFICES ASSUME r = <<>> PROVE FALSE
      OBVIOUS
    <3>1. Len(r) = 0
      BY <2>2
    <3> QED
      BY <2>1, <3>1
  <2> QED
    BY <2>4, <2>5 DEF one
<1> QED
  BY <1>7 DEF UrlDecoded, r, hex

(* The encoded characters of a text, put together.                         *)
Encodings(s) == [i \in DOMAIN s |-> UrlEncoded(s[i])]

(* What urlencode() makes, by the character.                               *)
LEMMA UrlEncodeIs ==
  ASSUME NEW s \in Seq(Characters)
  PROVE  /\ Encodings(s) \in Seq(Seq(Characters)) /\ Len(Encodings(s)) = Len(s)
         /\ \A i \in 1 .. Len(s) : Encodings(s)[i] = UrlEncoded(s[i])
         /\ UrlEncode(s) = FlattenSeq(Encodings(s))
         /\ UrlEncode(s) \in Seq(Characters)
<1>1. Len(s) \in Nat /\ DOMAIN s = 1 .. Len(s) /\ \A i \in 1 .. Len(s) : s[i] \in Characters
  OBVIOUS
<1>2. \A i \in 1 .. Len(s) : UrlEncoded(s[i]) \in Seq(Characters)
  BY <1>1, UrlEncodedIs
<1>3. /\ Encodings(s) \in Seq(Seq(Characters)) /\ Len(Encodings(s)) = Len(s)
      /\ \A i \in 1 .. Len(s) : Encodings(s)[i] = UrlEncoded(s[i])
  <2> DEFINE V == Seq(Characters)
             n == Len(s)
  <2> HIDE DEF V, n
  <2>1. Encodings(s) = [i \in 1 .. n |-> UrlEncoded(s[i])]
    BY <1>1 DEF Encodings, n
  <2>2. Encodings(s) \in [1 .. n -> V]
    BY <1>2, <2>1 DEF V, n
  <2>3. n \in Nat
    BY <1>1 DEF n
  <2>4. Encodings(s) \in Seq(V) /\ Len(Encodings(s)) = n
    BY <2>2, <2>3
  <2> QED
    BY <2>1, <2>4 DEF V, n
<1>4. UrlEncode(s) = FlattenSeq(Encodings(s))
  BY DEF UrlEncode, Encodings
<1>5. PICK E : Flattens(E, Encodings(s), Characters)
  BY <1>3, FlattenIs
<1>6. UrlEncode(s) \in Seq(Characters)
  BY <1>1, <1>3, <1>4, <1>5 DEF Flattens
<1> QED
  BY <1>3, <1>4, <1>6

(* One character more of a text.                                           *)
LEMMA FrontGrows ==
  ASSUME NEW s \in Seq(Characters), NEW i \in 0 .. Len(s) - 1
  PROVE  /\ SubSeq(s, 1, i) \in Seq(Characters)
         /\ Append(SubSeq(s, 1, i), s[i + 1]) = SubSeq(s, 1, i + 1)
         /\ SubSeq(s, 1, i) \o <<s[i + 1]>> = SubSeq(s, 1, i + 1)
<1> DEFINE front == SubSeq(s, 1, i)
           more == SubSeq(s, 1, i + 1)
           c == s[i + 1]
<1>1. c \in Characters /\ i \in Nat
  OBVIOUS
<1>2. /\ front \in Seq(Characters) /\ Len(front) = i
      /\ \A j \in 1 .. i : front[j] = s[j]
  OBVIOUS
<1>3. /\ more \in Seq(Characters) /\ Len(more) = i + 1
      /\ \A j \in 1 .. i + 1 : more[j] = s[j]
  OBVIOUS
<1>4. \A j \in 1 .. i : more[j] = front[j]
  BY <1>1, <1>2, <1>3
<1>5. more[i + 1] = c
  BY <1>1, <1>3
<1> HIDE DEF front, more, c
<1>6. Append(front, c) = more
  <2> DEFINE a == Append(front, c)
  <2>1. a \in Seq(Characters) /\ Len(a) = i + 1 /\ a[i + 1] = c
        /\ \A j \in 1 .. i : a[j] = front[j]
    BY <1>1, <1>2
  <2> HIDE DEF a
  <2>2. \A j \in 1 .. i + 1 : a[j] = more[j]
    <3>1. \A j \in 1 .. i + 1 : j \in 1 .. i \/ j = i + 1
      BY <1>1
    <3> QED
      BY <1>4, <1>5, <2>1, <3>1
  <2>3. a = more
    BY <1>1, <1>3, <2>1, <2>2, SeqEqual
  <2> QED
    BY <2>3 DEF a
<1>7. front \o <<c>> = Append(front, c)
  BY <1>1, <1>2
<1> QED
  BY <1>2, <1>6, <1>7 DEF front, more, c

(* A turn that decodes an encoded character: what is encoded before it is  *)
(* a, and it is b.                                                         *)
LEMMA DecodesOne ==
  ASSUME NEW e \in Seq(Characters), NEW c \in Characters,
         c \in Kept \/ 12 \notin {c \div 16, c % 16},
         NEW p \in Nat, p + Len(UrlEncoded(c)) <= Len(e),
         \A j \in 1 .. Len(UrlEncoded(c)) : e[p + j] = UrlEncoded(c)[j],
         NEW r \in Seq(Characters)
  PROVE  DecodeTurn(e, [next |-> p + 1, ret |-> r]) =
           [next |-> p + Len(UrlEncoded(c)) + 1, ret |-> r \o <<c>>]
<1> DEFINE b == UrlEncoded(c)
           loop == [next |-> p + 1, ret |-> r]
<1>1. /\ b \in Seq(Characters)
      /\ c \in Kept => Len(b) = 1 /\ b[1] = c /\ c # Percent
      /\ c \notin Kept =>
           /\ Len(b) = 3 /\ b[1] = Percent
           /\ b[2] = HexDigit(c \div 16, TRUE) /\ b[3] = HexDigit(c % 16, TRUE)
  BY UrlEncodedIs
<1>2. /\ p + Len(b) <= Len(e) /\ \A j \in 1 .. Len(b) : e[p + j] = b[j]
      /\ Len(e) \in Nat
  OBVIOUS
<1>3. loop.next = p + 1 /\ loop.ret = r
  OBVIOUS
<1> HIDE DEF b, loop
<1>4. CASE c \in Kept
  <2>1. Len(b) = 1 /\ b[1] = c /\ c # Percent
    BY <1>1, <1>4
  <2>2. ~ (p + 1 > Len(e)) /\ e[p + 1] = c
    <3>1. 1 \in 1 .. 1
      OBVIOUS
    <3> QED
      BY <1>2, <2>1, <3>1
  <2>3. DecodeTurn(e, loop) = [next |-> (p + 1) + 1, ret |-> Append(r, c)]
    BY <1>3, <2>1, <2>2 DEF DecodeTurn
  <2>4. Append(r, c) = r \o <<c>>
    OBVIOUS
  <2>5. (p + 1) + 1 = p + Len(b) + 1
    BY <2>1
  <2>6. DecodeTurn(e, loop) = [next |-> p + Len(b) + 1, ret |-> r \o <<c>>]
    BY <2>3, <2>4, <2>5
  <2> QED
    BY <2>6 DEF loop, b
<1>5. CASE c \notin Kept
  <2>1. /\ Len(b) = 3 /\ b[1] = Percent
        /\ b[2] = HexDigit(c \div 16, TRUE) /\ b[3] = HexDigit(c % 16, TRUE)
    BY <1>1, <1>5
  <2>2. e[p + 1] = Percent /\ e[p + 2] = b[2] /\ e[p + 3] = b[3]
    <3>1. 1 \in 1 .. 3 /\ 2 \in 1 .. 3 /\ 3 \in 1 .. 3
      OBVIOUS
    <3> QED
      BY <1>2, <2>1, <3>1
  <2>3. /\ ~ (p + 1 > Len(e)) /\ (p + 1) + 1 <= Len(e) /\ (p + 1) + 2 <= Len(e)
        /\ (p + 1) + 1 = p + 2 /\ (p + 1) + 2 = p + 3
    BY <1>2, <2>1
  <2>4. DecodeTurn(e, loop) = [next |-> (p + 1) + 3,
                               ret  |-> r \o UrlDecoded(<<e[p + 2], e[p + 3]>>)]
    BY <1>3, <2>2, <2>3 DEF DecodeTurn
  <2>5. UrlDecoded(<<e[p + 2], e[p + 3]>>) = <<c>>
    BY <1>5, <2>1, <2>2, UrlDecodedIs
  <2>6. (p + 1) + 3 = p + Len(b) + 1
    BY <2>1
  <2>7. DecodeTurn(e, loop) = [next |-> p + Len(b) + 1, ret |-> r \o <<c>>]
    BY <2>4, <2>5, <2>6
  <2> QED
    BY <2>7 DEF loop, b
<1> QED
  BY <1>4, <1>5

(* urldecode() undoes urlencode().                                         *)
LEMMA UrlReadsBack ==
  ASSUME NEW s \in Seq(Characters),
         \A i \in DOMAIN s : s[i] \in Kept \/ 12 \notin {s[i] \div 16, s[i] % 16}
  PROVE  UrlDecode(UrlEncode(s)) = s
<1> DEFINE n == Len(s)
           e == UrlEncode(s)
           m == Len(e)
           toks == Encodings(s)
           T(i) == DecodeTurns(e)[i]
<1>1. /\ n \in Nat /\ (\A i \in 1 .. n : s[i] \in Characters)
      /\ \A i \in 1 .. n : s[i] \in Kept \/ 12 \notin {s[i] \div 16, s[i] % 16}
  OBVIOUS
<1>2. /\ toks \in Seq(Seq(Characters)) /\ Len(toks) = n
      /\ \A i \in 1 .. n : toks[i] = UrlEncoded(s[i])
      /\ e = FlattenSeq(toks) /\ e \in Seq(Characters)
  BY UrlEncodeIs
<1>3. m \in Nat
  BY <1>2
<1> HIDE DEF toks
<1>4. PICK E : Flattens(E, toks, Characters)
  BY <1>2, FlattenIs
<1>5. /\ E \in [0 .. n -> Seq(Characters)] /\ E[0] = <<>> /\ e = E[n]
      /\ \A i \in 0 .. n - 1 : E[i + 1] = E[i] \o toks[i + 1]
  BY <1>2, <1>4 DEF Flattens
<1>6. \A i \in 0 .. n : /\ Len(E[i]) <= m
                        /\ \A j \in 1 .. Len(E[i]) : e[j] = E[i][j]
  <2> HIDE DEF n, e, m
  <2>1. \A i \in 0 .. Len(toks) :
          /\ Len(E[i]) <= Len(E[Len(toks)])
          /\ \A j \in 1 .. Len(E[i]) : E[Len(toks)][j] = E[i][j]
    BY <1>2, <1>4, FlattensInFront
  <2>2. Len(toks) = n /\ E[n] = e /\ Len(e) = m
    BY <1>2, <1>5 DEF m
  <2> QED
    BY <2>1, <2>2
<1> HIDE DEF n, e
<1>7. /\ DecodeTurns(e) \in [0 .. m -> Loops]
      /\ T(0) = [next |-> 1, ret |-> <<>>]
      /\ \A i \in 0 .. m - 1 : T(i + 1) = DecodeTurn(e, T(i))
  BY <1>2, DecodeTurnsAre
<1> DEFINE After(i) == [next |-> Len(E[i]) + 1, ret |-> SubSeq(s, 1, i)]
           S == {i \in 0 .. n : i <= Len(E[i]) /\ T(i) = After(i)}
<1>8. 0 \in S
  <2>1. SubSeq(s, 1, 0) = <<>>
    OBVIOUS
  <2>2. Len(E[0]) = 0
    BY <1>5
  <2> QED
    BY <1>1, <1>7, <2>1, <2>2
<1>9. ASSUME NEW i \in 0 .. n - 1, i \in S PROVE i + 1 \in S
  <2> DEFINE a == E[i]
             c == s[i + 1]
             b == UrlEncoded(c)
             r == SubSeq(s, 1, i)
  <2>1. i \in 0 .. n /\ i + 1 \in 0 .. n /\ i + 1 \in 1 .. n
    BY <1>1
  <2>2. /\ a \in Seq(Characters) /\ c \in Characters /\ E[i + 1] = a \o b
        /\ c \in Kept \/ 12 \notin {c \div 16, c % 16}
    BY <1>1, <1>2, <1>5, <2>1
  <2>3. b \in Seq(Characters) /\ Len(b) \in Nat \ {0}
    <3> DEFINE l == Len(b)
    <3>1. b \in Seq(Characters) /\ (l = 1 \/ l = 3)
      BY <2>2, UrlEncodedIs
    <3> HIDE DEF l
    <3>2. l \in Nat \ {0}
      BY <3>1
    <3> QED
      BY <3>1, <3>2 DEF l
  <2>4. i <= Len(a) /\ T(i) = [next |-> Len(a) + 1, ret |-> r]
    BY <1>9
  <2>5. r \in Seq(Characters) /\ r \o <<c>> = SubSeq(s, 1, i + 1)
    BY <2>1, FrontGrows DEF n
  <2>6. Len(E[i + 1]) <= m /\ \A j \in 1 .. Len(E[i + 1]) : e[j] = E[i + 1][j]
    BY <1>6, <2>1
  <2> HIDE DEF a, b, c, r, T, m
  <2>7. /\ Len(a \o b) = Len(a) + Len(b) /\ Len(a) \in Nat
        /\ \A j \in 1 .. Len(a) + Len(b) :
             (a \o b)[j] = IF j <= Len(a) THEN a[j] ELSE b[j - Len(a)]
    BY <2>2, <2>3, ConcatProperties
  <2>8. Len(a) + Len(b) <= m
    BY <2>2, <2>6, <2>7
  <2>9. \A j \in 1 .. Len(b) : e[Len(a) + j] = b[j]
    <3> TAKE j \in 1 .. Len(b)
    <3> DEFINE k == Len(a) + j
    <3>1. k \in 1 .. Len(a) + Len(b) /\ ~ (k <= Len(a)) /\ k - Len(a) = j
      BY <2>3, <2>7
    <3> HIDE DEF k
    <3>2. (a \o b)[k] = b[j]
      BY <2>7, <3>1
    <3>3. e[k] = (a \o b)[k]
      BY <2>2, <2>6, <2>7, <3>1
    <3> QED
      BY <3>2, <3>3 DEF k
  <2>10. DecodeTurn(e, [next |-> Len(a) + 1, ret |-> r]) =
           [next |-> Len(a) + Len(b) + 1, ret |-> r \o <<c>>]
    BY <1>2, <2>2, <2>5, <2>7, <2>8, <2>9, DecodesOne DEF b, m
  <2>11. i \in 0 .. m - 1 /\ i + 1 <= Len(a) + Len(b)
    BY <1>1, <1>3, <2>3, <2>4, <2>7, <2>8
  <2>12. T(i + 1) = After(i + 1)
    BY <1>7, <2>2, <2>4, <2>5, <2>7, <2>10, <2>11 DEF T
  <2> QED
    BY <2>1, <2>2, <2>7, <2>11, <2>12
<1>10. n \in S
  <2> HIDE DEF S
  <2>1. \A i \in 0 .. n : i \in S
    BY <1>1, <1>8, <1>9, InductionUpTo
  <2> QED
    BY <1>1, <2>1
<1>11. n <= m /\ T(n) = [next |-> m + 1, ret |-> s]
  <2>1. SubSeq(s, 1, n) = s
    BY DEF n
  <2>2. n <= Len(E[n]) /\ T(n) = After(n)
    BY <1>10
  <2> QED
    BY <1>5, <2>1, <2>2
<1> HIDE DEF S
<1> DEFINE U == {k \in 0 .. m - n : T(n + k) = T(n)}
<1>12. 0 \in U
  BY <1>1, <1>3, <1>11
<1>13. ASSUME NEW k \in 0 .. (m - n) - 1, k \in U PROVE k + 1 \in U
  <2>1. n + k \in 0 .. m - 1 /\ k + 1 \in 0 .. m - n /\ n + (k + 1) = (n + k) + 1
    BY <1>1, <1>3, <1>11
  <2>2. T(n + (k + 1)) = DecodeTurn(e, T(n))
    BY <1>7, <1>13, <2>1
  <2>3. T(n).next > m
    BY <1>3, <1>11
  <2>4. DecodeTurn(e, T(n)) = T(n)
    BY <2>3 DEF DecodeTurn
  <2> QED
    BY <2>1, <2>2, <2>4
<1>14. m - n \in U
  <2> DEFINE k == m - n
  <2>1. k \in Nat /\ \A x \in 0 .. k - 1 : x \in U => x + 1 \in U
    BY <1>1, <1>3, <1>11, <1>13
  <2> HIDE DEF k, U
  <2>2. \A x \in 0 .. k : x \in U
    BY <1>12, <2>1, InductionUpTo
  <2> QED
    BY <2>1, <2>2 DEF k
<1>15. T(m) = T(n)
  <2>1. n + (m - n) = m
    BY <1>1, <1>3
  <2> QED
    BY <1>14, <2>1
<1>16. T(m).ret = s
  BY <1>11, <1>15
<1> QED
  BY <1>16 DEF UrlDecode, e

-----------------------------------------------------------------------------
(* replace()                                                               *)

(* The first match.                                                        *)
LEMMA FirstMatch ==
  ASSUME NEW h \in Seq(Characters), NEW x \in Seq(Characters), NEW start \in Nat \ {0},
         Matches(h, x, start) # {}
  PROVE  LET pos == Min(Matches(h, x, start))
         IN  /\ pos \in Nat /\ start <= pos /\ pos + Len(x) <= Len(h) + 1
             /\ SubSeq(h, pos, pos + Len(x) - 1) = x
             /\ \A i \in start .. pos - 1 : i \notin Matches(h, x, start)
<1> DEFINE F == Matches(h, x, start)
           First(i) == \A j \in F : i <= j
<1>1. F \in SUBSET Nat /\ F # {} /\ \A i \in F : start <= i /\ i <= Len(h) - Len(x) + 1
  BY DEF Matches
<1>2. \A i \in F : SubSeq(h, i, i + Len(x) - 1) = x
  BY DEF Matches
<1> HIDE DEF F
<1>3. PICK k \in F : \A i \in 0 .. k - 1 : i \notin F
  BY <1>1, Least
<1>4. First(k)
  <2> TAKE j \in F
  <2>1. j \in Nat /\ k \in Nat
    BY <1>1
  <2>2. j \notin 0 .. k - 1
    BY <1>3
  <2> QED
    BY <2>1, <2>2
<1> HIDE DEF First
<1>5. Min(F) = CHOOSE i \in F : First(i)
  BY DEF Min, First
<1>6. Min(F) \in F /\ First(Min(F))
  BY <1>4, <1>5
<1> DEFINE pos == Min(F)
<1> HIDE DEF pos
<1>7. pos \in Nat /\ start <= pos /\ pos + Len(x) <= Len(h) + 1
      /\ SubSeq(h, pos, pos + Len(x) - 1) = x
  <2>1. pos \in Nat /\ start <= pos /\ pos <= Len(h) - Len(x) + 1
    BY <1>1, <1>6 DEF pos
  <2>2. Len(h) \in Nat /\ Len(x) \in Nat
    OBVIOUS
  <2> QED
    BY <1>2, <1>6, <2>1, <2>2 DEF pos
<1>8. \A i \in start .. pos - 1 : i \notin F
  <2> TAKE i \in start .. pos - 1
  <2>1. ~ (pos <= i)
    BY <1>7
  <2> QED
    BY <1>6, <2>1 DEF First, pos
<1> QED
  BY <1>7, <1>8 DEF F, pos

(* A turn of the loop.                                                     *)
LEMMA ReplaceTurnType ==
  ASSUME NEW h \in Seq(Characters), NEW x \in Seq(Characters), NEW y \in Seq(Characters),
         NEW loop \in Loops
  PROVE  /\ ReplaceTurn(h, x, y, loop) \in Loops
         /\ Matches(h, x, loop.next) = {} => ReplaceTurn(h, x, y, loop) = loop
<1>1. loop.next \in Nat \ {0} /\ loop.ret \in Seq(Characters)
  BY DEF Loops
<1>2. CASE Matches(h, x, loop.next) = {}
  BY <1>2 DEF ReplaceTurn
<1>3. CASE Matches(h, x, loop.next) # {}
  <2> DEFINE pos == Min(Matches(h, x, loop.next))
             part == SubSeq(h, loop.next, pos - 1)
  <2>1. pos \in Nat /\ loop.next <= pos /\ pos + Len(x) <= Len(h) + 1
    BY <1>1, <1>3, FirstMatch
  <2>2. ReplaceTurn(h, x, y, loop) = [next |-> pos + Len(x), ret |-> loop.ret \o part \o y]
    BY <1>3 DEF ReplaceTurn
  <2> HIDE DEF pos
  <2>3. part \in Seq(Characters)
    <3>1. \A i \in loop.next .. pos - 1 : h[i] \in Characters
      BY <1>1, <2>1
    <3> QED
      BY <1>1, <2>1, <3>1
  <2>4. pos + Len(x) \in Nat \ {0}
    <3>1. Len(x) \in Nat
      OBVIOUS
    <3> QED
      BY <1>1, <2>1, <3>1
  <2> HIDE DEF part
  <2>5. loop.ret \o part \o y \in Seq(Characters)
    BY <1>1, <2>3
  <2> QED
    BY <1>3, <2>2, <2>4, <2>5 DEF Loops
<1> QED
  BY <1>2, <1>3

(* The turns that the loop takes.                                          *)
LEMMA ReplaceTurnsAre ==
  ASSUME NEW h \in Seq(Characters), NEW x \in Seq(Characters), NEW y \in Seq(Characters)
  PROVE  LET turns == ReplaceTurns(h, x, y)
         IN  /\ turns \in [0 .. Len(h) + 1 -> Loops]
             /\ turns[0] = [next |-> 1, ret |-> <<>>]
             /\ \A n \in 0 .. Len(h) : turns[n + 1] = ReplaceTurn(h, x, y, turns[n])
<1> DEFINE k == Len(h) + 1
           first == [next |-> 1, ret |-> <<>>]
           step == [n \in 0 .. k - 1 |-> [l \in Loops |-> ReplaceTurn(h, x, y, l)]]
           Solves(f) == f = [n \in 0 .. Len(h) + 1 |->
                               IF n = 0 THEN [next |-> 1, ret |-> <<>>]
                               ELSE ReplaceTurn(h, x, y, f[n - 1])]
           value == CHOOSE f : Solves(f)
<1>1. /\ k \in Nat /\ step \in [0 .. k - 1 -> [Loops -> Loops]] /\ first \in Loops
      /\ k - 1 = Len(h)
  <2>1. k \in Nat /\ first \in Loops /\ k - 1 = Len(h)
    BY DEF Loops
  <2>2. \A l \in Loops : ReplaceTurn(h, x, y, l) \in Loops
    BY ReplaceTurnType
  <2> HIDE DEF k
  <2> QED
    BY <2>1, <2>2
<1>2. PICK g : IteratesUpTo(k, g, Loops, first, step)
  <2> HIDE DEF step, k, first
  <2> QED
    BY <1>1, RecursionUpTo
<1>3. /\ g \in [0 .. k -> Loops] /\ g[0] = first
      /\ \A i \in 0 .. k - 1 : g[i + 1] = ReplaceTurn(h, x, y, g[i])
  <2> HIDE DEF k, first
  <2>1. /\ g \in [0 .. k -> Loops] /\ g[0] = first
        /\ \A i \in 0 .. k - 1 : g[i + 1] = step[i][g[i]]
    BY <1>2 DEF IteratesUpTo
  <2>2. \A i \in 0 .. k - 1 : g[i] \in Loops
    BY <1>1, <2>1
  <2>3. \A i \in 0 .. k - 1 : step[i][g[i]] = ReplaceTurn(h, x, y, g[i])
    BY <2>2
  <2> HIDE DEF step
  <2> QED
    BY <2>1, <2>3
<1>4. Solves(g)
  <2>1. \A i \in 0 .. k : g[i] = IF i = 0 THEN first ELSE ReplaceTurn(h, x, y, g[i - 1])
    <3> TAKE i \in 0 .. k
    <3>1. i = 0 \/ (i - 1 \in 0 .. k - 1 /\ (i - 1) + 1 = i)
      BY <1>1
    <3> HIDE DEF step, k, first
    <3> QED
      BY <1>3, <3>1
  <2> HIDE DEF step
  <2> QED
    BY <1>3, <2>1
<1>5. Solves(value)
  <2> HIDE DEF Solves
  <2> QED
    BY <1>4
<1>6. ReplaceTurns(h, x, y) = value
  BY DEF ReplaceTurns
<1> HIDE DEF value, step
<1>7. value = [n \in 0 .. k |-> IF n = 0 THEN first ELSE ReplaceTurn(h, x, y, value[n - 1])]
  BY <1>5
<1> HIDE DEF Solves, k, first
<1>8. value[0] = first /\ \A n \in 0 .. k - 1 : value[n + 1] = ReplaceTurn(h, x, y, value[n])
  <2>1. value[0] = first
    BY <1>1, <1>7
  <2>2. ASSUME NEW n \in 0 .. k - 1 PROVE value[n + 1] = ReplaceTurn(h, x, y, value[n])
    <3>1. n + 1 \in 0 .. k /\ n + 1 # 0 /\ (n + 1) - 1 = n
      BY <1>1
    <3> QED
      BY <1>7, <3>1
  <2> QED
    BY <2>1, <2>2
<1>9. \A n \in 0 .. k : value[n] \in Loops
  <2> DEFINE S == {n \in 0 .. k : value[n] \in Loops}
  <2>1. 0 \in S /\ \A n \in 0 .. k - 1 : n \in S => n + 1 \in S
    BY <1>1, <1>8, ReplaceTurnType
  <2> HIDE DEF S
  <2>2. \A n \in 0 .. k : n \in S
    BY <1>1, <2>1, InductionUpTo
  <2> QED
    BY <2>2 DEF S
<1> QED
  <2>1. value = [n \in 0 .. k |-> value[n]]
    BY <1>7
  <2>2. value \in [0 .. k -> Loops]
    BY <1>9, <2>1
  <2>3. \A n \in 0 .. Len(h) : value[n + 1] = ReplaceTurn(h, x, y, value[n])
    BY <1>1, <1>8
  <2> QED
    BY <1>6, <1>8, <2>2, <2>3 DEF k, first

(* What replace() makes are characters.                                    *)
LEMMA ReplaceType ==
  ASSUME NEW h \in Seq(Characters), NEW x \in Seq(Characters), NEW y \in Seq(Characters),
         NEW first_only \in BOOLEAN
  PROVE  Replace(h, x, y, first_only) \in Seq(Characters)
<1> DEFINE k == IF first_only THEN 1 ELSE Len(h) + 1
           last == ReplaceTurns(h, x, y)[k]
           tail == SubSeq(h, last.next, Len(h))
<1>1. k \in 0 .. Len(h) + 1
  OBVIOUS
<1>2. last \in Loops
  <2> DEFINE turns == ReplaceTurns(h, x, y)
  <2>1. turns \in [0 .. Len(h) + 1 -> Loops]
    BY ReplaceTurnsAre
  <2> HIDE DEF turns, k
  <2>2. turns[k] \in Loops
    BY <1>1, <2>1
  <2> QED
    BY <2>2 DEF turns
<1>3. Replace(h, x, y, first_only) = last.ret \o tail
  BY DEF Replace
<1> HIDE DEF last
<1>4. last.next \in Nat \ {0} /\ last.ret \in Seq(Characters)
  BY <1>2 DEF Loops
<1>5. tail \in Seq(Characters)
  BY <1>4
<1> HIDE DEF tail
<1> QED
  BY <1>3, <1>4, <1>5

-----------------------------------------------------------------------------
(* Two texts put together.                                                 *)
LEMMA TwoTexts ==
  ASSUME NEW a \in Seq(Characters), NEW b \in Seq(Characters)
  PROVE  /\ a \o b \in Seq(Characters) /\ Len(a \o b) = Len(a) + Len(b)
         /\ \A i \in 1 .. Len(a) + Len(b) :
              (a \o b)[i] = IF i <= Len(a) THEN a[i] ELSE b[i - Len(a)]
BY ConcatProperties

(* Three texts are put together in either order.                           *)
LEMMA Regrouped ==
  \A a, b, c \in Seq(Characters) : (a \o b) \o c = a \o (b \o c)
BY ConcatAssociative

(* Parts of a text that lie side by side are a part of it.                 *)
LEMMA SideBySide ==
  ASSUME NEW h \in Seq(Characters), NEW i \in Nat \ {0}, NEW j \in Nat, NEW k \in Nat,
         i <= j + 1, j <= k, k <= Len(h)
  PROVE  SubSeq(h, i, j) \o SubSeq(h, j + 1, k) = SubSeq(h, i, k)
<1> DEFINE a == SubSeq(h, i, j)
           b == SubSeq(h, j + 1, k)
           c == SubSeq(h, i, k)
           m == j + 1 - i
           n == k - j
<1>0. m \in Nat /\ n \in Nat
  OBVIOUS
<1>1. a \in Seq(Characters) /\ Len(a) = m /\ \A l \in 1 .. m : a[l] = h[i + l - 1]
  OBVIOUS
<1>2. b \in Seq(Characters) /\ Len(b) = n /\ \A l \in 1 .. n : b[l] = h[(j + 1) + l - 1]
  OBVIOUS
<1>3. c \in Seq(Characters) /\ Len(c) = m + n /\ \A l \in 1 .. m + n : c[l] = h[i + l - 1]
  OBVIOUS
<1> HIDE DEF a, b, c
<1>4. /\ a \o b \in Seq(Characters) /\ Len(a \o b) = m + n
      /\ \A l \in 1 .. m + n : (a \o b)[l] = IF l <= m THEN a[l] ELSE b[l - m]
  <2> HIDE DEF m, n
  <2>1. a \in Seq(Characters) /\ Len(a) = m
    BY <1>1
  <2>2. b \in Seq(Characters) /\ Len(b) = n
    BY <1>2
  <2> QED
    BY <2>1, <2>2, TwoTexts
<1> DEFINE d == a \o b
<1> HIDE DEF d
<1>5. \A l \in 1 .. m + n : d[l] = c[l]
  <2> TAKE l \in 1 .. m + n
  <2>1. CASE l <= m
    <3>1. l \in 1 .. m
      BY <1>0, <2>1
    <3> QED
      BY <1>1, <1>3, <1>4, <2>1, <3>1 DEF d
  <2>2. CASE ~ (l <= m)
    <3>1. l - m \in 1 .. n /\ (j + 1) + (l - m) - 1 = i + l - 1
      BY <1>0, <2>2
    <3>2. d[l] = b[l - m]
      BY <1>4, <2>2 DEF d
    <3> HIDE DEF m, n
    <3> QED
      BY <1>2, <1>3, <3>1, <3>2
  <2> QED
    BY <2>1, <2>2
<1>6. d = c
  <2>1. d \in Seq(Characters) /\ Len(d) = m + n
    BY <1>4 DEF d
  <2> HIDE DEF m, n
  <2> QED
    BY <1>3, <1>5, <2>1, SeqEqual
<1> QED
  BY <1>6 DEF a, b, c, d

(* What a turn does that finds something at pos.                           *)
TakesMatch(h, x, y, loop, pos, next) ==
  LET part == SubSeq(h, loop.next, pos - 1)
  IN  /\ pos \in Nat /\ loop.next <= pos /\ pos + Len(x) <= Len(h) + 1
      /\ SubSeq(h, pos, pos + Len(x) - 1) = x
      /\ part \in Seq(Characters) /\ Len(part) = pos - loop.next
      /\ \A l \in 1 .. pos - loop.next : part[l] = h[loop.next + l - 1]
      /\ next.next = pos + Len(x)
      /\ next.ret = loop.ret \o part \o y

(* A turn of replace() that finds its needle takes the first match.        *)
LEMMA TurnThatFinds ==
  ASSUME NEW h \in Seq(Characters), NEW x \in Seq(Characters), NEW y \in Seq(Characters),
         NEW loop \in Loops, Matches(h, x, loop.next) # {}
  PROVE  TakesMatch(h, x, y, loop, Min(Matches(h, x, loop.next)),
                    ReplaceTurn(h, x, y, loop))
<1> DEFINE pos == Min(Matches(h, x, loop.next))
           start == loop.next
           part == SubSeq(h, start, pos - 1)
<1>1. start \in Nat \ {0} /\ loop.ret \in Seq(Characters)
  BY DEF Loops
<1>2. /\ pos \in Nat /\ start <= pos /\ pos + Len(x) <= Len(h) + 1
      /\ SubSeq(h, pos, pos + Len(x) - 1) = x
  BY <1>1, FirstMatch
<1>3. ReplaceTurn(h, x, y, loop) = [next |-> pos + Len(x), ret |-> loop.ret \o part \o y]
  BY DEF ReplaceTurn
<1> HIDE DEF pos
<1>4. pos - 1 <= Len(h) /\ Len(h) \in Nat /\ Len(x) \in Nat
  BY <1>2
<1> HIDE DEF start
<1>5. /\ part \in Seq(Characters) /\ Len(part) = pos - start
      /\ \A l \in 1 .. pos - start : part[l] = h[start + l - 1]
  <2> DEFINE q == pos - 1
             w == pos - start
  <2>1. q \in Nat /\ w \in Nat /\ w = q - start + 1 /\ start \in Nat \ {0} /\ q <= Len(h)
    BY <1>1, <1>2, <1>4
  <2> HIDE DEF q, w
  <2>2. /\ SubSeq(h, start, q) \in Seq(Characters) /\ Len(SubSeq(h, start, q)) = w
        /\ \A l \in 1 .. w : SubSeq(h, start, q)[l] = h[start + l - 1]
    BY <2>1
  <2> QED
    BY <2>2 DEF q, w
<1> DEFINE after == ReplaceTurn(h, x, y, loop)
<1>6. after.next = pos + Len(x) /\ after.ret = loop.ret \o part \o y
  <2> DEFINE ret == loop.ret \o part \o y
             next == pos + Len(x)
  <2>1. after = [next |-> next, ret |-> ret]
    BY <1>3
  <2> HIDE DEF ret, next, after
  <2> QED
    BY <2>1 DEF ret, next
<1> HIDE DEF part, after
<1> QED
  BY <1>2, <1>5, <1>6 DEF TakesMatch, pos, start, part, after

(* The turns of replace(): none goes beyond the end, a turn that finds     *)
(* nothing is the last one, there are enough of them, and what has been    *)
(* put together stays in front.                                            *)
RunsOver(h, x, turns) ==
  LET last  == turns[Len(h) + 1]
  IN  /\ \A n \in 0 .. Len(h) + 1 :
           /\ turns[n].next <= Len(h) + 1
           /\ Matches(h, x, turns[n].next) = {} => last = turns[n]
           /\ Len(turns[n].ret) <= Len(last.ret)
           /\ \A j \in 1 .. Len(turns[n].ret) : last.ret[j] = turns[n].ret[j]
      /\ Matches(h, x, last.next) = {}

(* The turns of replace() run over the whole text and only add to the end. *)
LEMMA LoopIs ==
  ASSUME NEW h \in Seq(Characters), NEW x \in Seq(Characters), NEW y \in Seq(Characters),
         Len(x) > 0
  PROVE  RunsOver(h, x, ReplaceTurns(h, x, y))
<1> DEFINE turns == ReplaceTurns(h, x, y)
           k == Len(h) + 1
           Done(n) == Matches(h, x, turns[n].next) = {}
<1>1. /\ turns \in [0 .. k -> Loops]
      /\ turns[0] = [next |-> 1, ret |-> <<>>]
      /\ \A n \in 0 .. k - 1 : turns[n + 1] = ReplaceTurn(h, x, y, turns[n])
  <2>1. k - 1 = Len(h)
    OBVIOUS
  <2> QED
    BY <2>1, ReplaceTurnsAre
<1>2. k \in Nat /\ k = Len(h) + 1 /\ Len(x) \in Nat \ {0}
  OBVIOUS
<1> HIDE DEF turns, k
<1>3. ASSUME NEW n \in 0 .. k
      PROVE  turns[n].next \in Nat \ {0} /\ turns[n].ret \in Seq(Characters)
  <2>1. turns[n] \in Loops
    BY <1>1
  <2> QED
    BY <2>1 DEF Loops
<1>4. ASSUME NEW n \in 0 .. k - 1, Done(n) PROVE turns[n + 1] = turns[n]
  <2>1. turns[n] \in Loops /\ turns[n + 1] = ReplaceTurn(h, x, y, turns[n])
    BY <1>1, <1>2
  <2> QED
    BY <1>4, <2>1, ReplaceTurnType
<1>5. ASSUME NEW n \in 0 .. k - 1, ~Done(n)
      PROVE  /\ turns[n].next + 1 <= turns[n + 1].next /\ turns[n + 1].next <= k
             /\ Len(turns[n].ret) <= Len(turns[n + 1].ret)
             /\ \A j \in 1 .. Len(turns[n].ret) : turns[n + 1].ret[j] = turns[n].ret[j]
  <2> DEFINE loop == turns[n]
             pos == Min(Matches(h, x, loop.next))
             part == SubSeq(h, loop.next, pos - 1)
             next == turns[n + 1]
  <2>1. loop \in Loops /\ next = ReplaceTurn(h, x, y, loop)
    BY <1>1, <1>2
  <2>2. loop.next \in Nat \ {0} /\ loop.ret \in Seq(Characters)
    BY <1>2, <1>3
  <2>3. Matches(h, x, loop.next) # {}
    BY <1>5
  <2> HIDE DEF loop, next
  <2>4. /\ pos \in Nat /\ loop.next <= pos /\ pos + Len(x) <= Len(h) + 1
        /\ part \in Seq(Characters)
        /\ next.next = pos + Len(x) /\ next.ret = loop.ret \o part \o y
    <3>1. TakesMatch(h, x, y, loop, pos, next)
      BY <2>1, <2>3, TurnThatFinds
    <3> HIDE DEF pos
    <3> QED
      BY <3>1 DEF TakesMatch
  <2> HIDE DEF pos, part
  <2>5. loop.next + 1 <= next.next /\ next.next <= k
    BY <1>2, <2>2, <2>4
  <2> DEFINE a == loop.ret
             b == a \o part
  <2> HIDE DEF a
  <2>6. /\ b \in Seq(Characters) /\ Len(b) = Len(a) + Len(part)
        /\ \A j \in 1 .. Len(a) + Len(part) :
             b[j] = IF j <= Len(a) THEN a[j] ELSE part[j - Len(a)]
    BY <2>2, <2>4, ConcatProperties DEF a
  <2>7. next.ret = b \o y
    BY <2>4 DEF a
  <2> HIDE DEF b
  <2>8. /\ Len(b \o y) = Len(b) + Len(y)
        /\ \A j \in 1 .. Len(b) + Len(y) :
             (b \o y)[j] = IF j <= Len(b) THEN b[j] ELSE y[j - Len(b)]
    <3>1. b \in Seq(Characters)
      BY <2>6
    <3> QED
      BY ONLY <3>1, y \in Seq(Characters), ConcatProperties
  <2>9. Len(a) \in Nat /\ Len(part) \in Nat /\ Len(y) \in Nat
    BY <2>2, <2>4 DEF a
  <2>10. Len(a) <= Len(next.ret) /\ \A j \in 1 .. Len(a) : next.ret[j] = a[j]
    <3>1. Len(a) <= Len(b) + Len(y)
      BY <2>6, <2>9
    <3>2. \A j \in 1 .. Len(a) : (b \o y)[j] = a[j]
      BY <2>6, <2>8, <2>9
    <3> QED
      BY <2>7, <2>8, <3>1, <3>2
  <2> QED
    BY <2>5, <2>10 DEF a, loop, next
<1> DEFINE S == {n \in 0 .. k : turns[n].next <= k /\ (Done(n) \/ n + 1 <= turns[n].next)}
<1>6. \A n \in 0 .. k : n \in S
  <2>1. 0 \in S
    BY <1>1, <1>2
  <2>2. ASSUME NEW n \in 0 .. k - 1, n \in S PROVE n + 1 \in S
    <3>1. n \in 0 .. k /\ n + 1 \in 0 .. k
      BY <1>2
    <3>2. CASE Done(n)
      <4>1. turns[n + 1] = turns[n]
        BY <1>4, <3>2
      <4> QED
        BY <2>2, <3>1, <3>2, <4>1
    <3>3. CASE ~Done(n)
      <4>1. turns[n].next + 1 <= turns[n + 1].next /\ turns[n + 1].next <= k
        BY <1>5, <3>3
      <4>2. turns[n].next \in Nat /\ turns[n + 1].next \in Nat /\ n + 1 <= turns[n].next
        BY <1>3, <2>2, <3>1, <3>3
      <4> HIDE DEF Done
      <4> QED
        BY <3>1, <4>1, <4>2
    <3> QED
      BY <3>2, <3>3
  <2> HIDE DEF S
  <2> QED
    BY <1>2, <2>1, <2>2, InductionUpTo
<1>7. Done(k)
  <2>1. k \in 0 .. k
    BY <1>2
  <2>2. turns[k].next <= k /\ (Done(k) \/ k + 1 <= turns[k].next)
    BY <1>6, <2>1
  <2>3. turns[k].next \in Nat
    BY <1>3, <2>1
  <2> HIDE DEF Done
  <2> QED
    BY <1>2, <2>2, <2>3
<1> HIDE DEF S
<1>8. ASSUME NEW n \in 0 .. k
      PROVE  /\ Done(n) => turns[k] = turns[n]
             /\ Len(turns[n].ret) <= Len(turns[k].ret)
             /\ \A j \in 1 .. Len(turns[n].ret) : turns[k].ret[j] = turns[n].ret[j]
  <2> DEFINE r == turns[n].ret
             After(m) == /\ Done(n) => turns[n + m] = turns[n]
                         /\ Len(r) <= Len(turns[n + m].ret)
                         /\ \A j \in 1 .. Len(r) : turns[n + m].ret[j] = r[j]
             T == {m \in 0 .. k - n : After(m)}
             d == k - n
  <2>1. d \in Nat /\ n + d = k /\ n + 0 = n
    BY <1>2
  <2>2. r \in Seq(Characters) /\ Len(r) \in Nat
    BY <1>3
  <2>3. 0 \in T
    BY <2>1, <2>2
  <2>4. ASSUME NEW m \in 0 .. d - 1, m \in T PROVE m + 1 \in T
    <3>1. /\ n + m \in 0 .. k - 1 /\ n + m \in 0 .. k /\ m + 1 \in 0 .. d
          /\ n + (m + 1) = (n + m) + 1 /\ n + m + 1 \in 0 .. k
      BY <1>2
    <3>2. After(m)
      BY <2>4
    <3>3. Done(n) => Done(n + m)
      BY <3>2
    <3>4. CASE Done(n + m)
      <4>1. turns[(n + m) + 1] = turns[n + m]
        BY <1>4, <3>1, <3>4
      <4> QED
        BY <3>1, <3>2, <4>1
    <3>5. CASE ~Done(n + m)
      <4> DEFINE u == turns[n + m].ret
                 v == turns[(n + m) + 1].ret
      <4>1. Len(u) <= Len(v) /\ \A j \in 1 .. Len(u) : v[j] = u[j]
        BY <1>5, <3>1, <3>5
      <4>2. Len(u) \in Nat /\ Len(v) \in Nat
        <5>1. u \in Seq(Characters) /\ v \in Seq(Characters)
          BY <1>3, <3>1
        <5> HIDE DEF u, v
        <5> QED
          BY <5>1
      <4>3. Len(r) <= Len(u) /\ \A j \in 1 .. Len(r) : u[j] = r[j]
        BY <3>2
      <4> HIDE DEF u, v, r
      <4>4. Len(r) <= Len(v) /\ \A j \in 1 .. Len(r) : v[j] = r[j]
        BY <2>2, <4>1, <4>2, <4>3
      <4> QED
        BY <3>1, <3>3, <3>5, <4>4 DEF v
    <3> QED
      BY <3>4, <3>5
  <2> HIDE DEF T, d
  <2>5. d \in T
    <3>1. \A m \in 0 .. d : m \in T
      BY <2>1, <2>3, <2>4, InductionUpTo
    <3> QED
      BY <2>1, <3>1
  <2> QED
    BY <2>1, <2>5 DEF T
<1>9. \A n \in 0 .. k : turns[n].next <= k
  BY <1>6 DEF S
<1> QED
  BY <1>2, <1>7, <1>8, <1>9 DEF RunsOver, turns, k

(* A match of one character.                                               *)
LEMMA MatchesOfOne ==
  ASSUME NEW t \in Seq(Characters), NEW c \in Characters, NEW q \in Nat \ {0}
  PROVE  Matches(t, <<c>>, q) = {i \in q .. Len(t) : t[i] = c}
<1> DEFINE one == <<c>>
<1>1. Len(one) = 1 /\ one[1] = c
  OBVIOUS
<1>2. ASSUME NEW i \in q .. Len(t) PROVE SubSeq(t, i, i) = one <=> t[i] = c
  <2> DEFINE u == SubSeq(t, i, i)
  <2>1. u \in Seq(Characters) /\ Len(u) = 1 /\ u[1] = t[i]
    OBVIOUS
  <2> HIDE DEF u
  <2>2. u = <<u[1]>>
    BY <2>1
  <2>3. u = one <=> u[1] = c
    BY <2>2
  <2> QED
    BY <2>1, <2>3 DEF u
<1> HIDE DEF one
<1>3. Matches(t, one, q) = {i \in q .. Len(t) - 1 + 1 : SubSeq(t, i, i + 1 - 1) = one}
  BY <1>1 DEF Matches
<1>4. Len(t) - 1 + 1 = Len(t) /\ \A i \in q .. Len(t) : i + 1 - 1 = i
  OBVIOUS
<1> QED
  BY <1>2, <1>3, <1>4 DEF one

(* The first of a set of natural numbers is the one before which there is  *)
(* none of it.                                                             *)
LEMMA MinIs ==
  ASSUME NEW T \in SUBSET Nat, NEW k \in T, \A i \in T : k <= i
  PROVE  Min(T) = k
<1> DEFINE First(i) == \A j \in T : i <= j
<1>1. First(k)
  OBVIOUS
<1>2. Min(T) = CHOOSE i \in T : First(i)
  BY DEF Min
<1> HIDE DEF First
<1>3. Min(T) \in T /\ First(Min(T))
  BY <1>1, <1>2
<1>4. Min(T) <= k /\ k <= Min(T) /\ Min(T) \in Nat /\ k \in Nat
  BY <1>3 DEF First
<1> QED
  BY <1>4

(* replace() of a needle by a character that the text has not is undone.   *)
LEMMA ReplacedBack ==
  ASSUME NEW h \in Seq(Characters), NEW x \in Seq(Characters), Len(x) > 0,
         NEW c \in Characters, \A i \in 1 .. Len(h) : h[i] # c
  PROVE  Replace(Replace(h, x, <<c>>, FALSE), <<c>>, x, FALSE) = h
<1> DEFINE one == <<c>>
           A == ReplaceTurns(h, x, one)
           k == Len(h) + 1
           last == A[k]
           tail == SubSeq(h, last.next, Len(h))
           out == last.ret \o tail
           B == ReplaceTurns(out, one, x)
           m == Len(out)
<1>1. one \in Seq(Characters) /\ Len(one) = 1 /\ one[1] = c
  OBVIOUS
<1>2. /\ k \in Nat /\ Len(h) \in Nat /\ k = Len(h) + 1 /\ k - 1 = Len(h)
      /\ Len(x) \in Nat \ {0}
  OBVIOUS
<1>3. Replace(h, x, one, FALSE) = out
  BY DEF Replace
<1> HIDE DEF one, A
<1>4. /\ A \in [0 .. Len(h) + 1 -> Loops]
      /\ A[0] = [next |-> 1, ret |-> <<>>]
      /\ \A n \in 0 .. Len(h) : A[n + 1] = ReplaceTurn(h, x, one, A[n])
  BY <1>1, ReplaceTurnsAre DEF A
<1>5. /\ \A n \in 0 .. Len(h) + 1 :
           /\ A[n].next <= Len(h) + 1
           /\ Len(A[n].ret) <= Len(last.ret)
           /\ \A j \in 1 .. Len(A[n].ret) : last.ret[j] = A[n].ret[j]
      /\ Matches(h, x, last.next) = {}
  <2>1. RunsOver(h, x, A)
    BY <1>1, LoopIs DEF A
  <2> QED
    BY <2>1 DEF RunsOver
<1> HIDE DEF k
<1>6. \A n \in 0 .. k : A[n].next \in Nat \ {0} /\ A[n].ret \in Seq(Characters)
  <2>1. \A n \in 0 .. k : A[n] \in Loops
    BY <1>2, <1>4
  <2> QED
    BY <2>1 DEF Loops
<1>7. k \in 0 .. k /\ last.next \in Nat \ {0} /\ last.ret \in Seq(Characters)
      /\ last.next <= k
  BY <1>2, <1>5, <1>6
<1> HIDE DEF last
<1>8. /\ tail \in Seq(Characters) /\ Len(tail) = k - last.next
      /\ \A j \in 1 .. k - last.next : tail[j] = h[last.next + j - 1]
  <2> DEFINE q == last.next
  <2>1. q \in Nat \ {0} /\ q <= Len(h) + 1 /\ k = Len(h) + 1
    BY <1>2, <1>7
  <2> HIDE DEF q
  <2>2. /\ SubSeq(h, q, Len(h)) \in Seq(Characters)
        /\ Len(SubSeq(h, q, Len(h))) = (Len(h) + 1) - q
        /\ \A j \in 1 .. (Len(h) + 1) - q : SubSeq(h, q, Len(h))[j] = h[q + j - 1]
    BY <2>1
  <2> QED
    BY <2>1, <2>2 DEF q
<1> HIDE DEF tail
<1>9. /\ out \in Seq(Characters) /\ Len(out) = Len(last.ret) + Len(tail)
      /\ \A j \in 1 .. Len(last.ret) + Len(tail) :
           out[j] = IF j <= Len(last.ret) THEN last.ret[j] ELSE tail[j - Len(last.ret)]
  <2> DEFINE front == last.ret
  <2>1. front \in Seq(Characters)
    BY <1>7
  <2>2. tail \in Seq(Characters)
    BY <1>8
  <2> HIDE DEF front
  <2>3. /\ front \o tail \in Seq(Characters) /\ Len(front \o tail) = Len(front) + Len(tail)
        /\ \A j \in 1 .. Len(front) + Len(tail) :
             (front \o tail)[j] = IF j <= Len(front) THEN front[j] ELSE tail[j - Len(front)]
    BY <2>1, <2>2, TwoTexts
  <2> QED
    BY <2>3 DEF front
<1> HIDE DEF out
<1>10. m \in Nat /\ m = Len(last.ret) + Len(tail) /\ Len(last.ret) \in Nat /\ Len(tail) \in Nat
  BY <1>7, <1>8, <1>9
<1>11. Replace(out, one, x, FALSE) =
         B[m + 1].ret \o SubSeq(out, B[m + 1].next, m)
  BY DEF Replace
<1> HIDE DEF B
<1>12. /\ B \in [0 .. Len(out) + 1 -> Loops]
       /\ B[0] = [next |-> 1, ret |-> <<>>]
       /\ \A n \in 0 .. Len(out) : B[n + 1] = ReplaceTurn(out, one, x, B[n])
  <2>1. out \in Seq(Characters)
    BY <1>9
  <2>2. one \in Seq(Characters)
    BY <1>1
  <2> QED
    BY <2>1, <2>2, ReplaceTurnsAre DEF B
<1>13. \A n \in 0 .. Len(out) + 1 :
         Matches(out, one, B[n].next) = {} => B[Len(out) + 1] = B[n]
  <2>1. Len(one) > 0
    BY <1>1
  <2>2. RunsOver(out, one, B)
    BY <1>1, <1>9, <2>1, LoopIs DEF B
  <2> QED
    BY <2>2 DEF RunsOver
<1>14. \A q \in Nat \ {0} : Matches(out, one, q) = {i \in q .. m : out[i] = c}
  BY <1>9, MatchesOfOne DEF one
<1> HIDE DEF m
<1> DEFINE Undone(n, j) ==
             /\ B[j].next = Len(A[n].ret) + 1
             /\ B[j].ret = SubSeq(h, 1, A[n].next - 1)
           S == {n \in 0 .. k : \E j \in 0 .. Len(A[n].ret) : Undone(n, j)}
<1>15. 0 \in S
  <2>1. SubSeq(h, 1, 0) = <<>>
    OBVIOUS
  <2>2. A[0].next - 1 = 0 /\ Len(A[0].ret) = 0
    BY <1>4
  <2>3. Undone(0, 0)
    BY <1>12, <2>1, <2>2
  <2>4. 0 \in 0 .. Len(A[0].ret)
    BY <2>2
  <2> HIDE DEF Undone
  <2> QED
    BY <1>2, <2>3, <2>4
<1>16. ASSUME NEW n \in 0 .. k - 1, n \in S PROVE n + 1 \in S
  <2> DEFINE a == A[n]
             z == A[n + 1]
             start == a.next
             pos == Min(Matches(h, x, start))
             part == SubSeq(h, start, pos - 1)
  <2>1. PICK j \in 0 .. Len(a.ret) : Undone(n, j)
    BY <1>16
  <2>2. /\ n \in 0 .. k /\ n + 1 \in 0 .. k /\ n \in 0 .. Len(h)
        /\ n + 1 \in 0 .. Len(h) + 1
    BY <1>2
  <2>3. /\ a \in Loops /\ start \in Nat \ {0} /\ a.ret \in Seq(Characters) /\ start <= k
        /\ z = ReplaceTurn(h, x, one, a) /\ z.next \in Nat \ {0} /\ z.ret \in Seq(Characters)
    BY <1>2, <1>4, <1>5, <1>6, <2>2
  <2>4. CASE Matches(h, x, start) = {}
    <3>1. z = a
      <4>1. z = ReplaceTurn(h, x, one, a) /\ Matches(h, x, a.next) = {}
        BY <2>3, <2>4
      <4> HIDE DEF a, z
      <4> QED
        BY <4>1 DEF ReplaceTurn
    <3> HIDE DEF a, z, Undone
    <3>2. Undone(n + 1, j) /\ j \in 0 .. Len(A[n + 1].ret)
      BY <2>1, <3>1 DEF Undone, a, z
    <3> QED
      BY <2>2, <3>2
  <2>5. CASE Matches(h, x, start) # {}
    <3> DEFINE r == a.ret
               b == B[j]
               d == r \o part
               len == pos - start
    <3>1. TakesMatch(h, x, one, a, pos, z)
      BY <1>1, <2>3, <2>5, TurnThatFinds
    <3> HIDE DEF pos
    <3>2. /\ pos \in Nat /\ start <= pos /\ pos + Len(x) <= k
          /\ SubSeq(h, pos, pos + Len(x) - 1) = x
          /\ part \in Seq(Characters) /\ Len(part) = len
          /\ \A l \in 1 .. len : part[l] = h[start + l - 1]
          /\ z.next = pos + Len(x)
          /\ z.ret = d \o one
      BY <1>2, <3>1 DEF TakesMatch
    <3>3. b.next = Len(r) + 1 /\ b.ret = SubSeq(h, 1, start - 1)
      BY <2>1
    <3>4. /\ len \in Nat /\ Len(r) \in Nat /\ r \in Seq(Characters)
      <4>1. r \in Seq(Characters)
        BY <2>3
      <4>2. Len(r) \in Nat
        BY <4>1
      <4>3. start \in Nat
        BY <2>3
      <4> HIDE DEF start
      <4>4. len \in Nat
        <5>1. pos \in Nat /\ start <= pos
          BY <3>2
        <5> QED
          BY <4>3, <5>1
      <4> QED
        BY <4>1, <4>2, <4>4
    <3>5. /\ Len(z.ret) <= Len(last.ret)
          /\ \A i \in 1 .. Len(z.ret) : last.ret[i] = z.ret[i]
      BY <1>5, <2>2
    <3>99. j \in 0 .. Len(r)
      BY <2>1
    <3> HIDE DEF a, z, r, start, b, part, len, Undone, S
    <3>6. /\ d \in Seq(Characters) /\ Len(d) = Len(r) + len
          /\ \A i \in 1 .. Len(r) + len : d[i] = IF i <= Len(r) THEN r[i] ELSE part[i - Len(r)]
      BY <3>2, <3>4, ConcatProperties
    <3> HIDE DEF d
    <3>7. /\ Len(z.ret) = Len(r) + len + 1
          /\ \A i \in 1 .. Len(r) + len + 1 :
               z.ret[i] = IF i <= Len(r) + len THEN d[i] ELSE one[i - (Len(r) + len)]
      <4>1. /\ Len(d \o one) = Len(d) + Len(one)
            /\ \A i \in 1 .. Len(d) + Len(one) :
                 (d \o one)[i] = IF i <= Len(d) THEN d[i] ELSE one[i - Len(d)]
        <5>1. one \in Seq(Characters)
          BY <1>1
        <5>2. d \in Seq(Characters)
          BY <3>6
        <5> QED
          BY <5>1, <5>2, TwoTexts
      <4>2. Len(d) = Len(r) + len /\ Len(one) = 1 /\ z.ret = d \o one
        BY <1>1, <3>2, <3>6
      <4> QED
        BY <4>1, <4>2
    <3>8. \A i \in 1 .. Len(r) + len + 1 : out[i] = z.ret[i]
      <4> DEFINE n1 == Len(r) + len + 1
                 L == Len(last.ret)
      <4>1. n1 \in Nat /\ n1 <= L /\ L \in Nat /\ Len(tail) \in Nat /\ Len(z.ret) = n1
        BY <1>10, <3>4, <3>5, <3>7
      <4> HIDE DEF n1, L
      <4>2. \A i \in 1 .. n1 : last.ret[i] = z.ret[i]
        BY <3>5, <4>1
      <4>3. \A i \in 1 .. n1 : i \in 1 .. L + Len(tail) /\ i <= L
        BY <4>1
      <4>4. \A i \in 1 .. L + Len(tail) : i <= L => out[i] = last.ret[i]
        BY <1>9 DEF L
      <4>5. \A i \in 1 .. n1 : out[i] = z.ret[i]
        BY <4>2, <4>3, <4>4
      <4> QED
        BY <4>5 DEF n1
    <3>9. Len(r) + len + 1 <= m
      BY <1>10, <3>4, <3>5, <3>7
    <3> DEFINE q == Len(r) + 1
               p == Len(r) + len + 1
    <3>10. /\ q \in Nat \ {0} /\ p \in Nat \ {0} /\ q <= p /\ p <= m
      BY <3>4, <3>9
    <3>11. out[p] = c
      <4>1. p \in 1 .. Len(r) + len + 1 /\ ~ (p <= Len(r) + len) /\ p - (Len(r) + len) = 1
        BY <3>4
      <4> HIDE DEF p
      <4> QED
        BY <1>1, <3>7, <3>8, <4>1
    <3>12. \A l \in 1 .. len : out[Len(r) + l] = h[start + l - 1]
      <4> TAKE l \in 1 .. len
      <4> DEFINE i == Len(r) + l
      <4>1. /\ i \in 1 .. Len(r) + len + 1 /\ i \in 1 .. Len(r) + len /\ i <= Len(r) + len
            /\ ~ (i <= Len(r)) /\ i - Len(r) = l
        BY <3>4
      <4> HIDE DEF i
      <4>2. out[i] = part[l]
        BY <3>6, <3>7, <3>8, <4>1
      <4>3. part[l] = h[start + l - 1]
        BY <3>2
      <4> QED
        BY <4>2, <4>3 DEF i
    <3>13. \A l \in 1 .. len : h[start + l - 1] # c
      <4> TAKE l \in 1 .. len
      <4>1. start + l - 1 \in 1 .. Len(h)
        BY <1>2, <2>3, <3>2, <3>4 DEF len
      <4> QED
        BY <4>1
    <3> DEFINE F == Matches(out, one, q)
    <3>14. F = {i \in q .. m : out[i] = c}
      BY <1>14, <3>10
    <3>15. F \in SUBSET Nat /\ p \in F /\ \A i \in F : p <= i
      <4>1. p \in q .. m
        BY <1>10, <3>10
      <4>2. ASSUME NEW i \in q .. p - 1 PROVE out[i] # c
        <5>1. i - Len(r) \in 1 .. len /\ Len(r) + (i - Len(r)) = i
          BY <3>4
        <5> QED
          BY <3>12, <3>13, <5>1
      <4> HIDE DEF q, p
      <4>3. q .. m \subseteq Nat
        BY <1>10, <3>10
      <4>4. \A i \in q .. m : p <= i \/ i \in q .. p - 1
        BY <1>10, <3>10
      <4> QED
        BY <3>11, <3>14, <4>1, <4>2, <4>3, <4>4
    <3> HIDE DEF F
    <3>16. Min(F) = p
      BY <3>15, MinIs
    <3>17. F # {}
      BY <3>15
    <3>18. j \in 0 .. Len(out) /\ j \in 0 .. Len(out) + 1 /\ j + 1 \in 0 .. Len(z.ret)
      BY <1>10, <3>99, <3>4, <3>7, <3>9 DEF m
    <3>19. b \in Loops /\ B[j + 1] = ReplaceTurn(out, one, x, b)
      BY <1>12, <3>18 DEF b
    <3>20. TakesMatch(out, one, x, b, p, B[j + 1])
      <4> HIDE DEF p
      <4>1. b.next = q
        BY <3>3
      <4> HIDE DEF q
      <4>2. F = Matches(out, one, b.next)
        BY <4>1 DEF F
      <4> QED
        BY <1>1, <1>9, <3>16, <3>17, <3>19, <4>2, TurnThatFinds
    <3>21. /\ B[j + 1].next = p + 1
           /\ B[j + 1].ret = SubSeq(h, 1, start - 1) \o SubSeq(out, q, p - 1) \o x
      <4> HIDE DEF p, q
      <4>1. b.next = q
        BY <3>3 DEF q
      <4> QED
        BY <1>1, <3>3, <3>20, <4>1 DEF TakesMatch
    <3>22. SubSeq(out, q, p - 1) = part
      <4> DEFINE u == SubSeq(out, q, p - 1)
      <4>1. u \in Seq(Characters) /\ Len(u) = len /\ \A l \in 1 .. len : u[l] = out[Len(r) + l]
        <5> DEFINE l0 == Len(r)
        <5>1. Len(out) = m /\ l0 \in Nat
          BY <3>4 DEF m
        <5>2. u = SubSeq(out, l0 + 1, l0 + len)
          <6>1. p - 1 = l0 + len
            BY <3>4
          <6> HIDE DEF p
          <6> QED
            BY <6>1
        <5>3. l0 + len + 1 <= m
          BY <3>9
        <5> HIDE DEF l0, u
        <5>4. /\ SubSeq(out, l0 + 1, l0 + len) \in Seq(Characters)
              /\ Len(SubSeq(out, l0 + 1, l0 + len)) = len
              /\ \A l \in 1 .. len : SubSeq(out, l0 + 1, l0 + len)[l] = out[l0 + l]
          BY <1>9, <1>10, <3>4, <5>1, <5>3
        <5> QED
          BY <5>2, <5>4 DEF l0
      <4> HIDE DEF u
      <4>2. \A l \in 1 .. len : u[l] = part[l]
        BY <3>2, <3>12, <4>1
      <4> QED
        BY <3>2, <4>1, <4>2, SeqEqual DEF u
    <3>23. part = SubSeq(h, (start - 1) + 1, pos - 1)
      <4>1. (start - 1) + 1 = start
        BY <2>3
      <4> QED
        BY <4>1 DEF part
    <3>24. SubSeq(h, 1, start - 1) \o part = SubSeq(h, 1, pos - 1)
      <4> DEFINE v == start - 1
                 w == pos - 1
      <4>1. /\ v \in Nat /\ w \in Nat /\ 1 <= v + 1 /\ v <= w /\ w <= Len(h)
        BY <1>2, <2>3, <3>2
      <4>2. part = SubSeq(h, v + 1, w)
        BY <3>23
      <4> HIDE DEF v, w
      <4>3. SubSeq(h, 1, v) \o SubSeq(h, v + 1, w) = SubSeq(h, 1, w)
        BY <4>1, SideBySide
      <4> QED
        BY <4>2, <4>3 DEF v, w
    <3>25. SubSeq(h, 1, pos - 1) \o x = SubSeq(h, 1, pos + Len(x) - 1)
      <4> DEFINE v == pos - 1
                 w == pos + Len(x) - 1
      <4>1. /\ v \in Nat /\ w \in Nat /\ 1 <= v + 1 /\ v <= w /\ w <= Len(h)
            /\ v + 1 = pos
        BY <1>2, <2>3, <3>2
      <4>2. SubSeq(h, pos, w) = x
        BY <3>2
      <4> HIDE DEF v, w
      <4>3. SubSeq(h, 1, v) \o SubSeq(h, v + 1, w) = SubSeq(h, 1, w)
        BY <4>1, SideBySide
      <4> QED
        BY <4>1, <4>2, <4>3 DEF v, w
    <3>26. Undone(n + 1, j + 1)
      <4>1. B[j + 1].next = Len(z.ret) + 1
        BY <3>7, <3>21
      <4>2. B[j + 1].ret = SubSeq(h, 1, z.next - 1)
        <5> DEFINE v == SubSeq(h, 1, start - 1)
                   u == SubSeq(out, q, p - 1)
                   w == SubSeq(h, 1, pos - 1)
        <5>1. B[j + 1].ret = v \o u \o x /\ u = part /\ v \o part = w
          BY <3>21, <3>22, <3>24
        <5>2. w \o x = SubSeq(h, 1, z.next - 1)
          BY <3>2, <3>25
        <5> HIDE DEF u, v, w
        <5> QED
          BY <5>1, <5>2
      <4> QED
        BY <4>1, <4>2 DEF Undone, z
    <3> QED
      BY <2>2, <3>18, <3>26 DEF S, z
  <2> QED
    BY <2>4, <2>5
<1>17. k \in S
  <2> HIDE DEF S
  <2>1. \A n \in 0 .. k : n \in S
    BY <1>2, <1>15, <1>16, InductionUpTo
  <2> QED
    BY <1>2, <2>1
<1>18. PICK j \in 0 .. Len(last.ret) :
         /\ B[j].next = Len(last.ret) + 1
         /\ B[j].ret = SubSeq(h, 1, last.next - 1)
  BY <1>17 DEF last
<1> HIDE DEF S
<1>19. \A i \in Len(last.ret) + 1 .. m : out[i] # c
  <2> TAKE i \in Len(last.ret) + 1 .. m
  <2> DEFINE L == Len(last.ret)
             q == last.next
             l == i - L
  <2>1. /\ i \in 1 .. L + Len(tail) /\ ~ (i <= L) /\ l \in 1 .. k - q
    <3>1. L \in Nat /\ Len(tail) \in Nat /\ m = L + Len(tail) /\ Len(tail) = k - q
      BY <1>8, <1>10
    <3>2. i \in L + 1 .. m
      OBVIOUS
    <3> HIDE DEF L
    <3> QED
      BY <3>1, <3>2
  <2>2. out[i] = h[q + l - 1]
    BY <1>8, <1>9, <2>1
  <2>3. q + l - 1 \in 1 .. Len(h)
    <3>1. q \in Nat \ {0} /\ q <= k
      BY <1>7
    <3> HIDE DEF q, l
    <3> QED
      BY <1>2, <2>1, <3>1
  <2> HIDE DEF q, l
  <2> QED
    BY <2>2, <2>3
<1>20. B[m + 1] = B[j]
  <2>1. Len(last.ret) + 1 \in Nat \ {0}
    BY <1>10
  <2>2. Matches(out, one, B[j].next) = {}
    BY <1>14, <1>18, <1>19, <2>1
  <2>3. j \in 0 .. Len(out) + 1
    BY <1>10 DEF m
  <2> QED
    BY <1>13, <2>2, <2>3 DEF m
<1>21. SubSeq(out, Len(last.ret) + 1, m) = tail
  <2> DEFINE u == SubSeq(out, Len(last.ret) + 1, m)
             n == Len(tail)
             l == Len(last.ret)
  <2>1. Len(out) = m
    BY DEF m
  <2>2. n \in Nat /\ l \in Nat /\ m = l + n
    BY <1>10
  <2> HIDE DEF n, l
  <2>3. u \in Seq(Characters) /\ Len(u) = n /\ \A i \in 1 .. n : u[i] = out[l + i]
    BY <1>9, <2>1, <2>2 DEF l
  <2>4. \A i \in 1 .. n : out[l + i] = tail[i]
    <3> TAKE i \in 1 .. n
    <3> DEFINE e == l + i
    <3>1. e \in 1 .. l + n /\ ~ (e <= l) /\ e - l = i
      BY <2>2
    <3> HIDE DEF e
    <3> QED
      BY <1>9, <3>1 DEF e, l, n
  <2> HIDE DEF u
  <2>5. u = tail
    <3>1. tail \in Seq(Characters) /\ Len(tail) = n
      BY <1>8 DEF n
    <3>2. \A i \in 1 .. n : u[i] = tail[i]
      BY <2>3, <2>4
    <3> QED
      BY <2>3, <3>1, <3>2, SeqEqual
  <2> QED
    BY <2>5 DEF u
<1>22. SubSeq(h, 1, last.next - 1) \o tail = h
  <2> DEFINE v == last.next - 1
             w == Len(h)
  <2>1. v \in Nat /\ w \in Nat /\ 1 <= v + 1 /\ v <= w /\ w <= Len(h) /\ v + 1 = last.next
    BY <1>2, <1>7
  <2>2. SubSeq(h, 1, w) = h
    OBVIOUS
  <2>3. tail = SubSeq(h, v + 1, w)
    BY <2>1 DEF tail
  <2> HIDE DEF v, w
  <2>4. SubSeq(h, 1, v) \o SubSeq(h, v + 1, w) = SubSeq(h, 1, w)
    BY <2>1, SideBySide
  <2> QED
    BY <2>2, <2>3, <2>4 DEF v
<1>23. Replace(out, one, x, FALSE) = h
  BY <1>11, <1>18, <1>20, <1>21, <1>22
<1> QED
  BY <1>3, <1>23 DEF one

(* A text in lower case.                                                   *)
LEMMA LoweredIs ==
  ASSUME NEW s \in Seq(Characters)
  PROVE  Lowered(s) \in Seq(Characters) /\ Len(Lowered(s)) = Len(s)
<1> DEFINE n == Len(s)
<1>1. \A c \in Characters : ToLower(c) \in Characters
  BY DEF ToLower, Characters, Upper
<1>2. n \in Nat /\ DOMAIN s = 1 .. n /\ \A i \in 1 .. n : s[i] \in Characters
  OBVIOUS
<1> HIDE DEF n
<1>3. Lowered(s) \in [1 .. n -> Characters]
  BY <1>1, <1>2 DEF Lowered
<1> QED
  BY <1>2, <1>3 DEF n

(* The first turn of replace() starts at the first character.              *)
LEMMA FirstTurn ==
  ASSUME NEW h \in Seq(Characters), NEW x \in Seq(Characters), NEW y \in Seq(Characters)
  PROVE  ReplaceTurns(h, x, y)[1] = ReplaceTurn(h, x, y, [next |-> 1, ret |-> <<>>])
<1> DEFINE A == ReplaceTurns(h, x, y)
<1>1. A[0] = [next |-> 1, ret |-> <<>>]
  BY ReplaceTurnsAre
<1>2. \A n \in 0 .. Len(h) : A[n + 1] = ReplaceTurn(h, x, y, A[n])
  BY ReplaceTurnsAre
<1> HIDE DEF A
<1>3. 0 \in 0 .. Len(h) /\ 0 + 1 = 1
  OBVIOUS
<1>4. A[1] = ReplaceTurn(h, x, y, A[0])
  BY <1>2, <1>3
<1> QED
  BY <1>1, <1>4 DEF A

(* Where ifind() finds a needle and replace() of the texts in lower case   *)
(* takes it out, the two parts around it are left; or neither finds it.    *)
LEMMA FindsWhereReplaced ==
  ASSUME NEW h \in Seq(Characters), h # <<>>, NEW needle \in Seq(Characters), Len(needle) > 0
  PROVE  LET low  == Lowered(h)
             x    == Lowered(needle)
             rest == Replace(low, x, <<>>, TRUE)
             pos  == IFind(h, needle)
         IN  IF rest = low THEN pos = -1
             ELSE /\ pos \in 0 .. Len(rest)
                  /\ SubSeq(rest, 1, pos) \o x \o SubSeq(rest, pos + 1, Len(rest)) = low
<1> DEFINE low == Lowered(h)
           x == Lowered(needle)
           rest == Replace(low, x, <<>>, TRUE)
           pos == IFind(h, needle)
           A == ReplaceTurns(low, x, <<>>)
           first == [next |-> 1, ret |-> <<>>]
           F == Matches(low, x, 1)
           n == Len(low)
           e == Len(x)
<1>1. low \in Seq(Characters) /\ x \in Seq(Characters) /\ n \in Nat /\ e \in Nat \ {0}
  BY LoweredIs
<1>2. rest = A[1].ret \o SubSeq(low, A[1].next, n)
  BY DEF Replace
<1>3. pos = IF F = {} THEN -1 ELSE Min(F) - 1
  BY DEF IFind
<1> HIDE DEF low, x, rest, pos, A
<1>4. first \in Loops /\ first.next = 1 /\ first.ret = <<>>
  BY DEF Loops
<1>5. A[1] = ReplaceTurn(low, x, <<>>, first)
  <2> DEFINE none == <<>>
  <2>1. none \in Seq(Characters) /\ A = ReplaceTurns(low, x, none)
    BY DEF A
  <2>2. first = [next |-> 1, ret |-> <<>>]
    OBVIOUS
  <2> HIDE DEF none, first
  <2>3. A[1] = ReplaceTurn(low, x, none, first)
    BY <1>1, <2>1, <2>2, FirstTurn
  <2> QED
    BY <2>3 DEF none
<1>6. SubSeq(low, 1, n) = low
  BY <1>1
<1>7. CASE F = {}
  <2>1. A[1] = first
    <3> DEFINE none == <<>>
    <3>1. none \in Seq(Characters) /\ A[1] = ReplaceTurn(low, x, none, first)
      BY <1>5
    <3>2. Matches(low, x, first.next) = {}
      BY <1>4, <1>7
    <3> HIDE DEF none, first, F
    <3> QED
      BY <3>1, <3>2 DEF ReplaceTurn
  <2>2. rest = <<>> \o low
    BY <1>2, <1>4, <1>6, <2>1
  <2>3. rest = low
    BY <1>1, <2>2, ConcatEmptySeq
  <2> QED
    BY <1>3, <1>7, <2>3 DEF low, x, rest, pos
<1>8. CASE F # {}
  <2> DEFINE p == Min(F)
             v == p - 1
             w == p + e - 1
             front == SubSeq(low, 1, v)
             back == SubSeq(low, w + 1, n)
  <2>1. TakesMatch(low, x, <<>>, first, p, A[1])
    <3> HIDE DEF first, p
    <3>1. F = Matches(low, x, first.next) /\ <<>> \in Seq(Characters)
      BY <1>4
    <3> HIDE DEF F
    <3> QED
      BY <1>1, <1>4, <1>5, <1>8, <3>1, TurnThatFinds DEF p
  <2> HIDE DEF p, F
  <2>2. /\ p \in Nat /\ 1 <= p /\ p + e <= n + 1 /\ SubSeq(low, p, w) = x
        /\ A[1].next = p + e /\ A[1].ret = <<>> \o front \o <<>>
    BY <1>4, <2>1 DEF TakesMatch
  <2>3. v \in Nat /\ w \in Nat /\ v < w /\ v + 1 = p /\ w + 1 = p + e /\ w <= n
        /\ w = v + e
    BY <1>1, <2>2
  <2>4. SubSeq(low, v + 1, w) = x
    BY <2>2, <2>3
  <2>5. A[1].next = w + 1
    BY <2>2, <2>3
  <2> HIDE DEF v, w
  <2>6. /\ front \in Seq(Characters) /\ Len(front) = v
        /\ back \in Seq(Characters) /\ Len(back) = n - w
    BY <1>1, <2>3
  <2>16. n = Len(low) /\ n \in Nat
    BY <1>1
  <2> HIDE DEF n
  <2>12. SubSeq(low, 1, v) \o SubSeq(low, v + 1, n) = low
    <3>1. 1 \in Nat \ {0} /\ 1 <= v + 1 /\ v <= n /\ n <= Len(low)
      BY <2>3, <2>16
    <3>3. low \in Seq(Characters) /\ v \in Nat /\ n \in Nat
      BY <1>1, <2>3, <2>16
    <3>2. SubSeq(low, 1, v) \o SubSeq(low, v + 1, n) = SubSeq(low, 1, n)
      BY <3>1, <3>3, SideBySide
    <3> QED
      BY <1>6, <3>2
  <2>13. x \o back = SubSeq(low, v + 1, n)
    <3> DEFINE i == v + 1
    <3>1. i \in Nat \ {0} /\ i <= w + 1
      BY <2>3
    <3>2. SubSeq(low, i, w) = x
      BY <2>4
    <3> HIDE DEF i
    <3>4. low \in Seq(Characters) /\ w \in Nat /\ n \in Nat /\ w <= n /\ n <= Len(low)
      BY <1>1, <2>3, <2>16
    <3>3. SubSeq(low, i, w) \o SubSeq(low, w + 1, n) = SubSeq(low, i, n)
      BY <3>1, <3>4, SideBySide
    <3> QED
      BY <3>2, <3>3 DEF i
  <2>7. A[1].ret = front
    <3> HIDE DEF front
    <3>1. <<>> \o front = front /\ front \o <<>> = front
      BY <2>6, ConcatEmptySeq
    <3> QED
      BY <2>2, <3>1
  <2>8. rest = front \o back
    BY <1>2, <2>5, <2>7
  <2>14. low = front \o x \o back
    <3> DEFINE a == front
               b == back
    <3>1. a \o (x \o b) = low
      BY <2>12, <2>13
    <3>2. a \in Seq(Characters) /\ b \in Seq(Characters)
      BY <2>6
    <3> HIDE DEF a, b
    <3>3. (a \o x) \o b = a \o (x \o b)
      <4>1. x \in Seq(Characters)
        BY <1>1
      <4>2. a \in Seq(Characters)
        BY <3>2
      <4>3. b \in Seq(Characters)
        BY <3>2
      <4> QED
        BY <4>1, <4>2, <4>3, Regrouped, ZenonT(30)
    <3> QED
      BY <3>1, <3>3 DEF a, b
  <2> HIDE DEF front, back
  <2>9. rest \in Seq(Characters) /\ Len(rest) = v + (n - w)
        /\ \A i \in 1 .. v + (n - w) : rest[i] = IF i <= v THEN front[i] ELSE back[i - v]
    <3>1. /\ front \o back \in Seq(Characters)
          /\ Len(front \o back) = Len(front) + Len(back)
          /\ \A i \in 1 .. Len(front) + Len(back) :
               (front \o back)[i] = IF i <= Len(front) THEN front[i] ELSE back[i - Len(front)]
      <4>1. front \in Seq(Characters) /\ back \in Seq(Characters)
        BY <2>6
      <4> QED
        BY <4>1, ConcatProperties
    <3>2. Len(front) = v /\ Len(back) = n - w
      BY <2>6
    <3> QED
      BY <2>8, <3>1, <3>2
  <2>10. rest # low /\ pos = v /\ v \in 0 .. Len(rest)
    <3>1. v + (n - w) # n /\ v <= v + (n - w)
      BY <1>1, <2>3
    <3>2. pos = v
      BY <1>3, <1>8 DEF v, p
    <3>3. Len(rest) = v + (n - w)
      BY <2>9
    <3>4. rest # low
      BY <2>16, <3>1, <3>3
    <3>5. v \in 0 .. Len(rest)
      BY <2>3, <2>16, <3>1, <3>3
    <3> QED
      BY <3>2, <3>4, <3>5
  <2>11. SubSeq(rest, 1, v) = front /\ SubSeq(rest, v + 1, Len(rest)) = back
    <3> DEFINE u == SubSeq(rest, 1, v)
               z == SubSeq(rest, v + 1, v + (n - w))
    <3>1. n - w \in Nat
      BY <1>1, <2>3
    <3> DEFINE l == n - w
    <3> HIDE DEF l
    <3>2. l \in Nat /\ Len(rest) = v + l /\ rest \in Seq(Characters) /\ z = SubSeq(rest, v + 1, v + l)
      BY <2>9, <3>1 DEF l
    <3>3. u \in Seq(Characters) /\ Len(u) = v /\ \A i \in 1 .. v : u[i] = rest[i]
      BY <2>3, <3>2
    <3>4. z \in Seq(Characters) /\ Len(z) = l /\ \A i \in 1 .. l : z[i] = rest[v + i]
      <4> DEFINE f == v + 1
                 g == v + l
      <4>1. f \in Nat \ {0} /\ g \in Nat /\ g <= Len(rest) /\ g - f + 1 = l /\ l \in Nat
        BY <2>3, <3>2
      <4>2. z = SubSeq(rest, f, g)
        BY <3>2
      <4> HIDE DEF f, g, z
      <4>3. z \in Seq(Characters) /\ Len(z) = l /\ \A i \in 1 .. l : z[i] = rest[f + i - 1]
        <5>1. rest \in Seq(Characters)
          BY <3>2
        <5> QED
          BY <4>1, <4>2, <5>1
      <4>4. \A i \in 1 .. l : f + i - 1 = v + i
        BY <2>3, <3>2 DEF f
      <4> QED
        BY <4>3, <4>4
    <3> HIDE DEF u, z
    <3>5. \A i \in 1 .. v : u[i] = front[i]
      <4> TAKE i \in 1 .. v
      <4>1. i \in 1 .. v + (n - w) /\ i <= v
        BY <2>3, <3>1
      <4>2. rest[i] = front[i]
        BY <2>9, <4>1
      <4> QED
        BY <3>3, <4>2
    <3>6. \A i \in 1 .. l : z[i] = back[i]
      <4> TAKE i \in 1 .. l
      <4> DEFINE m == v + i
      <4>1. m \in 1 .. v + (n - w) /\ ~ (m <= v) /\ m - v = i
        BY <2>3, <3>1 DEF l
      <4> HIDE DEF m
      <4>2. rest[m] = back[i]
        BY <2>9, <4>1
      <4> QED
        BY <3>4, <4>2 DEF m
    <3>7. u = front
      BY <2>6, <3>3, <3>5, SeqEqual
    <3>8. z = back
      BY <2>6, <3>4, <3>6, SeqEqual DEF l
    <3> QED
      BY <2>9, <3>7, <3>8 DEF u, z
  <2>15. SubSeq(rest, 1, pos) \o x \o SubSeq(rest, pos + 1, Len(rest)) = low
    BY <2>10, <2>11, <2>14
  <2> QED
    BY <2>10, <2>15 DEF low, x, rest, pos
<1> QED
  BY <1>7, <1>8

-----------------------------------------------------------------------------
(* The client's text consists of characters, whatever it does with it.     *)
TextType == text \in Seq(Characters)

(* No call of a client makes anything but characters.                      *)
LEMMA TextInductive == TextSpec => []TextType
<1>1. TextInit => TextType
  BY DEF TextInit, TextType
<1>2. TextType /\ [TextNext]_text => TextType'
  <2> SUFFICES ASSUME TextType, [TextNext]_text PROVE TextType'
    OBVIOUS
  <2>1. \A c \in Alphabet : c \in Characters /\ <<c>> \in Seq(Characters)
    BY TextAssumption
  <2>2. CASE UNCHANGED text
    BY <2>2 DEF TextType
  <2>3. ASSUME NEW c \in Alphabet, TypeCharacter(c) PROVE TextType'
    BY <2>1, <2>3 DEF TextType, TypeCharacter
  <2>4. CASE EncodeText
    BY <2>4, UrlEncodeIs DEF TextType, EncodeText
  <2>5. CASE DecodeText
    BY <2>5, UrlDecodeType DEF TextType, DecodeText
  <2>6. ASSUME NEW n \in Alphabet, NEW c \in Alphabet, NEW first_only \in BOOLEAN,
               Substitute(<<n>>, <<c>>, first_only)
        PROVE  TextType'
    <3>1. <<n>> \in Seq(Characters) /\ <<c>> \in Seq(Characters)
      BY <2>1
    <3>2. text' = Replace(text, <<n>>, <<c>>, first_only) /\ text \in Seq(Characters)
      BY <2>6 DEF Substitute, TextType
    <3> QED
      BY <3>1, <3>2, ReplaceType DEF TextType
  <2> QED
    BY <2>2, <2>3, <2>4, <2>5, <2>6 DEF TextNext
<1> QED
  BY <1>1, <1>2, PTL DEF TextSpec

(* Whatever characters a client uses, and however long its texts are: what *)
(* hexencode() and urlencode() make of them is decoded to what it was,     *)
(* unless they have a character that the upper case digits cannot express. *)
THEOREM EncodingsAreUndone == TextSpec => []DecodesWhatWasEncoded
<1>1. TextType => DecodesWhatWasEncoded
  <2> SUFFICES ASSUME TextType PROVE DecodesWhatWasEncoded
    OBVIOUS
  <2>1. text \in Seq(Characters)
    BY DEF TextType
  <2> DEFINE hex == HexEncode(text, FALSE)
             upper == [i \in DOMAIN hex |->
                         IF hex[i] \in Lower THEN hex[i] - 32 ELSE hex[i]]
             bytes == HexDecode(text, Nul)
  <2>2. HexDecode(hex, Nul) = text /\ HexDecode(upper, Nul) = text
    BY <2>1, HexReadsBack
  <2>3. bytes # <<>> => HexEncode(bytes, FALSE) = Lowered(text)
    BY <2>1, DecodesDigits
  <2>4. UrlDecode(text) \in Seq(Characters)
    BY <2>1, UrlDecodeType
  <2>5. (\A i \in DOMAIN text :
           text[i] \in Kept \/ 12 \notin {text[i] \div 16, text[i] % 16})
          => UrlDecode(UrlEncode(text)) = text
    BY <2>1, UrlReadsBack
  <2> QED
    BY <2>2, <2>3, <2>4, <2>5 DEF DecodesWhatWasEncoded
<1> QED
  BY <1>1, TextInductive, PTL

(* Whatever a client looks for: replace() of it by a character that the    *)
(* text has not is undone by replacing that character, and ifind() finds   *)
(* it where replace() would replace it.                                    *)
THEOREM FoundWhereReplaced == TextSpec => []SearchesAgree
<1>1. TextType => SearchesAgree
  <2> SUFFICES ASSUME TextType, text # <<>>, NEW needle \in Needles
               PROVE  LET low  == Lowered(text)
                          rest == Replace(low, Lowered(needle), <<>>, TRUE)
                          pos  == IFind(text, needle)
                      IN  /\ \A c \in Alphabet \ ToSet(text) :
                               Replace(Replace(text, needle, <<c>>, FALSE), <<c>>, needle, FALSE) = text
                          /\ IF rest = low THEN pos = -1
                             ELSE /\ pos \in 0 .. Len(rest)
                                  /\ SubSeq(rest, 1, pos) \o Lowered(needle)
                                       \o SubSeq(rest, pos + 1, Len(rest)) = low
    BY DEF SearchesAgree
  <2>1. text \in Seq(Characters)
    BY DEF TextType
  <2>2. needle \in Seq(Characters) /\ Len(needle) > 0
    <3>1. needle \in UNION {[1 .. m -> Alphabet] : m \in 0 .. MaxNeedle} /\ needle # <<>>
      BY DEF Needles, BoundedSeq, SeqOf
    <3>2. PICK m \in 0 .. MaxNeedle : needle \in [1 .. m -> Alphabet]
      BY <3>1
    <3>3. m \in Nat /\ needle \in [1 .. m -> Characters]
      BY <3>2, TextAssumption
    <3>4. needle \in Seq(Characters)
      BY <3>3
    <3> QED
      BY <3>1, <3>4
  <2>3. ASSUME NEW c \in Alphabet \ ToSet(text)
        PROVE  Replace(Replace(text, needle, <<c>>, FALSE), <<c>>, needle, FALSE) = text
    <3>1. c \in Characters
      BY TextAssumption
    <3>2. \A i \in 1 .. Len(text) : text[i] # c
      BY <2>1 DEF ToSet
    <3> QED
      BY <2>1, <2>2, <3>1, <3>2, ReplacedBack
  <2> QED
    BY <2>1, <2>2, <2>3, FindsWhereReplaced
<1> QED
  BY <1>1, TextInductive, PTL

-----------------------------------------------------------------------------
(* Numbers in two's complement                                             *)

(* The places, and the weights of bits at them.                            *)
LEMMA PlacesOfBits ==
  /\ BaseBits \in Nat \ {0} /\ BaseBits - 1 \in Nat
  /\ \A k \in 0 .. BaseBits - 1 : k \in Nat /\ Pow2[k] \in Nat \ {0} /\ Weight(k) \in Int
  /\ \A k \in 0 .. BaseBits - 2 : k \in Places /\ k + 1 \in Places /\ Weight(k) = Pow2[k]
  /\ Weight(BaseBits - 1) = -Pow2[BaseBits - 1]
BY VarintAssumption, Pow2Defined DEF Weight, Places

(* What the first bits of a number add up to.                              *)
LEMMA PartialSumsAre ==
  ASSUME NEW S
  PROVE  LET sums == PartialSums(S)
         IN  /\ sums \in [0 .. BaseBits -> Int]
             /\ sums[0] = 0
             /\ \A k \in 0 .. BaseBits - 1 :
                  sums[k + 1] = IF k \in S THEN sums[k] + Weight(k) ELSE sums[k]
<1> DEFINE Next(k, x) == IF k \in S THEN x + Weight(k) ELSE x
           step == [k \in 0 .. BaseBits - 1 |-> [x \in Int |-> Next(k, x)]]
           Solves(f) == f = [k \in 0 .. BaseBits |->
                               IF k = 0 THEN 0
                               ELSE IF k - 1 \in S THEN f[k - 1] + Weight(k - 1) ELSE f[k - 1]]
           value == CHOOSE f : Solves(f)
<1>1. /\ BaseBits \in Nat /\ 0 \in Int
      /\ \A k \in 0 .. BaseBits - 1, x \in Int : Next(k, x) \in Int
  BY PlacesOfBits
<1>2. PICK g : IteratesUpTo(BaseBits, g, Int, 0, step)
  <2>1. step \in [0 .. BaseBits - 1 -> [Int -> Int]]
    <3> HIDE DEF Next
    <3> QED
      BY <1>1
  <2> HIDE DEF step
  <2> QED
    BY <1>1, <2>1, RecursionUpTo
<1>3. /\ g \in [0 .. BaseBits -> Int] /\ g[0] = 0
      /\ \A k \in 0 .. BaseBits - 1 : g[k + 1] = Next(k, g[k])
  <2> HIDE DEF Next
  <2>1. /\ g \in [0 .. BaseBits -> Int] /\ g[0] = 0
        /\ \A k \in 0 .. BaseBits - 1 : g[k + 1] = step[k][g[k]]
    BY <1>2 DEF IteratesUpTo
  <2>2. \A k \in 0 .. BaseBits - 1 : g[k] \in Int
    BY <1>1, <2>1
  <2>3. \A k \in 0 .. BaseBits - 1 : step[k][g[k]] = Next(k, g[k])
    BY <2>2
  <2> HIDE DEF step
  <2> QED
    BY <2>1, <2>3
<1>4. Solves(g)
  <2>1. \A k \in 0 .. BaseBits : g[k] = IF k = 0 THEN 0 ELSE Next(k - 1, g[k - 1])
    <3> TAKE k \in 0 .. BaseBits
    <3>1. k = 0 \/ (k - 1 \in 0 .. BaseBits - 1 /\ (k - 1) + 1 = k)
      BY <1>1
    <3> HIDE DEF Next, step
    <3> QED
      BY <1>3, <3>1
  <2> HIDE DEF step
  <2> QED
    BY <1>3, <2>1
<1>5. Solves(value)
  <2> HIDE DEF Solves
  <2> QED
    BY <1>4
<1>6. PartialSums(S) = value
  BY DEF PartialSums
<1> HIDE DEF value, step
<1>7. value = [k \in 0 .. BaseBits |-> IF k = 0 THEN 0 ELSE Next(k - 1, value[k - 1])]
  BY <1>5
<1> HIDE DEF Solves
<1>8. value[0] = 0
  BY <1>1, <1>7
<1>9. \A k \in 0 .. BaseBits - 1 : value[k + 1] = Next(k, value[k])
  <2> TAKE k \in 0 .. BaseBits - 1
  <2>1. k + 1 \in 0 .. BaseBits /\ k + 1 # 0 /\ (k + 1) - 1 = k
    BY <1>1
  <2> HIDE DEF Next
  <2> QED
    BY <1>7, <2>1
<1>10. \A k \in 0 .. BaseBits : value[k] \in Int
  <2> DEFINE T == {k \in 0 .. BaseBits : value[k] \in Int}
  <2>1. 0 \in T
    BY <1>1, <1>8
  <2>2. \A k \in 0 .. BaseBits - 1 : k \in T => k + 1 \in T
    <3> HIDE DEF Next
    <3>1. \A k \in 0 .. BaseBits - 1 : k + 1 \in 0 .. BaseBits
      BY <1>1
    <3> QED
      BY <1>1, <1>9, <3>1
  <2> HIDE DEF T
  <2>3. \A k \in 0 .. BaseBits : k \in T
    BY <1>1, <2>1, <2>2, InductionUpTo
  <2> QED
    BY <2>3 DEF T
<1>11. value \in [0 .. BaseBits -> Int]
  <2> HIDE DEF Next
  <2>1. \E f : value = [k \in 0 .. BaseBits |-> f[k]]
    <3>1. value = [k \in 0 .. BaseBits |-> value[k]]
      BY <1>7
    <3> QED
      BY <3>1
  <2> QED
    BY <1>10, <2>1
<1> QED
  BY <1>6, <1>8, <1>9, <1>11

(* Bits that are as often in two sets as in two others are worth as much.  *)
LEMMA SumsAgree ==
  ASSUME NEW A, NEW B, NEW C, NEW D,
         \A i \in Places : /\ i \in A /\ i \in B <=> i \in C /\ i \in D
                           /\ i \in A \/ i \in B <=> i \in C \/ i \in D
  PROVE  NumberOf(A) + NumberOf(B) = NumberOf(C) + NumberOf(D)
<1> DEFINE a == PartialSums(A)
           b == PartialSums(B)
           c == PartialSums(C)
           d == PartialSums(D)
           T == {k \in 0 .. BaseBits : a[k] + b[k] = c[k] + d[k]}
<1>1. BaseBits \in Nat /\ \A k \in 0 .. BaseBits - 1 : Weight(k) \in Int /\ k \in Places
  BY PlacesOfBits DEF Places
<1>2. /\ a \in [0 .. BaseBits -> Int] /\ b \in [0 .. BaseBits -> Int]
      /\ c \in [0 .. BaseBits -> Int] /\ d \in [0 .. BaseBits -> Int]
      /\ a[0] = 0 /\ b[0] = 0 /\ c[0] = 0 /\ d[0] = 0
  BY PartialSumsAre
<1>3. \A k \in 0 .. BaseBits - 1 :
        /\ a[k + 1] = IF k \in A THEN a[k] + Weight(k) ELSE a[k]
        /\ b[k + 1] = IF k \in B THEN b[k] + Weight(k) ELSE b[k]
        /\ c[k + 1] = IF k \in C THEN c[k] + Weight(k) ELSE c[k]
        /\ d[k + 1] = IF k \in D THEN d[k] + Weight(k) ELSE d[k]
  BY PartialSumsAre
<1>4. NumberOf(A) = a[BaseBits] /\ NumberOf(B) = b[BaseBits]
      /\ NumberOf(C) = c[BaseBits] /\ NumberOf(D) = d[BaseBits]
  BY DEF NumberOf
<1> HIDE DEF a, b, c, d
<1>5. 0 \in T
  BY <1>1, <1>2
<1>6. \A k \in 0 .. BaseBits - 1 : k \in T => k + 1 \in T
  <2> SUFFICES ASSUME NEW k \in 0 .. BaseBits - 1, k \in T PROVE k + 1 \in T
    OBVIOUS
  <2>1. k \in 0 .. BaseBits /\ k + 1 \in 0 .. BaseBits
    BY <1>1
  <2>2. a[k] \in Int /\ b[k] \in Int /\ c[k] \in Int /\ d[k] \in Int /\ Weight(k) \in Int
        /\ a[k] + b[k] = c[k] + d[k]
    BY <1>1, <1>2, <2>1
  <2>3. a[k + 1] + b[k + 1] = c[k + 1] + d[k + 1]
    BY <1>1, <1>3, <2>2
  <2> QED
    BY <2>1, <2>3
<1> HIDE DEF T
<1>7. BaseBits \in T
  BY <1>1, <1>5, <1>6, InductionUpTo
<1> QED
  BY <1>4, <1>7 DEF T

(* Any bits make a number of the type.                                     *)
LEMMA NumberOfType ==
  ASSUME NEW S
  PROVE  NumberOf(S) \in VarintBase
<1> DEFINE s == PartialSums(S)
           m == BaseBits - 1
           T == {k \in 0 .. m : s[k] \in 0 .. Pow2[k] - 1}
<1>1. m \in Nat /\ m + 1 = BaseBits /\ m \in 0 .. BaseBits - 1 /\ Weight(m) = -Pow2[m]
  BY PlacesOfBits
<1>2. s[0] = 0 /\ NumberOf(S) = s[m + 1]
  BY <1>1, PartialSumsAre DEF NumberOf
<1>3. \A k \in 0 .. m : s[k + 1] = IF k \in S THEN s[k] + Weight(k) ELSE s[k]
  BY <1>1, PartialSumsAre
<1>4. \A k \in 0 .. m : Pow2[k] \in Nat \ {0} /\ Pow2[k + 1] = 2 * Pow2[k]
  BY <1>1, Pow2Defined
<1>5. \A k \in 0 .. m - 1 : Weight(k) = Pow2[k]
  BY PlacesOfBits
<1> HIDE DEF s, m
<1>6. 0 \in T
  BY <1>1, <1>2, Pow2Defined
<1>7. \A k \in 0 .. m - 1 : k \in T => k + 1 \in T
  <2> SUFFICES ASSUME NEW k \in 0 .. m - 1, k \in T PROVE k + 1 \in T
    OBVIOUS
  <2>1. k \in 0 .. m /\ k + 1 \in 0 .. m
    BY <1>1
  <2>2. s[k] \in 0 .. Pow2[k] - 1
    OBVIOUS
  <2>3. s[k + 1] \in 0 .. 2 * Pow2[k] - 1
    BY <1>3, <1>4, <1>5, <2>1, <2>2
  <2> QED
    BY <1>4, <2>1, <2>3
<1> HIDE DEF T
<1>8. m \in T
  BY <1>1, <1>6, <1>7, InductionUpTo
<1>9. s[m] \in 0 .. Pow2[m] - 1 /\ m \in 0 .. m
  BY <1>1, <1>8 DEF T
<1>10. s[m + 1] \in -Pow2[m] .. Pow2[m] - 1
  BY <1>1, <1>3, <1>4, <1>9
<1> QED
  BY <1>2, <1>10 DEF VarintBase, m

(* The bit at place k is what the rest of a number has more there.         *)
LEMMA RestGrows ==
  ASSUME NEW n \in Int, NEW k \in Nat
  PROVE  n % Pow2[k + 1] = (n % Pow2[k]) +
                             (IF (n \div Pow2[k]) % 2 = 1 THEN Pow2[k] ELSE 0)
<1> DEFINE p == Pow2[k]
           q == n \div p
           r == n % p
           h == q \div 2
           b == q % 2
<1>1. p \in Nat \ {0} /\ Pow2[k + 1] = 2 * p
  BY Pow2Defined
<1> HIDE DEF p
<1>2. n = p * q + r /\ q \in Int /\ r \in 0 .. p - 1
  BY <1>1, Division
<1> HIDE DEF q, r
<1>3. q = 2 * h + b /\ h \in Int /\ b \in {0, 1}
  BY <1>2
<1> HIDE DEF h, b
<1> DEFINE rest == IF b = 1 THEN r + p ELSE r
           w == 2 * p
<1>4. rest \in 0 .. w - 1 /\ w \in Nat \ {0}
  BY <1>1, <1>2, <1>3
<1>5. n = h * w + rest
  <2>1. p * (2 * h + b) = h * (2 * p) + (IF b = 1 THEN p ELSE 0)
    BY <1>1, <1>3
  <2> QED
    BY <1>1, <1>2, <1>3, <2>1
<1>6. n % w = rest
  <2> HIDE DEF w, rest
  <2> QED
    BY <1>3, <1>4, <1>5, DivisionIsUnique
<1> QED
  BY <1>1, <1>2, <1>3, <1>6 DEF p, q, r, b

(* A number of the type has the bits of which it is the number.            *)
LEMMA NumberOfBits ==
  ASSUME NEW n \in VarintBase
  PROVE  NumberOf(OneBits(n)) = n
<1> DEFINE s == PartialSums(OneBits(n))
           m == BaseBits - 1
           T == {k \in 0 .. m : s[k] = n % Pow2[k]}
<1>1. m \in Nat /\ m + 1 = BaseBits /\ m \in 0 .. BaseBits - 1 /\ Weight(m) = -Pow2[m]
  BY PlacesOfBits
<1>2. s[0] = 0 /\ NumberOf(OneBits(n)) = s[m + 1]
  BY <1>1, PartialSumsAre DEF NumberOf
<1>3. \A k \in 0 .. m : s[k + 1] = IF (n \div Pow2[k]) % 2 = 1 THEN s[k] + Weight(k) ELSE s[k]
  <2>1. \A k \in 0 .. m : s[k + 1] = IF k \in OneBits(n) THEN s[k] + Weight(k) ELSE s[k]
    BY <1>1, PartialSumsAre
  <2>2. \A k \in 0 .. m : k \in OneBits(n) <=> (n \div Pow2[k]) % 2 = 1
    BY DEF OneBits, Places
  <2> HIDE DEF s
  <2> QED
    BY <2>1, <2>2
<1>4. \A k \in 0 .. m : Pow2[k] \in Nat \ {0}
  BY <1>1, Pow2Defined
<1>5. \A k \in 0 .. m - 1 : Weight(k) = Pow2[k]
  BY PlacesOfBits
<1>6. n \in -Pow2[m] .. Pow2[m] - 1 /\ n \in Int
  BY <1>1, <1>4 DEF VarintBase
<1> HIDE DEF s, m
<1>7. 0 \in T
  <2>1. n % 1 = 0
    BY <1>6
  <2> QED
    BY <1>1, <1>2, <2>1, Pow2Defined
<1>8. \A k \in 0 .. m - 1 : k \in T => k + 1 \in T
  <2> SUFFICES ASSUME NEW k \in 0 .. m - 1, k \in T PROVE k + 1 \in T
    OBVIOUS
  <2>1. k \in 0 .. m /\ k + 1 \in 0 .. m /\ k \in Nat /\ Pow2[k] \in Nat
    BY <1>1, <1>4
  <2>2. s[k] = n % Pow2[k]
    OBVIOUS
  <2>3. s[k + 1] = IF (n \div Pow2[k]) % 2 = 1 THEN s[k] + Pow2[k] ELSE s[k]
    BY <1>3, <1>5, <2>1
  <2>4. n % Pow2[k] \in Int
    BY <1>4, <1>6, <2>1
  <2>5. s[k + 1] = n % Pow2[k + 1]
    BY <1>6, <2>1, <2>2, <2>3, <2>4, RestGrows
  <2> QED
    BY <2>1, <2>5
<1> HIDE DEF T
<1>9. m \in T
  BY <1>1, <1>7, <1>8, InductionUpTo
<1> DEFINE p == Pow2[m]
<1>10. s[m] = n % p /\ p \in Nat \ {0}
       /\ s[m + 1] = IF (n \div p) % 2 = 1 THEN s[m] - p ELSE s[m]
  <2>1. m \in 0 .. m /\ p \in Nat \ {0} /\ s[m] = n % p
    BY <1>1, <1>4, <1>9 DEF T
  <2>2. s[m] \in Int
    BY <1>6, <2>1
  <2>3. s[m + 1] = IF (n \div p) % 2 = 1 THEN s[m] + Weight(m) ELSE s[m]
    BY <1>3, <2>1
  <2> QED
    BY <1>1, <2>1, <2>2, <2>3
<1>11. n \in -p .. p - 1
  BY <1>6
<1> HIDE DEF p
<1>12. CASE n >= 0
  <2>1. n \in 0 .. p - 1
    BY <1>10, <1>11, <1>12
  <2>2. n \div p = 0 /\ n % p = n
    BY <1>10, <2>1
  <2> QED
    BY <1>2, <1>10, <2>2
<1>13. CASE n < 0
  <2> DEFINE e == -1
             r == n + p
  <2>1. n = e * p + r /\ r \in 0 .. p - 1 /\ e \in Int
    BY <1>10, <1>11, <1>13
  <2>2. e % 2 = 1
    <3>1. e = e * 2 + 1
      OBVIOUS
    <3> HIDE DEF e
    <3>2. 2 \in Nat \ {0} /\ 1 \in 0 .. 2 - 1
      OBVIOUS
    <3> QED
      BY <2>1, <3>1, <3>2
  <2> HIDE DEF e, r
  <2>3. n \div p = e /\ n % p = r
    BY <1>10, <2>1, DivisionIsUnique
  <2>4. s[m + 1] = r - p
    BY <1>10, <2>2, <2>3
  <2> QED
    BY <1>2, <1>6, <1>10, <2>4 DEF r
<1> QED
  BY <1>6, <1>12, <1>13

(* A mask of the lowest bits leaves the bits of a remainder.               *)
LEMMA BitsOfRest ==
  ASSUME NEW a \in VarintBase, NEW t \in Places
  PROVE  /\ a % Pow2[t] \in VarintBase
         /\ OneBits(a) \intersect OneBits(Pow2[t] - 1) = OneBits(a % Pow2[t])
<1> DEFINE p == Pow2[t]
           r == a % p
           h == a \div p
           m == BaseBits - 1
<1>1. /\ t \in Nat /\ m \in Nat /\ t <= m /\ p \in Nat \ {0} /\ Pow2[m] \in Nat
      /\ p <= Pow2[m]
  <2>1. t \in Nat /\ m \in Nat /\ t <= m
    BY PlacesOfBits DEF Places
  <2> HIDE DEF m
  <2> QED
    BY <2>1, Pow2Defined, Pow2Grows
<1>2. a \in Int
  BY <1>1 DEF VarintBase
<1>3. a = p * h + r /\ h \in Int /\ r \in 0 .. p - 1
  <2> HIDE DEF p
  <2> QED
    BY <1>1, <1>2, Division
<1>4. r \in VarintBase
  <2> HIDE DEF r, p
  <2> QED
    BY <1>1, <1>3 DEF VarintBase
<1>5. ASSUME NEW i \in Places
      PROVE  /\ i < t => /\ (a \div Pow2[i]) % 2 = (r \div Pow2[i]) % 2
                         /\ ((p - 1) \div Pow2[i]) % 2 = 1
             /\ t <= i => r \div Pow2[i] = 0 /\ (p - 1) \div Pow2[i] = 0
  <2> DEFINE w == Pow2[i]
  <2>1. i \in Nat /\ w \in Nat \ {0}
    BY Pow2Defined DEF Places
  <2>2. CASE t <= i
    <3>1. p <= w
      BY <1>1, <2>1, <2>2, Pow2Grows
    <3> HIDE DEF p, r, w
    <3>2. r \in 0 .. w - 1 /\ p - 1 \in 0 .. w - 1
      BY <1>1, <1>3, <2>1, <3>1
    <3>3. r \div w = 0
      BY <2>1, <3>2
    <3>4. (p - 1) \div w = 0
      <4> DEFINE u == p - 1
      <4>1. u \in 0 .. w - 1
        BY <3>2
      <4> HIDE DEF u
      <4>2. u \div w = 0
        BY <2>1, <4>1
      <4> QED
        BY <4>2 DEF u
    <3> QED
      BY <1>1, <2>1, <2>2, <3>3, <3>4 DEF w
  <2>3. CASE i < t
    <3> DEFINE d == t - (i + 1)
               q == Pow2[d]
    <3>1. d \in Nat /\ d + 1 + i = t /\ d + 1 \in Nat
      BY <1>1, <2>1, <2>3
    <3> HIDE DEF d
    <3>2. p = 2 * q * w /\ q \in Nat \ {0}
      <4>1. Pow2[(d + 1) + i] = Pow2[d + 1] * w
        BY <2>1, <3>1, Pow2Sum
      <4>2. Pow2[d + 1] = 2 * q /\ q \in Nat \ {0}
        BY <3>1, Pow2Defined
      <4> QED
        BY <3>1, <4>1, <4>2
    <3> HIDE DEF p, r, w, q, h
    <3>3. ((p - 1) \div w) % 2 = 1
      <4> DEFINE u == 2 * q - 1
                 z == w - 1
      <4>1. u \in Int /\ z \in 0 .. w - 1 /\ u = (q - 1) * 2 + 1 /\ q - 1 \in Int
        BY <2>1, <3>2
      <4>2. p - 1 = u * w + z
        BY <2>1, <3>2
      <4>3. u % 2 = 1
        <5> DEFINE l == q - 1
        <5>1. l \in Int /\ u = l * 2 + 1
          BY <4>1
        <5> HIDE DEF l, u
        <5> QED
          BY <5>1
      <4> HIDE DEF u, z
      <4>4. (p - 1) \div w = u
        BY <2>1, <4>1, <4>2, DivisionIsUnique
      <4> QED
        BY <4>3, <4>4
    <3>4. (a \div w) % 2 = (r \div w) % 2
      <4> DEFINE x == r \div w
                 y == r % w
                 u == q * h
      <4>1. r = w * x + y /\ x \in Int /\ y \in 0 .. w - 1
        BY <1>3, <2>1, Division
      <4> HIDE DEF x, y
      <4>2. p * h = (2 * u) * w /\ u \in Int
        <5>1. 2 * q * w * h = (2 * (q * h)) * w
          BY <1>3, <2>1, <3>2
        <5> QED
          BY <1>3, <3>2, <5>1
      <4> HIDE DEF u
      <4> DEFINE g == 2 * u + x
      <4>3. a = g * w + y /\ g \in Int
        <5>1. (2 * u + x) * w = (2 * u) * w + w * x
          BY <2>1, <4>1, <4>2
        <5> QED
          BY <1>2, <1>3, <2>1, <4>1, <4>2, <5>1
      <4>4. g % 2 = x % 2
        BY <4>1, <4>2
      <4> HIDE DEF g
      <4>5. a \div w = g
        BY <2>1, <4>1, <4>3, DivisionIsUnique
      <4> QED
        BY <4>4, <4>5 DEF x
    <3> QED
      BY <1>1, <2>1, <2>3, <3>3, <3>4 DEF w
  <2> QED
    BY <1>1, <2>1, <2>2, <2>3
<1>6. \A i \in Places : i < t \/ t <= i
  BY <1>1 DEF Places
<1> HIDE DEF p, r
<1>7. OneBits(a) \intersect OneBits(p - 1) = OneBits(r)
  <2>1. ASSUME NEW i \in Places
        PROVE  i \in OneBits(a) /\ i \in OneBits(p - 1) <=> i \in OneBits(r)
    <3>1. 0 % 2 = 0
      OBVIOUS
    <3> QED
      BY <1>5, <1>6, <3>1 DEF OneBits
  <2>2. OneBits(a) \subseteq Places /\ OneBits(r) \subseteq Places
    BY DEF OneBits
  <2> QED
    BY <2>1, <2>2
<1> QED
  BY <1>4, <1>7 DEF p, r

(* The quotient and the remainder make up the dividend.                    *)
LEMMA QuotientIs ==
  ASSUME NEW a \in Int, NEW t \in Int, t # 0
  PROVE  /\ a = Quotient(a, t) * t + Remainder(a, t)
         /\ Abs(Remainder(a, t)) < Abs(t)
<1> DEFINE x == Abs(a)
           y == Abs(t)
           q == x \div y
           r == x % y
<1>1. /\ x \in Nat /\ y \in Nat \ {0} /\ a = (IF a < 0 THEN -x ELSE x)
      /\ t = (IF t < 0 THEN -y ELSE y)
  BY DEF Abs
<1>2. /\ Quotient(a, t) = (IF (a < 0) = (t < 0) THEN 1 ELSE -1) * q
      /\ Remainder(a, t) = (IF a < 0 THEN -1 ELSE 1) * r
  BY DEF Quotient, Remainder
<1> HIDE DEF x, y
<1>3. x = y * q + r /\ q \in Nat /\ r \in 0 .. y - 1
  <2>1. /\ x = y * (x \div y) + (x % y)
        /\ x \div y \in Nat /\ x % y \in 0 .. y - 1
    <3>1. x \in Nat /\ x \in Int /\ y \in Nat \ {0}
      BY <1>1
    <3>2. x = y * (x \div y) + (x % y) /\ x % y \in 0 .. y - 1
      BY <3>1, Division
    <3>3. x \div y \in Nat
      BY <3>1, Division
    <3> QED
      BY <3>2, <3>3
  <2> QED
    BY <2>1
<1> HIDE DEF q, r
<1>4. /\ Quotient(a, t) = IF (a < 0) = (t < 0) THEN q ELSE -q
      /\ Remainder(a, t) = IF a < 0 THEN -r ELSE r
  BY <1>2, <1>3
<1>5. Abs(Remainder(a, t)) < Abs(t)
  <2>1. Abs(Remainder(a, t)) = r
    BY <1>1, <1>3, <1>4 DEF Abs
  <2> QED
    BY <1>1, <1>3, <2>1 DEF y
<1>6. a = Quotient(a, t) * t + Remainder(a, t)
  <2>1. (-q) * y = -(y * q) /\ q * (-y) = -(y * q) /\ (-q) * (-y) = y * q /\ q * y = y * q
        /\ y * q \in Int
    BY <1>1, <1>3
  <2>2. Quotient(a, t) * t = IF a < 0 THEN -(y * q) ELSE y * q
    <3>1. CASE a < 0 /\ t < 0
      BY <1>1, <1>4, <2>1, <3>1
    <3>2. CASE a < 0 /\ ~(t < 0)
      BY <1>1, <1>4, <2>1, <3>2
    <3>3. CASE ~(a < 0) /\ t < 0
      BY <1>1, <1>4, <2>1, <3>3
    <3>4. CASE ~(a < 0) /\ ~(t < 0)
      BY <1>1, <1>4, <2>1, <3>4
    <3> QED
      BY <3>1, <3>2, <3>3, <3>4
  <2> QED
    BY <1>1, <1>3, <1>4, <2>1, <2>2
<1> QED
  BY <1>5, <1>6

(* Division of a multiple.                                                 *)
LEMMA QuotientOfMultiple ==
  ASSUME NEW q \in Int, NEW p \in Nat \ {0}
  PROVE  Quotient(p * q, p) = q
<1> DEFINE n == p * q
           m == p * (-q)
<1>1. n \in Int /\ (n < 0 <=> q < 0) /\ -n = m
  OBVIOUS
<1>2. Abs(p) = p /\ ~(p < 0)
  BY DEF Abs
<1>3. n \div p = q
  <2>1. n = q * p + 0 /\ 0 \in 0 .. p - 1
    OBVIOUS
  <2> HIDE DEF n
  <2> QED
    BY <2>1, DivisionIsUnique
<1>4. m \div p = -q
  <2> DEFINE e == -q
  <2>1. m = e * p + 0 /\ 0 \in 0 .. p - 1 /\ e \in Int
    OBVIOUS
  <2> HIDE DEF m, e
  <2>2. m \div p = e
    BY <2>1, DivisionIsUnique
  <2> QED
    BY <2>2 DEF e
<1> HIDE DEF n, m
<1>5. CASE q < 0
  BY <1>1, <1>2, <1>4, <1>5 DEF Quotient, Abs
<1>6. CASE ~(q < 0)
  BY <1>1, <1>2, <1>3, <1>6 DEF Quotient, Abs
<1> QED
  BY <1>5, <1>6

-----------------------------------------------------------------------------
(* The operators                                                           *)

(* The bitwise operators, in terms of the arithmetic ones.                 *)
LEMMA BitwiseIs ==
  ASSUME NEW a \in VarintBase, NEW t \in VarintBase
  PROVE  /\ {Complement(a), And(a, t), Or(a, t), Xor(a, t)} \subseteq VarintBase
         /\ Complement(a) = -a - 1
         /\ And(a, t) + Or(a, t) = a + t
         /\ Xor(a, t) = Or(a, t) - And(a, t)
<1> DEFINE A == OneBits(a)
           B == OneBits(t)
<1>1. /\ BaseBits - 1 \in Nat /\ Pow2[BaseBits - 1] \in Nat \ {0}
      /\ \A n \in VarintBase : n \in Int
  BY PlacesOfBits, Pow2Defined DEF VarintBase
<1>2. 0 \in VarintBase /\ -1 \in VarintBase
  BY <1>1 DEF VarintBase
<1>3. {Complement(a), And(a, t), Or(a, t), Xor(a, t)} \subseteq VarintBase
  BY NumberOfType DEF Complement, And, Or, Xor
<1>4. NumberOf(A) = a /\ NumberOf(B) = t
  BY NumberOfBits
<1>5. NumberOf({}) = 0
  <2>1. \A k \in Places : Pow2[k] \in Nat \ {0}
    BY Pow2Defined DEF Places
  <2>2. \A k \in Places : (0 \div Pow2[k]) % 2 # 1
    BY <2>1
  <2>3. OneBits(0) = {}
    BY <2>2 DEF OneBits
  <2> QED
    BY <1>2, <2>3, NumberOfBits
<1>6. NumberOf(Places) = -1
  <2> DEFINE e == -1
  <2>1. ASSUME NEW k \in Places PROVE (e \div Pow2[k]) % 2 = 1
    <3> DEFINE p == Pow2[k]
               r == p - 1
    <3>1. p \in Nat \ {0} /\ r \in 0 .. p - 1 /\ e \in Int /\ e = e * p + r
      BY Pow2Defined DEF Places
    <3>2. e % 2 = 1
      <4>1. e = e * 2 + 1
        OBVIOUS
      <4> HIDE DEF e
      <4>2. 2 \in Nat \ {0} /\ 1 \in 0 .. 2 - 1
        OBVIOUS
      <4> QED
        BY <3>1, <4>1, <4>2
    <3> HIDE DEF e, p, r
    <3>3. e \div p = e
      BY <3>1, DivisionIsUnique
    <3> QED
      BY <3>2, <3>3 DEF p
  <2>2. OneBits(e) = Places
    <3> HIDE DEF e
    <3> QED
      BY <2>1 DEF OneBits
  <2>3. NumberOf(OneBits(e)) = e
    BY <1>2, NumberOfBits
  <2> QED
    BY <2>2, <2>3
<1>7. A \subseteq Places /\ B \subseteq Places
  BY DEF OneBits
<1> HIDE DEF A, B
<1>8. And(a, t) + Or(a, t) = a + t
  <2>1. NumberOf(A \intersect B) + NumberOf(A \union B) = NumberOf(A) + NumberOf(B)
    BY SumsAgree
  <2> QED
    BY <1>4, <2>1 DEF And, Or, A, B
<1>9. Xor(a, t) = Or(a, t) - And(a, t)
  <2>1. NumberOf((A \union B) \ (A \intersect B)) + NumberOf(A \intersect B)
          = NumberOf(A \union B) + NumberOf({})
    BY SumsAgree
  <2>2. Xor(a, t) + And(a, t) = Or(a, t) + 0
    BY <1>5, <2>1 DEF Xor, And, Or, A, B
  <2>3. Xor(a, t) \in Int /\ And(a, t) \in Int /\ Or(a, t) \in Int
    BY <1>1, <1>3
  <2> QED
    BY <2>2, <2>3
<1>10. Complement(a) = -a - 1
  <2>1. NumberOf(Places \ A) + NumberOf(A) = NumberOf(Places) + NumberOf({})
    BY <1>7, SumsAgree
  <2>2. Complement(a) + a = -1 + 0
    BY <1>4, <1>5, <1>6, <2>1 DEF Complement, A
  <2>3. Complement(a) \in Int /\ a \in Int
    BY <1>1, <1>3
  <2> QED
    BY <2>2, <2>3
<1> QED
  BY <1>3, <1>8, <1>9, <1>10

(* Shifts multiply and divide.                                             *)
LEMMA ShiftsAre ==
  ASSUME NEW a \in VarintBase, NEW t \in Places
  PROVE  /\ ShiftRight(a, t) = Quotient(a - And(a, Pow2[t] - 1), Pow2[t])
         /\ ShiftRight(ShiftLeft(a, t), t) = a
<1> DEFINE p == Pow2[t]
           q == a \div p
           r == a % p
<1>1. p \in Nat \ {0}
  BY Pow2Defined DEF Places
<1>2. a \in Int
  BY PlacesOfBits, Pow2Defined DEF VarintBase
<1>3. And(a, p - 1) = r
  <2>1. NumberOf(OneBits(a % Pow2[t])) = a % Pow2[t]
    BY BitsOfRest, NumberOfBits
  <2> QED
    BY <2>1, BitsOfRest DEF And
<1>4. ShiftRight(a, t) = q /\ ShiftRight(ShiftLeft(a, t), t) = (a * p) \div p
  BY DEF ShiftRight, ShiftLeft
<1> HIDE DEF p
<1>5. a = p * q + r /\ q \in Int /\ r \in 0 .. p - 1
  BY <1>1, <1>2, Division
<1> HIDE DEF q, r
<1>6. a - r = p * q
  BY <1>1, <1>2, <1>5
<1>7. Quotient(a - r, p) = q
  BY <1>1, <1>5, <1>6, QuotientOfMultiple
<1>8. (a * p) \div p = a
  <2> DEFINE n == a * p
  <2>1. n = a * p + 0 /\ 0 \in 0 .. p - 1
    BY <1>1, <1>2
  <2> HIDE DEF n
  <2>2. n \div p = a
    BY <1>1, <1>2, <2>1, DivisionIsUnique
  <2> QED
    BY <2>2 DEF n
<1> QED
  BY <1>3, <1>4, <1>7, <1>8 DEF p

(* Both operands are of the type.                                          *)
Operands == v1 \in VarintBase /\ v2 \in VarintBase

(* No operator assigns what the type does not have.                        *)
LEMMA VarintInductive == VarintSpec => []Operands
<1>1. VarintInit => Operands
  BY PlacesOfBits, Pow2Defined DEF VarintInit, Operands, VarintBase
<1>2. Operands /\ [VarintNext]_varint_vars => Operands'
  BY DEF Operands, VarintNext, varint_vars, Convert, Negate, Invert, AddAssign, SubAssign,
         MulAssign, DivAssign, ModAssign, AndAssign, OrAssign, XorAssign, ShlAssign, ShrAssign,
         Assign
<1> QED
  BY <1>1, <1>2, PTL DEF VarintSpec

(* Whatever a client computes with varints of any width: the operators     *)
(* agree with each other.                                                  *)
THEOREM OperatorsFitTogether == VarintSpec => []OperatorsAgree
<1>1. Operands => OperatorsAgree
  <2> SUFFICES ASSUME Operands PROVE OperatorsAgree
    OBVIOUS
  <2>1. v1 \in VarintBase /\ v2 \in VarintBase
    BY DEF Operands
  <2>2. v1 \in Int /\ v2 \in Int
    BY <2>1, PlacesOfBits, Pow2Defined DEF VarintBase
  <2>3. v2 # 0 => /\ v1 = Quotient(v1, v2) * v2 + Remainder(v1, v2)
                  /\ Abs(Remainder(v1, v2)) < Abs(v2)
    BY <2>2, QuotientIs
  <2>4. /\ {Complement(v1), And(v1, v2), Or(v1, v2), Xor(v1, v2)} \subseteq VarintBase
        /\ Complement(v1) = -v1 - 1
        /\ And(v1, v2) + Or(v1, v2) = v1 + v2
        /\ Xor(v1, v2) = Or(v1, v2) - And(v1, v2)
    BY <2>1, BitwiseIs
  <2>5. v2 \in Places =>
          /\ ShiftRight(v1, v2) = Quotient(v1 - And(v1, Pow2[v2] - 1), Pow2[v2])
          /\ ShiftRight(ShiftLeft(v1, v2), v2) = v1
    BY <2>1, ShiftsAre
  <2>6. /\ IsLess(v1, v2) <=> ~IsEqual(v1, v2) /\ ~IsGreater(v1, v2)
        /\ IsGreater(v1, v2) => ~IsEqual(v1, v2)
        /\ IsDifferent(v1, v2) <=> ~IsEqual(v1, v2)
    BY <2>2 DEF IsLess, IsEqual, IsGreater, IsDifferent
  <2> QED
    BY <2>3, <2>4, <2>5, <2>6 DEF OperatorsAgree
<1> QED
  BY <1>1, VarintInductive, PTL

-----------------------------------------------------------------------------
(* Urls                                                                    *)

(* Two sequences side by side.                                             *)
LEMMA TwoParts ==
  ASSUME NEW S, NEW a \in Seq(S), NEW b \in Seq(S)
  PROVE  /\ a \o b \in Seq(S) /\ Len(a \o b) = Len(a) + Len(b)
         /\ \A i \in 1 .. Len(a) : (a \o b)[i] = a[i]
         /\ \A i \in 1 .. Len(b) : (a \o b)[Len(a) + i] = b[i]
<1>1. /\ a \o b \in Seq(S) /\ Len(a \o b) = Len(a) + Len(b)
      /\ \A i \in 1 .. Len(a) + Len(b) :
           (a \o b)[i] = IF i <= Len(a) THEN a[i] ELSE b[i - Len(a)]
  BY ConcatProperties
<1>2. Len(a) \in Nat /\ Len(b) \in Nat
  OBVIOUS
<1>3. \A i \in 1 .. Len(a) : (a \o b)[i] = a[i]
  BY <1>1, <1>2
<1>4. \A i \in 1 .. Len(b) : (a \o b)[Len(a) + i] = b[i]
  <2> TAKE i \in 1 .. Len(b)
  <2>1. Len(a) + i \in 1 .. Len(a) + Len(b) /\ ~(Len(a) + i <= Len(a))
        /\ (Len(a) + i) - Len(a) = i
    BY <1>2
  <2> QED
    BY <1>1, <2>1
<1> QED
  BY <1>1, <1>3, <1>4

(* A function of the first numbers is a sequence.                          *)
LEMMA Listed ==
  ASSUME NEW S, NEW n \in Nat, NEW f \in [1 .. n -> S]
  PROVE  f \in Seq(S) /\ Len(f) = n /\ DOMAIN f = 1 .. n
OBVIOUS

(* A sequence of some values is one of more values.                        *)
LEMMA Widened ==
  ASSUME NEW A, NEW B, A \subseteq B, NEW s \in Seq(A)
  PROVE  s \in Seq(B)
OBVIOUS

(* Where a letter is found first, and that it is nowhere.                  *)
FirstAt(s, c, start, p) ==
  p \in start .. Len(s) /\ s[p] = Plain(c) /\ \A i \in start .. p - 1 : s[i] # Plain(c)

NoneFrom(s, c, start) == \A i \in start .. Len(s) : s[i] # Plain(c)

(* find_first_of() of a text with no such letter.                          *)
LEMMA NothingFound ==
  ASSUME NEW S, NEW s \in Seq(S), NEW c, NEW start \in Nat, NoneFrom(s, c, start)
  PROVE  FindFirst(s, c, start) = NPos
<1>1. {i \in Occurrences(s, c) : i >= start} = {}
  BY DEF NoneFrom, Occurrences
<1> QED
  BY <1>1 DEF FindFirst

(* find_first_of() finds the first one.                                    *)
LEMMA FirstFound ==
  ASSUME NEW S, NEW s \in Seq(S), NEW c, NEW start \in Nat \ {0}, NEW p,
         FirstAt(s, c, start, p)
  PROVE  FindFirst(s, c, start) = p /\ p # NPos
<1> DEFINE T == {i \in Occurrences(s, c) : i >= start}
<1>1. T \in SUBSET Nat /\ p \in T
  BY DEF FirstAt, Occurrences
<1>2. \A i \in T : p <= i
  BY DEF FirstAt, Occurrences
<1>3. Min(T) = p
  <2> HIDE DEF T
  <2> QED
    BY <1>1, <1>2, MinIs
<1>4. FindFirst(s, c, start) = p
  BY <1>1, <1>3 DEF FindFirst
<1> QED
  BY <1>4 DEF FirstAt, NPos

(* find_first_of() finds the first one or none.                            *)
LEMMA FoundFirst ==
  ASSUME NEW S, NEW s \in Seq(S), NEW c, NEW start \in Nat \ {0}
  PROVE  \/ FindFirst(s, c, start) = NPos /\ NoneFrom(s, c, start)
         \/ /\ FindFirst(s, c, start) # NPos
            /\ FirstAt(s, c, start, FindFirst(s, c, start))
<1> DEFINE T == {i \in Occurrences(s, c) : i >= start}
<1>1. CASE NoneFrom(s, c, start)
  BY <1>1, NothingFound
<1>2. CASE ~NoneFrom(s, c, start)
  <2>1. T \in SUBSET Nat /\ T # {}
    BY <1>2 DEF NoneFrom, Occurrences
  <2>2. PICK p \in T : \A i \in T : p <= i
    <3> HIDE DEF T
    <3> QED
      BY <2>1, Least
  <2>3. FirstAt(s, c, start, p)
    BY <2>2 DEF FirstAt, Occurrences
  <2> QED
    BY <2>3, FirstFound
<1> QED
  BY <1>1, <1>2

(* Letters of some characters, written in whatever way, and plain ones.    *)
LetterOf(C) == [char : C, percent : {FALSE}] \union [char : Escapable, percent : {TRUE}]
PlainOf(C)  == [char : C, percent : {FALSE}]

(* Characters that parsing and printing do not add to.                     *)
ClosedChars(C) ==
  /\ C \subseteq UrlChars /\ Escapable \subseteq C /\ One \in C
  /\ \A c \in Capitals : LowerOf[c] \in C

(* What is encoded: the delimiters but the slash, and no capitals.         *)
LEMMA EncodedChars ==
  /\ Encodable \subseteq Escapable /\ Escapable \subseteq UrlChars \ {"/"}
  /\ UrlDelimiters \ {"/"} \subseteq Encodable
  /\ Escapable \intersect Capitals = {} /\ Yes \notin Escapable
  /\ \A c \in Encodable : EncodedAs[c] \in Escapable
<1>1. /\ "/" \notin Encodable /\ Encodable \subseteq UrlChars
      /\ Encodable \intersect Capitals = {} /\ Yes \notin Encodable
  BY UrlAssumption DEF Encodable, UrlDelimiters
<1>2. UrlDelimiters \ {"/"} \subseteq Encodable
  BY UrlAssumption DEF Encodable
<1>3. \A c \in Encodable : /\ EncodedAs[c] \in UrlChars \ {"/"} /\ EncodedAs[c] \notin Capitals
                            /\ EncodedAs[c] # Yes
  BY UrlAssumption
<1> QED
  BY <1>1, <1>2, <1>3 DEF Escapable

(* All characters, and all but the slash, are such sets.                   *)
LEMMA ClosedSets == ClosedChars(UrlChars) /\ ClosedChars(UrlChars \ {"/"})
<1>1. Escapable \subseteq UrlChars \ {"/"}
  BY EncodedChars
<1>2. One \in UrlChars \ {"/"} /\ \A c \in Capitals : LowerOf[c] \in UrlChars \ {"/"}
  <2>1. One \in UrlChars \ {"/"}
    BY UrlAssumption
  <2>2. ASSUME NEW c \in Capitals PROVE LowerOf[c] \in UrlChars \ {"/"}
    BY UrlAssumption
  <2> QED
    BY <2>1, <2>2
<1> QED
  BY <1>1, <1>2 DEF ClosedChars

(* A letter is plain if it has no percent sign.                            *)
LEMMA LettersAre ==
  ASSUME NEW C, NEW l \in LetterOf(C)
  PROVE  /\ l.percent \in BOOLEAN
         /\ ~l.percent => l.char \in C /\ l = Plain(l.char) /\ l \in PlainOf(C)
         /\ l.percent => l.char \in Escapable /\ l = Encoded(l.char)
BY DEF LetterOf, PlainOf, Plain, Encoded

(* A letter of some character, and an encoded one.                         *)
LEMMA MakesLetter ==
  ASSUME NEW C
  PROVE  /\ \A c \in C : /\ Plain(c) \in LetterOf(C) /\ Plain(c) \in PlainOf(C)
                        /\ Plain(c).char = c /\ Plain(c).percent = FALSE
         /\ \A c \in Escapable : /\ Encoded(c) \in LetterOf(C) /\ Encoded(c).char = c
                                /\ Encoded(c).percent = TRUE
BY DEF LetterOf, PlainOf, Plain, Encoded

(* A plain letter is one of the letters.                                   *)
LEMMA PlainAre ==
  ASSUME NEW C, NEW l \in PlainOf(C)
  PROVE  l \in LetterOf(C) /\ l.char \in C /\ l.percent = FALSE /\ l = Plain(l.char)
BY DEF LetterOf, PlainOf, Plain

(* urldecode() makes plain letters of all.                                 *)
LEMMA UnescapedIs ==
  ASSUME NEW C, Escapable \subseteq C, NEW s \in Seq(LetterOf(C))
  PROVE  /\ Unescaped(s) \in Seq(PlainOf(C)) /\ Len(Unescaped(s)) = Len(s)
         /\ \A i \in 1 .. Len(s) : Unescaped(s)[i] = Plain(s[i].char)
<1>1. Len(s) \in Nat /\ DOMAIN s = 1 .. Len(s) /\ \A i \in 1 .. Len(s) : s[i] \in LetterOf(C)
  OBVIOUS
<1>2. \A i \in 1 .. Len(s) : Plain(s[i].char) \in PlainOf(C)
  BY <1>1, LettersAre DEF Plain, PlainOf
<1>3. Unescaped(s) = [i \in 1 .. Len(s) |-> Plain(s[i].char)]
  BY <1>1 DEF Unescaped
<1> QED
  BY <1>1, <1>2, <1>3

(* urlencode() leaves no delimiter but the slash.  It is undone where it   *)
(* prints all characters as themselves.                                    *)
LEMMA EscapedIs ==
  ASSUME NEW C, Escapable \subseteq C, C \subseteq UrlChars, NEW s \in Seq(PlainOf(C))
  PROVE  /\ Escaped(s) \in Seq(LetterOf(C \ Encodable)) /\ Len(Escaped(s)) = Len(s)
         /\ \A i \in 1 .. Len(s) : s[i].char \notin Encodable => Escaped(s)[i] = s[i]
         /\ ComesBack(s) => Unescaped(Escaped(s)) = s
<1> DEFINE e == Escaped(s)
<1>1. Len(s) \in Nat /\ DOMAIN s = 1 .. Len(s) /\ \A i \in 1 .. Len(s) : s[i] \in PlainOf(C)
  OBVIOUS
<1>2. e = [i \in 1 .. Len(s) |->
             IF s[i].char \in UrlKept THEN s[i] ELSE Encoded(EncodedAs[s[i].char])]
  BY <1>1 DEF Escaped
<1> HIDE DEF e
<1>3. ASSUME NEW i \in 1 .. Len(s)
      PROVE  /\ e[i] \in LetterOf(C \ Encodable)
             /\ s[i].char \notin Encodable => e[i] = s[i]
             /\ ComesBack(s) => Plain(e[i].char) = s[i]
  <2>1. s[i].char \in C /\ s[i].percent = FALSE /\ s[i] = Plain(s[i].char)
    BY <1>1, PlainAre
  <2>2. CASE s[i].char \in Encodable
    <3>1. s[i].char \notin UrlKept
      BY <2>2 DEF Encodable
    <3>2. e[i] = Encoded(EncodedAs[s[i].char])
      BY <1>2, <3>1
    <3>3. EncodedAs[s[i].char] \in Escapable
      BY <2>2, EncodedChars
    <3>4. \A c \in Escapable : Encoded(c) \in LetterOf(C \ Encodable) /\ Encoded(c).char = c
      BY MakesLetter
    <3>5. ComesBack(s) => EncodedAs[s[i].char] = s[i].char
      BY <1>1, <2>2 DEF ComesBack
    <3> QED
      BY <2>1, <2>2, <3>2, <3>3, <3>4, <3>5
  <2>3. CASE s[i].char \notin Encodable
    <3>1. s[i].char \in UrlKept
      BY <2>1, <2>3 DEF Encodable
    <3>2. e[i] = s[i]
      BY <1>2, <3>1
    <3>3. s[i].char \in C \ Encodable
      BY <2>1, <2>3
    <3>4. Plain(s[i].char) \in LetterOf(C \ Encodable)
      BY <3>3, MakesLetter
    <3> QED
      BY <2>1, <3>2, <3>4
  <2> QED
    BY <2>2, <2>3
<1>4. e \in Seq(LetterOf(C \ Encodable)) /\ Len(e) = Len(s) /\ DOMAIN e = 1 .. Len(s)
  <2>1. e \in [1 .. Len(s) -> LetterOf(C \ Encodable)]
    BY <1>2, <1>3
  <2> QED
    BY <1>1, <2>1, Listed
<1>5. ASSUME ComesBack(s) PROVE Unescaped(e) = s
  <2>1. Unescaped(e) = [i \in 1 .. Len(s) |-> Plain(e[i].char)]
    BY <1>4 DEF Unescaped
  <2>2. s = [i \in 1 .. Len(s) |-> s[i]]
    BY <1>1
  <2> QED
    BY <1>3, <1>5, <2>1, <2>2
<1> QED
  BY <1>3, <1>4, <1>5 DEF e

(* to_lower() leaves no capital, and what has none as it is.               *)
LEMMA InLowerIs ==
  ASSUME NEW C, ClosedChars(C), NEW s \in Seq(LetterOf(C))
  PROVE  /\ InLower(s) \in Seq(LetterOf(C \ Capitals)) /\ Len(InLower(s)) = Len(s)
         /\ s \in Seq(LetterOf(C \ Capitals)) => InLower(s) = s
<1>1. Len(s) \in Nat /\ DOMAIN s = 1 .. Len(s) /\ \A i \in 1 .. Len(s) : s[i] \in LetterOf(C)
  OBVIOUS
<1>2. InLower(s) = [i \in 1 .. Len(s) |->
                      IF s[i].char \in Capitals /\ ~s[i].percent
                      THEN Plain(LowerOf[s[i].char]) ELSE s[i]]
  BY <1>1 DEF InLower
<1>3. \A i \in 1 .. Len(s) : InLower(s)[i] \in LetterOf(C \ Capitals)
  <2> TAKE i \in 1 .. Len(s)
  <2>1. CASE s[i].char \in Capitals /\ ~s[i].percent
    <3>1. InLower(s)[i] = Plain(LowerOf[s[i].char])
      BY <1>2, <2>1
    <3>2. LowerOf[s[i].char] \in C \ Capitals
      BY <2>1, UrlAssumption DEF ClosedChars
    <3> QED
      BY <3>1, <3>2 DEF Plain, LetterOf
  <2>2. CASE ~(s[i].char \in Capitals /\ ~s[i].percent)
    <3>1. InLower(s)[i] = s[i]
      BY <1>2, <2>2
    <3>2. s[i] \in LetterOf(C)
      BY <1>1
    <3> QED
      BY <2>2, <3>1, <3>2 DEF LetterOf
  <2> QED
    BY <2>1, <2>2
<1>4. ASSUME s \in Seq(LetterOf(C \ Capitals)) PROVE InLower(s) = s
  <2>1. \A i \in 1 .. Len(s) : ~(s[i].char \in Capitals /\ ~s[i].percent)
    <3> TAKE i \in 1 .. Len(s)
    <3>1. s[i] \in LetterOf(C \ Capitals)
      BY <1>1, <1>4
    <3> QED
      BY <3>1, LettersAre
  <2>2. s = [i \in 1 .. Len(s) |-> s[i]]
    BY <1>1
  <2> QED
    BY <1>2, <2>1, <2>2
<1>5. InLower(s) \in [1 .. Len(s) -> LetterOf(C \ Capitals)]
  BY <1>2, <1>3
<1>6. InLower(s) \in Seq(LetterOf(C \ Capitals)) /\ Len(InLower(s)) = Len(s)
  BY <1>1, <1>5, Listed
<1> QED
  BY <1>4, <1>6

(* substr() within a text.                                                 *)
LEMMA SubStrIs ==
  ASSUME NEW S, NEW s \in Seq(S), NEW a \in 1 .. Len(s) + 1, NEW b \in a .. Len(s) + 1
  PROVE  /\ SubStr(s, a, b) \in Seq(S) /\ Len(SubStr(s, a, b)) = b - a
         /\ \A i \in 1 .. b - a : SubStr(s, a, b)[i] = s[a + i - 1]
<1>1. SubStr(s, a, b) = SubSeq(s, a, b - 1)
  BY DEF SubStr
<1>2. a \in Int /\ b - 1 \in Int /\ \A i \in a .. b - 1 : s[i] \in S
  OBVIOUS
<1>3. /\ SubSeq(s, a, b - 1) \in Seq(S)
      /\ Len(SubSeq(s, a, b - 1)) = IF a <= b - 1 THEN b - 1 - a + 1 ELSE 0
      /\ \A i \in 1 .. b - 1 - a + 1 : SubSeq(s, a, b - 1)[i] = s[a + i - 1]
  BY <1>2, SubSeqProperties
<1>4. Len(SubSeq(s, a, b - 1)) = b - a /\ b - 1 - a + 1 = b - a
  BY <1>3
<1> QED
  BY <1>1, <1>3, <1>4

(* The first position of a letter or some later one.                       *)
LEMMA FirstOrElse ==
  ASSUME NEW S, NEW s \in Seq(S), NEW c, NEW start \in 1 .. Len(s) + 1,
         NEW default \in start .. Len(s) + 1
  PROVE  /\ FirstOr(s, c, start, default) \in start .. Len(s) + 1
         /\ \/ FirstAt(s, c, start, FirstOr(s, c, start, default))
            \/ /\ NoneFrom(s, c, start)
               /\ FirstOr(s, c, start, default) = default
<1>1. start \in Nat \ {0} /\ Len(s) \in Nat
  OBVIOUS
<1>2. CASE FindFirst(s, c, start) = NPos /\ NoneFrom(s, c, start)
  BY <1>1, <1>2 DEF FirstOr
<1>3. CASE /\ FindFirst(s, c, start) # NPos
           /\ FirstAt(s, c, start, FindFirst(s, c, start))
  <2>1. FirstOr(s, c, start, default) = FindFirst(s, c, start)
    BY <1>3 DEF FirstOr
  <2> QED
    BY <1>1, <1>3, <2>1 DEF FirstAt
<1> QED
  BY <1>1, <1>2, <1>3, FoundFirst

(* The largest of some numbers.                                            *)
LEMMA MaxIs ==
  ASSUME NEW n \in Nat, NEW T \in SUBSET (0 .. n), T # {}
  PROVE  Max(T) \in T /\ \A i \in T : i <= Max(T)
<1> DEFINE D == {n - i : i \in T}
           IsLast(m) == \A i \in T : m >= i
<1>1. D \in SUBSET Nat /\ D # {}
  <2>1. \A i \in T : n - i \in Nat
    OBVIOUS
  <2>2. PICK i \in T : TRUE
    OBVIOUS
  <2>3. n - i \in D
    OBVIOUS
  <2> QED
    BY <2>1, <2>3
<1>2. PICK d \in D : \A i \in 0 .. d - 1 : i \notin D
  <2> HIDE DEF D
  <2> QED
    BY <1>1, Least
<1>3. PICK m \in T : d = n - m
  BY <1>2
<1>4. IsLast(m)
  <2>1. ASSUME NEW i \in T PROVE m >= i
    <3>1. n - i \in D /\ n - i \in Nat /\ d \in Nat
      BY <1>1, <1>2
    <3>2. ~(n - i \in 0 .. d - 1)
      BY <1>2, <3>1
    <3> QED
      BY <1>3, <3>1, <3>2
  <2> QED
    BY <2>1
<1>5. Max(T) = CHOOSE i \in T : IsLast(i)
  BY DEF Max
<1> HIDE DEF IsLast
<1>6. Max(T) \in T /\ IsLast(Max(T))
  BY <1>3, <1>4, <1>5
<1>7. \A i \in T : Max(T) >= i
  BY <1>6 DEF IsLast
<1> QED
  BY <1>6, <1>7

(* Lower case characters, and what is parsed of them.                      *)
Low(C) == C \ Capitals

(* What is encoded is not capital.                                         *)
LEMMA LowIs ==
  ASSUME NEW C, ClosedChars(C)
  PROVE  /\ Escapable \subseteq Low(C) /\ One \in Low(C) /\ ClosedChars(Low(C))
         /\ Yes \notin Escapable /\ One # Yes
BY EncodedChars, UrlAssumption DEF ClosedChars, Low

(* A parsed query.                                                         *)
QueryOf(C, q) ==
  /\ IsFiniteSet(DOMAIN q) /\ DOMAIN q # {}
  /\ q = [k \in DOMAIN q |-> q[k]]
  /\ \A k \in DOMAIN q : /\ k \in Seq(PlainOf(Low(C)))
                         /\ q[k] \in Seq(PlainOf(Low(C))) /\ q[k] # <<Plain(Yes)>>

(* A normalized value has no capitals, and is not the word for one.        *)
LEMMA NormalizedIs ==
  ASSUME NEW C, ClosedChars(C), NEW s \in Seq(LetterOf(C))
  PROVE  /\ Unescaped(NormalizeValue(s)) \in Seq(PlainOf(Low(C)))
         /\ Unescaped(NormalizeValue(s)) # <<Plain(Yes)>>
<1> DEFINE w == InLower(s)
           one == <<Plain(One)>>
<1>1. w \in Seq(LetterOf(Low(C)))
  BY InLowerIs DEF Low
<1>2. Plain(One) \in LetterOf(Low(C)) /\ Plain(One).char = One
  BY LowIs, MakesLetter
<1>3. one \in Seq(LetterOf(Low(C))) /\ Len(one) = 1 /\ one[1] = Plain(One)
  BY <1>2
<1>4. Plain(One) # Plain(Yes)
  BY LowIs DEF Plain
<1>5. CASE w = <<Plain(Yes)>>
  <2>1. NormalizeValue(s) = one
    BY <1>5 DEF NormalizeValue
  <2> HIDE DEF one
  <2>2. /\ Unescaped(one) \in Seq(PlainOf(Low(C)))
        /\ \A i \in 1 .. Len(one) : Unescaped(one)[i] = Plain(one[i].char)
    BY <1>3, LowIs, UnescapedIs
  <2>3. Unescaped(one)[1] = Plain(One)
    BY <1>2, <1>3, <2>2
  <2>4. <<Plain(Yes)>>[1] = Plain(Yes)
    OBVIOUS
  <2> QED
    BY <1>4, <2>1, <2>2, <2>3, <2>4
<1>6. CASE w # <<Plain(Yes)>>
  <2>1. NormalizeValue(s) = w
    BY <1>6 DEF NormalizeValue
  <2> HIDE DEF w
  <2>2. /\ Unescaped(w) \in Seq(PlainOf(Low(C))) /\ Len(Unescaped(w)) = Len(w)
        /\ \A i \in 1 .. Len(w) : Unescaped(w)[i] = Plain(w[i].char)
    BY <1>1, LowIs, UnescapedIs
  <2>3. ASSUME Unescaped(w) = <<Plain(Yes)>> PROVE FALSE
    <3>1. Len(w) = 1 /\ Plain(w[1].char) = Plain(Yes)
      <4>1. Len(<<Plain(Yes)>>) = 1 /\ <<Plain(Yes)>>[1] = Plain(Yes)
        OBVIOUS
      <4>2. Len(w) = 1
        <5>1. Len(Unescaped(w)) = Len(<<Plain(Yes)>>)
          BY <2>3
        <5> QED
          BY <2>2, <4>1, <5>1
      <4>3. 1 \in 1 .. Len(w)
        BY <4>2
      <4> QED
        BY <2>2, <2>3, <4>1, <4>2, <4>3
    <3>2. w[1].char = Yes
      BY <3>1 DEF Plain
    <3>3. w[1] \in LetterOf(Low(C))
      <4> DEFINE S == LetterOf(Low(C))
      <4>1. w \in Seq(S) /\ 1 \in 1 .. Len(w)
        BY <1>1, <3>1
      <4> HIDE DEF S
      <4>2. w[1] \in S
        BY <4>1
      <4> QED
        BY <4>2 DEF S
    <3>4. w[1] = Plain(Yes)
      <4>1. CASE w[1].percent
        BY <3>2, <3>3, <4>1, LettersAre, LowIs
      <4>2. CASE ~w[1].percent
        BY <3>2, <3>3, <4>2, LettersAre
      <4> QED
        BY <4>1, <4>2
    <3>5. w = <<Plain(Yes)>>
      BY <1>1, <3>1, <3>4
    <3> QED
      BY <1>6, <3>5
  <2> QED
    BY <2>1, <2>2, <2>3
<1> QED
  BY <1>5, <1>6

(* A key and a value have no capitals.                                     *)
LEMMA ParameterIs ==
  ASSUME NEW C, ClosedChars(C), NEW s \in Seq(LetterOf(C)), NEW start \in 1 .. Len(s) + 1
  PROVE  /\ Key(s, start) \in Seq(PlainOf(Low(C)))
         /\ Value(s, start) \in Seq(PlainOf(Low(C))) /\ Value(s, start) # <<Plain(Yes)>>
<1>1. /\ ParameterEnd(s, start) \in start .. Len(s) + 1
      /\ KeyEnd(s, start) \in start .. Len(s) + 1
  <2>1. Len(s) + 1 \in start .. Len(s) + 1
    OBVIOUS
  <2> QED
    BY <2>1, FirstOrElse DEF ParameterEnd, KeyEnd
<1> DEFINE end == IF HasValue(s, start) THEN KeyEnd(s, start) ELSE ParameterEnd(s, start)
           key == SubStr(s, start, end)
           val == SubStr(s, KeyEnd(s, start) + 1, ParameterEnd(s, start))
<1>2. Key(s, start) \in Seq(PlainOf(Low(C)))
  <2>1. end \in start .. Len(s) + 1
    BY <1>1
  <2>2. Key(s, start) = Unescaped(InLower(key))
    BY DEF Key
  <2> HIDE DEF end
  <2>3. key \in Seq(LetterOf(C))
    BY <2>1, SubStrIs
  <2> HIDE DEF key
  <2>4. InLower(key) \in Seq(LetterOf(Low(C)))
    BY <2>3, InLowerIs DEF Low
  <2> QED
    BY <2>2, <2>4, LowIs, UnescapedIs
<1>3. CASE HasValue(s, start)
  <2>1. /\ KeyEnd(s, start) + 1 \in 1 .. Len(s) + 1
        /\ ParameterEnd(s, start) \in KeyEnd(s, start) + 1 .. Len(s) + 1
    BY <1>1, <1>3 DEF HasValue
  <2>2. Value(s, start) = Unescaped(NormalizeValue(val))
    BY <1>3 DEF Value
  <2>3. val \in Seq(LetterOf(C))
    BY <2>1, SubStrIs
  <2> HIDE DEF val
  <2> QED
    BY <1>2, <2>2, <2>3, NormalizedIs
<1>4. CASE ~HasValue(s, start)
  <2>1. Value(s, start) = <<Plain(One)>>
    BY <1>4 DEF Value
  <2>2. Plain(One) \in PlainOf(Low(C)) /\ Plain(One) # Plain(Yes)
    <3>1. One \in Low(C) /\ One # Yes
      BY LowIs
    <3> QED
      BY <3>1, MakesLetter DEF Plain
  <2>3. <<Plain(One)>> \in Seq(PlainOf(Low(C))) /\ <<Plain(One)>> # <<Plain(Yes)>>
    BY <2>2
  <2> QED
    BY <1>2, <2>1, <2>3
<1> QED
  BY <1>3, <1>4

(* What split_query() returns is a query.                                  *)
LEMMA QueryParsed ==
  ASSUME NEW C, ClosedChars(C), NEW s \in Seq(LetterOf(C))
  PROVE  QueryOf(C, SplitQuery(s))
<1> DEFINE starts == ParameterStarts(s)
           With(key) == {start \in starts : Key(s, start) = key}
           keys == {Key(s, start) : start \in starts}
           q == SplitQuery(s)
<1>1. Len(s) \in Nat /\ starts \subseteq 1 .. Len(s) + 1 /\ 1 \in starts
  BY DEF ParameterStarts, Occurrences
<1>2. q = [key \in keys |-> Value(s, Max(With(key)))]
  BY DEF SplitQuery
<1>3. IsFiniteSet(keys)
  <2> DEFINE f == [start \in starts |-> Key(s, start)]
  <2>1. IsFiniteSet(starts)
    <3>1. IsFiniteSet(1 .. Len(s) + 1)
      BY <1>1, FS_Interval
    <3> HIDE DEF starts
    <3> QED
      BY <1>1, <3>1, FS_Subset
  <2>2. f \in Surjection(starts, keys)
    <3> HIDE DEF starts
    <3> QED
      BY DEF Surjection
  <2> HIDE DEF f, starts, keys
  <2> QED
    BY <2>1, <2>2, FS_Surjection
<1>4. keys # {}
  <2>1. Key(s, 1) \in keys
    BY <1>1
  <2> QED
    BY <2>1
<1> HIDE DEF starts
<1>5. ASSUME NEW key \in keys
      PROVE  /\ key \in Seq(PlainOf(Low(C)))
             /\ q[key] \in Seq(PlainOf(Low(C))) /\ q[key] # <<Plain(Yes)>>
  <2>1. PICK start \in starts : key = Key(s, start)
    OBVIOUS
  <2> DEFINE T == With(key)
             n == Len(s) + 1
  <2>2. T \in SUBSET (0 .. n) /\ T # {} /\ n \in Nat
    BY <1>1, <2>1
  <2>3. Max(With(key)) \in With(key)
    <3>1. Max(T) \in T
      <4> HIDE DEF T, n
      <4> QED
        BY <2>2, MaxIs
    <3> QED
      BY <3>1
  <2>4. Max(With(key)) \in 1 .. Len(s) + 1
    BY <1>1, <2>3
  <2>5. q[key] = Value(s, Max(With(key)))
    BY <1>2
  <2> HIDE DEF With, q, keys
  <2>6. key \in Seq(PlainOf(Low(C)))
    BY <1>1, <2>1, ParameterIs
  <2> QED
    BY <2>4, <2>5, <2>6, ParameterIs
<1>6. DOMAIN q = keys /\ q = [k \in keys |-> q[k]]
  <2> DEFINE val(key) == Value(s, Max(With(key)))
  <2>1. q = [key \in keys |-> val(key)]
    BY <1>2
  <2> HIDE DEF val, keys, q
  <2> QED
    BY <2>1
<1> HIDE DEF q, keys
<1> QED
  BY <1>3, <1>4, <1>5, <1>6 DEF QueryOf, q

(* The keys in some order: each of them once.                              *)
LEMMA KeysListed ==
  ASSUME NEW D, IsFiniteSet(D)
  PROVE  /\ SetToSeq(D) \in Seq(D) /\ Len(SetToSeq(D)) = Cardinality(D)
         /\ \A i, j \in 1 .. Len(SetToSeq(D)) : SetToSeq(D)[i] = SetToSeq(D)[j] => i = j
         /\ \A k \in D : \E i \in 1 .. Len(SetToSeq(D)) : SetToSeq(D)[i] = k
<1> DEFINE n == Cardinality(D)
           f == SetToSeq(D)
<1>1. n \in Nat
  BY FS_CardinalityType
<1>2. IsFiniteSet(1 .. n) /\ Cardinality(1 .. n) = n
  <2>1. IsFiniteSet(1 .. n) /\ Cardinality(1 .. n) = IF 1 > n THEN 0 ELSE n - 1 + 1
    BY <1>1, FS_Interval
  <2> QED
    BY <1>1, <2>1
<1>3. \E g \in [1 .. n -> D] : IsInjective(g)
  <2>1. ExistsBijection(1 .. n, D)
    BY <1>2, FS_SameCardinalityBij
  <2> QED
    BY <2>1 DEF ExistsBijection, Bijection, Injection, IsInjective
<1>4. f \in [1 .. n -> D] /\ IsInjective(f)
  BY <1>3 DEF SetToSeq
<1>5. f \in Injection(1 .. n, D)
  BY <1>4 DEF Injection, IsInjective
<1>6. f \in Surjection(1 .. n, D)
  BY <1>2, <1>5, FS_Injection
<1>7. f \in Seq(D) /\ Len(f) = n
  BY <1>1, <1>4, Listed
<1> HIDE DEF f
<1> QED
  BY <1>4, <1>6, <1>7 DEF IsInjective, Surjection, f

(* Where the parameters are in a printed query: o has their ends.          *)
Laid(str, i, o, key, value) ==
  /\ o[i] = o[i - 1] + 2 + Len(key) + Len(value) /\ o[i] <= Len(str)
  /\ str[o[i - 1] + 1] = Plain(IF i = 1 THEN "?" ELSE "&")
  /\ \A j \in 1 .. Len(key) : str[o[i - 1] + 1 + j] = Escaped(key)[j]
  /\ str[o[i - 1] + 2 + Len(key)] = Plain("=")
  /\ \A j \in 1 .. Len(value) : str[o[i - 1] + 2 + Len(key) + j] = Escaped(value)[j]

Layout(str, q, o) ==
  LET n == Cardinality(DOMAIN q)
  IN  /\ o \in [0 .. n -> Nat] /\ o[0] = 0 /\ o[n] = Len(str)
      /\ \A i \in 1 .. n : Laid(str, i, o, KeyNumber(q, i), q[KeyNumber(q, i)])

(* The letters of a printed parameter.                                     *)
Spelled(t, c, k, v, C) ==
  /\ t \in Seq(LetterOf(C)) /\ Len(t) = 2 + Len(k) + Len(v)
  /\ t[1] = Plain(c) /\ t[2 + Len(k)] = Plain("=")
  /\ \A j \in 1 .. Len(k) : t[1 + j] = Escaped(k)[j]
  /\ \A j \in 1 .. Len(v) : t[2 + Len(k) + j] = Escaped(v)[j]

(* A parameter is printed as its key, "=" and its value.                   *)
LEMMA StrOfParameterIs ==
  ASSUME NEW C, ClosedChars(C), NEW c \in Encodable,
         NEW k \in Seq(PlainOf(C)), NEW v \in Seq(PlainOf(C))
  PROVE  Spelled(<<Plain(c)>> \o Escaped(k) \o <<Plain("=")>> \o Escaped(v), c, k, v, C)
<1> DEFINE S == LetterOf(C)
           a == <<Plain(c)>>
           b == Escaped(k)
           e == <<Plain("=")>>
           d == Escaped(v)
<1>1. Plain(c) \in S /\ Plain("=") \in S
  <2>1. c \in C /\ "=" \in C
    BY EncodedChars DEF ClosedChars, UrlDelimiters
  <2> QED
    BY <2>1, MakesLetter
<1>2. LetterOf(C \ Encodable) \subseteq S
  BY DEF LetterOf
<1>3. b \in Seq(S) /\ d \in Seq(S) /\ Len(b) = Len(k) /\ Len(d) = Len(v)
  <2>1. Escapable \subseteq C /\ C \subseteq UrlChars
    BY DEF ClosedChars
  <2>2. /\ b \in Seq(LetterOf(C \ Encodable)) /\ Len(b) = Len(k)
        /\ d \in Seq(LetterOf(C \ Encodable)) /\ Len(d) = Len(v)
    BY <2>1, EscapedIs
  <2> HIDE DEF b, d, S
  <2> QED
    BY <1>2, <2>2
<1>4. a \in Seq(S) /\ e \in Seq(S) /\ Len(a) = 1 /\ Len(e) = 1 /\ a[1] = Plain(c)
      /\ e[1] = Plain("=")
  <2> HIDE DEF S
  <2> QED
    BY <1>1
<1> HIDE DEF S, a, b, e, d
<1>5. Len(k) \in Nat /\ Len(v) \in Nat
  OBVIOUS
<1>21. a \in Seq(S)
  BY <1>4
<1>22. b \in Seq(S)
  BY <1>3
<1>23. e \in Seq(S)
  BY <1>4
<1>24. d \in Seq(S)
  BY <1>3
<1> DEFINE f == a \o b
           g == f \o e
           t == g \o d
<1>6. /\ f \in Seq(S) /\ Len(f) = Len(a) + Len(b)
      /\ \A i \in 1 .. Len(a) : f[i] = a[i]
      /\ \A i \in 1 .. Len(b) : f[Len(a) + i] = b[i]
  BY <1>21, <1>22, TwoParts
<1> HIDE DEF f
<1>25. f \in Seq(S)
  BY <1>6
<1>7. /\ g \in Seq(S) /\ Len(g) = Len(f) + Len(e)
      /\ \A i \in 1 .. Len(f) : g[i] = f[i]
      /\ \A i \in 1 .. Len(e) : g[Len(f) + i] = e[i]
  BY <1>23, <1>25, TwoParts
<1> HIDE DEF g
<1>26. g \in Seq(S)
  BY <1>7
<1>8. /\ t \in Seq(S) /\ Len(t) = Len(g) + Len(d)
      /\ \A i \in 1 .. Len(g) : t[i] = g[i]
      /\ \A i \in 1 .. Len(d) : t[Len(g) + i] = d[i]
  BY <1>24, <1>26, TwoParts
<1> HIDE DEF t
<1>15. Len(g) = 2 + Len(k) /\ Len(f) = 1 + Len(k)
  <2>1. Len(f) = 1 + Len(k)
    BY <1>3, <1>4, <1>6
  <2>2. Len(g) = Len(f) + 1
    BY <1>4, <1>7
  <2> QED
    BY <1>5, <2>1, <2>2
<1>16. t[1] = Plain(c)
  <2>1. 1 \in 1 .. Len(g) /\ 1 \in 1 .. Len(f) /\ 1 \in 1 .. Len(a)
    BY <1>4, <1>5, <1>15
  <2>2. t[1] = g[1] /\ g[1] = f[1] /\ f[1] = a[1]
    BY <1>6, <1>7, <1>8, <2>1
  <2> QED
    BY <1>4, <2>2
<1>17. t[2 + Len(k)] = Plain("=")
  <2>1. Len(f) + 1 = 2 + Len(k) /\ 2 + Len(k) \in 1 .. Len(g) /\ 1 \in 1 .. Len(e)
    BY <1>4, <1>5, <1>15
  <2>2. g[Len(f) + 1] = e[1]
    BY <1>7, <2>1
  <2>3. t[2 + Len(k)] = g[2 + Len(k)]
    BY <1>8, <2>1
  <2> QED
    BY <1>4, <2>1, <2>2, <2>3
<1>18. \A j \in 1 .. Len(k) : t[1 + j] = b[j]
  <2> TAKE j \in 1 .. Len(k)
  <2>1. 1 + j \in 1 .. Len(f) /\ 1 + j \in 1 .. Len(g)
    BY <1>5, <1>15
  <2>2. t[1 + j] = g[1 + j] /\ g[1 + j] = f[1 + j]
    BY <1>7, <1>8, <2>1
  <2>3. j \in 1 .. Len(b) /\ Len(a) = 1
    BY <1>3, <1>4
  <2>4. f[1 + j] = b[j]
    BY <1>6, <2>3
  <2> QED
    BY <2>2, <2>4
<1>19. \A j \in 1 .. Len(v) : t[2 + Len(k) + j] = d[j]
  BY <1>3, <1>8, <1>15
<1>20. t \in Seq(S) /\ Len(t) = 2 + Len(k) + Len(v)
  <2>1. Len(t) = Len(g) + Len(v)
    BY <1>3, <1>8
  <2> QED
    BY <1>8, <1>15, <2>1
<1>27. Spelled(t, c, k, v, C)
  BY <1>16, <1>17, <1>18, <1>19, <1>20 DEF S, b, d, Spelled
<1> QED
  BY <1>27 DEF a, b, e, d, f, g, t

(* A query is printed as its parameters, one behind the other.             *)
LEMMA QueryPrinted ==
  ASSUME NEW C, ClosedChars(C), NEW q, QueryOf(C, q)
  PROVE  StrOfQuery(q) \in Seq(LetterOf(C)) /\ \E o : Layout(StrOfQuery(q), q, o)
<1> DEFINE n == Cardinality(DOMAIN q)
           keys == SetToSeq(DOMAIN q)
           S == LetterOf(C)
           toks == [i \in DOMAIN keys |-> StrOfParameter(q, i)]
           str == StrOfQuery(q)
<1>1. n \in Nat /\ keys \in Seq(DOMAIN q) /\ Len(keys) = n /\ DOMAIN keys = 1 .. n
  <2>1. IsFiniteSet(DOMAIN q)
    BY DEF QueryOf
  <2>2. keys \in Seq(DOMAIN q) /\ Len(keys) = n
    BY <2>1, KeysListed
  <2> HIDE DEF keys, n
  <2> QED
    BY <2>2
<1>2. ASSUME NEW i \in 1 .. n
      PROVE  LET k == KeyNumber(q, i)
                 t == StrOfParameter(q, i)
             IN  /\ k \in Seq(PlainOf(C)) /\ q[k] \in Seq(PlainOf(C))
                 /\ t \in Seq(S) /\ Len(t) = 2 + Len(k) + Len(q[k])
                 /\ t[1] = Plain(IF i = 1 THEN "?" ELSE "&") /\ t[2 + Len(k)] = Plain("=")
                 /\ \A j \in 1 .. Len(k) : t[1 + j] = Escaped(k)[j]
                 /\ \A j \in 1 .. Len(q[k]) : t[2 + Len(k) + j] = Escaped(q[k])[j]
  <2> DEFINE k == KeyNumber(q, i)
             v == q[k]
             c == IF i = 1 THEN "?" ELSE "&"
             t == StrOfParameter(q, i)
  <2>1. k \in DOMAIN q
    BY <1>1 DEF KeyNumber
  <2>2. k \in Seq(PlainOf(C)) /\ v \in Seq(PlainOf(C))
    <3>1. k \in Seq(PlainOf(Low(C))) /\ v \in Seq(PlainOf(Low(C)))
      BY <2>1 DEF QueryOf
    <3>2. PlainOf(Low(C)) \subseteq PlainOf(C)
      BY DEF PlainOf, Low
    <3> HIDE DEF k, v
    <3> QED
      BY <3>1, <3>2
  <2>3. c \in Encodable
    BY EncodedChars DEF UrlDelimiters
  <2>4. t = <<Plain(c)>> \o Escaped(k) \o <<Plain("=")>> \o Escaped(v)
    BY DEF StrOfParameter
  <2> HIDE DEF k, v, t, c
  <2>5. k \in Seq(PlainOf(C))
    BY <2>2
  <2>6. v \in Seq(PlainOf(C))
    BY <2>2
  <2>7. /\ t \in Seq(S) /\ Len(t) = 2 + Len(k) + Len(v)
        /\ t[1] = Plain(c) /\ t[2 + Len(k)] = Plain("=")
        /\ \A j \in 1 .. Len(k) : t[1 + j] = Escaped(k)[j]
        /\ \A j \in 1 .. Len(v) : t[2 + Len(k) + j] = Escaped(v)[j]
    <3>1. Spelled(<<Plain(c)>> \o Escaped(k) \o <<Plain("=")>> \o Escaped(v), c, k, v, C)
      BY <2>3, <2>5, <2>6, StrOfParameterIs
    <3>2. Spelled(t, c, k, v, C)
      BY <2>4, <3>1
    <3> QED
      BY <3>2 DEF Spelled
  <2> QED
    BY <2>2, <2>7 DEF k, v, t, c
<1>3. toks \in Seq(Seq(S)) /\ Len(toks) = n /\ \A i \in 1 .. n : toks[i] = StrOfParameter(q, i)
  <2>1. toks = [i \in 1 .. n |-> StrOfParameter(q, i)]
    BY <1>1
  <2>2. \A i \in 1 .. n : StrOfParameter(q, i) \in Seq(S)
    BY <1>2
  <2> HIDE DEF toks, n, S
  <2>3. toks \in [1 .. n -> Seq(S)] /\ \A i \in 1 .. n : toks[i] = StrOfParameter(q, i)
    BY <2>1, <2>2
  <2> QED
    BY <1>1, <2>3, Listed
<1>4. str = FlattenSeq(toks)
  BY DEF StrOfQuery
<1> HIDE DEF toks, n, keys, str, S
<1>5. PICK E : Flattens(E, toks, S)
  BY <1>3, FlattenIs
<1>6. /\ E \in [0 .. n -> Seq(S)] /\ E[0] = <<>>
      /\ \A i \in 0 .. n - 1 : E[i + 1] = E[i] \o toks[i + 1]
      /\ str = E[n]
  BY <1>3, <1>4, <1>5 DEF Flattens
<1>7. \A i \in 0 .. n : /\ Len(E[i]) <= Len(str)
                        /\ \A j \in 1 .. Len(E[i]) : str[j] = E[i][j]
  <2> TAKE i \in 0 .. n
  <2>1. i \in 0 .. Len(toks)
    BY <1>3
  <2>2. toks \in Seq(Seq(S))
    BY <1>3
  <2>3. /\ Len(E[i]) <= Len(E[Len(toks)])
        /\ \A j \in 1 .. Len(E[i]) : E[Len(toks)][j] = E[i][j]
    BY <1>5, <2>1, <2>2, FlattensInFront
  <2>4. str = E[Len(toks)]
    BY <1>3, <1>6
  <2> QED
    BY <2>3, <2>4
<1> DEFINE o == [i \in 0 .. n |-> Len(E[i])]
<1>8. o \in [0 .. n -> Nat] /\ o[0] = 0 /\ o[n] = Len(str)
  <2>1. \A i \in 0 .. n : E[i] \in Seq(S)
    BY <1>6
  <2>2. \A i \in 0 .. n : Len(E[i]) \in Nat
    BY <2>1
  <2>3. 0 \in 0 .. n /\ n \in 0 .. n /\ Len(<<>>) = 0
    BY <1>1
  <2> QED
    BY <1>6, <2>2, <2>3
<1>9. ASSUME NEW i \in 1 .. n
      PROVE  Laid(str, i, o, KeyNumber(q, i), q[KeyNumber(q, i)])
  <2> DEFINE k == KeyNumber(q, i)
             v == q[k]
             t == StrOfParameter(q, i)
             a == E[i - 1]
  <2>1. i - 1 \in 0 .. n /\ i \in 0 .. n /\ i - 1 \in 0 .. n - 1 /\ (i - 1) + 1 = i
    BY <1>1
  <2>2. E[i] = a \o t
    BY <1>3, <1>6, <2>1
  <2>3. a \in Seq(S)
    BY <1>6, <2>1
  <2>4. t \in Seq(S)
    BY <1>2
  <2>5. /\ k \in Seq(PlainOf(C)) /\ v \in Seq(PlainOf(C)) /\ Len(t) = 2 + Len(k) + Len(v)
        /\ t[1] = Plain(IF i = 1 THEN "?" ELSE "&") /\ t[2 + Len(k)] = Plain("=")
        /\ \A j \in 1 .. Len(k) : t[1 + j] = Escaped(k)[j]
        /\ \A j \in 1 .. Len(v) : t[2 + Len(k) + j] = Escaped(v)[j]
    BY <1>2
  <2>6. o[i] = Len(E[i]) /\ o[i - 1] = Len(a)
    BY <2>1
  <2> HIDE DEF k, v, t, a, o
  <2>7. Len(E[i]) = Len(a) + Len(t) /\ \A j \in 1 .. Len(t) : (a \o t)[Len(a) + j] = t[j]
    BY <2>2, <2>3, <2>4, TwoParts
  <2>8. Len(a) \in Nat /\ Len(k) \in Nat /\ Len(v) \in Nat
    BY <2>3, <2>5
  <2>9. \A j \in 1 .. Len(t) : str[o[i - 1] + j] = t[j]
    <3> TAKE j \in 1 .. Len(t)
    <3>1. Len(a) + j \in 1 .. Len(E[i])
      BY <2>5, <2>7, <2>8
    <3>2. str[Len(a) + j] = E[i][Len(a) + j]
      BY <1>7, <2>1, <3>1
    <3> QED
      BY <2>2, <2>6, <2>7, <3>2
  <2>10. o[i] = o[i - 1] + 2 + Len(k) + Len(v) /\ o[i] <= Len(str)
    <3>1. Len(E[i]) <= Len(str)
      BY <1>7, <2>1
    <3> QED
      BY <2>5, <2>6, <2>7, <2>8, <3>1
  <2>11. str[o[i - 1] + 1] = Plain(IF i = 1 THEN "?" ELSE "&")
    <3>1. 1 \in 1 .. Len(t)
      BY <2>5, <2>8
    <3> QED
      BY <2>5, <2>9, <3>1
  <2>12. str[o[i - 1] + 2 + Len(k)] = Plain("=")
    <3>1. 2 + Len(k) \in 1 .. Len(t)
      BY <2>5, <2>8
    <3>2. str[o[i - 1] + (2 + Len(k))] = t[2 + Len(k)]
      BY <2>9, <3>1
    <3>3. o[i - 1] + (2 + Len(k)) = o[i - 1] + 2 + Len(k)
      BY <2>6, <2>8
    <3> QED
      BY <2>5, <3>2, <3>3
  <2>13. \A j \in 1 .. Len(k) : str[o[i - 1] + 1 + j] = Escaped(k)[j]
    <3> TAKE j \in 1 .. Len(k)
    <3>1. 1 + j \in 1 .. Len(t)
      BY <2>5, <2>8
    <3>2. str[o[i - 1] + (1 + j)] = t[1 + j]
      BY <2>9, <3>1
    <3>3. o[i - 1] + (1 + j) = o[i - 1] + 1 + j
      BY <2>6, <2>8
    <3> QED
      BY <2>5, <3>2, <3>3
  <2>14. \A j \in 1 .. Len(v) : str[o[i - 1] + 2 + Len(k) + j] = Escaped(v)[j]
    <3> TAKE j \in 1 .. Len(v)
    <3>1. 2 + Len(k) + j \in 1 .. Len(t)
      BY <2>5, <2>8
    <3>2. str[o[i - 1] + (2 + Len(k) + j)] = t[2 + Len(k) + j]
      BY <2>9, <3>1
    <3>3. o[i - 1] + (2 + Len(k) + j) = o[i - 1] + 2 + Len(k) + j
      BY <2>6, <2>8
    <3> QED
      BY <2>5, <3>2, <3>3
  <2>15. Laid(str, i, o, k, v)
    BY <2>10, <2>11, <2>12, <2>13, <2>14 DEF Laid
  <2> QED
    BY <2>15 DEF k, v
<1>10. Layout(str, q, o)
  <2> HIDE DEF o
  <2> QED
    BY <1>8, <1>9 DEF Layout, n
<1>11. str \in Seq(S)
  BY <1>1, <1>6
<1> QED
  BY <1>10, <1>11 DEF str, S

(* What a key and a value become when they are printed and parsed.         *)
LEMMA EscapedKeeps ==
  ASSUME NEW C, ClosedChars(C), NEW k \in Seq(PlainOf(Low(C)))
  PROVE  /\ Escaped(k) \in Seq(LetterOf(C)) /\ Len(Escaped(k)) = Len(k)
         /\ InLower(Escaped(k)) = Escaped(k)
         /\ ComesBack(k) => Unescaped(Escaped(k)) = k
         /\ ComesBack(k) /\ k # <<Plain(Yes)>> => Unescaped(NormalizeValue(Escaped(k))) = k
         /\ \A i \in 1 .. Len(k) : \A d \in Encodable : Escaped(k)[i] # Plain(d)
<1> DEFINE e == Escaped(k)
<1>1. Escapable \subseteq Low(C) /\ Low(C) \subseteq UrlChars
  BY LowIs DEF ClosedChars
<1>2. /\ e \in Seq(LetterOf(Low(C) \ Encodable)) /\ Len(e) = Len(k)
      /\ ComesBack(k) => Unescaped(e) = k
  BY <1>1, EscapedIs
<1> HIDE DEF e
<1>3. /\ LetterOf(Low(C) \ Encodable) \subseteq LetterOf(C \ Capitals)
      /\ LetterOf(Low(C) \ Encodable) \subseteq LetterOf(C)
  BY DEF LetterOf, Low
<1>4. e \in Seq(LetterOf(C \ Capitals)) /\ e \in Seq(LetterOf(C))
  <2>1. e \in Seq(LetterOf(Low(C) \ Encodable))
    BY <1>2
  <2> QED
    BY <1>3, <2>1, Widened
<1>5. InLower(e) = e
  BY <1>4, InLowerIs
<1>6. \A i \in 1 .. Len(k) : \A d \in Encodable : e[i] # Plain(d)
  <2>1. ASSUME NEW i \in 1 .. Len(k), NEW d \in Encodable, e[i] = Plain(d) PROVE FALSE
    <3>1. e[i] \in LetterOf(Low(C) \ Encodable)
      BY <1>2, <2>1
    <3>2. e[i].char = d /\ e[i].percent = FALSE
      BY <2>1 DEF Plain
    <3>3. e[i].char \in Low(C) \ Encodable
      BY <3>1, <3>2, LettersAre
    <3> QED
      BY <3>2, <3>3
  <2> QED
    BY <2>1
<1>7. ASSUME ComesBack(k), k # <<Plain(Yes)>> PROVE Unescaped(NormalizeValue(e)) = k
  <2>1. e # <<Plain(Yes)>>
    <3>1. SUFFICES ASSUME e = <<Plain(Yes)>> PROVE FALSE
      OBVIOUS
    <3>2. Unescaped(e) = [i \in 1 .. 1 |-> Plain(Plain(Yes).char)]
      <4>1. DOMAIN e = 1 .. 1 /\ e[1] = Plain(Yes)
        BY <3>1
      <4> QED
        BY <4>1 DEF Unescaped
    <3>3. Plain(Yes).char = Yes
      BY DEF Plain
    <3>4. Unescaped(e) = <<Plain(Yes)>>
      BY <3>2, <3>3
    <3> QED
      BY <1>2, <1>7, <3>4
  <2>2. NormalizeValue(e) = e
    BY <1>5, <2>1 DEF NormalizeValue
  <2> QED
    BY <1>2, <1>7, <2>2
<1> QED
  BY <1>2, <1>4, <1>5, <1>6, <1>7 DEF e

(* A query that urlencode() prints with its own characters.                *)
QueryComesBack(q) == \A key \in DOMAIN q : ComesBack(key) /\ ComesBack(q[key])

(* The letters of a printed parameter behind its first one.                *)
LEMMA ParameterLetters ==
  ASSUME NEW C, ClosedChars(C), NEW k \in Seq(PlainOf(Low(C))), NEW v \in Seq(PlainOf(Low(C))),
         NEW str, NEW o, NEW i, o[i - 1] \in Nat, Laid(str, i, o, k, v),
         NEW d \in Encodable \ {"="}, NEW p \in o[i - 1] + 2 .. o[i]
  PROVE  str[p] # Plain(d)
<1> DEFINE a == o[i - 1]
           ek == Escaped(k)
           ev == Escaped(v)
<1>1. /\ a \in Nat /\ o[i] = a + 2 + Len(k) + Len(v)
      /\ \A j \in 1 .. Len(k) : str[a + 1 + j] = ek[j]
      /\ str[a + 2 + Len(k)] = Plain("=")
      /\ \A j \in 1 .. Len(v) : str[a + 2 + Len(k) + j] = ev[j]
  BY DEF Laid
<1>2. /\ \A j \in 1 .. Len(k) : ek[j] # Plain(d)
      /\ \A j \in 1 .. Len(v) : ev[j] # Plain(d)
  BY EscapedKeeps
<1>3. Len(k) \in Nat /\ Len(v) \in Nat /\ Plain("=") # Plain(d)
  BY DEF Plain
<1>4. p \in a + 2 .. o[i]
  OBVIOUS
<1> HIDE DEF a, ek, ev
<1>5. CASE p <= a + 1 + Len(k)
  <2>1. p - a - 1 \in 1 .. Len(k) /\ a + 1 + (p - a - 1) = p
    BY <1>1, <1>3, <1>4, <1>5
  <2>2. str[a + 1 + (p - a - 1)] = ek[p - a - 1]
    BY <1>1, <2>1
  <2> QED
    BY <1>2, <2>1, <2>2
<1>6. CASE p = a + 2 + Len(k)
  BY <1>1, <1>3, <1>6
<1>7. CASE p > a + 2 + Len(k)
  <2>1. p - a - 2 - Len(k) \in 1 .. Len(v) /\ a + 2 + Len(k) + (p - a - 2 - Len(k)) = p
    BY <1>1, <1>3, <1>4, <1>7
  <2>2. str[a + 2 + Len(k) + (p - a - 2 - Len(k))] = ev[p - a - 2 - Len(k)]
    BY <1>1, <2>1
  <2> QED
    BY <1>2, <2>1, <2>2
<1>8. p <= a + 1 + Len(k) \/ p = a + 2 + Len(k) \/ p > a + 2 + Len(k)
  <2>1. p \in Int /\ a + Len(k) \in Int /\ a + 1 + Len(k) = (a + Len(k)) + 1
        /\ a + 2 + Len(k) = (a + Len(k)) + 2
    BY <1>1, <1>3, <1>4
  <2> DEFINE x == a + Len(k)
  <2>2. p <= x + 1 \/ p = x + 2 \/ p > x + 2
    <3> HIDE DEF x
    <3>1. x \in Int
      BY <2>1 DEF x
    <3> QED
      BY <2>1, <3>1
  <2> QED
    BY <2>1, <2>2
<1> QED
  BY <1>5, <1>6, <1>7, <1>8

(* A text without its first letter.                                        *)
WithoutFirst(w, str) ==
  Len(str) = Len(w) + 1 /\ \A i \in 1 .. Len(w) : w[i] = str[i + 1]

(* The letters of a parameter are found where it was printed.              *)
LEMMA ParameterReads ==
  ASSUME NEW C, ClosedChars(C), NEW q, QueryOf(C, q), QueryComesBack(q), NEW str, NEW w \in Seq(LetterOf(C)),
         WithoutFirst(w, str), NEW o, Layout(str, q, o),
         NEW i \in 1 .. Cardinality(DOMAIN q), Cardinality(DOMAIN q) \in Nat,
         KeyNumber(q, i) \in DOMAIN q
  PROVE  /\ o[i - 1] + 1 \in 1 .. Len(w) /\ o[i] \in o[i - 1] + 2 .. Len(w) + 1
         /\ \A j \in o[i - 1] + 2 .. o[i] : str[j] # Plain("&")
         /\ Key(w, o[i - 1] + 1) = KeyNumber(q, i)
         /\ Value(w, o[i - 1] + 1) = q[KeyNumber(q, i)]
<1> DEFINE n == Cardinality(DOMAIN q)
           k == KeyNumber(q, i)
           v == q[k]
           a == o[i - 1]
           b == o[i]
           ek == Escaped(k)
           ev == Escaped(v)
<1>1. /\ k \in Seq(PlainOf(Low(C))) /\ v \in Seq(PlainOf(Low(C))) /\ v # <<Plain(Yes)>>
      /\ ComesBack(k) /\ ComesBack(v)
  BY DEF QueryOf, QueryComesBack
<1>2. a \in Nat /\ b \in Nat /\ n \in Nat /\ i - 1 \in 0 .. n /\ o[n] = Len(str)
  BY DEF Layout
<1>3. /\ b = a + 2 + Len(k) + Len(v) /\ b <= Len(str)
      /\ \A j \in 1 .. Len(k) : str[a + 1 + j] = ek[j]
      /\ str[a + 2 + Len(k)] = Plain("=")
      /\ \A j \in 1 .. Len(v) : str[a + 2 + Len(k) + j] = ev[j]
  BY DEF Layout, Laid
<1>4. i < n => b < Len(str) /\ str[b + 1] = Plain("&")
  <2> SUFFICES ASSUME i < n PROVE b < Len(str) /\ str[b + 1] = Plain("&")
    OBVIOUS
  <2>1. i + 1 \in 1 .. n /\ (i + 1) - 1 = i /\ i + 1 # 1
    BY <1>2
  <2> DEFINE k2 == KeyNumber(q, i + 1)
             m == i + 1
  <2>2. Laid(str, m, o, k2, q[k2])
    BY <2>1 DEF Layout
  <2>3. k2 \in Seq(PlainOf(Low(C))) /\ q[k2] \in Seq(PlainOf(Low(C)))
    <3>1. k2 \in DOMAIN q
      <4>1. IsFiniteSet(DOMAIN q)
        BY DEF QueryOf
      <4>2. SetToSeq(DOMAIN q) \in Seq(DOMAIN q) /\ Len(SetToSeq(DOMAIN q)) = n
        BY <4>1, KeysListed
      <4> HIDE DEF n
      <4> QED
        BY <2>1, <4>2 DEF KeyNumber
    <3> QED
      BY <3>1 DEF QueryOf
  <2> HIDE DEF k2
  <2>4. /\ o[m] = o[m - 1] + 2 + Len(k2) + Len(q[k2]) /\ o[m] <= Len(str)
        /\ str[o[m - 1] + 1] = Plain(IF m = 1 THEN "?" ELSE "&")
    BY <2>2 DEF Laid
  <2>5. o[m - 1] = b /\ m # 1
    BY <2>1
  <2>6. Len(k2) \in Nat /\ Len(q[k2]) \in Nat
    BY <2>3
  <2>7. str[b + 1] = Plain("&")
    BY <2>4, <2>5
  <2>8. b < Len(str)
    <3> HIDE DEF m, b
    <3>1. o[m] = b + 2 + Len(k2) + Len(q[k2])
      BY <2>4, <2>5
    <3>2. Len(str) \in Nat
      BY DEF WithoutFirst
    <3>3. b \in Nat /\ o[m] <= Len(str)
      BY <1>2, <2>4
    <3> DEFINE t == Len(str)
               x == Len(k2)
               y == Len(q[k2])
               z == o[m]
    <3>4. t \in Nat /\ x \in Nat /\ y \in Nat /\ z = b + 2 + x + y /\ z <= t
      BY <2>6, <3>1, <3>2, <3>3
    <3> HIDE DEF t, x, y, z
    <3>5. b < t
      BY <3>3, <3>4
    <3> QED
      BY <3>5 DEF t
  <2> QED
    BY <2>7, <2>8
<1>5. i = n => b = Len(str)
  BY <1>2
<1>6. i < n \/ i = n
  BY <1>2
<1>13. \A j \in a + 2 .. b : str[j] # Plain("&")
  <2> TAKE j \in a + 2 .. b
  <2>1. o[i - 1] \in Nat /\ Laid(str, i, o, k, v)
    BY DEF Layout
  <2>2. j \in o[i - 1] + 2 .. o[i]
    OBVIOUS
  <2>3. "&" \in Encodable \ {"="}
    BY EncodedChars DEF UrlDelimiters
  <2>4. v \in Seq(PlainOf(Low(C)))
    BY <1>1
  <2>5. k \in Seq(PlainOf(Low(C)))
    BY <1>1
  <2> HIDE DEF k, v, a, b, n
  <2> QED
    BY <2>1, <2>2, <2>3, <2>4, <2>5, ParameterLetters
<1> HIDE DEF k, v, a, b, n, ek, ev
<1>7. /\ ek \in Seq(LetterOf(C)) /\ Len(ek) = Len(k)
      /\ InLower(ek) = ek /\ Unescaped(ek) = k
      /\ \A j \in 1 .. Len(k) : \A d \in Encodable : ek[j] # Plain(d)
  BY <1>1, EscapedKeeps DEF ek
<1>8. /\ ev \in Seq(LetterOf(C)) /\ Len(ev) = Len(v)
      /\ Unescaped(NormalizeValue(ev)) = v
      /\ \A j \in 1 .. Len(v) : \A d \in Encodable : ev[j] # Plain(d)
  BY <1>1, EscapedKeeps DEF ev
<1>9. Len(k) \in Nat /\ Len(v) \in Nat /\ Len(w) \in Nat /\ Len(str) = Len(w) + 1
  BY <1>1 DEF WithoutFirst
<1>10. a + 1 \in 1 .. Len(w) /\ b \in a + 2 .. Len(w) + 1
  BY <1>2, <1>3, <1>9
<1>11. \A j \in 1 .. Len(w) : w[j] = str[j + 1]
  BY DEF WithoutFirst
<1>12. "=" \in Encodable /\ "&" \in Encodable /\ Plain("=") # Plain("&")
  BY EncodedChars DEF UrlDelimiters, Plain
<1> DEFINE s == a + 1
           m == a + 1 + Len(k)
<1> DEFINE lk == Len(k)
           lv == Len(v)
           lw == Len(w)
<1>21. a \in Nat /\ b \in Nat
  BY <1>2
<1>22. lk \in Nat /\ lv \in Nat /\ lw \in Nat
  BY <1>9
<1>23. b = a + 2 + lk + lv /\ b <= lw + 1 /\ s = a + 1 /\ m = a + 1 + lk
  BY <1>3, <1>9
<1>24. s \in 1 .. lw + 1 /\ m \in s .. lw + 1 /\ m - s = lk
  <2> HIDE DEF s, m, lk, lv, lw
  <2>1. lk \in Nat /\ lv \in Nat /\ lw \in Nat
    BY <1>22
  <2> QED
    BY <1>21, <1>23, <2>1
<1>25. m + 1 \in 1 .. lw + 1 /\ b \in m + 1 .. lw + 1 /\ b - (m + 1) = lv
  <2> HIDE DEF s, m, lk, lv, lw
  <2>1. lk \in Nat /\ lv \in Nat /\ lw \in Nat
    BY <1>22
  <2> QED
    BY <1>21, <1>23, <2>1
<1>14. KeyEnd(w, s) = m
  <2>1. FirstAt(w, "=", s, m)
    <3>1. m \in s .. Len(w)
      BY <1>2, <1>3, <1>9
    <3>2. w[m] = Plain("=")
      <4>1. m \in 1 .. Len(w) /\ m + 1 = a + 2 + Len(k)
        BY <1>2, <1>9, <3>1
      <4> QED
        BY <1>3, <1>11, <4>1
    <3>3. \A j \in s .. m - 1 : w[j] # Plain("=")
      <4> TAKE j \in s .. m - 1
      <4>1. j \in 1 .. Len(w) /\ j - a \in 1 .. Len(k) /\ a + 1 + (j - a) = j + 1
        BY <1>2, <1>9, <3>1
      <4>2. w[j] = ek[j - a]
        BY <1>3, <1>11, <4>1
      <4> QED
        BY <1>7, <1>12, <4>1, <4>2
    <3> QED
      BY <3>1, <3>2, <3>3 DEF FirstAt
  <2>2. s \in Nat \ {0}
    BY <1>2
  <2>3. FindFirst(w, "=", s) = m /\ m # NPos
    <3> HIDE DEF s, m
    <3> QED
      BY <2>1, <2>2, FirstFound
  <2> QED
    BY <2>3 DEF KeyEnd, FirstOr
<1>15. ParameterEnd(w, s) = b
  <2>1. s \in Nat \ {0} /\ b \in s .. Len(w) + 1
    BY <1>2, <1>10
  <2>2. \A j \in s .. b - 1 : w[j] # Plain("&")
    <3> TAKE j \in s .. b - 1
    <3>1. j \in 1 .. Len(w) /\ j + 1 \in a + 2 .. b
      BY <1>2, <1>9, <1>10
    <3> QED
      BY <1>11, <1>13, <3>1
  <2>3. CASE i < n
    <3>1. b \in 1 .. Len(w) /\ w[b] = Plain("&")
      BY <1>2, <1>4, <1>9, <1>10, <1>11, <2>3
    <3>2. FirstAt(w, "&", s, b)
      BY <2>1, <2>2, <3>1 DEF FirstAt
    <3>3. FindFirst(w, "&", s) = b /\ b # NPos
      <4> HIDE DEF s
      <4> QED
        BY <2>1, <3>2, FirstFound
    <3> QED
      BY <3>3 DEF ParameterEnd, FirstOr
  <2>4. CASE i = n
    <3>1. b = Len(w) + 1
      BY <1>5, <1>9, <2>4
    <3>2. NoneFrom(w, "&", s)
      BY <1>9, <2>2, <3>1 DEF NoneFrom
    <3>3. FindFirst(w, "&", s) = NPos
      <4> HIDE DEF s
      <4> QED
        BY <2>1, <3>2, NothingFound
    <3> QED
      BY <3>1, <3>3 DEF ParameterEnd, FirstOr
  <2> QED
    BY <1>6, <2>3, <2>4
<1>16. HasValue(w, s)
  <2>1. m < b
    BY <1>2, <1>3, <1>9
  <2> QED
    BY <1>14, <1>15, <2>1 DEF HasValue
<1>17. SubStr(w, s, m) = ek
  <2>1. s \in 1 .. Len(w) + 1 /\ m \in s .. Len(w) + 1 /\ m - s = Len(k)
    BY <1>24
  <2>2. /\ SubStr(w, s, m) \in Seq(LetterOf(C)) /\ Len(SubStr(w, s, m)) = m - s
        /\ \A j \in 1 .. m - s : SubStr(w, s, m)[j] = w[s + j - 1]
    <3> HIDE DEF s, m
    <3> QED
      BY <2>1, SubStrIs
  <2>3. \A j \in 1 .. Len(k) : SubStr(w, s, m)[j] = ek[j]
    <3> TAKE j \in 1 .. Len(k)
    <3>1. s + j - 1 \in 1 .. lw /\ (s + j - 1) + 1 = a + 1 + j
      <4>1. j \in 1 .. lk
        OBVIOUS
      <4> HIDE DEF s, m, lk, lv, lw
      <4> QED
        BY <1>21, <1>22, <1>23, <4>1
    <3>2. w[s + j - 1] = ek[j]
      BY <1>3, <1>11, <3>1
    <3> QED
      BY <2>1, <2>2, <3>2
  <2> HIDE DEF s, m
  <2> QED
    BY <1>7, <2>1, <2>2, <2>3, SeqEqual
<1>18. SubStr(w, m + 1, b) = ev
  <2>1. m + 1 \in 1 .. Len(w) + 1 /\ b \in m + 1 .. Len(w) + 1 /\ b - (m + 1) = Len(v)
    BY <1>25
  <2> DEFINE r == m + 1
  <2>2. /\ SubStr(w, r, b) \in Seq(LetterOf(C)) /\ Len(SubStr(w, r, b)) = b - r
        /\ \A j \in 1 .. b - r : SubStr(w, r, b)[j] = w[r + j - 1]
    <3> HIDE DEF s, m, r
    <3>1. r \in 1 .. Len(w) + 1 /\ b \in r .. Len(w) + 1
      BY <2>1 DEF r
    <3> QED
      BY <3>1, SubStrIs
  <2>3. \A j \in 1 .. Len(v) : SubStr(w, r, b)[j] = ev[j]
    <3> TAKE j \in 1 .. Len(v)
    <3>1. r + j - 1 \in 1 .. Len(w) /\ (r + j - 1) + 1 = a + 2 + Len(k) + j
      BY <1>2, <1>3, <1>9
    <3>2. w[r + j - 1] = ev[j]
      BY <1>3, <1>11, <3>1
    <3> QED
      BY <2>1, <2>2, <3>2
  <2>4. b - r = Len(v)
    BY <2>1
  <2> HIDE DEF r
  <2>5. SubStr(w, r, b) = ev
    BY <1>8, <2>2, <2>3, <2>4, SeqEqual
  <2> QED
    BY <2>5 DEF r
<1> HIDE DEF s, m
<1>19. Key(w, s) = k
  <2>1. Key(w, s) = Unescaped(InLower(SubStr(w, s, m)))
    BY <1>14, <1>16 DEF Key
  <2> QED
    BY <1>7, <1>17, <2>1
<1>20. Value(w, s) = v
  <2>1. Value(w, s) = Unescaped(NormalizeValue(SubStr(w, m + 1, b)))
    BY <1>14, <1>15, <1>16 DEF Value
  <2> QED
    BY <1>8, <1>18, <2>1
<1> QED
  BY <1>10, <1>13, <1>19, <1>20 DEF s, a, b, k, v

(* Every letter of a printed query belongs to a parameter.                 *)
LEMMA InSomeParameter ==
  ASSUME NEW q, NEW str, NEW o, Cardinality(DOMAIN q) \in Nat, Layout(str, q, o),
         NEW p \in 1 .. Len(str)
  PROVE  \E i \in 1 .. Cardinality(DOMAIN q) : p \in o[i - 1] + 1 .. o[i]
<1> DEFINE n == Cardinality(DOMAIN q)
           T == {i \in 0 .. n : p <= o[i]}
<1>1. n \in Nat /\ o \in [0 .. n -> Nat] /\ o[0] = 0 /\ o[n] = Len(str)
  BY DEF Layout
<1> HIDE DEF n
<1>2. p \in Nat \ {0} /\ p <= o[n]
  BY <1>1
<1>3. T \in SUBSET Nat /\ n \in T
  BY <1>1, <1>2
<1>4. PICK i \in T : \A j \in 0 .. i - 1 : j \notin T
  <2> HIDE DEF T
  <2> QED
    BY <1>3, Least
<1>5. i \in 0 .. n /\ p <= o[i] /\ i # 0
  BY <1>1, <1>2, <1>4
<1>6. i \in 1 .. n /\ i - 1 \in 0 .. n /\ i - 1 \in 0 .. i - 1
  BY <1>1, <1>5
<1>7. ~(p <= o[i - 1])
  BY <1>4, <1>6
<1>8. p \in o[i - 1] + 1 .. o[i]
  <2>1. o[i - 1] \in Nat /\ o[i] \in Nat
    BY <1>1, <1>5, <1>6
  <2> QED
    BY <1>2, <1>5, <1>7, <2>1
<1> QED
  BY <1>6, <1>8 DEF n

(* The keys and the values of a query, in order.                           *)
LEMMA KeyNumbers ==
  ASSUME NEW C, ClosedChars(C), NEW q, QueryOf(C, q)
  PROVE  /\ Cardinality(DOMAIN q) \in Nat \ {0}
         /\ \A i \in 1 .. Cardinality(DOMAIN q) : KeyNumber(q, i) \in DOMAIN q
         /\ \A k \in DOMAIN q : \E i \in 1 .. Cardinality(DOMAIN q) : KeyNumber(q, i) = k
<1> DEFINE n == Cardinality(DOMAIN q)
           keys == SetToSeq(DOMAIN q)
<1>1. IsFiniteSet(DOMAIN q) /\ DOMAIN q # {}
  BY DEF QueryOf
<1>2. n \in Nat
  BY <1>1, FS_CardinalityType
<1>3. /\ keys \in Seq(DOMAIN q) /\ Len(keys) = n
      /\ \A k \in DOMAIN q : \E i \in 1 .. n : keys[i] = k
  BY <1>1, KeysListed
<1> HIDE DEF keys, n
<1>4. n # 0
  BY <1>1, <1>3
<1>5. \A i \in 1 .. n : keys[i] \in DOMAIN q
  BY <1>3
<1> QED
  BY <1>2, <1>3, <1>4, <1>5 DEF KeyNumber, keys, n

(* A printed query starts with a question mark and has no hash.            *)
LEMMA PrintedQueryIs ==
  ASSUME NEW C, ClosedChars(C), NEW q, QueryOf(C, q), NEW str, NEW o, Layout(str, q, o)
  PROVE  /\ Len(str) \in Nat \ {0} /\ str[1] = Plain("?")
         /\ \A p \in 1 .. Len(str) : str[p] # Plain("#")
<1> DEFINE n == Cardinality(DOMAIN q)
           Lies(i) == Laid(str, i, o, KeyNumber(q, i), q[KeyNumber(q, i)])
<1>1. n \in Nat \ {0} /\ \A i \in 1 .. n : KeyNumber(q, i) \in DOMAIN q
  BY KeyNumbers
<1>2. /\ o \in [0 .. n -> Nat] /\ o[0] = 0 /\ o[n] = Len(str) /\ \A i \in 1 .. n : Lies(i)
  BY DEF Layout
<1>3. \A i \in 1 .. n : /\ KeyNumber(q, i) \in Seq(PlainOf(Low(C)))
                        /\ q[KeyNumber(q, i)] \in Seq(PlainOf(Low(C)))
  BY <1>1 DEF QueryOf
<1>4. "#" \in Encodable \ {"="} /\ Plain("#") # Plain("?") /\ Plain("#") # Plain("&")
  BY EncodedChars DEF UrlDelimiters, Plain
<1>5. ASSUME NEW p \in 1 .. Len(str), str[p] = Plain("#") PROVE FALSE
  <2>1. PICK i \in 1 .. n : p \in o[i - 1] + 1 .. o[i]
    BY <1>1, InSomeParameter
  <2> DEFINE k == KeyNumber(q, i)
             v == q[k]
  <2>2. k \in Seq(PlainOf(Low(C))) /\ v \in Seq(PlainOf(Low(C)))
    BY <1>3
  <2>3. Laid(str, i, o, k, v)
    BY <1>2
  <2> HIDE DEF k, v, n, Lies
  <2>4. o[i - 1] \in Nat /\ o[i] \in Nat
    <3>1. i - 1 \in 0 .. n /\ i \in 0 .. n
      BY <1>1
    <3> QED
      BY <1>2, <3>1
  <2>5. p # o[i - 1] + 1
    BY <1>4, <1>5, <2>3 DEF Laid
  <2>6. p \in o[i - 1] + 2 .. o[i]
    BY <2>1, <2>4, <2>5
  <2>7. k \in Seq(PlainOf(Low(C)))
    BY <2>2
  <2>8. v \in Seq(PlainOf(Low(C)))
    BY <2>2
  <2> QED
    BY <1>4, <1>5, <2>3, <2>4, <2>6, <2>7, <2>8, ParameterLetters
<1>6. Len(str) # 0 /\ str[1] = Plain("?")
  <2> DEFINE k == KeyNumber(q, 1)
             v == q[k]
  <2>1. 1 \in 1 .. n
    BY <1>1
  <2>2. Lies(1) /\ k \in Seq(PlainOf(Low(C))) /\ v \in Seq(PlainOf(Low(C)))
    BY <1>2, <1>3, <2>1
  <2>3. Laid(str, 1, o, k, v) /\ Len(k) \in Nat /\ Len(v) \in Nat
    BY <2>2
  <2> HIDE DEF k, v, n, Lies
  <2>4. 1 - 1 = 0 /\ o[0] = 0
    BY <1>2
  <2>5. /\ o[1] = 0 + 2 + Len(k) + Len(v) /\ o[1] <= Len(str)
        /\ str[0 + 1] = Plain("?")
    BY <2>3, <2>4 DEF Laid
  <2> QED
    BY <2>3, <2>5
<1> HIDE DEF n
<1>7. Len(str) \in Nat
  BY <1>1, <1>2
<1> QED
  BY <1>5, <1>6, <1>7

(* A query is parsed to what it was printed from.                          *)
LEMMA QueryReadsBack ==
  ASSUME NEW C, ClosedChars(C), NEW q, QueryOf(C, q), QueryComesBack(q), NEW str, NEW o, Layout(str, q, o),
         NEW w \in Seq(LetterOf(C)), WithoutFirst(w, str)
  PROVE  SplitQuery(w) = q
<1> DEFINE n == Cardinality(DOMAIN q)
           k(i) == KeyNumber(q, i)
           starts == {o[i - 1] + 1 : i \in 1 .. n}
           Lies(i) == Laid(str, i, o, k(i), q[k(i)])
<1>1. /\ n \in Nat \ {0} /\ \A i \in 1 .. n : k(i) \in DOMAIN q
      /\ \A key \in DOMAIN q : \E i \in 1 .. n : k(i) = key
  BY KeyNumbers
<1>2. /\ o \in [0 .. n -> Nat] /\ o[0] = 0 /\ \A i \in 1 .. n : Lies(i)
  BY DEF Layout
<1>3. \A i \in 1 .. n : i - 1 \in 0 .. n /\ o[i - 1] \in Nat /\ o[i] \in Nat
  <2> HIDE DEF n
  <2> QED
    BY <1>1, <1>2
<1>4. \A i \in 1 .. n :
        /\ o[i - 1] + 1 \in 1 .. Len(w) /\ o[i] \in o[i - 1] + 2 .. Len(w) + 1
        /\ \A j \in o[i - 1] + 2 .. o[i] : str[j] # Plain("&")
        /\ Key(w, o[i - 1] + 1) = k(i)
        /\ Value(w, o[i - 1] + 1) = q[k(i)]
  BY <1>1, ParameterReads
<1>5. /\ Len(w) \in Nat /\ Len(str) = Len(w) + 1
      /\ \A j \in 1 .. Len(w) : w[j] = str[j + 1]
  BY DEF WithoutFirst
<1>6. ParameterStarts(w) \subseteq starts
  <2>1. 1 \in starts
    <3>1. 1 \in 1 .. n /\ o[1 - 1] + 1 = 1
      BY <1>1, <1>2
    <3> QED
      BY <3>1
  <2>2. ASSUME NEW j \in 1 .. Len(w), w[j] = Plain("&") PROVE j + 1 \in starts
    <3>1. str[j + 1] = Plain("&") /\ j + 1 \in 1 .. Len(str)
      BY <1>5, <2>2
    <3>2. PICK i \in 1 .. n : j + 1 \in o[i - 1] + 1 .. o[i]
      BY <1>1, <3>1, InSomeParameter
    <3>3. ~(j + 1 \in o[i - 1] + 2 .. o[i])
      BY <1>4, <3>1, <3>2
    <3>4. o[i - 1] \in Nat /\ o[i] \in Nat
      BY <1>3, <3>2
    <3>5. j + 1 = o[i - 1] + 1
      BY <3>2, <3>3, <3>4
    <3> QED
      BY <3>2, <3>5
  <2>3. ASSUME NEW start \in ParameterStarts(w) PROVE start \in starts
    <3>1. start = 1 \/ \E j \in DOMAIN w : w[j] = Plain("&") /\ start = j + 1
      BY DEF ParameterStarts, Occurrences
    <3>2. DOMAIN w = 1 .. Len(w)
      OBVIOUS
    <3> HIDE DEF starts
    <3> QED
      BY <2>1, <2>2, <3>1, <3>2
  <2> QED
    BY <2>3
<1>7. starts \subseteq ParameterStarts(w)
  <2>1. ASSUME NEW i \in 1 .. n PROVE o[i - 1] + 1 \in ParameterStarts(w)
    <3>1. CASE i = 1
      BY <1>2, <3>1 DEF ParameterStarts
    <3>2. CASE i # 1
      <4>1. Lies(i)
        BY <1>2
      <4>2. str[o[i - 1] + 1] = Plain("&")
        BY <3>2, <4>1 DEF Laid
      <4>3. o[i - 1] # 0
        <5> DEFINE m == i - 1
                   kk == k(m)
                   vv == q[kk]
        <5>1. m \in 1 .. n /\ m - 1 \in 0 .. n
          <6> HIDE DEF n
          <6> QED
            BY <1>1, <3>2
        <5>2. Lies(m) /\ kk \in DOMAIN q
          BY <1>1, <1>2, <5>1
        <5>3. Laid(str, m, o, kk, vv)
          BY <5>2
        <5>4. kk \in Seq(PlainOf(Low(C))) /\ vv \in Seq(PlainOf(Low(C)))
          BY <5>2 DEF QueryOf
        <5>5. o[m - 1] \in Nat
          BY <1>3, <5>1
        <5> HIDE DEF m, kk, vv
        <5>6. o[m] = o[m - 1] + 2 + Len(kk) + Len(vv)
          BY <5>3 DEF Laid
        <5>7. Len(kk) \in Nat /\ Len(vv) \in Nat
          BY <5>4
        <5>8. o[m] # 0
          BY <5>5, <5>6, <5>7
        <5> QED
          BY <5>8 DEF m
      <4>4. o[i - 1] \in 1 .. Len(w) /\ w[o[i - 1]] = Plain("&")
        BY <1>3, <1>4, <1>5, <4>2, <4>3
      <4>5. o[i - 1] \in Occurrences(w, "&")
        BY <1>5, <4>4 DEF Occurrences
      <4> QED
        BY <4>5 DEF ParameterStarts
    <3> QED
      BY <3>1, <3>2
  <2> QED
    BY <2>1
<1>8. ParameterStarts(w) = starts
  BY <1>6, <1>7
<1> DEFINE With(key) == {start \in starts : Key(w, start) = key}
           keys == {Key(w, start) : start \in starts}
           val(key) == Value(w, Max(With(key)))
<1>9. SplitQuery(w) = [key \in keys |-> val(key)]
  BY <1>8 DEF SplitQuery
<1>10. keys = DOMAIN q
  <2>1. \A start \in starts : Key(w, start) \in DOMAIN q
    BY <1>1, <1>4
  <2>2. ASSUME NEW key \in DOMAIN q PROVE key \in keys
    <3>1. PICK i \in 1 .. n : k(i) = key
      BY <1>1
    <3>2. o[i - 1] + 1 \in starts /\ Key(w, o[i - 1] + 1) = key
      BY <1>4, <3>1
    <3> QED
      BY <3>2
  <2> QED
    BY <2>1, <2>2
<1>11. ASSUME NEW key \in DOMAIN q PROVE val(key) = q[key]
  <2> DEFINE T == With(key)
             l == Len(w)
  <2>1. T \in SUBSET (0 .. l) /\ l \in Nat
    BY <1>3, <1>4, <1>5
  <2>2. T # {}
    <3>1. PICK i \in 1 .. n : k(i) = key
      BY <1>1
    <3>2. o[i - 1] + 1 \in starts /\ Key(w, o[i - 1] + 1) = key
      BY <1>4, <3>1
    <3> QED
      BY <3>2
  <2>3. Max(T) \in T
    <3> HIDE DEF T, l
    <3> QED
      BY <2>1, <2>2, MaxIs
  <2>4. PICK i \in 1 .. n : Max(T) = o[i - 1] + 1 /\ Key(w, o[i - 1] + 1) = key
    BY <2>3
  <2>5. Value(w, Max(T)) = q[k(i)] /\ k(i) = key
    BY <1>4, <2>4
  <2> QED
    BY <2>5
<1>12. q = [key \in DOMAIN q |-> q[key]]
  BY DEF QueryOf
<1> HIDE DEF val, keys
<1> QED
  BY <1>9, <1>10, <1>11, <1>12

(* All characters but the slash, and a text that has no such letter.       *)
NoSlash       == UrlChars \ {"/"}
Without(s, c) == \A i \in 1 .. Len(s) : s[i] # Plain(c)

(* The authority ends with the first slash.  If there is none, the path    *)
(* ends where it starts.                                                   *)
LEMMA AuthorityEnds ==
  ASSUME NEW S, NEW s \in Seq(S), NEW start \in 1 .. Len(s) + 1
  PROVE  /\ AuthorityEnd(s, start) \in start .. Len(s) + 1
         /\ PathEnd(s, start) \in start .. Len(s) + 1
         /\ \/ /\ FirstAt(s, "/", start, AuthorityEnd(s, start))
               /\ PathEnd(s, start) # AuthorityEnd(s, start)
            \/ /\ NoneFrom(s, "/", start)
               /\ PathEnd(s, start) = AuthorityEnd(s, start)
<1> DEFINE end == Len(s) + 1
           y == FirstOr(s, "#", start, end)
           x == FirstOr(s, "?", start, y)
           p == FirstOr(s, "/", start, x)
<1>1. AuthorityEnd(s, start) = p /\ PathEnd(s, start) = x
  BY DEF AuthorityEnd, PathEnd
<1>2. end \in start .. end
  OBVIOUS
<1>3. y \in start .. end /\ (FirstAt(s, "#", start, y) \/ y = end)
  <2> HIDE DEF y
  <2>1. Len(s) + 1 \in start .. Len(s) + 1
    OBVIOUS
  <2> QED
    BY <2>1, FirstOrElse DEF y
<1>4. x \in start .. end /\ (FirstAt(s, "?", start, x) \/ x = y)
  <2>1. y \in start .. Len(s) + 1
    BY <1>3
  <2> HIDE DEF x, y
  <2> QED
    BY <2>1, FirstOrElse DEF x
<1>5. /\ p \in start .. end
      /\ FirstAt(s, "/", start, p) \/ (NoneFrom(s, "/", start) /\ p = x)
  <2>1. x \in start .. Len(s) + 1
    BY <1>4
  <2> HIDE DEF x, p
  <2> QED
    BY <2>1, FirstOrElse DEF p
<1>6. FirstAt(s, "/", start, p) => x # p
  <2> SUFFICES ASSUME FirstAt(s, "/", start, p), x = p PROVE FALSE
    OBVIOUS
  <2> HIDE DEF x, y, p
  <2>1. s[p] = Plain("/") /\ p <= Len(s)
    BY DEF FirstAt
  <2>2. Plain("/") # Plain("?") /\ Plain("/") # Plain("#")
    BY DEF Plain
  <2>3. p # end
    BY <1>5, <2>1
  <2>4. s[x] = Plain("?") \/ s[x] = Plain("#") \/ x = end
    BY <1>3, <1>4 DEF FirstAt
  <2> QED
    BY <2>1, <2>2, <2>3, <2>4
<1> HIDE DEF x, y, p
<1> QED
  BY <1>1, <1>4, <1>5, <1>6

(* substr() with an end before its start takes the rest of the text.       *)
LEMMA SubStrRest ==
  ASSUME NEW S, NEW s \in Seq(S), NEW a \in 1 .. Len(s) + 1, NEW b \in Int, b < a
  PROVE  SubStr(s, a, b) = SubStr(s, a, Len(s) + 1)
<1>1. Len(s) \in Nat /\ ~(Len(s) + 1 < a) /\ (Len(s) + 1) - 1 = Len(s)
  OBVIOUS
<1> QED
  BY <1>1 DEF SubStr

(* A part of a text without a letter that is not in it.                    *)
LEMMA SubStrWithout ==
  ASSUME NEW S, NEW s \in Seq(S), NEW a \in 1 .. Len(s) + 1, NEW b \in a .. Len(s) + 1,
         NEW c, \A i \in a .. b - 1 : s[i] # Plain(c)
  PROVE  Without(SubStr(s, a, b), c)
<1>1. /\ Len(SubStr(s, a, b)) = b - a
      /\ \A i \in 1 .. b - a : SubStr(s, a, b)[i] = s[a + i - 1]
  BY SubStrIs
<1>2. ASSUME NEW i \in 1 .. b - a PROVE a + i - 1 \in a .. b - 1
  OBVIOUS
<1> QED
  BY <1>1, <1>2 DEF Without

(* A text without slashes.                                                 *)
LEMMA WithoutSlash ==
  ASSUME NEW s \in Seq(LetterOf(UrlChars)), Without(s, "/")
  PROVE  s \in Seq(LetterOf(NoSlash))
<1>1. ASSUME NEW i \in 1 .. Len(s) PROVE s[i] \in LetterOf(NoSlash)
  <2>1. s[i] \in LetterOf(UrlChars) /\ s[i] # Plain("/")
    BY DEF Without
  <2>2. CASE s[i].percent
    <3>1. s[i].char \in Escapable /\ s[i] = Encoded(s[i].char)
      BY <2>1, <2>2, LettersAre
    <3> QED
      BY <3>1, MakesLetter
  <2>3. CASE ~s[i].percent
    <3>1. s[i].char \in UrlChars /\ s[i] = Plain(s[i].char)
      BY <2>1, <2>3, LettersAre
    <3>2. s[i].char \in NoSlash
      BY <2>1, <3>1 DEF NoSlash
    <3>3. Plain(s[i].char) \in LetterOf(NoSlash)
      BY <3>2, MakesLetter
    <3> QED
      BY <3>1, <3>3
  <2> QED
    BY <2>2, <2>3
<1> QED
  BY <1>1

(* to_lower() adds no delimiter.                                           *)
LEMMA InLowerWithout ==
  ASSUME NEW s \in Seq(LetterOf(UrlChars)), NEW c \in UrlDelimiters, Without(s, c)
  PROVE  Without(InLower(s), c)
<1>1. Len(InLower(s)) = Len(s) /\ DOMAIN s = 1 .. Len(s)
  <2>1. ClosedChars(UrlChars)
    BY ClosedSets
  <2>2. Len(InLower(s)) = Len(s)
    BY <2>1, InLowerIs
  <2>3. DOMAIN s = 1 .. Len(s)
    OBVIOUS
  <2> QED
    BY <2>2, <2>3
<1>2. ASSUME NEW i \in 1 .. Len(s) PROVE InLower(s)[i] # Plain(c)
  <2>1. InLower(s)[i] = IF s[i].char \in Capitals /\ ~s[i].percent
                        THEN Plain(LowerOf[s[i].char]) ELSE s[i]
    BY <1>1 DEF InLower
  <2>2. CASE s[i].char \in Capitals /\ ~s[i].percent
    <3>1. LowerOf[s[i].char] # c
      BY <2>2, UrlAssumption
    <3> QED
      BY <2>1, <2>2, <3>1 DEF Plain
  <2>3. CASE ~(s[i].char \in Capitals /\ ~s[i].percent)
    BY <2>1, <2>3 DEF Without
  <2> QED
    BY <2>2, <2>3
<1> QED
  BY <1>1, <1>2 DEF Without

(* A parsed url.  Its query and its fragment have no slash if it has no    *)
(* path, and the fragment has no question mark if there is no query: they  *)
(* would have been found.                                                  *)
Well(u) ==
  /\ u = [scheme |-> u.scheme, authority |-> u.authority, path |-> u.path,
          query |-> u.query, fragment |-> u.fragment]
  /\ u.scheme \in Seq(LetterOf(Low(UrlChars))) /\ Without(u.scheme, ":")
  /\ u.authority \in Seq(PlainOf(NoSlash))
  /\ u.path \in Seq(PlainOf(UrlChars)) /\ (u.path # <<>> => u.path[1] = Plain("/"))
  /\ u.query # None => QueryOf(UrlChars, u.query)
  /\ u.query # None /\ u.path = <<>> => QueryOf(NoSlash, u.query)
  /\ u.fragment \in Seq(LetterOf(UrlChars))
  /\ u.path = <<>> => Without(u.fragment, "/")
  /\ u.query = None => Without(u.fragment, "?")

(* What parse() finds.                                                     *)
Found(s, colon, start) ==
  /\ FirstAt(s, ":", 1, colon) /\ start = colon + 3 /\ start \in 4 .. Len(s) + 1
  /\ SubSeq(s, colon + 1, colon + 2) = <<Plain("/"), Plain("/")>>

Parsing(s, colon, start) ==
  [scheme    |-> InLower(SubStr(s, 1, colon)),
   authority |-> Unescaped(SubStr(s, start, AuthorityEnd(s, start))),
   path      |-> Unescaped(SubStr(s, AuthorityEnd(s, start), PathEnd(s, start))),
   query     |->
     IF FindFirst(s, "?", start) = NPos THEN None
     ELSE SplitQuery(SubStr(s, FindFirst(s, "?", start) + 1,
                            FirstOr(s, "#", start, Len(s) + 1))),
   fragment  |->
     IF FindFirst(s, "#", start) = NPos THEN None
     ELSE SubStr(s, FindFirst(s, "#", start) + 1, Len(s) + 1)]

(* A text that can be parsed, and what of it.                              *)
LEMMA ParseIs ==
  ASSUME NEW S, NEW s \in Seq(S), ParseOf(s) # Invalid
  PROVE  \E colon, start \in Nat :
           /\ Found(s, colon, start)
           /\ ParseOf(s) = Parsing(s, colon, start)
<1> DEFINE colon == FindFirst(s, ":", 1)
           start == colon + 3
<1>1. /\ colon # NPos /\ ~(colon + 2 > Len(s))
      /\ SubSeq(s, colon + 1, colon + 2) = <<Plain("/"), Plain("/")>>
  BY DEF ParseOf
<1>2. FirstAt(s, ":", 1, colon)
  <2>1. 1 \in Nat \ {0}
    OBVIOUS
  <2> QED
    BY <1>1, <2>1, FoundFirst
<1>3. colon \in 1 .. Len(s) /\ Len(s) \in Nat
  BY <1>2 DEF FirstAt
<1>4. Found(s, colon, start)
  <2>1. start \in 4 .. Len(s) + 1
    <3> HIDE DEF colon
    <3> QED
      BY <1>1, <1>3
  <2> QED
    BY <1>1, <1>2, <2>1 DEF Found
<1>5. colon \in Nat /\ start \in Nat
  <2> HIDE DEF colon
  <2> QED
    BY <1>3
<1>6. ParseOf(s) = Parsing(s, colon, start)
  BY <1>1 DEF ParseOf, Parsing
<1> HIDE DEF colon, start
<1> QED
  BY <1>4, <1>5, <1>6

(* The other direction.                                                    *)
LEMMA ParsesTo ==
  ASSUME NEW S, NEW s \in Seq(S), NEW colon \in Nat, NEW start \in Nat,
         Found(s, colon, start)
  PROVE  ParseOf(s) = Parsing(s, colon, start)
<1>1. FindFirst(s, ":", 1) = colon /\ colon # NPos
  <2>1. FirstAt(s, ":", 1, colon) /\ 1 \in Nat \ {0}
    BY DEF Found
  <2> QED
    BY <2>1, FirstFound
<1>2. /\ start = colon + 3 /\ ~(colon + 2 > Len(s))
      /\ SubSeq(s, colon + 1, colon + 2) = <<Plain("/"), Plain("/")>>
  BY DEF Found
<1> QED
  BY <1>1, <1>2 DEF ParseOf, Parsing

(* What parse() returns.                                                   *)
LEMMA ParsedWell ==
  ASSUME NEW s \in Seq(LetterOf(UrlChars)), ParseOf(s) # Invalid
  PROVE  Well(ParseOf(s))
<1> DEFINE C == UrlChars
           S == LetterOf(UrlChars)
           u == ParseOf(s)
           end == Len(s) + 1
<1>1. PICK colon, start \in Nat :
        /\ Found(s, colon, start)
        /\ u = Parsing(s, colon, start)
  BY ParseIs
<1> DEFINE p == AuthorityEnd(s, start)
           e == PathEnd(s, start)
           question == FindFirst(s, "?", start)
           hash == FindFirst(s, "#", start)
           h == FirstOr(s, "#", start, end)
<1>2. /\ u.scheme = InLower(SubStr(s, 1, colon))
      /\ u.authority = Unescaped(SubStr(s, start, p))
      /\ u.path = Unescaped(SubStr(s, p, e))
      /\ u.query = IF question = NPos THEN None ELSE SplitQuery(SubStr(s, question + 1, h))
      /\ u.fragment = IF hash = NPos THEN None ELSE SubStr(s, hash + 1, end)
      /\ u = [scheme |-> u.scheme, authority |-> u.authority, path |-> u.path,
              query |-> u.query, fragment |-> u.fragment]
  BY <1>1 DEF Parsing
<1>3. /\ FirstAt(s, ":", 1, colon) /\ start \in 4 .. end /\ Len(s) \in Nat
      /\ start \in 1 .. Len(s) + 1 /\ start \in Nat \ {0}
  BY <1>1 DEF Found
<1>4. ClosedChars(C) /\ ClosedChars(NoSlash) /\ Escapable \subseteq C /\ Escapable \subseteq NoSlash
  BY ClosedSets DEF ClosedChars, NoSlash
<1>5. /\ p \in start .. end /\ e \in start .. end
      /\ (FirstAt(s, "/", start, p) /\ e # p) \/ (NoneFrom(s, "/", start) /\ e = p)
  BY <1>3, AuthorityEnds
<1>6. h \in start .. end
  <2>1. Len(s) + 1 \in start .. Len(s) + 1
    BY <1>3
  <2> QED
    BY <1>3, <2>1, FirstOrElse
<1> HIDE DEF u, p, e, question, hash, h
<1>7. u.scheme \in Seq(LetterOf(Low(C))) /\ Without(u.scheme, ":")
  <2> DEFINE t == SubStr(s, 1, colon)
  <2>1. /\ 1 \in 1 .. Len(s) + 1 /\ colon \in 1 .. Len(s) + 1
        /\ \A i \in 1 .. colon - 1 : s[i] # Plain(":")
    BY <1>3 DEF FirstAt
  <2>2. t \in Seq(S)
    BY <2>1, SubStrIs
  <2>3. Without(t, ":")
    BY <2>1, SubStrWithout
  <2> HIDE DEF t
  <2>4. InLower(t) \in Seq(LetterOf(Low(C)))
    BY <1>4, <2>2, InLowerIs DEF Low
  <2>5. Without(InLower(t), ":")
    BY <2>2, <2>3, InLowerWithout DEF UrlDelimiters
  <2> QED
    BY <1>2, <2>4, <2>5 DEF t
<1>8. u.authority \in Seq(PlainOf(NoSlash))
  <2> DEFINE t == SubStr(s, start, p)
  <2>1. \A i \in start .. p - 1 : s[i] # Plain("/")
    BY <1>3, <1>5 DEF FirstAt, NoneFrom
  <2>2. t \in Seq(S)
    BY <1>3, <1>5, SubStrIs
  <2>3. Without(t, "/")
    BY <1>3, <1>5, <2>1, SubStrWithout
  <2> HIDE DEF t
  <2>4. t \in Seq(LetterOf(NoSlash))
    BY <2>2, <2>3, WithoutSlash
  <2>5. Unescaped(t) \in Seq(PlainOf(NoSlash))
    BY <1>4, <2>4, UnescapedIs
  <2> QED
    BY <1>2, <2>5 DEF t
<1>9. PICK f \in p .. end : /\ SubStr(s, p, e) = SubStr(s, p, f)
                            /\ f = p <=> NoneFrom(s, "/", start) /\ e = p
  <2>1. p \in 1 .. Len(s) + 1 /\ e \in Int /\ end \in p .. end /\ p \in Int
    BY <1>3, <1>5
  <2>2. CASE e < p
    <3>1. SubStr(s, p, e) = SubStr(s, p, end)
      BY <2>1, <2>2, SubStrRest
    <3>2. FirstAt(s, "/", start, p) /\ p # end /\ e # p
      BY <1>3, <1>5, <2>1, <2>2 DEF FirstAt
    <3> QED
      BY <2>1, <3>1, <3>2
  <2>3. CASE e >= p
    <3>1. e \in p .. end
      BY <1>5, <2>1, <2>3
    <3>2. e = p <=> NoneFrom(s, "/", start) /\ e = p
      BY <1>5
    <3> QED
      BY <3>1, <3>2
  <2> QED
    BY <2>1, <2>2, <2>3
<1> DEFINE t == SubStr(s, p, f)
<1>10. p \in 1 .. Len(s) + 1 /\ f \in p .. Len(s) + 1 /\ p \in Nat /\ f \in Nat
  BY <1>3, <1>5, <1>9
<1>11. /\ t \in Seq(S) /\ Len(t) = f - p /\ u.path = Unescaped(t)
       /\ \A i \in 1 .. f - p : t[i] = s[p + i - 1]
  BY <1>2, <1>9, <1>10, SubStrIs
<1> HIDE DEF t
<1>12. /\ u.path \in Seq(PlainOf(C)) /\ Len(u.path) = f - p
       /\ \A i \in 1 .. f - p : u.path[i] = Plain(t[i].char)
  BY <1>4, <1>11, UnescapedIs
<1>13. u.path # <<>> => u.path[1] = Plain("/")
  <2> SUFFICES ASSUME u.path # <<>> PROVE u.path[1] = Plain("/")
    OBVIOUS
  <2>1. f # p
    BY <1>10, <1>12
  <2>2. s[p] = Plain("/")
    BY <1>5, <1>9, <2>1 DEF FirstAt
  <2>3. 1 \in 1 .. f - p /\ p + 1 - 1 = p
    BY <1>10, <2>1
  <2>4. t[1] = Plain("/") /\ Plain("/").char = "/"
    BY <1>11, <2>2, <2>3 DEF Plain
  <2> QED
    BY <1>12, <2>3, <2>4
<1>14. u.path = <<>> => NoneFrom(s, "/", start)
  <2> SUFFICES ASSUME u.path = <<>> PROVE NoneFrom(s, "/", start)
    OBVIOUS
  <2>1. Len(u.path) = 0
    OBVIOUS
  <2>2. f = p
    BY <1>10, <1>12, <2>1
  <2> QED
    BY <1>9, <2>2
<1>15. ASSUME question # NPos
       PROVE  QueryOf(C, u.query) /\ (u.path = <<>> => QueryOf(NoSlash, u.query))
  <2>1. u.query = SplitQuery(SubStr(s, question + 1, h))
    BY <1>2, <1>15
  <2>2. FirstAt(s, "?", start, question)
    BY <1>3, <1>15, FoundFirst DEF question
  <2> DEFINE a == question + 1
  <2>3. a \in 1 .. Len(s) + 1 /\ a \in start .. end
    BY <1>3, <2>2 DEF FirstAt
  <2>4. PICK g \in a .. Len(s) + 1 : SubStr(s, a, h) = SubStr(s, a, g)
    <3> HIDE DEF a
    <3>1. h \in Int /\ a \in Int /\ Len(s) + 1 \in a .. Len(s) + 1
      BY <1>3, <1>6, <2>3
    <3>2. CASE h < a
      BY <2>3, <3>1, <3>2, SubStrRest
    <3>3. CASE h >= a
      <4>1. h \in a .. Len(s) + 1
        BY <1>6, <3>1, <3>3
      <4> QED
        BY <4>1
    <3> QED
      BY <3>1, <3>2, <3>3
  <2> DEFINE w == SubStr(s, a, g)
  <2>5. u.query = SplitQuery(w)
    BY <2>1, <2>4
  <2> HIDE DEF a
  <2>6. w \in Seq(S)
    BY <2>3, <2>4, SubStrIs
  <2>7. NoneFrom(s, "/", start) => Without(w, "/")
    <3> SUFFICES ASSUME NoneFrom(s, "/", start) PROVE Without(w, "/")
      OBVIOUS
    <3>1. \A i \in a .. g - 1 : s[i] # Plain("/")
      BY <1>3, <2>3, <2>4 DEF NoneFrom
    <3> QED
      BY <2>3, <2>4, <3>1, SubStrWithout
  <2> HIDE DEF w
  <2>8. QueryOf(C, u.query)
    BY <1>4, <2>5, <2>6, QueryParsed
  <2>9. u.path = <<>> => QueryOf(NoSlash, u.query)
    <3> SUFFICES ASSUME u.path = <<>> PROVE QueryOf(NoSlash, u.query)
      OBVIOUS
    <3>1. w \in Seq(LetterOf(NoSlash))
      BY <1>14, <2>6, <2>7, WithoutSlash
    <3> QED
      BY <1>4, <2>5, <3>1, QueryParsed
  <2> QED
    BY <2>8, <2>9
<1>16. /\ u.fragment \in Seq(S)
       /\ \A c : NoneFrom(s, c, start) => Without(u.fragment, c)
  <2>1. CASE hash = NPos
    <3>1. u.fragment = <<>>
      BY <1>2, <2>1 DEF None
    <3> QED
      BY <3>1 DEF Without
  <2>2. CASE hash # NPos
    <3>1. FirstAt(s, "#", start, hash)
      BY <1>3, <2>2, FoundFirst DEF hash
    <3> DEFINE a == hash + 1
    <3>2. a \in 1 .. Len(s) + 1 /\ a \in start .. end /\ Len(s) + 1 \in a .. Len(s) + 1
      BY <1>3, <3>1 DEF FirstAt
    <3>3. u.fragment = SubStr(s, a, Len(s) + 1)
      BY <1>2, <2>2
    <3> HIDE DEF a
    <3>4. u.fragment \in Seq(S)
      BY <3>2, <3>3, SubStrIs
    <3>5. ASSUME NEW c, NoneFrom(s, c, start) PROVE Without(u.fragment, c)
      <4>1. \A i \in a .. (Len(s) + 1) - 1 : s[i] # Plain(c)
        BY <1>3, <3>2, <3>5 DEF NoneFrom
      <4> QED
        BY <3>2, <3>3, <4>1, SubStrWithout
    <3> QED
      BY <3>4, <3>5
  <2> QED
    BY <2>1, <2>2
<1>17. u.path = <<>> => Without(u.fragment, "/")
  BY <1>14, <1>16
<1>18. u.query = None => Without(u.fragment, "?")
  <2> SUFFICES ASSUME u.query = None PROVE Without(u.fragment, "?")
    OBVIOUS
  <2>1. question = NPos
    <3> SUFFICES ASSUME question # NPos PROVE FALSE
      OBVIOUS
    <3>1. QueryOf(C, u.query)
      BY <1>15
    <3>2. DOMAIN <<>> = {}
      OBVIOUS
    <3> QED
      BY <3>1, <3>2 DEF QueryOf, None
  <2>2. NoneFrom(s, "?", start)
    <3>1. \/ FindFirst(s, "?", start) = NPos /\ NoneFrom(s, "?", start)
          \/ FindFirst(s, "?", start) # NPos
      BY <1>3, FoundFirst
    <3> QED
      BY <2>1, <3>1 DEF question
  <2> QED
    BY <1>16, <2>2
<1>19. u.query # None => question # NPos
  BY <1>2
<1> QED
  BY <1>2, <1>7, <1>8, <1>12, <1>13, <1>15, <1>16, <1>17, <1>18, <1>19
  DEF Well, u

(* Where a text has another one in it: behind its first b letters.         *)
At(t, b, x) == b + Len(x) <= Len(t) /\ \A i \in 1 .. Len(x) : t[b + i] = x[i]

(* What has been there is there in a longer text, and what comes behind.   *)
LEMMA Longer ==
  ASSUME NEW S, NEW x \in Seq(S), NEW y \in Seq(S)
  PROVE  /\ x \o y \in Seq(S) /\ Len(x \o y) = Len(x) + Len(y)
         /\ At(x \o y, Len(x), y)
         /\ \A b \in Nat : \A z \in Seq(S) : At(x, b, z) => At(x \o y, b, z)
<1> DEFINE t == x \o y
<1>1. /\ t \in Seq(S) /\ Len(t) = Len(x) + Len(y)
      /\ \A i \in 1 .. Len(x) : t[i] = x[i]
      /\ \A i \in 1 .. Len(y) : t[Len(x) + i] = y[i]
  BY TwoParts
<1>2. Len(x) \in Nat /\ Len(y) \in Nat
  OBVIOUS
<1> HIDE DEF t
<1>3. At(t, Len(x), y)
  BY <1>1, <1>2 DEF At
<1>4. ASSUME NEW b \in Nat, NEW z \in Seq(S), At(x, b, z) PROVE At(t, b, z)
  <2>1. Len(z) \in Nat /\ b + Len(z) <= Len(x)
    BY <1>4 DEF At
  <2>2. ASSUME NEW i \in 1 .. Len(z) PROVE t[b + i] = z[i]
    <3>1. b + i \in 1 .. Len(x)
      BY <1>2, <2>1
    <3> QED
      BY <1>1, <1>4, <3>1 DEF At
  <2>3. b + Len(z) <= Len(t)
    BY <1>1, <1>2, <2>1
  <2> QED
    BY <2>2, <2>3 DEF At
<1> QED
  BY <1>1, <1>3, <1>4 DEF t

(* A text is at the front of itself.                                       *)
LEMMA AtFront ==
  ASSUME NEW S, NEW x \in Seq(S)
  PROVE  At(x, 0, x)
BY DEF At

(* substr() takes what is there.                                           *)
LEMMA PartOf ==
  ASSUME NEW S, NEW t \in Seq(S), NEW x \in Seq(S), NEW b \in Nat, At(t, b, x),
         NEW from, NEW to, from = b + 1, to = b + Len(x) + 1
  PROVE  SubStr(t, from, to) = x
<1>1. Len(x) \in Nat /\ Len(t) \in Nat /\ b + Len(x) <= Len(t)
  BY DEF At
<1>2. from \in 1 .. Len(t) + 1 /\ to \in from .. Len(t) + 1 /\ to - from = Len(x)
  BY <1>1
<1>3. /\ SubStr(t, from, to) \in Seq(S) /\ Len(SubStr(t, from, to)) = to - from
      /\ \A i \in 1 .. to - from : SubStr(t, from, to)[i] = t[from + i - 1]
  <2>1. \A p \in 1 .. Len(t) + 1 : \A q \in p .. Len(t) + 1 :
          /\ SubStr(t, p, q) \in Seq(S) /\ Len(SubStr(t, p, q)) = q - p
          /\ \A i \in 1 .. q - p : SubStr(t, p, q)[i] = t[p + i - 1]
    BY SubStrIs
  <2> QED
    BY <1>2, <2>1
<1>4. \A i \in 1 .. Len(x) : SubStr(t, from, to)[i] = x[i]
  <2> TAKE i \in 1 .. Len(x)
  <2>1. from + i - 1 = b + i
    BY <1>1
  <2> QED
    BY <1>2, <1>3, <2>1 DEF At
<1> QED
  BY <1>2, <1>3, <1>4, SeqEqual

(* What is not in a part is not found there.                               *)
LEMMA NotThere ==
  ASSUME NEW t, NEW b \in Nat, NEW x, Len(x) \in Nat, At(t, b, x), NEW c, Without(x, c),
         NEW i \in b + 1 .. b + Len(x)
  PROVE  t[i] # Plain(c)
<1>1. i - b \in 1 .. Len(x) /\ b + (i - b) = i
  OBVIOUS
<1> QED
  BY <1>1 DEF At, Without

HasParts(t, a, b, c, d, e, f, S) ==
  /\ t \in Seq(S)
  /\ Len(t) = Len(a) + Len(b) + Len(c) + Len(d) + Len(e) + Len(f)
  /\ At(t, 0, a) /\ At(t, Len(a), b) /\ At(t, Len(a) + Len(b), c)
  /\ At(t, Len(a) + Len(b) + Len(c), d)
  /\ At(t, Len(a) + Len(b) + Len(c) + Len(d), e)
  /\ At(t, Len(a) + Len(b) + Len(c) + Len(d) + Len(e), f)

(* A text of six parts, each behind the others.                            *)
LEMMA SixParts ==
  ASSUME NEW S, NEW a \in Seq(S), NEW b \in Seq(S), NEW c \in Seq(S), NEW d \in Seq(S),
         NEW e \in Seq(S), NEW f \in Seq(S)
  PROVE  HasParts(a \o b \o c \o d \o e \o f, a, b, c, d, e, f, S)
<1> DEFINE t == a \o b \o c \o d \o e \o f
           x2 == a \o b
           x3 == x2 \o c
           x4 == x3 \o d
           x5 == x4 \o e
           l1 == Len(a)
           l2 == Len(a) + Len(b)
           l3 == Len(a) + Len(b) + Len(c)
           l4 == Len(a) + Len(b) + Len(c) + Len(d)
           l5 == Len(a) + Len(b) + Len(c) + Len(d) + Len(e)
<1>1. /\ 0 \in Nat /\ l1 \in Nat /\ l2 \in Nat /\ l3 \in Nat /\ l4 \in Nat /\ l5 \in Nat
  OBVIOUS
<1>2. x2 \in Seq(S) /\ Len(x2) = l2 /\ At(x2, 0, a) /\ At(x2, l1, b)
  <2> HIDE DEF x3, x4, x5
  <2> QED
    BY <1>1, Longer, AtFront
<1> HIDE DEF x2, l2
<1>3. /\ x3 \in Seq(S) /\ Len(x3) = l3 /\ At(x3, 0, a) /\ At(x3, l1, b) /\ At(x3, l2, c)
  <2>1. x2 \in Seq(S)
    BY <1>2
  <2>2. /\ x3 \in Seq(S) /\ Len(x3) = Len(x2) + Len(c) /\ At(x3, Len(x2), c)
        /\ \A n \in Nat : \A z \in Seq(S) : At(x2, n, z) => At(x3, n, z)
    BY <2>1, Longer
  <2>3. Len(x3) = l3
    BY <1>2, <2>2 DEF l2
  <2> HIDE DEF x3, l3
  <2> QED
    BY <1>1, <1>2, <2>2, <2>3
<1> HIDE DEF x3, l3
<1>4. /\ x4 \in Seq(S) /\ Len(x4) = l4 /\ At(x4, 0, a) /\ At(x4, l1, b) /\ At(x4, l2, c)
      /\ At(x4, l3, d)
  <2>1. x3 \in Seq(S)
    BY <1>3
  <2>2. /\ x4 \in Seq(S) /\ Len(x4) = Len(x3) + Len(d) /\ At(x4, Len(x3), d)
        /\ \A n \in Nat : \A z \in Seq(S) : At(x3, n, z) => At(x4, n, z)
    BY <2>1, Longer
  <2>3. Len(x4) = l4
    BY <1>3, <2>2 DEF l3
  <2> HIDE DEF x4, l4
  <2> QED
    BY <1>1, <1>3, <2>2, <2>3
<1> HIDE DEF x4, l4
<1>5. /\ x5 \in Seq(S) /\ Len(x5) = l5 /\ At(x5, 0, a) /\ At(x5, l1, b) /\ At(x5, l2, c)
      /\ At(x5, l3, d) /\ At(x5, l4, e)
  <2>1. x4 \in Seq(S)
    BY <1>4
  <2>2. /\ x5 \in Seq(S) /\ Len(x5) = Len(x4) + Len(e) /\ At(x5, Len(x4), e)
        /\ \A n \in Nat : \A z \in Seq(S) : At(x4, n, z) => At(x5, n, z)
    BY <2>1, Longer
  <2>3. Len(x5) = l5
    BY <1>4, <2>2 DEF l4
  <2> HIDE DEF x5, l5
  <2> QED
    BY <1>1, <1>4, <2>2, <2>3
<1> HIDE DEF x5, l5
<1>6. /\ t \in Seq(S) /\ Len(t) = l5 + Len(f) /\ At(t, 0, a) /\ At(t, l1, b) /\ At(t, l2, c)
      /\ At(t, l3, d) /\ At(t, l4, e) /\ At(t, l5, f)
  <2>1. x5 \in Seq(S)
    BY <1>5
  <2>2. t = x5 \o f
    BY DEF x2, x3, x4, x5
  <2> HIDE DEF t
  <2>3. /\ t \in Seq(S) /\ Len(t) = Len(x5) + Len(f) /\ At(t, Len(x5), f)
        /\ \A n \in Nat : \A z \in Seq(S) : At(x5, n, z) => At(t, n, z)
    BY <2>1, <2>2, Longer
  <2> QED
    BY <1>1, <1>5, <2>3
<1> QED
  BY <1>6 DEF l2, l3, l4, l5, HasParts

(* An encoded text has none of the delimiters that are encoded, and the    *)
(* slash only if it was there.                                             *)
LEMMA EscapedWithout ==
  ASSUME NEW C, Escapable \subseteq C, C \subseteq UrlChars, NEW s \in Seq(PlainOf(C))
  PROVE  /\ Escaped(s) \in Seq(LetterOf(UrlChars)) /\ Len(Escaped(s)) = Len(s)
         /\ ComesBack(s) => Unescaped(Escaped(s)) = s
         /\ \A d \in Encodable : Without(Escaped(s), d)
         /\ "/" \notin C => Without(Escaped(s), "/")
         /\ s # <<>> /\ s[1] = Plain("/") => Escaped(s)[1] = Plain("/")
<1> DEFINE e == Escaped(s)
<1>1. /\ e \in Seq(LetterOf(C \ Encodable)) /\ Len(e) = Len(s)
      /\ \A i \in 1 .. Len(s) : s[i].char \notin Encodable => e[i] = s[i]
      /\ ComesBack(s) => Unescaped(e) = s
  BY EscapedIs
<1> HIDE DEF e
<1>2. e \in Seq(LetterOf(UrlChars))
  <2>1. LetterOf(C \ Encodable) \subseteq LetterOf(UrlChars)
    BY DEF LetterOf
  <2>2. e \in Seq(LetterOf(C \ Encodable))
    BY <1>1
  <2> QED
    BY <2>1, <2>2, Widened
<1>3. ASSUME NEW d, d \notin C \ Encodable PROVE Without(e, d)
  <2>1. ASSUME NEW i \in 1 .. Len(e), e[i] = Plain(d) PROVE FALSE
    <3>1. e[i] \in LetterOf(C \ Encodable)
      BY <1>1, <2>1
    <3>2. e[i].char = d /\ e[i].percent = FALSE
      BY <2>1 DEF Plain
    <3>3. e[i].char \in C \ Encodable
      BY <3>1, <3>2, LettersAre
    <3> QED
      BY <1>3, <3>2, <3>3
  <2> QED
    BY <2>1 DEF Without
<1>4. ASSUME s # <<>>, s[1] = Plain("/") PROVE e[1] = Plain("/")
  <2>1. 1 \in 1 .. Len(s)
    BY <1>4
  <2>2. s[1].char \notin Encodable
    BY <1>4, EncodedChars DEF Plain
  <2> QED
    BY <1>1, <1>4, <2>1, <2>2
<1> QED
  BY <1>1, <1>2, <1>3, <1>4 DEF e

(* No query is printed as nothing.                                         *)
LEMMA NoQueryPrinted == StrOfQuery(None) = <<>>
<1> DEFINE keys == SetToSeq({})
           toks == [i \in DOMAIN keys |-> StrOfParameter(None, i)]
<1>1. DOMAIN None = {}
  BY DEF None
<1>2. Len(keys) = 0 /\ keys \in Seq({})
  <2>1. IsFiniteSet({}) /\ Cardinality({}) = 0
    BY FS_EmptySet
  <2> QED
    BY <2>1, KeysListed
<1>3. DOMAIN keys = {}
  <2> HIDE DEF keys
  <2> QED
    BY <1>2
<1>4. toks = <<>>
  <2> HIDE DEF keys
  <2> QED
    BY <1>3
<1>5. StrOfQuery(None) = FlattenSeq(<<>>)
  BY <1>1, <1>4 DEF StrOfQuery
<1>6. PICK E : Flattens(E, <<>>, {})
  <2>1. <<>> \in Seq(Seq({}))
    OBVIOUS
  <2> QED
    BY <2>1, FlattenIs
<1>7. FlattenSeq(<<>>) = E[0] /\ E[0] = <<>>
  <2>1. Len(<<>>) = 0
    OBVIOUS
  <2> QED
    BY <1>6, <2>1 DEF Flattens
<1> QED
  BY <1>5, <1>7

(* What str() prints a url as, and that it is parsed to the same url if    *)
(* urlencode() prints its characters as themselves.                        *)
LEMMA PrintedBack ==
  ASSUME NEW u, Well(u)
  PROVE  /\ Str(u) \in Seq(LetterOf(UrlChars))
         /\ AllComesBack(u) => ParseOf(Str(u)) = u
<1> DEFINE S == LetterOf(UrlChars)
           mark == <<Plain(":"), Plain("/"), Plain("/")>>
           A == Escaped(u.authority)
           P == Escaped(u.path)
           Q == StrOfQuery(u.query)
           F == IF u.fragment = None THEN None ELSE <<Plain("#")>> \o u.fragment
           t == Str(u)
           b0 == Len(u.scheme)
           b1 == Len(u.scheme) + Len(mark)
           b2 == Len(u.scheme) + Len(mark) + Len(A)
           b3 == Len(u.scheme) + Len(mark) + Len(A) + Len(P)
           b4 == Len(u.scheme) + Len(mark) + Len(A) + Len(P) + Len(Q)
           colon == b0 + 1
           start == b1 + 1
           C == IF u.path = <<>> THEN NoSlash ELSE UrlChars
<1>1. /\ ClosedChars(UrlChars) /\ ClosedChars(NoSlash) /\ ClosedChars(C)
      /\ Escapable \subseteq UrlChars /\ Escapable \subseteq NoSlash
      /\ NoSlash \subseteq UrlChars /\ C \subseteq UrlChars
      /\ "?" \in Encodable /\ "#" \in Encodable /\ ":" \in UrlChars /\ "/" \in UrlChars
      /\ "/" \notin NoSlash
  <2>1. ClosedChars(UrlChars) /\ ClosedChars(NoSlash)
    BY ClosedSets DEF NoSlash
  <2>2. Escapable \subseteq UrlChars /\ Escapable \subseteq NoSlash
    BY <2>1 DEF ClosedChars
  <2> QED
    BY <2>1, <2>2, EncodedChars, UrlAssumption DEF UrlDelimiters, NoSlash
<1>2. /\ u.scheme \in Seq(S) /\ Without(u.scheme, ":") /\ InLower(u.scheme) = u.scheme
  <2>1. u.scheme \in Seq(LetterOf(Low(UrlChars))) /\ Without(u.scheme, ":")
    BY DEF Well
  <2>2. LetterOf(Low(UrlChars)) \subseteq S
    BY DEF LetterOf, Low
  <2>3. u.scheme \in Seq(LetterOf(Low(UrlChars)))
    BY <2>1
  <2>4. u.scheme \in Seq(S)
    BY <2>2, <2>3, Widened
  <2>5. u.scheme \in Seq(LetterOf(UrlChars \ Capitals))
    BY <2>1 DEF Low
  <2>6. InLower(u.scheme) = u.scheme
    BY <1>1, <2>4, <2>5, InLowerIs
  <2> QED
    BY <2>1, <2>4, <2>6
<1>3. mark \in Seq(S) /\ Len(mark) = 3 /\ mark[1] = Plain(":") /\ mark[2] = Plain("/")
      /\ mark[3] = Plain("/")
  <2>1. Plain(":") \in S /\ Plain("/") \in S
    BY <1>1, MakesLetter
  <2> HIDE DEF S
  <2> QED
    BY <2>1
<1>4. /\ A \in Seq(S) /\ (ComesBack(u.authority) => Unescaped(A) = u.authority)
      /\ \A d \in Encodable : Without(A, d)
      /\ Without(A, "/")
  <2>1. u.authority \in Seq(PlainOf(NoSlash))
    BY DEF Well
  <2> QED
    BY <1>1, <2>1, EscapedWithout
<1>5. /\ P \in Seq(S) /\ (ComesBack(u.path) => Unescaped(P) = u.path) /\ Len(P) = Len(u.path)
      /\ \A d \in Encodable : Without(P, d)
      /\ u.path # <<>> => P[1] = Plain("/")
  <2>1. u.path \in Seq(PlainOf(UrlChars)) /\ (u.path # <<>> => u.path[1] = Plain("/"))
    BY DEF Well
  <2>2. u.path \in Seq(PlainOf(UrlChars))
    BY <2>1
  <2> QED
    BY <1>1, <2>1, <2>2, EscapedWithout
<1>6. /\ Q \in Seq(S) /\ Without(Q, "#")
      /\ u.query = None => Q = <<>>
      /\ u.query # None => Q # <<>> /\ Q[1] = Plain("?") /\ QueryOf(UrlChars, u.query)
                          /\ \E o : Layout(Q, u.query, o)
      /\ u.path = <<>> => Without(Q, "/")
  <2>1. CASE u.query = None
    <3>1. Q = <<>>
      BY <2>1, NoQueryPrinted
    <3> HIDE DEF Q
    <3> QED
      BY <2>1, <3>1 DEF Without
  <2>2. CASE u.query # None
    <3>1. QueryOf(C, u.query) /\ QueryOf(UrlChars, u.query)
      BY <2>2 DEF Well
    <3>2. Q \in Seq(LetterOf(C)) /\ \E o : Layout(Q, u.query, o)
      <4> HIDE DEF C
      <4> QED
        BY <1>1, <3>1, QueryPrinted
    <3>3. PICK o : Layout(Q, u.query, o)
      BY <3>2
    <3>4. /\ Len(Q) \in Nat \ {0} /\ Q[1] = Plain("?")
          /\ \A p \in 1 .. Len(Q) : Q[p] # Plain("#")
      <4> HIDE DEF Q
      <4> QED
        BY <1>1, <3>1, <3>3, PrintedQueryIs
    <3> HIDE DEF Q
    <3>5. Q \in Seq(S)
      <4>1. LetterOf(C) \subseteq S
        BY DEF LetterOf, NoSlash
      <4>2. Q \in Seq(LetterOf(C))
        BY <3>2
      <4> HIDE DEF S, C
      <4> QED
        BY <4>1, <4>2, Widened
    <3>6. u.path = <<>> => Without(Q, "/")
      <4> SUFFICES ASSUME u.path = <<>> PROVE Without(Q, "/")
        OBVIOUS
      <4>1. Q \in Seq(LetterOf(NoSlash))
        BY <3>2
      <4>2. ASSUME NEW i \in 1 .. Len(Q), Q[i] = Plain("/") PROVE FALSE
        <5>1. Q[i] \in LetterOf(NoSlash)
          BY <4>1, <4>2
        <5>2. Q[i].char = "/" /\ Q[i].percent = FALSE
          BY <4>2 DEF Plain
        <5>3. Q[i].char \in NoSlash
          BY <5>1, <5>2, LettersAre
        <5> QED
          BY <1>1, <5>2, <5>3
      <4> QED
        BY <4>2 DEF Without
    <3>7. Q # <<>>
      <4>1. Len(<<>>) = 0
        OBVIOUS
      <4> QED
        BY <3>4, <4>1
    <3> QED
      BY <2>2, <3>1, <3>3, <3>4, <3>5, <3>6, <3>7 DEF Without
  <2> QED
    BY <2>1, <2>2
<1>7. /\ u.fragment \in Seq(S)
      /\ u.path = <<>> => Without(u.fragment, "/")
      /\ u.query = None => Without(u.fragment, "?")
  BY DEF Well
<1>8. /\ F \in Seq(S)
      /\ u.fragment = <<>> => F = <<>>
      /\ u.fragment # <<>> => /\ Len(F) = 1 + Len(u.fragment) /\ F[1] = Plain("#")
                             /\ \A i \in 1 .. Len(u.fragment) : F[1 + i] = u.fragment[i]
      /\ \A c : c # "#" /\ Without(u.fragment, c) => Without(F, c)
  <2>1. CASE u.fragment = <<>>
    <3>1. F = <<>>
      BY <2>1 DEF None
    <3> HIDE DEF F
    <3> QED
      BY <2>1, <3>1 DEF Without
  <2>2. CASE u.fragment # <<>>
    <3> DEFINE x == <<Plain("#")>>
               y == u.fragment
    <3>1. F = x \o y
      BY <2>2 DEF None
    <3>2. x \in Seq(S) /\ Len(x) = 1 /\ x[1] = Plain("#")
      <4>1. Plain("#") \in S
        BY <1>1, EncodedChars, MakesLetter
      <4> HIDE DEF S
      <4> QED
        BY <4>1
    <3>3. x \in Seq(S)
      BY <3>2
    <3>4. y \in Seq(S)
      BY <1>7
    <3> HIDE DEF F, x, y, S
    <3>5. /\ F \in Seq(S) /\ Len(F) = Len(x) + Len(y)
          /\ \A i \in 1 .. Len(x) : F[i] = x[i]
          /\ \A i \in 1 .. Len(y) : F[Len(x) + i] = y[i]
      BY <3>1, <3>3, <3>4, TwoParts
    <3>6. Len(F) = 1 + Len(y) /\ F[1] = Plain("#") /\ \A i \in 1 .. Len(y) : F[1 + i] = y[i]
      BY <3>2, <3>5
    <3>7. ASSUME NEW c, c # "#", Without(y, c) PROVE Without(F, c)
      <4>1. ASSUME NEW i \in 1 .. Len(F) PROVE F[i] # Plain(c)
        <5>1. CASE i = 1
          BY <3>6, <3>7, <5>1 DEF Plain
        <5>2. CASE i # 1
          <6>1. i - 1 \in 1 .. Len(y) /\ 1 + (i - 1) = i
            <7>1. Len(y) \in Nat
              BY <3>4
            <7> QED
              BY <3>6, <5>2, <7>1
          <6>2. F[1 + (i - 1)] = y[i - 1]
            BY <3>6, <6>1
          <6> QED
            BY <3>7, <6>1, <6>2 DEF Without
        <5> QED
          BY <5>1, <5>2
      <4> QED
        BY <4>1 DEF Without
    <3> QED
      BY <2>2, <3>5, <3>6, <3>7 DEF y
  <2> QED
    BY <2>1, <2>2
<1>9. /\ t \in Seq(S) /\ Len(t) = b4 + Len(F)
      /\ At(t, 0, u.scheme) /\ At(t, b0, mark) /\ At(t, b1, A) /\ At(t, b2, P)
      /\ At(t, b3, Q) /\ At(t, b4, F)
  <2>1. t = u.scheme \o mark \o A \o P \o Q \o F
    BY DEF Str
  <2>2. /\ u.scheme \in Seq(S)
    BY <1>2
  <2>3. mark \in Seq(S)
    BY <1>3
  <2>4. A \in Seq(S)
    BY <1>4
  <2>5. P \in Seq(S)
    BY <1>5
  <2>6. Q \in Seq(S)
    BY <1>6
  <2>7. F \in Seq(S)
    BY <1>8
  <2> DEFINE sch == u.scheme
  <2>8. sch \in Seq(S)
    BY <2>2
  <2> HIDE DEF sch, t, mark, A, P, Q, F, S
  <2>9. HasParts(sch \o mark \o A \o P \o Q \o F, sch, mark, A, P, Q, F, S)
    BY <2>3, <2>4, <2>5, <2>6, <2>7, <2>8, SixParts
  <2>10. HasParts(t, u.scheme, mark, A, P, Q, F, S)
    BY <2>1, <2>9 DEF sch
  <2> QED
    BY <2>10 DEF HasParts
<1>10. /\ b0 \in Nat /\ Len(A) \in Nat /\ Len(P) \in Nat /\ Len(Q) \in Nat /\ Len(F) \in Nat
       /\ b1 = b0 + 3 /\ b2 = b1 + Len(A) /\ b3 = b2 + Len(P) /\ b4 = b3 + Len(Q)
       /\ b1 \in Nat /\ b2 \in Nat /\ b3 \in Nat /\ b4 \in Nat
  <2> HIDE DEF mark, A, P, Q, F, S, t
  <2>1. b0 \in Nat /\ Len(A) \in Nat /\ Len(P) \in Nat /\ Len(Q) \in Nat /\ Len(F) \in Nat
        /\ Len(mark) = 3
    BY <1>2, <1>3, <1>4, <1>5, <1>6, <1>8
  <2> QED
    BY <2>1
<1> HIDE DEF t, mark, A, P, Q, F, S, C
<1>11. Len(t) \in Nat
  BY <1>9, <1>10
<1>12. Found(t, colon, start)
  <2>1. At(t, 0, u.scheme) /\ At(t, b0, mark) /\ b1 <= Len(t)
    BY <1>9, <1>10
  <2> HIDE DEF b0, b1, b2, b3, b4
  <2>2. start = colon + 3 /\ start \in 4 .. Len(t) + 1
    BY <1>10, <1>11, <2>1
  <2>3. t[b0 + 1] = Plain(":") /\ t[b0 + 2] = Plain("/") /\ t[b0 + 3] = Plain("/")
    BY <1>3, <2>1 DEF At
  <2>4. FirstAt(t, ":", 1, colon)
    <3>1. ASSUME NEW i \in 1 .. colon - 1 PROVE t[i] # Plain(":")
      <4>1. i \in 0 + 1 .. 0 + Len(u.scheme) /\ Len(u.scheme) \in Nat
        BY <1>10, <3>1 DEF b0
      <4> QED
        BY <1>2, <2>1, <4>1, NotThere
    <3>2. colon \in 1 .. Len(t)
      BY <1>10, <1>11, <2>2
    <3> QED
      BY <2>3, <3>1, <3>2 DEF FirstAt
  <2>5. SubSeq(t, colon + 1, colon + 2) = <<Plain("/"), Plain("/")>>
    <3> DEFINE x == SubSeq(t, colon + 1, colon + 2)
    <3>1. /\ colon + 1 \in Int /\ colon + 2 \in Int
          /\ \A i \in colon + 1 .. colon + 2 : t[i] \in S
      <4>1. \A i \in colon + 1 .. colon + 2 : i \in 1 .. Len(t)
        BY <1>10, <1>11, <2>2
      <4> QED
        BY <1>9, <1>10, <4>1
    <3> DEFINE from == colon + 1
               to == colon + 2
    <3>2. from \in Int /\ to \in Int /\ \A i \in from .. to : t[i] \in S
      BY <3>1
    <3>3. from = b0 + 2 /\ to = b0 + 3
      BY <1>10
    <3> HIDE DEF from, to, colon
    <3>4. /\ SubSeq(t, from, to) \in Seq(S)
          /\ Len(SubSeq(t, from, to)) = IF from <= to THEN to - from + 1 ELSE 0
          /\ \A i \in 1 .. to - from + 1 : SubSeq(t, from, to)[i] = t[from + i - 1]
      BY <3>2, SubSeqProperties
    <3>5. from <= to /\ to - from + 1 = 2 /\ from + 1 - 1 = b0 + 2 /\ from + 2 - 1 = b0 + 3
      BY <1>10, <3>3
    <3>6. SubSeq(t, from, to) \in Seq(S)
      BY <3>4
    <3>7. /\ Len(SubSeq(t, from, to)) = 2
          /\ SubSeq(t, from, to)[1] = Plain("/")
          /\ SubSeq(t, from, to)[2] = Plain("/")
      BY <2>3, <3>4, <3>5
    <3> DEFINE y == SubSeq(t, from, to)
    <3>8. y = <<Plain("/"), Plain("/")>>
      <4>1. y \in Seq(S) /\ Len(y) = 2 /\ y[1] = Plain("/") /\ y[2] = Plain("/")
        BY <3>6, <3>7
      <4> HIDE DEF y
      <4> QED
        BY <4>1
    <3> QED
      BY <3>8 DEF from, to
  <2> QED
    BY <2>2, <2>4, <2>5 DEF Found
<1>13. start \in 1 .. Len(t) + 1 /\ start \in Nat \ {0} /\ start = b1 + 1
  <2> HIDE DEF b0, b1, b2, b3, b4
  <2>1. b1 <= Len(t)
    BY <1>9, <1>10
  <2> QED
    BY <1>10, <1>11, <2>1
<1> HIDE DEF b0, b1, b2, b3, b4, start
<1>14. /\ \A c : Without(A, c) => \A i \in b1 + 1 .. b2 : t[i] # Plain(c)
       /\ \A c : Without(P, c) => \A i \in b2 + 1 .. b3 : t[i] # Plain(c)
       /\ \A c : Without(Q, c) => \A i \in b3 + 1 .. b4 : t[i] # Plain(c)
       /\ \A c : Without(F, c) => \A i \in b4 + 1 .. Len(t) : t[i] # Plain(c)
  <2>1. \A b \in Nat : \A x : Len(x) \in Nat /\ At(t, b, x) =>
          \A c : Without(x, c) => \A i \in b + 1 .. b + Len(x) : t[i] # Plain(c)
    BY NotThere
  <2>2. \A c : Without(A, c) => \A i \in b1 + 1 .. b1 + Len(A) : t[i] # Plain(c)
    BY <1>9, <1>10, <2>1
  <2>3. \A c : Without(P, c) => \A i \in b2 + 1 .. b2 + Len(P) : t[i] # Plain(c)
    BY <1>9, <1>10, <2>1
  <2>4. \A c : Without(Q, c) => \A i \in b3 + 1 .. b3 + Len(Q) : t[i] # Plain(c)
    BY <1>9, <1>10, <2>1
  <2>5. \A c : Without(F, c) => \A i \in b4 + 1 .. b4 + Len(F) : t[i] # Plain(c)
    BY <1>9, <1>10, <2>1
  <2>6. /\ b1 + Len(A) = b2 /\ b2 + Len(P) = b3 /\ b3 + Len(Q) = b4
        /\ b4 + Len(F) = Len(t)
    BY <1>9, <1>10
  <2> QED
    BY <2>2, <2>3, <2>4, <2>5, <2>6
<1>15. u.fragment # <<>> => FirstAt(t, "#", start, b4 + 1)
  <2> SUFFICES ASSUME u.fragment # <<>> PROVE FirstAt(t, "#", start, b4 + 1)
    OBVIOUS
  <2>1. Len(F) # 0 /\ F[1] = Plain("#")
    BY <1>7, <1>8
  <2>2. t[b4 + 1] = Plain("#") /\ b4 + 1 <= Len(t)
    <3>1. 1 \in 1 .. Len(F) /\ At(t, b4, F)
      BY <1>9, <1>10, <2>1
    <3> QED
      BY <1>10, <1>11, <2>1, <3>1 DEF At
  <2>3. Without(A, "#") /\ Without(P, "#") /\ Without(Q, "#")
    BY <1>1, <1>4, <1>5, <1>6
  <2>4. ASSUME NEW i \in start .. (b4 + 1) - 1 PROVE t[i] # Plain("#")
    <3>1. i \in b1 + 1 .. b2 \/ i \in b2 + 1 .. b3 \/ i \in b3 + 1 .. b4
      BY <1>10, <1>13
    <3> QED
      BY <1>14, <2>3, <3>1
  <2>5. b4 + 1 \in start .. Len(t)
    BY <1>10, <1>11, <1>13, <2>2
  <2> QED
    BY <2>2, <2>4, <2>5 DEF FirstAt
<1>16. u.fragment = <<>> => NoneFrom(t, "#", start) /\ Len(t) = b4
  <2> SUFFICES ASSUME u.fragment = <<>> PROVE NoneFrom(t, "#", start) /\ Len(t) = b4
    OBVIOUS
  <2>1. Len(F) = 0
    BY <1>8
  <2>2. Len(t) = b4
    BY <1>9, <1>10, <2>1
  <2>3. Without(A, "#") /\ Without(P, "#") /\ Without(Q, "#")
    BY <1>1, <1>4, <1>5, <1>6
  <2>4. ASSUME NEW i \in start .. Len(t) PROVE t[i] # Plain("#")
    <3>1. i \in b1 + 1 .. b2 \/ i \in b2 + 1 .. b3 \/ i \in b3 + 1 .. b4
      BY <1>10, <1>13, <2>2
    <3> QED
      BY <1>14, <2>3, <3>1
  <2> QED
    BY <2>2, <2>4 DEF NoneFrom
<1>17. u.query # None => FirstAt(t, "?", start, b3 + 1)
  <2> SUFFICES ASSUME u.query # None PROVE FirstAt(t, "?", start, b3 + 1)
    OBVIOUS
  <2>1. Len(Q) # 0 /\ Q[1] = Plain("?")
    BY <1>6
  <2>2. t[b3 + 1] = Plain("?") /\ b3 + 1 <= Len(t)
    <3>1. 1 \in 1 .. Len(Q) /\ At(t, b3, Q)
      BY <1>9, <1>10, <2>1
    <3> QED
      BY <1>10, <1>11, <2>1, <3>1 DEF At
  <2>3. Without(A, "?") /\ Without(P, "?")
    BY <1>1, <1>4, <1>5
  <2>4. ASSUME NEW i \in start .. (b3 + 1) - 1 PROVE t[i] # Plain("?")
    <3>1. i \in b1 + 1 .. b2 \/ i \in b2 + 1 .. b3
      BY <1>10, <1>13
    <3> QED
      BY <1>14, <2>3, <3>1
  <2>5. b3 + 1 \in start .. Len(t)
    BY <1>10, <1>11, <1>13, <2>2
  <2> QED
    BY <2>2, <2>4, <2>5 DEF FirstAt
<1>18. u.query = None => NoneFrom(t, "?", start) /\ b3 = b4
  <2> SUFFICES ASSUME u.query = None PROVE NoneFrom(t, "?", start) /\ b3 = b4
    OBVIOUS
  <2>1. Len(Q) = 0
    BY <1>6
  <2>2. b3 = b4
    BY <1>10, <2>1
  <2>3. Without(A, "?") /\ Without(P, "?") /\ Without(F, "?")
    <3>1. "?" # "#"
      OBVIOUS
    <3> QED
      BY <1>1, <1>4, <1>5, <1>7, <1>8, <3>1
  <2>4. ASSUME NEW i \in start .. Len(t) PROVE t[i] # Plain("?")
    <3>1. i \in b1 + 1 .. b2 \/ i \in b2 + 1 .. b3 \/ i \in b4 + 1 .. Len(t)
      BY <1>10, <1>13, <2>2
    <3> QED
      BY <1>14, <2>3, <3>1
  <2> QED
    BY <2>2, <2>4 DEF NoneFrom
<1>19. u.path # <<>> => FirstAt(t, "/", start, b2 + 1)
  <2> SUFFICES ASSUME u.path # <<>> PROVE FirstAt(t, "/", start, b2 + 1)
    OBVIOUS
  <2>1. Len(P) # 0 /\ P[1] = Plain("/")
    <3>1. u.path \in Seq(PlainOf(UrlChars))
      BY DEF Well
    <3> QED
      BY <1>5, <3>1
  <2>2. t[b2 + 1] = Plain("/") /\ b2 + 1 <= Len(t)
    <3>1. 1 \in 1 .. Len(P) /\ At(t, b2, P)
      BY <1>9, <1>10, <2>1
    <3> QED
      BY <1>10, <1>11, <2>1, <3>1 DEF At
  <2>3. ASSUME NEW i \in start .. (b2 + 1) - 1 PROVE t[i] # Plain("/")
    <3>1. i \in b1 + 1 .. b2
      BY <1>10, <1>13
    <3> QED
      BY <1>4, <1>14, <3>1
  <2>4. b2 + 1 \in start .. Len(t)
    BY <1>10, <1>11, <1>13, <2>2
  <2> QED
    BY <2>2, <2>3, <2>4 DEF FirstAt
<1>20. u.path = <<>> => NoneFrom(t, "/", start) /\ b2 = b3
  <2> SUFFICES ASSUME u.path = <<>> PROVE NoneFrom(t, "/", start) /\ b2 = b3
    OBVIOUS
  <2>1. Len(P) = 0
    BY <1>5
  <2>2. b2 = b3
    BY <1>10, <2>1
  <2>3. Without(A, "/") /\ Without(Q, "/") /\ Without(F, "/")
    <3>1. "/" # "#"
      OBVIOUS
    <3> QED
      BY <1>4, <1>6, <1>7, <1>8, <3>1
  <2>4. ASSUME NEW i \in start .. Len(t) PROVE t[i] # Plain("/")
    <3>1. i \in b1 + 1 .. b2 \/ i \in b3 + 1 .. b4 \/ i \in b4 + 1 .. Len(t)
      BY <1>10, <1>13, <2>2
    <3> QED
      BY <1>14, <2>3, <3>1
  <2> QED
    BY <2>2, <2>4 DEF NoneFrom
<1>21. /\ FirstOr(t, "#", start, Len(t) + 1) = b4 + 1
       /\ FindFirst(t, "#", start) = IF u.fragment = <<>> THEN NPos ELSE b4 + 1
       /\ u.fragment # <<>> => b4 + 1 # NPos
  <2>1. CASE u.fragment = <<>>
    <3>1. FindFirst(t, "#", start) = NPos
      BY <1>9, <1>13, <1>16, <2>1, NothingFound
    <3> QED
      BY <1>16, <2>1, <3>1 DEF FirstOr
  <2>2. CASE u.fragment # <<>>
    <3> DEFINE p == b4 + 1
    <3>1. FirstAt(t, "#", start, p)
      BY <1>15, <2>2
    <3> HIDE DEF p
    <3>2. FindFirst(t, "#", start) = p /\ p # NPos
      BY <1>9, <1>13, <3>1, FirstFound
    <3> QED
      BY <2>2, <3>2 DEF FirstOr, p
  <2> QED
    BY <2>1, <2>2
<1>22. /\ PathEnd(t, start) = b3 + 1
       /\ FindFirst(t, "?", start) = IF u.query = None THEN NPos ELSE b3 + 1
       /\ u.query # None => b3 + 1 # NPos
       /\ FirstOr(t, "?", start, b4 + 1) = b3 + 1
  <2>1. CASE u.query = None
    <3>1. FindFirst(t, "?", start) = NPos
      BY <1>9, <1>13, <1>18, <2>1, NothingFound
    <3> QED
      BY <1>18, <1>21, <2>1, <3>1 DEF FirstOr, PathEnd
  <2>2. CASE u.query # None
    <3> DEFINE p == b3 + 1
    <3>1. FirstAt(t, "?", start, p)
      BY <1>17, <2>2
    <3> HIDE DEF p
    <3>2. FindFirst(t, "?", start) = p /\ p # NPos
      BY <1>9, <1>13, <3>1, FirstFound
    <3> QED
      BY <2>2, <3>2 DEF FirstOr, PathEnd, p
  <2> QED
    BY <2>1, <2>2
<1>23. AuthorityEnd(t, start) = b2 + 1
  <2>1. AuthorityEnd(t, start) = FirstOr(t, "/", start, b3 + 1)
    BY <1>21, <1>22 DEF AuthorityEnd
  <2>2. CASE u.path = <<>>
    <3>1. FindFirst(t, "/", start) = NPos
      BY <1>9, <1>13, <1>20, <2>2, NothingFound
    <3> QED
      BY <1>20, <2>1, <2>2, <3>1 DEF FirstOr
  <2>3. CASE u.path # <<>>
    <3> DEFINE p == b2 + 1
    <3>1. FirstAt(t, "/", start, p)
      BY <1>19, <2>3
    <3> HIDE DEF p
    <3>2. FindFirst(t, "/", start) = p /\ p # NPos
      BY <1>9, <1>13, <3>1, FirstFound
    <3> QED
      BY <2>1, <3>2 DEF FirstOr, p
  <2> QED
    BY <2>2, <2>3
<1>24. SubStr(t, 1, colon) = u.scheme
  <2>1. 1 = 0 + 1 /\ colon = 0 + Len(u.scheme) + 1
    BY <1>10 DEF b0
  <2> HIDE DEF colon
  <2> QED
    BY <1>2, <1>9, <2>1, PartOf
<1>25. SubStr(t, start, b2 + 1) = A
  <2> DEFINE to == b2 + 1
  <2>1. start = b1 + 1 /\ to = b1 + Len(A) + 1
    BY <1>10, <1>13
  <2> HIDE DEF to
  <2>2. SubStr(t, start, to) = A
    <3>1. At(t, b1, A) /\ b1 \in Nat
      BY <1>9, <1>10
    <3>2. t \in Seq(S)
      BY <1>9
    <3>3. A \in Seq(S)
      BY <1>4
    <3> QED
      BY <2>1, <3>1, <3>2, <3>3, PartOf
  <2> QED
    BY <2>2 DEF to
<1>26. SubStr(t, b2 + 1, b3 + 1) = P
  <2> DEFINE from == b2 + 1
             to == b3 + 1
  <2>1. from = b2 + 1 /\ to = b2 + Len(P) + 1
    BY <1>10
  <2> HIDE DEF from, to
  <2>2. SubStr(t, from, to) = P
    <3>1. At(t, b2, P) /\ b2 \in Nat
      BY <1>9, <1>10
    <3>2. t \in Seq(S)
      BY <1>9
    <3>3. P \in Seq(S)
      BY <1>5
    <3> QED
      BY <2>1, <3>1, <3>2, <3>3, PartOf
  <2> QED
    BY <2>2 DEF from, to
<1>27. u.query # None /\ QueryComesBack(u.query) =>
         SplitQuery(SubStr(t, b3 + 1 + 1, b4 + 1)) = u.query
  <2> SUFFICES ASSUME u.query # None, QueryComesBack(u.query)
               PROVE  SplitQuery(SubStr(t, b3 + 1 + 1, b4 + 1)) = u.query
    OBVIOUS
  <2> DEFINE from == b3 + 1 + 1
             to == b4 + 1
             w == SubStr(t, from, to)
  <2>1. PICK o : Layout(Q, u.query, o)
    BY <1>6
  <2>2. Len(Q) # 0
    BY <1>6
  <2>3. b4 <= Len(t) /\ \A i \in 1 .. Len(Q) : t[b3 + i] = Q[i]
    BY <1>9, <1>10 DEF At
  <2>4. from \in 1 .. Len(t) + 1 /\ to \in from .. Len(t) + 1 /\ to - from = Len(Q) - 1
        /\ from = b3 + 2
    BY <1>10, <1>11, <2>2, <2>3
  <2> HIDE DEF from, to
  <2>5. from \in 1 .. Len(t) + 1
    BY <2>4
  <2>6. to \in from .. Len(t) + 1
    BY <2>4
  <2>7. w \in Seq(S) /\ Len(w) = to - from /\ \A i \in 1 .. to - from : w[i] = t[from + i - 1]
    BY <1>9, <2>5, <2>6, SubStrIs
  <2>8. Len(w) = Len(Q) - 1
    BY <2>4, <2>7
  <2> HIDE DEF w
  <2>9. WithoutFirst(w, Q)
    <3>1. ASSUME NEW i \in 1 .. Len(w) PROVE w[i] = Q[i + 1]
      <4>1. i + 1 \in 1 .. Len(Q) /\ from + i - 1 = b3 + (i + 1)
        <5>1. b3 \in Nat /\ Len(Q) \in Nat /\ from = b3 + 2
          BY <1>10, <2>4
        <5>2. i \in 1 .. Len(Q) - 1
          BY <2>8
        <5> QED
          BY <5>1, <5>2
      <4>2. i \in 1 .. to - from
        BY <2>7
      <4> QED
        BY <2>3, <2>7, <4>1, <4>2
    <3>2. Len(Q) = Len(w) + 1
      <4>1. Len(Q) \in Nat
        BY <1>10
      <4> QED
        BY <2>8, <4>1
    <3> QED
      BY <3>1, <3>2 DEF WithoutFirst
  <2>10. w \in Seq(LetterOf(UrlChars))
    BY <2>7 DEF S
  <2>11. SplitQuery(w) = u.query
    BY <1>1, <1>6, <2>1, <2>9, <2>10, QueryReadsBack
  <2> QED
    BY <2>11 DEF w, from, to
<1>28. u.fragment # <<>> => SubStr(t, b4 + 1 + 1, Len(t) + 1) = u.fragment
  <2> SUFFICES ASSUME u.fragment # <<>>
               PROVE  SubStr(t, b4 + 1 + 1, Len(t) + 1) = u.fragment
    OBVIOUS
  <2> DEFINE b5 == b4 + 1
             from == b4 + 1 + 1
             to == Len(t) + 1
             y == u.fragment
  <2>1. y \in Seq(S) /\ Len(y) \in Nat
    BY <1>7
  <2>2. Len(F) = 1 + Len(y) /\ \A i \in 1 .. Len(y) : F[1 + i] = y[i]
    BY <1>8
  <2> HIDE DEF y
  <2>3. b5 \in Nat /\ from = b5 + 1 /\ to = b5 + Len(y) + 1 /\ Len(t) = b5 + Len(y)
    BY <1>9, <1>10, <2>1, <2>2
  <2>4. At(t, b5, y)
    <3>1. ASSUME NEW i \in 1 .. Len(y) PROVE t[b5 + i] = y[i]
      <4>1. 1 + i \in 1 .. Len(F) /\ b5 + i = b4 + (1 + i)
        BY <1>10, <2>1, <2>2
      <4> QED
        BY <1>9, <2>2, <4>1 DEF At
    <3>2. b5 + Len(y) <= Len(t)
      BY <1>11, <2>3
    <3> QED
      BY <3>1, <3>2 DEF At
  <2> HIDE DEF from, to, b5
  <2>5. y \in Seq(S)
    BY <2>1
  <2>6. SubStr(t, from, to) = y
    BY <1>9, <2>3, <2>4, <2>5, PartOf
  <2> QED
    BY <2>6 DEF from, to, y
<1>29. ParseOf(t) = Parsing(t, colon, start)
  <2>1. colon \in Nat /\ start \in Nat
    BY <1>10, <1>13
  <2> HIDE DEF colon
  <2> QED
    BY <1>9, <1>12, <2>1, ParsesTo
<1> DEFINE Query == IF FindFirst(t, "?", start) = NPos THEN None
                    ELSE SplitQuery(SubStr(t, FindFirst(t, "?", start) + 1,
                                           FirstOr(t, "#", start, Len(t) + 1)))
           Fragment == IF FindFirst(t, "#", start) = NPos THEN None
                       ELSE SubStr(t, FindFirst(t, "#", start) + 1, Len(t) + 1)
<1>30. QueryComesBack(u.query) => Query = u.query
  BY <1>21, <1>22, <1>27
<1>31. Fragment = u.fragment
  BY <1>21, <1>28 DEF None
<1>32. ASSUME AllComesBack(u)
       PROVE  Parsing(t, colon, start) =
                [scheme |-> u.scheme, authority |-> u.authority, path |-> u.path,
                 query |-> u.query, fragment |-> u.fragment]
  <2>0. ComesBack(u.authority) /\ ComesBack(u.path) /\ QueryComesBack(u.query)
    BY <1>32 DEF AllComesBack, QueryComesBack
  <2>1. Parsing(t, colon, start) =
          [scheme    |-> InLower(SubStr(t, 1, colon)),
           authority |-> Unescaped(SubStr(t, start, AuthorityEnd(t, start))),
           path      |-> Unescaped(SubStr(t, AuthorityEnd(t, start), PathEnd(t, start))),
           query     |-> Query,
           fragment  |-> Fragment]
    BY DEF Parsing
  <2> HIDE DEF Query, Fragment, colon
  <2> QED
    BY <1>2, <1>4, <1>5, <1>22, <1>23, <1>24, <1>25, <1>26, <1>30, <1>31, <2>0, <2>1
<1>33. AllComesBack(u) => ParseOf(t) = u
  BY <1>29, <1>32 DEF Well
<1> QED
  BY <1>9, <1>33 DEF t, S

(* What holds of a text and of a url.                                      *)
UrlInv ==
  /\ url_text \in Seq(LetterOf(UrlChars))
  /\ url # Invalid => Well(url)

(* Every text consists of letters, and every url is well-formed.           *)
THEOREM UrlsAreWell == UrlSpec => []UrlInv
<1>1. UrlInit => UrlInv
  BY UrlAssumption DEF UrlInit, UrlInv, Letter, LetterOf
<1>2. UrlInv /\ [UrlNext]_url_vars => UrlInv'
  <2> SUFFICES ASSUME UrlInv, [UrlNext]_url_vars
               PROVE  UrlInv'
    OBVIOUS
  <2>1. url_text \in Seq(LetterOf(UrlChars)) /\ (url # Invalid => Well(url))
    BY DEF UrlInv
  <2>2. ASSUME NEW l \in UrlLetters, WriteLetter(l) PROVE UrlInv'
    <3>1. l \in LetterOf(UrlChars)
      BY UrlAssumption DEF Letter, LetterOf
    <3>2. url_text' \in Seq(LetterOf(UrlChars)) /\ url' = url
      BY <2>1, <2>2, <3>1 DEF WriteLetter
    <3> QED
      BY <2>1, <3>2 DEF UrlInv
  <2>3. ASSUME ParseUrl PROVE UrlInv'
    <3>1. url' = ParseOf(url_text) /\ url_text' = url_text
      BY <2>3 DEF ParseUrl
    <3>2. ParseOf(url_text) # Invalid => Well(ParseOf(url_text))
      BY <2>1, ParsedWell
    <3> QED
      BY <2>1, <3>1, <3>2 DEF UrlInv
  <2>4. ASSUME PrintUrl PROVE UrlInv'
    <3>1. url # Invalid /\ url_text' = Str(url) /\ url' = url
      BY <2>4 DEF PrintUrl
    <3>2. Str(url) \in Seq(LetterOf(UrlChars))
      BY <2>1, <3>1, PrintedBack
    <3> QED
      BY <2>1, <3>1, <3>2 DEF UrlInv
  <2>5. ASSUME UNCHANGED url_vars PROVE UrlInv'
    BY <2>1, <2>5 DEF UrlInv, url_vars
  <2> QED
    BY <2>2, <2>3, <2>4, <2>5 DEF UrlNext
<1> QED
  BY <1>1, <1>2, PTL DEF UrlSpec

(* url::str() prints a text that url::parse() parses to the same url, as   *)
(* long as urlencode() prints the characters of the url as themselves.     *)
THEOREM UrlsPrintThemselves == UrlSpec => []PrintsItself
<1>1. UrlInv => PrintsItself
  BY PrintedBack DEF UrlInv, PrintsItself
<1> QED
  BY <1>1, UrlsAreWell, PTL

(* Where the parts end if the delimiters come in order: the authority      *)
(* before the first slash, the path before the first question mark or      *)
(* hash, and the query before the first hash.                              *)
Ends(s, start, p, e, h) ==
  /\ p \in start .. Len(s) + 1 /\ e \in p .. Len(s) + 1 /\ h \in e .. Len(s) + 1
  /\ \A i \in start .. p - 1 : s[i] # Plain("/")
  /\ \A i \in start .. e - 1 : s[i] # Plain("?") /\ s[i] # Plain("#")
  /\ \A i \in start .. h - 1 : s[i] # Plain("#")
  /\ p < e => s[p] = Plain("/")
  /\ IF FindFirst(s, "?", start) = NPos THEN e = h
     ELSE FindFirst(s, "?", start) = e /\ e < h /\ s[e] = Plain("?")
  /\ IF FindFirst(s, "#", start) = NPos THEN h = Len(s) + 1
     ELSE FindFirst(s, "#", start) = h /\ h <= Len(s) /\ s[h] = Plain("#")

(* These are the places where parse() ends the parts of such a text.       *)
LEMMA EndsInOrder ==
  ASSUME NEW S, NEW s \in Seq(S), NEW start \in 1 .. Len(s) + 1, InOrder(s, start)
  PROVE  Ends(s, start, AuthorityEnd(s, start), PathEnd(s, start),
              FirstOr(s, "#", start, Len(s) + 1))
<1> DEFINE end == Len(s) + 1
           p == AuthorityEnd(s, start)
           e == PathEnd(s, start)
           q == FirstOr(s, "?", start, end)
           h == FirstOr(s, "#", start, end)
<1>1. start \in Nat \ {0} /\ Len(s) \in Nat /\ end \in start .. end
  OBVIOUS
<1>2. /\ p \in start .. end /\ e \in start .. end
      /\ \/ FirstAt(s, "/", start, p) /\ e # p
         \/ NoneFrom(s, "/", start) /\ e = p
  BY AuthorityEnds
<1>3. q \in start .. end /\ (FirstAt(s, "?", start, q) \/ (NoneFrom(s, "?", start) /\ q = end))
  <2>1. Len(s) + 1 \in start .. Len(s) + 1
    OBVIOUS
  <2> HIDE DEF q
  <2> QED
    BY <2>1, FirstOrElse DEF q
<1>4. h \in start .. end /\ (FirstAt(s, "#", start, h) \/ (NoneFrom(s, "#", start) /\ h = end))
  <2>1. Len(s) + 1 \in start .. Len(s) + 1
    OBVIOUS
  <2> HIDE DEF h
  <2> QED
    BY <2>1, FirstOrElse DEF h
<1>5. ASSUME FirstAt(s, "/", start, p) PROVE p <= q /\ p <= h
  <2>1. FindFirst(s, "/", start) = p /\ p # NPos
    <3> HIDE DEF p
    <3> QED
      BY <1>1, <1>5, FirstFound
  <2> QED
    BY <2>1 DEF InOrder, FirstOr
<1>6. ASSUME FirstAt(s, "?", start, q)
      PROVE  q <= h /\ e = q /\ FindFirst(s, "?", start) = q /\ q # NPos
  <2>1. FindFirst(s, "?", start) = q /\ q # NPos
    <3> HIDE DEF q
    <3> QED
      BY <1>1, <1>6, FirstFound
  <2> QED
    BY <2>1 DEF InOrder, PathEnd, FirstOr
<1>7. ASSUME NoneFrom(s, "?", start) PROVE e = h /\ FindFirst(s, "?", start) = NPos
  <2>1. FindFirst(s, "?", start) = NPos
    BY <1>1, <1>7, NothingFound
  <2> QED
    BY <2>1 DEF PathEnd, FirstOr
<1>8. IF FindFirst(s, "#", start) = NPos THEN h = end
      ELSE FindFirst(s, "#", start) = h /\ h <= Len(s) /\ s[h] = Plain("#")
  <2>1. CASE NoneFrom(s, "#", start)
    <3>1. FindFirst(s, "#", start) = NPos
      BY <1>1, <2>1, NothingFound
    <3> QED
      BY <3>1 DEF FirstOr
  <2>2. CASE FirstAt(s, "#", start, h)
    <3>1. FindFirst(s, "#", start) = h /\ h # NPos
      <4> HIDE DEF h
      <4> QED
        BY <1>1, <2>2, FirstFound
    <3> HIDE DEF h
    <3> QED
      BY <1>1, <2>2, <3>1 DEF FirstAt
  <2> QED
    BY <1>4, <2>1, <2>2
<1> HIDE DEF p, e, q, h
<1>9. e = q \/ e = h
  BY <1>3, <1>6, <1>7
<1>10. e <= q /\ e <= h
  <2>1. CASE FirstAt(s, "?", start, q)
    BY <1>1, <1>3, <1>4, <1>6, <2>1
  <2>2. CASE NoneFrom(s, "?", start) /\ q = end
    BY <1>1, <1>3, <1>4, <1>7, <2>2
  <2> QED
    BY <1>3, <2>1, <2>2
<1>11. e \in p .. end
  <2>1. CASE FirstAt(s, "/", start, p)
    BY <1>2, <1>5, <1>9, <2>1
  <2>2. CASE NoneFrom(s, "/", start) /\ e = p
    BY <1>2, <2>2
  <2> QED
    BY <1>2, <2>1, <2>2
<1>12. ASSUME NEW i \in start .. e - 1 PROVE s[i] # Plain("?") /\ s[i] # Plain("#")
  <2>1. i \in start .. q - 1 /\ i \in start .. h - 1 /\ i \in start .. Len(s)
    BY <1>1, <1>2, <1>3, <1>4, <1>10
  <2> QED
    BY <1>3, <1>4, <2>1 DEF FirstAt, NoneFrom
<1>13. ASSUME NEW i \in start .. h - 1 PROVE s[i] # Plain("#")
  BY <1>1, <1>4 DEF FirstAt, NoneFrom
<1>14. ASSUME NEW i \in start .. p - 1 PROVE s[i] # Plain("/")
  BY <1>1, <1>2 DEF FirstAt, NoneFrom
<1>15. p < e => s[p] = Plain("/")
  BY <1>2 DEF FirstAt
<1>16. IF FindFirst(s, "?", start) = NPos THEN e = h
       ELSE FindFirst(s, "?", start) = e /\ e < h /\ s[e] = Plain("?")
  <2>1. CASE NoneFrom(s, "?", start)
    BY <1>7, <2>1
  <2>2. CASE FirstAt(s, "?", start, q)
    <3>1. FindFirst(s, "?", start) = e /\ e # NPos /\ s[e] = Plain("?") /\ e <= Len(s)
      BY <1>6, <2>2 DEF FirstAt
    <3>2. e # h
      BY <1>1, <1>4, <3>1 DEF FirstAt, Plain
    <3> QED
      BY <1>2, <1>4, <1>10, <3>1, <3>2
  <2> QED
    BY <1>3, <2>1, <2>2
<1>17. p \in start .. end /\ h \in e .. end
  BY <1>2, <1>4, <1>10
<1> QED
  BY <1>8, <1>11, <1>12, <1>13, <1>14, <1>15, <1>16, <1>17 DEF Ends, p, e, h

(* Part of a text.                                                         *)
LEMMA PartIs ==
  ASSUME NEW S, NEW s \in Seq(S), NEW a \in 1 .. Len(s) + 1, NEW b \in a - 1 .. Len(s)
  PROVE  /\ SubSeq(s, a, b) \in Seq(S) /\ Len(SubSeq(s, a, b)) = b - a + 1
         /\ \A i \in 1 .. b - a + 1 : SubSeq(s, a, b)[i] = s[a + i - 1]
<1>1. a \in Int /\ b \in Int /\ \A i \in a .. b : s[i] \in S
  OBVIOUS
<1>2. /\ SubSeq(s, a, b) \in Seq(S)
      /\ Len(SubSeq(s, a, b)) = IF a <= b THEN b - a + 1 ELSE 0
      /\ \A i \in 1 .. b - a + 1 : SubSeq(s, a, b)[i] = s[a + i - 1]
  BY <1>1, SubSeqProperties
<1>3. Len(SubSeq(s, a, b)) = b - a + 1
  BY <1>2
<1> QED
  BY <1>2, <1>3

(* A part of a part is a part of the whole.                                *)
LEMMA PartOfPart ==
  ASSUME NEW S, NEW s \in Seq(S), NEW a \in 1 .. Len(s) + 1, NEW b \in a - 1 .. Len(s),
         NEW i \in 1 .. b - a + 2, NEW j \in i - 1 .. b - a + 1
  PROVE  SubSeq(SubSeq(s, a, b), i, j) = SubSeq(s, a + i - 1, a + j - 1)
<1> DEFINE t == SubSeq(s, a, b)
           l == SubSeq(t, i, j)
           from == a + i - 1
           to == a + j - 1
           r == SubSeq(s, from, to)
<1>1. t \in Seq(S) /\ Len(t) = b - a + 1 /\ \A k \in 1 .. b - a + 1 : t[k] = s[a + k - 1]
  BY PartIs
<1> HIDE DEF t
<1>2. i \in 1 .. Len(t) + 1 /\ j \in i - 1 .. Len(t)
  BY <1>1
<1>3. l \in Seq(S) /\ Len(l) = j - i + 1 /\ \A k \in 1 .. j - i + 1 : l[k] = t[i + k - 1]
  BY <1>1, <1>2, PartIs
<1>4. from \in 1 .. Len(s) + 1 /\ to \in from - 1 .. Len(s) /\ to - from = j - i
  OBVIOUS
<1> HIDE DEF from, to, l
<1>5. r \in Seq(S) /\ Len(r) = to - from + 1
      /\ \A k \in 1 .. to - from + 1 : r[k] = s[from + k - 1]
  BY <1>4, PartIs
<1> HIDE DEF r
<1>6. ASSUME NEW k \in 1 .. Len(l) PROVE l[k] = r[k]
  <2>1. k \in 1 .. j - i + 1 /\ k \in 1 .. to - from + 1
    BY <1>3, <1>4
  <2>2. i + k - 1 \in 1 .. b - a + 1 /\ a + (i + k - 1) - 1 = from + k - 1
    BY <2>1 DEF from
  <2> QED
    BY <1>1, <1>3, <1>5, <2>1, <2>2
<1>7. Len(l) = Len(r)
  BY <1>3, <1>4, <1>5
<1>8. l \in Seq(S)
  BY <1>3
<1>9. r \in Seq(S)
  BY <1>5
<1>10. l = r
  BY <1>6, <1>7, <1>8, <1>9, SeqEqual
<1> QED
  BY <1>10 DEF l, r, t, from, to

(* What a part of a text lacks.                                            *)
LEMMA LacksIs ==
  ASSUME NEW S, NEW s \in Seq(S), NEW a \in 1 .. Len(s) + 1, NEW b \in a - 1 .. Len(s),
         NEW chars
  PROVE  Lacks(SubSeq(s, a, b), chars) <=>
           \A c \in chars : \A i \in a .. b : s[i] # Plain(c)
<1> DEFINE t == SubSeq(s, a, b)
<1>1. t \in Seq(S) /\ Len(t) = b - a + 1 /\ \A i \in 1 .. b - a + 1 : t[i] = s[a + i - 1]
  BY PartIs
<1>2. DOMAIN t = 1 .. b - a + 1
  <2> HIDE DEF t
  <2> QED
    BY <1>1
<1> HIDE DEF t
<1>3. ASSUME NEW c, Occurrences(t, c) = {}, NEW i \in a .. b PROVE s[i] # Plain(c)
  <2>1. i - a + 1 \in 1 .. b - a + 1 /\ a + (i - a + 1) - 1 = i
    OBVIOUS
  <2>2. t[i - a + 1] = s[i]
    BY <1>1, <2>1
  <2>3. t[i - a + 1] # Plain(c)
    BY <1>2, <1>3, <2>1 DEF Occurrences
  <2> QED
    BY <2>2, <2>3
<1>4. ASSUME NEW c, \A i \in a .. b : s[i] # Plain(c) PROVE Occurrences(t, c) = {}
  <2>1. ASSUME NEW i \in 1 .. b - a + 1 PROVE t[i] # Plain(c)
    <3>1. a + i - 1 \in a .. b
      OBVIOUS
    <3> QED
      BY <1>1, <1>4, <3>1
  <2> QED
    BY <1>2, <2>1 DEF Occurrences
<1> QED
  BY <1>3, <1>4 DEF Lacks, t

(* A parameter lies between its start and its end.                         *)
LEMMA ParameterLies ==
  ASSUME NEW S, NEW q \in Seq(S), NEW x \in Parameters(q)
  PROVE  /\ x[1] \in ParameterStarts(q) /\ x[1] \in 1 .. Len(q) + 1
         /\ x[2] + 1 = ParameterEnd(q, x[1]) /\ x[2] \in x[1] - 1 .. Len(q)
<1> DEFINE a == x[1]
           b == x[2]
<1>1. /\ a \in 1 .. Len(q) + 1 /\ b \in 0 .. Len(q) /\ a <= b + 1
      /\ a = 1 \/ q[a - 1] = Plain("&")
      /\ b = Len(q) \/ q[b + 1] = Plain("&")
      /\ Lacks(SubSeq(q, a, b), {"&"})
  BY DEF Parameters
<1> HIDE DEF a, b
<1>2. b \in a - 1 .. Len(q) /\ a \in Nat \ {0} /\ Len(q) \in Nat /\ b \in Nat
  BY <1>1
<1>3. \A i \in a .. b : q[i] # Plain("&")
  BY <1>1, <1>2, LacksIs
<1>4. a \in ParameterStarts(q)
  <2>1. CASE a = 1
    BY <2>1 DEF ParameterStarts
  <2>2. CASE a # 1
    <3>1. a - 1 \in 1 .. Len(q) /\ q[a - 1] = Plain("&") /\ (a - 1) + 1 = a
      BY <1>1, <1>2, <2>2
    <3>2. a - 1 \in Occurrences(q, "&")
      BY <3>1 DEF Occurrences
    <3> QED
      BY <3>1, <3>2 DEF ParameterStarts
  <2> QED
    BY <2>1, <2>2
<1>5. b + 1 = ParameterEnd(q, a)
  <2>1. CASE b = Len(q)
    <3>1. NoneFrom(q, "&", a)
      BY <1>3, <2>1 DEF NoneFrom
    <3>2. FindFirst(q, "&", a) = NPos
      BY <1>2, <3>1, NothingFound
    <3> QED
      BY <2>1, <3>2 DEF ParameterEnd, FirstOr
  <2>2. CASE b # Len(q)
    <3> DEFINE e == b + 1
    <3>1. FirstAt(q, "&", a, e)
      BY <1>1, <1>2, <1>3, <2>2 DEF FirstAt
    <3> HIDE DEF e
    <3>2. FindFirst(q, "&", a) = e /\ e # NPos
      BY <1>2, <3>1, FirstFound
    <3> QED
      BY <3>2 DEF ParameterEnd, FirstOr, e
  <2> QED
    BY <2>1, <2>2
<1> QED
  BY <1>1, <1>2, <1>4, <1>5 DEF a, b

(* Between every start and its end lies a parameter.                       *)
LEMMA ParameterStarting ==
  ASSUME NEW S, NEW q \in Seq(S), NEW start \in ParameterStarts(q)
  PROVE  /\ start \in 1 .. Len(q) + 1
         /\ <<start, ParameterEnd(q, start) - 1>> \in Parameters(q)
<1> DEFINE e == ParameterEnd(q, start)
<1>1. start = 1 \/ (start - 1 \in 1 .. Len(q) /\ q[start - 1] = Plain("&"))
  BY DEF ParameterStarts, Occurrences
<1>2. start \in 1 .. Len(q) + 1 /\ Len(q) \in Nat
  BY DEF ParameterStarts, Occurrences
<1>3. e \in start .. Len(q) + 1
      /\ (FirstAt(q, "&", start, e) \/ (NoneFrom(q, "&", start) /\ e = Len(q) + 1))
  <2>1. Len(q) + 1 \in start .. Len(q) + 1
    BY <1>2
  <2> HIDE DEF e
  <2> QED
    BY <1>2, <2>1, FirstOrElse DEF e, ParameterEnd
<1> HIDE DEF e
<1>4. \A i \in start .. e - 1 : q[i] # Plain("&")
  BY <1>2, <1>3 DEF FirstAt, NoneFrom
<1> DEFINE b == e - 1
<1>5. b \in start - 1 .. Len(q) /\ b \in 0 .. Len(q) /\ start <= b + 1
  BY <1>2, <1>3
<1>6. b = Len(q) \/ q[b + 1] = Plain("&")
  BY <1>2, <1>3 DEF FirstAt
<1>7. Lacks(SubSeq(q, start, b), {"&"})
  <2>1. \A c \in {"&"} : \A i \in start .. b : q[i] # Plain(c)
    BY <1>4
  <2> HIDE DEF b
  <2> QED
    BY <1>2, <1>5, <2>1, LacksIs
<1> HIDE DEF b
<1>8. <<start, b>> \in Parameters(q)
  BY <1>1, <1>2, <1>5, <1>6, <1>7 DEF Parameters
<1> QED
  BY <1>2, <1>8 DEF b, e

(* The key of a parameter ends before its first "=".                       *)
LEMMA KeyLengthIs ==
  ASSUME NEW S, NEW p \in Seq(S), NEW n \in 0 .. Len(p),
         \A i \in 1 .. n : p[i] # Plain("="),
         n = Len(p) \/ p[n + 1] = Plain("=")
  PROVE  KeyLength(p) = n
<1> DEFINE Fits(m) == /\ Lacks(SubSeq(p, 1, m), {"="})
                      /\ m = Len(p) \/ p[m + 1] = Plain("=")
<1>1. ASSUME NEW m \in 0 .. Len(p)
      PROVE  Lacks(SubSeq(p, 1, m), {"="}) <=> \A i \in 1 .. m : p[i] # Plain("=")
  <2>1. 1 \in 1 .. Len(p) + 1 /\ m \in 1 - 1 .. Len(p)
    OBVIOUS
  <2>2. Lacks(SubSeq(p, 1, m), {"="}) <=>
          \A c \in {"="} : \A i \in 1 .. m : p[i] # Plain(c)
    BY <2>1, LacksIs
  <2> QED
    BY <2>2
<1>2. Fits(n)
  BY <1>1
<1>3. ASSUME NEW m \in 0 .. Len(p), Fits(m) PROVE m = n
  <2>1. \A i \in 1 .. m : p[i] # Plain("=")
    BY <1>1, <1>3
  <2>2. m = Len(p) \/ p[m + 1] = Plain("=")
    BY <1>3
  <2>3. m \in Nat /\ n \in Nat /\ Len(p) \in Nat
    OBVIOUS
  <2>4. ~(m < n)
    <3>1. m < n => m + 1 \in 1 .. n
      BY <2>3
    <3> QED
      BY <2>2, <2>3, <3>1
  <2>5. ~(n < m)
    <3>1. n < m => n + 1 \in 1 .. m
      BY <2>3
    <3> QED
      BY <2>1, <2>3, <3>1
  <2> QED
    BY <2>3, <2>4, <2>5
<1>4. KeyLength(p) = CHOOSE m \in 0 .. Len(p) : Fits(m)
  BY DEF KeyLength
<1> HIDE DEF Fits
<1> QED
  BY <1>2, <1>3, <1>4

(* split_query() takes the key and the value of a parameter.               *)
LEMMA ParameterTaken ==
  ASSUME NEW S, NEW q \in Seq(S), NEW x \in Parameters(q)
  PROVE  /\ KeyOf(SubSeq(q, x[1], x[2])) = Key(q, x[1])
         /\ ValueOf(SubSeq(q, x[1], x[2])) = Value(q, x[1])
<1> DEFINE a == x[1]
           b == x[2]
           p == SubSeq(q, a, b)
           k == KeyEnd(q, a)
           f == IF HasValue(q, a) THEN k ELSE b + 1
           n == f - a
<1>1. /\ a \in 1 .. Len(q) + 1 /\ b \in a - 1 .. Len(q) /\ b + 1 = ParameterEnd(q, a)
      /\ Len(q) \in Nat
  BY ParameterLies
<1> HIDE DEF a, b
<1>2. /\ k \in a .. Len(q) + 1
      /\ FirstAt(q, "=", a, k) \/ (NoneFrom(q, "=", a) /\ k = Len(q) + 1)
  <2>1. Len(q) + 1 \in a .. Len(q) + 1
    BY <1>1
  <2> HIDE DEF k
  <2> QED
    BY <1>1, <2>1, FirstOrElse DEF k, KeyEnd
<1>3. HasValue(q, a) <=> k < b + 1
  BY <1>1 DEF HasValue
<1> HIDE DEF k
<1>4. p \in Seq(S) /\ Len(p) = b - a + 1 /\ \A i \in 1 .. b - a + 1 : p[i] = q[a + i - 1]
  BY <1>1, PartIs
<1> HIDE DEF p
<1>5. f \in a .. b + 1 /\ f <= k /\ n \in 0 .. Len(p) /\ a \in Int /\ b \in Int /\ k \in Int
  BY <1>1, <1>2, <1>3, <1>4
<1>6. KeyLength(p) = n
  <2>1. ASSUME NEW i \in 1 .. n PROVE p[i] # Plain("=")
    <3>1. i \in 1 .. b - a + 1 /\ a + i - 1 \in a .. k - 1 /\ a + i - 1 \in a .. Len(q)
      BY <1>1, <1>5
    <3> QED
      BY <1>2, <1>4, <3>1 DEF FirstAt, NoneFrom
  <2>2. n = Len(p) \/ p[n + 1] = Plain("=")
    <3>1. CASE HasValue(q, a)
      <4>1. n + 1 \in 1 .. b - a + 1 /\ a + (n + 1) - 1 = k
        BY <1>1, <1>2, <1>3, <1>5, <3>1
      <4>2. q[k] = Plain("=")
        BY <1>1, <1>2, <1>3, <3>1 DEF FirstAt
      <4> QED
        BY <1>4, <4>1, <4>2
    <3>2. CASE ~HasValue(q, a)
      BY <1>1, <1>4, <3>2
    <3> QED
      BY <3>1, <3>2
  <2>3. n \in 0 .. Len(p)
    BY <1>5
  <2> HIDE DEF n
  <2> QED
    BY <1>4, <2>1, <2>2, <2>3, KeyLengthIs
<1>7. KeyOf(p) = Key(q, a)
  <2>1. SubSeq(p, 1, n) = SubSeq(q, a, f - 1)
    <3>1. 1 \in 1 .. b - a + 2 /\ n \in 1 - 1 .. b - a + 1
      BY <1>1, <1>4, <1>5
    <3>2. a + 1 - 1 = a /\ a + n - 1 = f - 1
      BY <1>5
    <3> HIDE DEF n, f
    <3>3. SubSeq(p, 1, n) = SubSeq(q, a + 1 - 1, a + n - 1)
      BY <1>1, <3>1, PartOfPart DEF p
    <3> QED
      BY <3>2, <3>3
  <2>2. SubStr(q, a, f) = SubSeq(q, a, f - 1)
    BY <1>5 DEF SubStr
  <2>3. Key(q, a) = Unescaped(InLower(SubStr(q, a, f)))
    BY <1>1 DEF Key, k
  <2> QED
    BY <1>6, <2>1, <2>2, <2>3 DEF KeyOf
<1>8. ValueOf(p) = Value(q, a)
  <2>1. CASE HasValue(q, a)
    <3>1. f = k /\ n = k - a /\ n # Len(p) /\ k <= b
      BY <1>1, <1>2, <1>3, <1>4, <2>1
    <3>2. SubSeq(p, n + 2, Len(p)) = SubSeq(q, k + 1, b)
      <4> DEFINE i == n + 2
                 j == Len(p)
      <4>1. i \in 1 .. b - a + 2
        BY <1>1, <1>4, <1>5, <3>1
      <4>2. a + i - 1 = k + 1 /\ a + j - 1 = b
        BY <1>1, <1>4, <1>5, <3>1
      <4>3. j \in i - 1 .. b - a + 1
        <5>1. n \in 0 .. b - a /\ j = b - a + 1
          BY <1>1, <1>4, <1>5, <3>1
        <5> HIDE DEF n, j
        <5> QED
          BY <1>5, <5>1
      <4> HIDE DEF i, j
      <4>4. SubSeq(p, i, j) = SubSeq(q, a + i - 1, a + j - 1)
        BY <1>1, <4>1, <4>3, PartOfPart DEF p
      <4> QED
        BY <4>2, <4>4 DEF i, j
    <3>3. SubStr(q, k + 1, b + 1) = SubSeq(q, k + 1, b)
      BY <1>1, <1>2, <3>1 DEF SubStr
    <3>4. Value(q, a) = Unescaped(NormalizeValue(SubStr(q, k + 1, b + 1)))
      BY <1>1, <2>1 DEF Value, k
    <3> QED
      BY <1>6, <3>1, <3>2, <3>3, <3>4 DEF ValueOf
  <2>2. CASE ~HasValue(q, a)
    <3>1. n = Len(p)
      BY <1>1, <1>4, <2>2
    <3>2. Value(q, a) = <<Plain(One)>>
      BY <2>2 DEF Value
    <3> QED
      BY <1>6, <3>1, <3>2 DEF ValueOf
  <2> QED
    BY <2>1, <2>2
<1> QED
  BY <1>7, <1>8 DEF p, a, b

(* split_query() returns the last parameter of each key, and no others.    *)
LEMMA ParametersSplit ==
  ASSUME NEW S, NEW q \in Seq(S)
  PROVE  ParametersAre(SplitQuery(q), q)
<1> DEFINE starts == ParameterStarts(q)
           With(key) == {start \in starts : Key(q, start) = key}
           keys == {Key(q, start) : start \in starts}
           val(key) == Value(q, Max(With(key)))
           KeyAt(x) == KeyOf(SubSeq(q, x[1], x[2]))
           query == SplitQuery(q)
<1>1. query = [key \in keys |-> val(key)]
  BY DEF SplitQuery
<1>2. \A x \in Parameters(q) :
        /\ x[1] \in starts /\ KeyAt(x) = Key(q, x[1])
        /\ ValueOf(SubSeq(q, x[1], x[2])) = Value(q, x[1])
  BY ParameterLies, ParameterTaken
<1>3. \A start \in starts :
        start \in 1 .. Len(q) + 1 /\ \E y \in Parameters(q) : y[1] = start
  <2> TAKE start \in starts
  <2> DEFINE y == <<start, ParameterEnd(q, start) - 1>>
  <2>1. start \in 1 .. Len(q) + 1 /\ y \in Parameters(q)
    BY ParameterStarting
  <2> QED
    BY <2>1
<1> HIDE DEF starts, query, KeyAt
<1>4. keys = {KeyAt(x) : x \in Parameters(q)}
  <2>1. \A start \in starts : \E y \in Parameters(q) : KeyAt(y) = Key(q, start)
    BY <1>2, <1>3
  <2>2. \A x \in Parameters(q) : \E start \in starts : KeyAt(x) = Key(q, start)
    BY <1>2
  <2> QED
    BY <2>1, <2>2
<1>5. DOMAIN query = keys
  <2> HIDE DEF keys, val
  <2> QED
    BY <1>1
<1>6. ASSUME NEW x \in Parameters(q),
             \A y \in Parameters(q) : y[1] > x[1] => KeyAt(y) # KeyAt(x)
      PROVE  query[KeyAt(x)] = ValueOf(SubSeq(q, x[1], x[2]))
  <2> DEFINE key == KeyAt(x)
             T == With(key)
             l == Len(q) + 1
  <2>1. key = Key(q, x[1]) /\ x[1] \in T
    BY <1>2
  <2>2. T \in SUBSET (0 .. l) /\ l \in Nat /\ T # {}
    BY <1>3, <2>1
  <2>3. Max(T) \in T /\ x[1] <= Max(T) /\ Max(T) \in Nat /\ x[1] \in Nat
    <3> HIDE DEF T, l
    <3>1. Max(T) \in T /\ \A i \in T : i <= Max(T)
      BY <2>2, MaxIs
    <3>2. x[1] \in 0 .. l /\ Max(T) \in 0 .. l
      BY <2>1, <2>2, <3>1
    <3> QED
      BY <2>1, <2>2, <3>1, <3>2
  <2>4. PICK y \in Parameters(q) : y[1] = Max(T)
    BY <1>3, <2>3
  <2>5. KeyAt(y) = key
    BY <1>2, <2>3, <2>4
  <2>6. Max(T) = x[1]
    BY <1>6, <2>3, <2>4, <2>5
  <2>7. key \in keys
    BY <1>4
  <2>8. query[key] = val(key)
    <3> HIDE DEF key, val, keys
    <3> QED
      BY <1>1, <2>7
  <2> QED
    BY <1>2, <2>6, <2>8
<1>7. \A x \in Parameters(q) :
        (\A y \in Parameters(q) : y[1] > x[1] => KeyAt(y) # KeyAt(x))
          => query[KeyAt(x)] = ValueOf(SubSeq(q, x[1], x[2]))
  BY <1>6
<1>8. DOMAIN query = {KeyAt(x) : x \in Parameters(q)}
  BY <1>4, <1>5
<1> QED
  BY <1>7, <1>8 DEF ParametersAre, query, KeyAt

(* Three letters in a row.                                                 *)
LEMMA ThreeLetters ==
  ASSUME NEW S, NEW s \in Seq(S), NEW i \in 1 .. Len(s), i + 2 <= Len(s)
  PROVE  SubSeq(s, i, i + 2) = <<s[i], s[i + 1], s[i + 2]>>
<1> DEFINE t == SubSeq(s, i, i + 2)
           b == i + 2
<1>1. i \in 1 .. Len(s) + 1 /\ b \in i - 1 .. Len(s) /\ b - i + 1 = 3
  OBVIOUS
<1>2. t \in Seq(S) /\ Len(t) = b - i + 1 /\ \A k \in 1 .. b - i + 1 : t[k] = s[i + k - 1]
  <2> HIDE DEF b
  <2>1. /\ SubSeq(s, i, b) \in Seq(S) /\ Len(SubSeq(s, i, b)) = b - i + 1
        /\ \A k \in 1 .. b - i + 1 : SubSeq(s, i, b)[k] = s[i + k - 1]
    BY <1>1, PartIs
  <2> QED
    BY <2>1 DEF b
<1> HIDE DEF t, b
<1>3. t[1] = s[i] /\ t[2] = s[i + 1] /\ t[3] = s[i + 2]
  <2>1. i + 1 - 1 = i /\ i + 2 - 1 = i + 1 /\ i + 3 - 1 = i + 2
    OBVIOUS
  <2> QED
    BY <1>1, <1>2, <2>1
<1>4. Len(t) = 3
  BY <1>1, <1>2
<1> DEFINE x == s[i]
           y == s[i + 1]
           z == s[i + 2]
<1>5. t \in Seq(S) /\ Len(t) = 3 /\ t[1] = x /\ t[2] = y /\ t[3] = z
  BY <1>2, <1>3, <1>4
<1> HIDE DEF x, y, z
<1>6. t = <<x, y, z>>
  BY <1>5
<1> QED
  BY <1>6 DEF t, x, y, z

(* url::parse() finds the parts of a text whose delimiters come in order,  *)
(* and loses nothing of it.                                                *)
LEMMA SplitInOrder ==
  ASSUME url_text \in Seq(LetterOf(UrlChars))
  PROVE  SplitsInOrder
<1> DEFINE s == url_text
           S == LetterOf(UrlChars)
           Text(i, j) == SubSeq(s, i, j - 1)
           a   == Len(url.scheme) + 4
           p   == a + Len(url.authority)
           r   == p + Len(url.path)
           end == Len(s) + 1
           Outside ==
             /\ url.scheme = InLower(Text(1, a - 3)) /\ Lacks(Text(1, a - 3), {":"})
             /\ Text(a - 3, a) = <<Plain(":"), Plain("/"), Plain("/")>>
             /\ url.authority = Unescaped(Text(a, p))
             /\ Lacks(Text(a, p), {"/", "?", "#"})
             /\ url.path = Unescaped(Text(p, r)) /\ Lacks(Text(p, r), {"?", "#"})
             /\ p < r => s[p] = Plain("/")
           Behind(h) ==
             /\ Lacks(Text(r, h), {"#"})
             /\ IF r = h THEN url.query = None
                ELSE /\ s[r] = Plain("?")
                     /\ ParametersAre(url.query, Text(r + 1, h))
             /\ IF h = end THEN url.fragment = None
                ELSE s[h] = Plain("#") /\ url.fragment = Text(h + 1, end)
<1> SUFFICES ASSUME Parsed, InOrder(s, a)
             PROVE  r <= end /\ Outside /\ \E h \in r .. end : Behind(h)
  BY DEF SplitsInOrder
<1>1. url # Invalid /\ url = ParseOf(s)
  BY DEF Parsed
<1>2. s \in Seq(S) /\ Len(s) \in Nat
  OBVIOUS
<1>3. PICK colon, start \in Nat : Found(s, colon, start) /\ url = Parsing(s, colon, start)
  BY <1>1, <1>2, ParseIs
<1> DEFINE ae == AuthorityEnd(s, start)
           e == PathEnd(s, start)
           h == FirstOr(s, "#", start, end)
           question == FindFirst(s, "?", start)
           hash == FindFirst(s, "#", start)
<1>4. /\ url.scheme = InLower(SubStr(s, 1, colon))
      /\ url.authority = Unescaped(SubStr(s, start, ae))
      /\ url.path = Unescaped(SubStr(s, ae, e))
      /\ url.query = IF question = NPos THEN None
                     ELSE SplitQuery(SubStr(s, question + 1, h))
      /\ url.fragment = IF hash = NPos THEN None ELSE SubStr(s, hash + 1, end)
  BY <1>3 DEF Parsing
<1>5. /\ colon \in 1 .. Len(s) /\ start = colon + 3 /\ start \in 4 .. end
      /\ s[colon] = Plain(":") /\ \A i \in 1 .. colon - 1 : s[i] # Plain(":")
      /\ SubSeq(s, colon + 1, colon + 2) = <<Plain("/"), Plain("/")>>
  BY <1>3 DEF Found, FirstAt
<1> DEFINE inside == start \in 1 .. Len(s) + 1
<1>6. ASSUME NEW i \in 1 .. Len(s) + 1, NEW j \in i .. Len(s) + 1
      PROVE  /\ SubStr(s, i, j) = Text(i, j) /\ Text(i, j) \in Seq(LetterOf(UrlChars))
             /\ Len(Text(i, j)) = j - i
             /\ \A chars : Lacks(Text(i, j), chars) <=>
                  \A c \in chars : \A k \in i .. j - 1 : s[k] # Plain(c)
  <2> DEFINE b == j - 1
  <2>1. b \in i - 1 .. Len(s) /\ b - i + 1 = j - i /\ ~(j < i)
    OBVIOUS
  <2>2. SubStr(s, i, j) = Text(i, j)
    BY <2>1 DEF SubStr
  <2> HIDE DEF b, S
  <2>3. SubSeq(s, i, b) \in Seq(S) /\ Len(SubSeq(s, i, b)) = b - i + 1
    BY <1>2, <2>1, PartIs
  <2>4. \A chars : Lacks(SubSeq(s, i, b), chars) <=>
          \A c \in chars : \A k \in i .. b : s[k] # Plain(c)
    BY <1>2, <2>1, LacksIs
  <2> QED
    BY <2>1, <2>2, <2>3, <2>4 DEF b, S
<1>7. ClosedChars(UrlChars) /\ Escapable \subseteq UrlChars
  BY ClosedSets DEF ClosedChars
<1>8. \A t \in Seq(LetterOf(UrlChars)) : Len(InLower(t)) = Len(t) /\ Len(Unescaped(t)) = Len(t)
  BY <1>7, InLowerIs, UnescapedIs
<1>9. a = start /\ a - 3 = colon /\ url.scheme = InLower(Text(1, colon))
  <2>1. 1 \in 1 .. Len(s) + 1 /\ colon \in 1 .. Len(s) + 1
    BY <1>2, <1>5
  <2>2. SubStr(s, 1, colon) = Text(1, colon) /\ Len(Text(1, colon)) = colon - 1
        /\ Text(1, colon) \in Seq(LetterOf(UrlChars))
    BY <1>6, <2>1
  <2> HIDE DEF Text
  <2>3. Len(url.scheme) = colon - 1 /\ url.scheme = InLower(Text(1, colon))
    BY <1>4, <1>8, <2>2
  <2> QED
    BY <1>5, <2>1, <2>3
<1>10. Ends(s, start, ae, e, h)
  <2>1. start \in 1 .. Len(s) + 1 /\ InOrder(s, start)
    BY <1>2, <1>5, <1>9
  <2> QED
    BY <1>2, <2>1, EndsInOrder
<1>11. /\ ae \in start .. end /\ e \in ae .. end /\ h \in e .. end
       /\ \A i \in start .. ae - 1 : s[i] # Plain("/")
       /\ \A i \in start .. e - 1 : s[i] # Plain("?") /\ s[i] # Plain("#")
       /\ \A i \in start .. h - 1 : s[i] # Plain("#")
       /\ ae < e => s[ae] = Plain("/")
       /\ IF question = NPos THEN e = h ELSE question = e /\ e < h /\ s[e] = Plain("?")
       /\ IF hash = NPos THEN h = end ELSE hash = h /\ h <= Len(s) /\ s[h] = Plain("#")
  BY <1>10 DEF Ends
<1> HIDE DEF ae, e, h, question, hash
<1>12. /\ start \in 1 .. Len(s) + 1 /\ ae \in start .. Len(s) + 1 /\ ae \in 1 .. Len(s) + 1
       /\ e \in ae .. Len(s) + 1 /\ e \in 1 .. Len(s) + 1 /\ h \in e .. Len(s) + 1
       /\ start \in Int /\ ae \in Int /\ e \in Int /\ h \in Int /\ colon \in 1 .. Len(s) + 1
       /\ 1 \in 1 .. Len(s) + 1
  BY <1>2, <1>5, <1>11
<1> HIDE DEF S, end
<1>13. p = ae /\ url.authority = Unescaped(Text(start, ae))
  <2>1. SubStr(s, start, ae) = Text(start, ae) /\ Len(Text(start, ae)) = ae - start
        /\ Text(start, ae) \in Seq(LetterOf(UrlChars))
    BY <1>6, <1>12
  <2> HIDE DEF Text, a
  <2>2. Len(url.authority) = ae - start /\ url.authority = Unescaped(Text(start, ae))
    BY <1>4, <1>8, <2>1
  <2> QED
    BY <1>9, <1>12, <2>2
<1>14. r = e /\ url.path = Unescaped(Text(ae, e))
  <2>1. SubStr(s, ae, e) = Text(ae, e) /\ Len(Text(ae, e)) = e - ae
        /\ Text(ae, e) \in Seq(LetterOf(UrlChars))
    BY <1>6, <1>12
  <2> HIDE DEF Text, p
  <2>2. Len(url.path) = e - ae /\ url.path = Unescaped(Text(ae, e))
    BY <1>4, <1>8, <2>1
  <2> QED
    BY <1>12, <1>13, <2>2
<1>15. Text(colon, start) = <<Plain(":"), Plain("/"), Plain("/")>>
  <2>1. start - 1 = colon + 2 /\ colon + 2 <= Len(s) /\ (colon + 1) + 1 = colon + 2
        /\ colon + 1 \in 1 .. Len(s) + 1 /\ colon + 2 \in (colon + 1) - 1 .. Len(s)
        /\ (colon + 2) - (colon + 1) + 1 = 2
        /\ (colon + 1) + 1 - 1 = colon + 1 /\ (colon + 1) + 2 - 1 = colon + 2
    BY <1>2, <1>5 DEF end
  <2> DEFINE i == colon + 1
             j == colon + 2
             t == SubSeq(s, i, j)
  <2>2. i \in 1 .. Len(s) + 1 /\ j \in i - 1 .. Len(s)
    BY <2>1
  <2>3. j - i + 1 = 2 /\ i + 1 - 1 = colon + 1 /\ i + 2 - 1 = colon + 2
    BY <2>1
  <2>4. t = <<Plain("/"), Plain("/")>>
    BY <1>5
  <2> HIDE DEF i, j
  <2>5. \A k \in 1 .. j - i + 1 : SubSeq(s, i, j)[k] = s[i + k - 1]
    BY <1>2, <2>2, PartIs
  <2>6. t[1] = s[colon + 1] /\ t[2] = s[colon + 2]
    <3>1. \A k \in 1 .. 2 : t[k] = s[i + k - 1]
      BY <2>3, <2>5
    <3> HIDE DEF t
    <3>2. t[1] = s[i + 1 - 1] /\ t[2] = s[i + 2 - 1]
      BY <3>1
    <3> QED
      BY <2>3, <3>2
  <2>7. t[1] = Plain("/") /\ t[2] = Plain("/")
    BY <2>4
  <2>8. SubSeq(s, colon, colon + 2) = <<s[colon], s[colon + 1], s[colon + 2]>>
    BY <1>2, <1>5, <2>1, ThreeLetters
  <2> QED
    BY <1>5, <2>1, <2>6, <2>7, <2>8
<1>16. Outside
  <2>1. Lacks(Text(1, colon), {":"})
    BY <1>5, <1>6, <1>12
  <2>2. Lacks(Text(start, ae), {"/", "?", "#"})
    <3>1. \A i \in start .. ae - 1 : i \in start .. e - 1
      BY <1>12
    <3>2. \A c \in {"/", "?", "#"} : \A i \in start .. ae - 1 : s[i] # Plain(c)
      BY <1>11, <3>1
    <3> QED
      BY <1>6, <1>12, <3>2
  <2>3. Lacks(Text(ae, e), {"?", "#"})
    <3>1. \A i \in ae .. e - 1 : i \in start .. e - 1
      BY <1>12
    <3>2. \A c \in {"?", "#"} : \A i \in ae .. e - 1 : s[i] # Plain(c)
      BY <1>11, <3>1
    <3> QED
      BY <1>6, <1>12, <3>2
  <2> HIDE DEF Text, a, p, r
  <2> QED
    BY <1>9, <1>11, <1>13, <1>14, <1>15, <2>1, <2>2, <2>3
<1>17. Lacks(Text(e, h), {"#"})
  <2>1. \A i \in e .. h - 1 : i \in start .. h - 1
    BY <1>12
  <2>2. \A c \in {"#"} : \A i \in e .. h - 1 : s[i] # Plain(c)
    BY <1>11, <2>1
  <2> QED
    BY <1>6, <1>12, <2>2
<1>18. IF e = h THEN url.query = None
       ELSE s[e] = Plain("?") /\ ParametersAre(url.query, Text(e + 1, h))
  <2>1. CASE question = NPos
    BY <1>4, <1>11, <2>1
  <2>2. CASE question # NPos
    <3>1. e # h /\ s[e] = Plain("?") /\ url.query = SplitQuery(SubStr(s, e + 1, h))
      BY <1>4, <1>11, <1>12, <2>2
    <3> DEFINE i == e + 1
    <3>2. i \in 1 .. Len(s) + 1 /\ h \in i .. Len(s) + 1
      BY <1>2, <1>11, <1>12, <2>2
    <3> HIDE DEF i
    <3>3. SubStr(s, i, h) = Text(i, h) /\ Text(i, h) \in Seq(LetterOf(UrlChars))
      BY <1>6, <3>2
    <3> HIDE DEF Text
    <3>4. ParametersAre(SplitQuery(Text(i, h)), Text(i, h))
      BY <3>3, ParametersSplit
    <3> QED
      BY <3>1, <3>3, <3>4 DEF i
  <2> QED
    BY <2>1, <2>2
<1>19. IF h = end THEN url.fragment = None
       ELSE s[h] = Plain("#") /\ url.fragment = Text(h + 1, end)
  <2>1. CASE hash = NPos
    BY <1>4, <1>11, <2>1
  <2>2. CASE hash # NPos
    <3>1. /\ h \in 1 .. Len(s) /\ h # end /\ s[h] = Plain("#")
          /\ url.fragment = SubStr(s, h + 1, end)
      BY <1>2, <1>4, <1>11, <1>12, <2>2 DEF end
    <3> DEFINE i == h + 1
    <3>2. i \in 1 .. Len(s) + 1 /\ end \in i .. Len(s) + 1
      BY <1>2, <3>1 DEF end
    <3> HIDE DEF i
    <3>3. SubStr(s, i, end) = Text(i, end)
      BY <1>6, <3>2
    <3> QED
      BY <3>1, <3>3 DEF i
  <2> QED
    BY <2>1, <2>2
<1>20. Behind(h)
  <2> HIDE DEF Text, r
  <2> QED
    BY <1>14, <1>17, <1>18, <1>19
<1>21. r <= end /\ h \in r .. end
  <2> HIDE DEF r
  <2> QED
    BY <1>11, <1>12, <1>14 DEF end
<1> HIDE DEF Behind, Outside, r
<1> QED
  BY <1>16, <1>20, <1>21

(* url::parse() splits a text whose delimiters come in order into scheme,  *)
(* authority, path, the parameters of its query, and fragment.             *)
THEOREM UrlsSplitInOrder == UrlSpec => []SplitsInOrder
<1>1. UrlInv => SplitsInOrder
  BY SplitInOrder DEF UrlInv
<1> QED
  BY <1>1, UrlsAreWell, PTL
=============================================================================
