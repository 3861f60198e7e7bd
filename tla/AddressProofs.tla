--------------------------- MODULE AddressProofs ----------------------------
(***************************************************************************)
(* An address and its number in host byte order: the bytes are the digits  *)
(* of the number, so that either determines the other, and clearing its    *)
(* last bits clears them byte by byte.  What operator++, the constructor   *)
(* from memory, serialize() and deserialize() make of an address; and that *)
(* the objects of any client survive a transfer and serve as keys.         *)
(***************************************************************************)
EXTENDS AddressObjects, PowersProofs, SequenceTheorems

(* A byte has values.                                                      *)
LEMMA BaseIsPositive == Base \in Nat \ {0}
BY Pow2Defined, AddressAssumption DEF Base

(* The numbers of the first bytes of an address.                           *)
Leading(ip) ==
  CHOOSE f : f = [i \in 0 .. Len(ip) |-> IF i = 0 THEN 0 ELSE f[i - 1] * Base + ip[i]]

(* The number of an address is that of all its bytes.                      *)
LEMMA NumberIsLeading ==
  ASSUME NEW ip
  PROVE  Number(ip) = Leading(ip)[Len(ip)]
BY DEF Number, Leading

(* Its bytes are a sequence.                                               *)
LEMMA LengthOf ==
  ASSUME NEW k \in Nat, NEW ip \in [1 .. k -> Byte]
  PROVE  Len(ip) = k /\ ip \in Seq(Byte) /\ DOMAIN ip = 1 .. k
OBVIOUS

(* They are counted from zero, byte by byte.                               *)
LEMMA LeadingDefined ==
  ASSUME NEW k \in Nat, NEW ip \in [1 .. k -> Byte]
  PROVE  /\ Leading(ip) \in [0 .. k -> Nat]
         /\ Leading(ip)[0] = 0
         /\ \A i \in 1 .. k : Leading(ip)[i] = Leading(ip)[i - 1] * Base + ip[i]
<1> DEFINE step == [n \in Nat |-> [x \in Nat |->
                      IF n + 1 \in 1 .. k THEN x * Base + ip[n + 1] ELSE 0]]
           Solves(f) == f = [i \in 0 .. Len(ip) |->
                               IF i = 0 THEN 0 ELSE f[i - 1] * Base + ip[i]]
<1>1. step \in [Nat -> [Nat -> Nat]] /\ 0 \in Nat
  BY BaseIsPositive DEF Byte
<1>2. PICK f : Iterates(f, Nat, 0, step)
  <2> HIDE DEF step
  <2> QED
    BY <1>1, Recursion
<1> DEFINE g == [i \in 0 .. k |-> f[i]]
<1>3. /\ g \in [0 .. k -> Nat] /\ g[0] = 0
      /\ \A i \in 1 .. k : g[i] = g[i - 1] * Base + ip[i]
  <2>1. g \in [0 .. k -> Nat] /\ g[0] = 0
    BY <1>2 DEF Iterates
  <2>2. ASSUME NEW i \in 1 .. k PROVE g[i] = g[i - 1] * Base + ip[i]
    <3>1. i - 1 \in Nat /\ (i - 1) + 1 = i /\ i - 1 \in 0 .. k /\ i \in 0 .. k
      OBVIOUS
    <3>2. f[i] = step[i - 1][f[i - 1]] /\ f[i - 1] \in Nat
      BY <1>2, <3>1 DEF Iterates
    <3>3. step[i - 1][f[i - 1]] = f[i - 1] * Base + ip[i]
      BY <3>1, <3>2
    <3> HIDE DEF step
    <3> QED
      BY <3>1, <3>2, <3>3
  <2> QED
    BY <2>1, <2>2
<1> HIDE DEF g
<1>4. Solves(g)
  BY <1>3, LengthOf
<1>5. Leading(ip) = CHOOSE h : Solves(h)
  BY DEF Leading
<1> HIDE DEF Solves
<1>6. Solves(Leading(ip))
  BY <1>4, <1>5
<1>7. Leading(ip) = [i \in 0 .. k |->
                      IF i = 0 THEN 0 ELSE Leading(ip)[i - 1] * Base + ip[i]]
  BY <1>6, LengthOf DEF Solves
<1>8. Leading(ip)[0] = 0
  BY <1>7
<1>9. \A i \in 1 .. k : Leading(ip)[i] = Leading(ip)[i - 1] * Base + ip[i]
  BY <1>7
<1>10. \A i \in Nat : i <= k => Leading(ip)[i] \in Nat
  <2> DEFINE S == {i \in Nat : i <= k => Leading(ip)[i] \in Nat}
  <2>1. 0 \in S
    BY <1>8
  <2>2. ASSUME NEW i \in Nat, i \in S PROVE i + 1 \in S
    <3> SUFFICES ASSUME i + 1 <= k PROVE Leading(ip)[i + 1] \in Nat
      OBVIOUS
    <3>1. /\ i + 1 \in 1 .. k /\ (i + 1) - 1 = i /\ Leading(ip)[i] \in Nat
          /\ ip[i + 1] \in Nat
      BY <2>2 DEF Byte
    <3>2. Leading(ip)[i + 1] = Leading(ip)[i] * Base + ip[i + 1]
      BY <1>9, <3>1
    <3> QED
      BY <3>1, <3>2, BaseIsPositive
  <2> HIDE DEF S
  <2>3. Nat \subseteq S
    BY <2>1, <2>2, Induction
  <2> QED
    BY <2>3 DEF S
<1> QED
  BY <1>7, <1>8, <1>9, <1>10

(* Each byte more has Base times as many numbers.                          *)
LEMMA ByteMore ==
  ASSUME NEW i \in Nat
  PROVE  /\ ByteBits * i \in Nat /\ Pow2[ByteBits * i] \in Nat \ {0}
         /\ Pow2[ByteBits * (i + 1)] = Pow2[ByteBits * i] * Base
<1>1. ByteBits \in Nat
  BY AddressAssumption
<1>2. ByteBits * i \in Nat /\ ByteBits * (i + 1) = ByteBits * i + ByteBits
  BY <1>1
<1> QED
  BY <1>1, <1>2, Pow2Defined, Pow2Sum DEF Base

(* No byte has a single value.                                             *)
LEMMA NoByte == Pow2[ByteBits * 0] = 1
<1>1. ByteBits * 0 = 0
  BY AddressAssumption
<1> QED
  BY <1>1, Pow2Defined

(* The number of some bytes is below the number of their values.           *)
LEMMA LeadingIsBelow ==
  ASSUME NEW k \in Nat, NEW ip \in [1 .. k -> Byte], NEW i \in 0 .. k
  PROVE  Leading(ip)[i] < Pow2[ByteBits * i]
<1> DEFINE S == {j \in Nat : j <= k => Leading(ip)[j] < Pow2[ByteBits * j]}
<1>1. 0 \in S
  <2>1. Leading(ip)[0] = 0
    BY LeadingDefined
  <2> QED
    BY <2>1, NoByte
<1>2. ASSUME NEW j \in Nat, j \in S PROVE j + 1 \in S
  <2> SUFFICES ASSUME j + 1 <= k PROVE Leading(ip)[j + 1] < Pow2[ByteBits * (j + 1)]
    OBVIOUS
  <2>1. /\ j + 1 \in 1 .. k /\ (j + 1) - 1 = j /\ j \in 0 .. k
        /\ Leading(ip)[j] < Pow2[ByteBits * j] /\ ip[j + 1] \in 0 .. Base - 1
    BY <1>2 DEF Byte
  <2>2. Leading(ip)[j + 1] = Leading(ip)[j] * Base + ip[j + 1] /\ Leading(ip)[j] \in Nat
    BY <2>1, LeadingDefined
  <2>3. Pow2[ByteBits * (j + 1)] = Pow2[ByteBits * j] * Base /\ Pow2[ByteBits * j] \in Nat
    BY ByteMore
  <2> DEFINE x == Leading(ip)[j]
             p == Pow2[ByteBits * j]
             r == ip[j + 1]
  <2> HIDE DEF x, p, r
  <2>4. x \in Nat /\ p \in Nat /\ r \in Nat /\ x < p /\ r < Base
    BY <2>1, <2>2, <2>3, BaseIsPositive DEF x, p, r
  <2>5. x * Base + r < p * Base
    BY <2>4, BaseIsPositive
  <2> QED
    BY <2>2, <2>3, <2>5 DEF x, p, r
<1> HIDE DEF S
<1>3. i \in S
  BY <1>1, <1>2, Induction
<1> QED
  BY <1>3 DEF S

(* A number of k bytes is one that k bytes can hold.                       *)
LEMMA NumberType ==
  ASSUME NEW k \in Nat, NEW ip \in [1 .. k -> Byte]
  PROVE  Number(ip) \in 0 .. Pow2[ByteBits * k] - 1
<1>1. Number(ip) = Leading(ip)[k] /\ k \in 0 .. k
  BY LengthOf, NumberIsLeading
<1>2. Leading(ip)[k] \in Nat
  BY LeadingDefined
<1>3. Leading(ip)[k] < Pow2[ByteBits * k]
  BY <1>1, LeadingIsBelow
<1>4. Pow2[ByteBits * k] \in Nat
  BY ByteMore
<1> QED
  BY <1>1, <1>2, <1>3, <1>4

(* The first bytes of an address are its number shifted by the others.     *)
LEMMA LeadingIsShifted ==
  ASSUME NEW k \in Nat, NEW ip \in [1 .. k -> Byte], NEW i \in 0 .. k
  PROVE  Leading(ip)[i] = Number(ip) \div Pow2[ByteBits * (k - i)]
<1> DEFINE S == {j \in Nat : j <= k =>
                   Leading(ip)[k - j] = Number(ip) \div Pow2[ByteBits * j]}
<1>1. Number(ip) \in Nat /\ Number(ip) = Leading(ip)[k]
  <2>1. Number(ip) = Leading(ip)[k] /\ Leading(ip) \in [0 .. k -> Nat] /\ k \in 0 .. k
    BY LengthOf, NumberIsLeading, LeadingDefined
  <2> QED
    BY <2>1
<1>2. 0 \in S
  <2>1. k - 0 = k /\ Number(ip) \div 1 = Number(ip)
    BY <1>1
  <2> QED
    BY <1>1, <2>1, NoByte
<1>3. ASSUME NEW j \in Nat, j \in S PROVE j + 1 \in S
  <2> SUFFICES ASSUME j + 1 <= k
               PROVE  Leading(ip)[k - (j + 1)] = Number(ip) \div Pow2[ByteBits * (j + 1)]
    OBVIOUS
  <2>1. /\ k - j \in 1 .. k /\ (k - j) - 1 = k - (j + 1) /\ k - (j + 1) \in 0 .. k
        /\ Leading(ip)[k - j] = Number(ip) \div Pow2[ByteBits * j]
        /\ ip[k - j] \in 0 .. Base - 1
    BY <1>3 DEF Byte
  <2>2. /\ Leading(ip)[k - j] = Leading(ip)[k - (j + 1)] * Base + ip[k - j]
        /\ Leading(ip)[k - (j + 1)] \in Nat
    BY <2>1, LeadingDefined
  <2> DEFINE x == Leading(ip)[k - (j + 1)]
             r == ip[k - j]
             p == Pow2[ByteBits * j]
             n == Number(ip)
  <2> HIDE DEF x, r, p, n
  <2>3. x \in Nat /\ r \in 0 .. Base - 1 /\ n \in Nat /\ p \in Nat \ {0}
    BY <1>1, <2>1, <2>2, ByteMore DEF x, r, p, n
  <2>4. (x * Base + r) \div Base = x
    BY <2>3, BaseIsPositive
  <2>5. (n \div p) \div Base = n \div (p * Base)
    BY <2>3, BaseIsPositive
  <2>6. n \div p = x * Base + r
    BY <2>1, <2>2 DEF x, r, p, n
  <2>7. Pow2[ByteBits * (j + 1)] = p * Base
    BY ByteMore DEF p
  <2>8. x = n \div (p * Base)
    BY <2>4, <2>5, <2>6
  <2> QED
    BY <2>7, <2>8 DEF x, n
<1> HIDE DEF S
<1>4. k - i \in S
  BY <1>2, <1>3, Induction
<1>5. k - (k - i) = i /\ k - i <= k
  OBVIOUS
<1> QED
  BY <1>4, <1>5 DEF S

(* Converting an address to a number and back yields the address.          *)
LEMMA BytesOfNumber ==
  ASSUME NEW k \in Nat, NEW ip \in [1 .. k -> Byte]
  PROVE  FromNumber(Number(ip), k) = ip
<1> SUFFICES ASSUME NEW i \in 1 .. k
             PROVE  (Number(ip) \div Pow2[ByteBits * (k - i)]) % Base = ip[i]
  BY DEF FromNumber
<1>1. i \in 0 .. k /\ i - 1 \in 0 .. k /\ ip[i] \in 0 .. Base - 1
  BY DEF Byte
<1>2. Number(ip) \div Pow2[ByteBits * (k - i)] = Leading(ip)[i]
  BY <1>1, LeadingIsShifted
<1>3. Leading(ip)[i] = Leading(ip)[i - 1] * Base + ip[i] /\ Leading(ip)[i - 1] \in Nat
  BY <1>1, LeadingDefined
<1> DEFINE x == Leading(ip)[i - 1]
           r == ip[i]
<1> HIDE DEF x, r
<1>4. x \in Nat /\ r \in 0 .. Base - 1
  BY <1>1, <1>3 DEF x, r
<1>5. (x * Base + r) % Base = r
  BY <1>4, BaseIsPositive, DivisionIsUnique
<1> QED
  BY <1>2, <1>3, <1>5 DEF x, r

(* Converting a number yields as many bytes as are asked for.              *)
LEMMA BytesType ==
  ASSUME NEW k \in Nat, NEW n \in Nat
  PROVE  FromNumber(n, k) \in [1 .. k -> Byte]
<1> SUFFICES ASSUME NEW i \in 1 .. k
             PROVE  (n \div Pow2[ByteBits * (k - i)]) % Base \in Byte
  BY DEF FromNumber
<1>1. Pow2[ByteBits * (k - i)] \in Nat \ {0}
  BY ByteMore
<1> DEFINE q == n \div Pow2[ByteBits * (k - i)]
<1>2. q \in Nat
  BY <1>1
<1> HIDE DEF q
<1>3. q % Base \in 0 .. Base - 1
  BY <1>2, BaseIsPositive
<1> QED
  BY <1>3 DEF Byte, q

(* Converting a number to an address and back yields the number, if it is  *)
(* not too large.                                                          *)
LEMMA NumberOfBytes ==
  ASSUME NEW k \in Nat, NEW n \in 0 .. Pow2[ByteBits * k] - 1
  PROVE  Number(FromNumber(n, k)) = n
<1> DEFINE ip == FromNumber(n, k)
           S == {j \in Nat : j <= k => Leading(ip)[j] = n \div Pow2[ByteBits * (k - j)]}
<1>1. n \in Nat /\ ip \in [1 .. k -> Byte]
  BY BytesType, ByteMore
<1>2. \A i \in 1 .. k : ip[i] = (n \div Pow2[ByteBits * (k - i)]) % Base
  BY DEF FromNumber
<1> HIDE DEF ip
<1>3. 0 \in S
  <2>1. n \div Pow2[ByteBits * k] = 0 /\ k - 0 = k
    <3>1. 0 * Pow2[ByteBits * k] + n = n /\ Pow2[ByteBits * k] \in Nat \ {0}
      BY ByteMore
    <3> QED
      BY <3>1, DivisionIsUnique
  <2> QED
    BY <1>1, <2>1, LeadingDefined
<1>4. ASSUME NEW j \in Nat, j \in S PROVE j + 1 \in S
  <2> SUFFICES ASSUME j + 1 <= k
               PROVE  Leading(ip)[j + 1] = n \div Pow2[ByteBits * (k - (j + 1))]
    OBVIOUS
  <2> DEFINE q == n \div Pow2[ByteBits * (k - (j + 1))]
  <2>1. /\ j + 1 \in 1 .. k /\ (j + 1) - 1 = j
        /\ k - (j + 1) \in Nat /\ (k - (j + 1)) + 1 = k - j
        /\ Leading(ip)[j] = n \div Pow2[ByteBits * (k - j)]
    BY <1>4
  <2>2. /\ Pow2[ByteBits * (k - j)] = Pow2[ByteBits * (k - (j + 1))] * Base
        /\ Pow2[ByteBits * (k - (j + 1))] \in Nat \ {0}
    BY <2>1, ByteMore
  <2> DEFINE p == Pow2[ByteBits * (k - (j + 1))]
  <2>3. q \in Nat
    BY <1>1, <2>2
  <2>4. (n \div p) \div Base = n \div (p * Base)
    <3>1. p \in Nat \ {0}
      BY <2>2
    <3> HIDE DEF p
    <3> QED
      BY <1>1, <3>1, BaseIsPositive
  <2>5. Leading(ip)[j] = q \div Base
    BY <2>1, <2>2, <2>4
  <2>6. ip[j + 1] = q % Base
    BY <1>2, <2>1
  <2>7. Leading(ip)[j + 1] = Leading(ip)[j] * Base + ip[j + 1]
    BY <1>1, <2>1, LeadingDefined
  <2> HIDE DEF q
  <2>8. q = (q \div Base) * Base + (q % Base)
    BY <2>3, BaseIsPositive
  <2>9. q = Leading(ip)[j + 1]
    BY <2>5, <2>6, <2>7, <2>8
  <2> QED
    BY <2>9 DEF q
<1> HIDE DEF S
<1>5. k \in S
  BY <1>3, <1>4, Induction
<1>6. Leading(ip)[k] = n \div Pow2[ByteBits * (k - k)]
  BY <1>5 DEF S
<1>7. ByteBits * (k - k) = 0
  BY AddressAssumption
<1>8. n \div 1 = n
  BY <1>1
<1> QED
  BY <1>1, <1>6, <1>7, <1>8, Pow2Defined, LengthOf, NumberIsLeading DEF ip

(* Different addresses have different numbers.                             *)
LEMMA NumberIsInjective ==
  ASSUME NEW k \in Nat, NEW ip \in [1 .. k -> Byte], NEW jp \in [1 .. k -> Byte],
         Number(ip) = Number(jp)
  PROVE  ip = jp
BY BytesOfNumber

-----------------------------------------------------------------------------
(* Numbers with their last bits cleared: the multiple of p below n.        *)
Clear(n, p) == p * (n \div p)

(* They are what remains without the last bits.                            *)
LEMMA ClearIsBelow ==
  ASSUME NEW n \in Nat, NEW p \in Nat \ {0}
  PROVE  Clear(n, p) \in Nat /\ n \div p \in Nat /\ Clear(n, p) = n - (n % p)
<1>1. n = p * (n \div p) + (n % p) /\ n \div p \in Nat /\ n % p \in 0 .. p - 1
  OBVIOUS
<1> DEFINE q == n \div p
<1>2. p * q \in Nat
  BY <1>1
<1> QED
  BY <1>1, <1>2 DEF Clear

(* A byte with all its bits cleared is zero, and those before it are       *)
(* cleared on their own.                                                   *)
LEMMA ClearBytes ==
  ASSUME NEW x \in Nat, NEW p \in Nat \ {0}, NEW b \in Nat \ {0}, NEW r \in 0 .. b - 1
  PROVE  /\ Clear(r, b) = 0
         /\ Clear(x * b + r, p * b) = Clear(x, p) * b
<1>1. r \div b = 0
  OBVIOUS
<1>2. (x * b + r) \div b = x
  OBVIOUS
<1> DEFINE n == x * b + r
           e == x \div p
<1>3. n \in Nat /\ e \in Nat
  OBVIOUS
<1>4. n \div b = x
  BY <1>2
<1> HIDE DEF n
<1>5. (n \div b) \div p = n \div (p * b)
  BY <1>3
<1>6. n \div (p * b) = e
  BY <1>4, <1>5
<1> HIDE DEF e
<1>7. (p * b) * e = (p * e) * b
  BY <1>3
<1>8. Clear(r, b) = 0
  BY <1>1 DEF Clear
<1>9. Clear(n, p * b) = Clear(x, p) * b
  BY <1>6, <1>7 DEF Clear, e
<1> QED
  BY <1>8, <1>9 DEF n

(* The last bits of all bytes are cleared, or set, byte by byte.           *)
LEMMA ClearStep ==
  ASSUME NEW x \in Nat, NEW r \in Byte, NEW h \in 0 .. ByteBits,
         NEW H \in Nat, NEW H2 \in Nat,
         \/ H = 0 /\ H2 = h
         \/ H2 = H + ByteBits /\ h = ByteBits
  PROVE  /\ Clear(x, Pow2[H]) * Base + Clear(r, Pow2[h]) = Clear(x * Base + r, Pow2[H2])
         /\ (Clear(x, Pow2[H]) + Pow2[H] - 1) * Base + (Clear(r, Pow2[h]) + Pow2[h] - 1)
              = Clear(x * Base + r, Pow2[H2]) + Pow2[H2] - 1
<1>1. ByteBits \in Nat /\ h \in Nat /\ ByteBits - h \in Nat
  BY AddressAssumption
<1> DEFINE p == Pow2[H]
           q == Pow2[h]
           c == Pow2[ByteBits - h]
<1>2. p \in Nat \ {0} /\ q \in Nat \ {0} /\ c \in Nat \ {0}
  BY <1>1, Pow2Defined
<1>3. r \in 0 .. Base - 1 /\ r \in Nat
  BY BaseIsPositive DEF Byte
<1>4. CASE H = 0 /\ H2 = h
  <2>1. (ByteBits - h) + h = ByteBits
    BY <1>1
  <2>2. Base = c * q
    BY <1>1, <2>1, Pow2Sum DEF Base
  <2>3. Pow2[H] = 1 /\ Pow2[H2] = q
    BY <1>4, Pow2Defined
  <2> HIDE DEF p, q, c
  <2>4. Clear(x * Base + r, q) = x * Base + Clear(r, q)
      <3> DEFINE d == r \div q
               s == r % q
    <3>1. r = q * d + s /\ d \in Nat /\ s \in 0 .. q - 1
      BY <1>2, <1>3
    <3>2. Clear(r, q) = q * d
      BY DEF Clear
    <3> HIDE DEF d, s
    <3>3. x * Base + r = (x * c + d) * q + s
      BY <1>2, <2>2, <3>1
    <3>4. ((x * c + d) * q + s) \div q = x * c + d
      BY <1>2, <3>1
    <3>5. q * (x * c + d) = x * Base + q * d
      BY <1>2, <2>2, <3>1
    <3> QED
      BY <3>2, <3>3, <3>4, <3>5 DEF Clear
  <2>5. Clear(x, 1) = x
    BY DEF Clear
  <2>6. x * Base \in Nat /\ Clear(r, q) \in Nat
    BY <1>2, <1>3, BaseIsPositive, ClearIsBelow
  <2>7. (x + 1 - 1) * Base = x * Base
    OBVIOUS
  <2>8. x * Base + (Clear(r, q) + q - 1) = x * Base + Clear(r, q) + q - 1
    BY <1>2, <2>6
  <2> QED
    BY <2>3, <2>4, <2>5, <2>7, <2>8 DEF q
<1>5. CASE H2 = H + ByteBits /\ h = ByteBits
  <2>1. Pow2[H2] = p * Base /\ Pow2[h] = Base
    BY <1>1, <1>5, Pow2Sum DEF Base
  <2> HIDE DEF p
  <2>2. Clear(r, Base) = 0 /\ Clear(x * Base + r, p * Base) = Clear(x, p) * Base
    BY <1>2, <1>3, BaseIsPositive, ClearBytes
  <2> DEFINE y == Clear(x, p)
  <2>3. y \in Nat
    BY <1>2, ClearIsBelow
  <2> HIDE DEF y
  <2>4. y * Base + 0 = y * Base
    BY <2>3, BaseIsPositive
  <2>5. (y + p - 1) * Base + (0 + Base - 1) = y * Base + p * Base - 1
    BY <1>2, <2>3, BaseIsPositive
  <2> QED
    BY <2>1, <2>2, <2>4, <2>5 DEF y, p
<1> QED
  BY <1>4, <1>5

(* The bits of a byte are cleared, and set, within the byte.               *)
LEMMA ClearInByte ==
  ASSUME NEW b \in Byte, NEW h \in 0 .. ByteBits
  PROVE  /\ Clear(b, Pow2[h]) = b - (b % Pow2[h])
         /\ Clear(b, Pow2[h]) \in Byte
         /\ Clear(b, Pow2[h]) + Pow2[h] - 1 \in Byte
<1>1. ByteBits \in Nat /\ h \in Nat /\ ByteBits - h \in Nat
  BY AddressAssumption
<1> DEFINE q == Pow2[h]
           c == Pow2[ByteBits - h]
           d == b \div q
           y == Clear(b, q)
<1>2. q \in Nat \ {0} /\ c \in Nat \ {0}
  BY <1>1, Pow2Defined
<1>3. (ByteBits - h) + h = ByteBits
  BY <1>1
<1>4. Base = c * q
  BY <1>1, <1>3, Pow2Sum DEF Base
<1>5. b \in Nat /\ b < Base
  BY BaseIsPositive DEF Byte
<1> HIDE DEF q, c
<1>6. y \in Nat /\ d \in Nat /\ y = b - (b % q)
  BY <1>2, <1>5, ClearIsBelow
<1>7. b % q \in 0 .. q - 1
  BY <1>2, <1>5, Division
<1>8. y = q * d
  BY DEF Clear
<1> HIDE DEF d, y
<1>9. d < c
  <2>1. q * d < c * q
    BY <1>4, <1>5, <1>6, <1>7, <1>8
  <2> QED
    BY <1>2, <1>6, <2>1
<1>10. q * d + q <= c * q
  BY <1>2, <1>6, <1>9
<1>11. y \in 0 .. Base - 1 /\ y + q - 1 \in 0 .. Base - 1
  BY <1>2, <1>4, <1>6, <1>8, <1>10, BaseIsPositive
<1> QED
  BY <1>6, <1>11 DEF Byte, y, q

-----------------------------------------------------------------------------
(* Some places of a sequence have a last one.                              *)
LEMMA LastPlace ==
  ASSUME NEW k \in Nat, NEW S \in SUBSET (1 .. k), S # {}
  PROVE  Max(S) \in S /\ \A i \in S : i <= Max(S)
<1> DEFINE T == {m \in Nat : \A i \in S : i <= m}
<1>1. T \in SUBSET Nat /\ T # {}
  <2>1. k \in T
    OBVIOUS
  <2> QED
    BY <2>1
<1>2. PICK m \in T : \A j \in 0 .. m - 1 : j \notin T
  <2> HIDE DEF T
  <2> QED
    BY <1>1, Least
<1>3. m \in Nat /\ \A i \in S : i <= m
  BY <1>2
<1>4. m \in S
  <2> SUFFICES ASSUME m \notin S PROVE FALSE
    OBVIOUS
  <2>1. PICK s \in S : TRUE
    OBVIOUS
  <2>2. s \in Nat /\ 1 <= s /\ s <= m
    BY <1>3
  <2>3. m - 1 \in 0 .. m - 1 /\ m - 1 \in Nat
    BY <1>3, <2>2
  <2>4. \A i \in S : i <= m - 1
    BY <1>3
  <2>5. m - 1 \in T
    BY <2>3, <2>4
  <2> HIDE DEF T
  <2> QED
    BY <1>2, <2>3, <2>5
<1>5. \E x \in S : \A y \in S : x >= y
  BY <1>3, <1>4
<1> DEFINE Tops(x) == \A y \in S : x >= y
<1>6. Max(S) = CHOOSE x \in S : Tops(x)
  BY DEF Max
<1>7. \E x \in S : Tops(x)
  BY <1>5
<1>8. Max(S) \in S /\ Tops(Max(S))
  <2> HIDE DEF Tops
  <2> QED
    BY <1>6, <1>7
<1> QED
  BY <1>8

(* Some numbers have a least one, too.                                     *)
LEMMA FirstPlace ==
  ASSUME NEW S \in SUBSET Nat, S # {}
  PROVE  Min(S) \in S /\ \A i \in S : Min(S) <= i
<1>1. PICK m \in S : \A j \in 0 .. m - 1 : j \notin S
  BY Least
<1>2. \A i \in S : m <= i
  <2> SUFFICES ASSUME NEW i \in S PROVE m <= i
    OBVIOUS
  <2>1. i \in Nat /\ m \in Nat /\ i \notin 0 .. m - 1
    BY <1>1
  <2> QED
    BY <2>1
<1> DEFINE Bottom(x) == \A y \in S : x <= y
<1>3. Min(S) = CHOOSE x \in S : Bottom(x)
  BY DEF Min
<1>4. \E x \in S : Bottom(x)
  BY <1>2
<1>5. Min(S) \in S /\ Bottom(Min(S))
  <2> HIDE DEF Bottom
  <2> QED
    BY <1>3, <1>4
<1> QED
  BY <1>5

-----------------------------------------------------------------------------
(* The values of a socket_address.                                         *)

(* Their bytes are as many as those of the family.                         *)
LEMMA FamilyBytes ==
  /\ \A f \in Families : AddrBytes[f] \in Nat
  /\ AddrBytes["unspec"] = 0 /\ AddrBytes["local"] = BytesPath
  /\ AddrBytes["inet"] = Bytes4 /\ AddrBytes["inet6"] = Bytes6
  /\ \A f \in IPFamilies \union {"local"} : AddrBytes[f] \in Nat \ {0}
BY AddressAssumption DEF AddrBytes, Families, IPFamilies

(* An address is a record of its family, its bytes and its port, ...       *)
LEMMA AddressIs ==
  ASSUME NEW a \in Addresses
  PROVE  /\ a.family \in Families /\ a \in AddressesOf(a.family)
         /\ a.ip \in [1 .. AddrBytes[a.family] -> Byte] /\ a.port \in Nat
         /\ a.family \in IPFamilies => a.port \in Ports
         /\ a.family \notin IPFamilies => a.port = 0
<1>1. PICK f \in Families : a \in AddressesOf(f)
  BY DEF Addresses
<1>2. /\ a.family = f /\ a.ip \in [1 .. AddrBytes[f] -> Byte]
      /\ a.port \in IF f \in IPFamilies THEN Ports ELSE {0}
  BY <1>1 DEF AddressesOf
<1>3. \A p \in Ports : p \in Nat
  BY DEF Ports
<1> QED
  BY <1>1, <1>2, <1>3

(* ... and is told apart from others by them.                              *)
LEMMA AddressEquality ==
  ASSUME NEW a \in Addresses, NEW b \in Addresses,
         a.family = b.family, a.ip = b.ip, a.port = b.port
  PROVE  a = b
<1>1. PICK f \in Families : a \in AddressesOf(f)
  BY DEF Addresses
<1>2. PICK g \in Families : b \in AddressesOf(g)
  BY DEF Addresses
<1> DEFINE S == Families
           I == UNION {[1 .. AddrBytes[h] -> Byte] : h \in Families}
           P == Ports \union {0}
<1>3. a \in [family : S, ip : I, port : P]
  BY <1>1 DEF AddressesOf
<1>4. b \in [family : S, ip : I, port : P]
  BY <1>2 DEF AddressesOf
<1> HIDE DEF S, I, P
<1> QED
  BY <1>3, <1>4

(* The one of no family is the one that the default constructor makes.     *)
LEMMA UnspecIs ==
  /\ Unspec \in Addresses
  /\ \A a \in Addresses : a.family = "unspec" => a = Unspec
<1>1. Unspec \in AddressesOf("unspec")
  <2>1. <<>> \in [1 .. 0 -> Byte]
    OBVIOUS
  <2> QED
    BY <2>1, FamilyBytes DEF AddressesOf, Unspec, IPFamilies
<1>2. Unspec \in Addresses
  BY <1>1 DEF Addresses, Families
<1>3. ASSUME NEW a \in Addresses, a.family = "unspec" PROVE a = Unspec
  <2>1. a.ip \in [1 .. 0 -> Byte] /\ a.port = 0
    BY <1>3, AddressIs, FamilyBytes DEF IPFamilies
  <2>2. a.ip = <<>>
    BY <2>1
  <2>3. Unspec.family = "unspec" /\ Unspec.ip = <<>> /\ Unspec.port = 0
    BY DEF Unspec
  <2> QED
    BY <1>2, <1>3, <2>1, <2>2, <2>3, AddressEquality
<1> QED
  BY <1>2, <1>3

(* What makes an address of another one by replacing its bytes or its port *)
(* makes one of the same family.                                           *)
LEMMA ReplacedParts ==
  ASSUME NEW f \in Families, NEW a \in AddressesOf(f)
  PROVE  /\ a.family = f
         /\ \A ip \in [1 .. AddrBytes[f] -> Byte] :
              /\ [a EXCEPT !.ip = ip] \in AddressesOf(f)
              /\ [a EXCEPT !.ip = ip].family = f
              /\ [a EXCEPT !.ip = ip].ip = ip
              /\ [a EXCEPT !.ip = ip].port = a.port
         /\ f \in IPFamilies => \A p \in Ports :
              /\ [a EXCEPT !.port = p] \in AddressesOf(f)
              /\ [a EXCEPT !.port = p].family = f
              /\ [a EXCEPT !.port = p].ip = a.ip
              /\ [a EXCEPT !.port = p].port = p
BY DEF AddressesOf

(* operator++ of an IP address yields one of the same family, with the     *)
(* same port.                                                              *)
LEMMA IncrementType ==
  ASSUME NEW f \in IPFamilies, NEW a \in AddressesOf(f)
  PROVE  Increment(a) \in AddressesOf(f) /\ Increment(a).port = a.port
<1> DEFINE k == AddrBytes[f]
<1>1. /\ f \in Families /\ k \in Nat \ {0} /\ a.family = f /\ a.ip \in [1 .. k -> Byte]
      /\ f = "inet" => k = Bytes4
  BY FamilyBytes DEF AddressesOf, Families
<1>2. CASE f = "inet"
  <2> DEFINE ip == FromNumber(Number(a.ip) + 1, Bytes4)
  <2>1. Number(a.ip) \in Nat
    <3> HIDE DEF k
    <3>1. Number(a.ip) \in 0 .. Pow2[ByteBits * k] - 1
      BY <1>1, NumberType
    <3> QED
      BY <3>1
  <2>2. ip \in [1 .. k -> Byte]
    BY <1>1, <1>2, <2>1, BytesType
  <2>3. Increment(a) = [a EXCEPT !.ip = ip]
    BY <1>1, <1>2 DEF Increment
  <2> HIDE DEF ip
  <2> QED
    BY <1>1, <2>2, <2>3, ReplacedParts
<1>3. CASE f # "inet" /\ BelowMax(a.ip) = {}
  BY <1>1, <1>3 DEF Increment
<1>4. CASE f # "inet" /\ BelowMax(a.ip) # {}
  <2> DEFINE i == Max(BelowMax(a.ip))
             ip == [a.ip EXCEPT ![i] = @ + 1]
  <2>1. ip \in [1 .. k -> Byte]
    <3>1. BelowMax(a.ip) \in SUBSET (1 .. k)
      BY <1>1 DEF BelowMax
    <3>2. i \in BelowMax(a.ip)
      BY <1>1, <1>4, <3>1, LastPlace
    <3> HIDE DEF i
    <3>3. i \in 1 .. k /\ a.ip[i] \in 0 .. Base - 1 /\ a.ip[i] < Base - 1
      BY <1>1, <3>2 DEF BelowMax, Byte
    <3>4. a.ip[i] + 1 \in Byte
      BY <3>3, BaseIsPositive DEF Byte
    <3> QED
      BY <1>1, <3>3, <3>4
  <2>2. Increment(a) = [a EXCEPT !.ip = ip]
    BY <1>1, <1>4 DEF Increment
  <2> HIDE DEF ip
  <2> QED
    BY <1>1, <2>1, <2>2, ReplacedParts
<1> QED
  BY <1>2, <1>3, <1>4

(* That of an IPv4 address adds one to its number, but for the last one.   *)
LEMMA Increment4 ==
  ASSUME NEW a \in AddressesOf("inet"), Number(a.ip) + 1 < Pow2[ByteBits * Bytes4]
  PROVE  Number(Increment(a).ip) = Number(a.ip) + 1
<1>1. /\ "inet" \in Families /\ Bytes4 \in Nat /\ a.family = "inet"
      /\ a.ip \in [1 .. Bytes4 -> Byte]
  BY FamilyBytes DEF AddressesOf, Families, IPFamilies
<1> DEFINE n == Number(a.ip) + 1
           ip == FromNumber(n, Bytes4)
<1>2. Number(a.ip) \in Nat /\ Pow2[ByteBits * Bytes4] \in Nat
  BY <1>1, NumberType, ByteMore
<1>3. n \in Nat /\ n \in 0 .. Pow2[ByteBits * Bytes4] - 1
  BY <1>2
<1>4. Increment(a) = [a EXCEPT !.ip = ip]
  BY <1>1 DEF Increment
<1> HIDE DEF n
<1>5. Number(ip) = n /\ ip \in [1 .. Bytes4 -> Byte]
  BY <1>1, <1>3, NumberOfBytes, BytesType
<1> HIDE DEF ip
<1>6. Increment(a).ip = ip
  BY <1>1, <1>4, <1>5, FamilyBytes, ReplacedParts
<1> QED
  BY <1>5, <1>6 DEF n

(* That of an IPv6 address adds one to the last byte that has room for it. *)
LEMMA Increment6 ==
  ASSUME NEW a \in AddressesOf("inet6"), BelowMax(a.ip) # {}
  PROVE  LET i == Max(BelowMax(a.ip))
         IN  /\ i \in BelowMax(a.ip) /\ \A j \in BelowMax(a.ip) : j <= i
             /\ Increment(a).ip = [a.ip EXCEPT ![i] = @ + 1]
<1> DEFINE i == Max(BelowMax(a.ip))
           ip == [a.ip EXCEPT ![i] = @ + 1]
<1>1. /\ "inet6" \in Families /\ "inet6" \in IPFamilies /\ Bytes6 \in Nat
      /\ a.family = "inet6" /\ a.ip \in [1 .. Bytes6 -> Byte]
  BY FamilyBytes DEF AddressesOf, Families, IPFamilies
<1>2. BelowMax(a.ip) \in SUBSET (1 .. Bytes6)
  BY <1>1 DEF BelowMax
<1>3. i \in BelowMax(a.ip) /\ \A j \in BelowMax(a.ip) : j <= i
  BY <1>1, <1>2, LastPlace
<1>4. Increment(a) = [a EXCEPT !.ip = ip]
  BY <1>1 DEF Increment
<1> HIDE DEF ip
<1>5. [a EXCEPT !.ip = ip].ip = ip
  BY DEF AddressesOf
<1> QED
  BY <1>3, <1>4, <1>5 DEF ip
(* The setter of the port, and the constructor from memory.                *)
LEMMA SetPortType ==
  ASSUME NEW a \in Addresses, NEW p \in Ports
  PROVE  /\ SetPort(a, p) \in Addresses
         /\ SetPort(a, p).family = a.family /\ SetPort(a, p).ip = a.ip
         /\ a.family \in IPFamilies => SetPort(a, p).port = p
<1>1. a.family \in Families /\ a \in AddressesOf(a.family)
  BY AddressIs
<1>2. CASE a.family \in IPFamilies
  <2>1. SetPort(a, p) = [a EXCEPT !.port = p]
    BY <1>2 DEF SetPort
  <2> QED
    BY <1>1, <1>2, <2>1, ReplacedParts DEF Addresses
<1>3. CASE a.family \notin IPFamilies
  BY <1>3 DEF SetPort
<1> QED
  BY <1>2, <1>3

(* The bytes of a path before the first zero, or all.                      *)
LEMMA PathLengthIs ==
  ASSUME NEW k \in Nat, NEW p \in [1 .. k -> Byte]
  PROVE  /\ PathLength(p) \in 0 .. k
         /\ \A i \in 1 .. PathLength(p) : p[i] # 0
         /\ PathLength(p) < k => p[PathLength(p) + 1] = 0
<1> DEFINE S == {i - 1 : i \in {j \in DOMAIN p : p[j] = 0}} \union {Len(p)}
           m == Min(S)
<1>1. Len(p) = k /\ DOMAIN p = 1 .. k
  BY LengthOf
<1>2. S \in SUBSET Nat /\ k \in S
  BY <1>1
<1>3. m \in S /\ \A i \in S : m <= i
  <2> HIDE DEF S
  <2> QED
    BY <1>2, FirstPlace
<1>4. PathLength(p) = m
  BY DEF PathLength
<1> HIDE DEF m
<1>5. m \in 0 .. k
  <2> HIDE DEF S
  <2> QED
    BY <1>2, <1>3
<1>6. ASSUME NEW i \in 1 .. m PROVE p[i] # 0
  <2> SUFFICES ASSUME p[i] = 0 PROVE FALSE
    OBVIOUS
  <2>1. i \in 1 .. k
    BY <1>5
  <2>2. i - 1 \in S
    BY <1>1, <2>1
  <2>3. m <= i - 1
    BY <1>3, <2>2
  <2> QED
    BY <1>5, <2>3
<1>7. ASSUME m < k PROVE p[m + 1] = 0
  <2>1. PICK i \in 1 .. k : p[i] = 0 /\ m = i - 1
    BY <1>1, <1>3, <1>7
  <2>2. m + 1 = i
    BY <2>1
  <2> QED
    BY <2>1, <2>2
<1> QED
  BY <1>4, <1>5, <1>6, <1>7

(* There is no other such number of bytes.                                 *)
LEMMA PathLengthUnique ==
  ASSUME NEW k \in Nat, NEW p \in [1 .. k -> Byte], NEW m \in 0 .. k,
         \A i \in 1 .. m : p[i] # 0, m < k => p[m + 1] = 0
  PROVE  PathLength(p) = m
<1> DEFINE n == PathLength(p)
<1>1. /\ n \in 0 .. k /\ \A i \in 1 .. n : p[i] # 0
      /\ n < k => p[n + 1] = 0
  BY PathLengthIs
<1> HIDE DEF n
<1>2. ~(n < m)
  <2> SUFFICES ASSUME n < m PROVE FALSE
    OBVIOUS
  <2>1. n + 1 \in 1 .. m /\ n < k
    BY <1>1
  <2> QED
    BY <1>1, <2>1
<1>3. ~(m < n)
  <2> SUFFICES ASSUME m < n PROVE FALSE
    OBVIOUS
  <2>1. m + 1 \in 1 .. n /\ m < k
    BY <1>1
  <2> QED
    BY <1>1, <2>1
<1>4. n = m
  BY <1>1, <1>2, <1>3
<1> QED
  BY <1>4 DEF n

(* A path of which n bytes arrived.                                        *)
Cut(p, n) == [i \in DOMAIN p |-> IF i <= n THEN p[i] ELSE 0]

(* It is as long as it was, and what is missing is zero.                   *)
LEMMA CutIs ==
  ASSUME NEW k \in Nat, NEW p \in [1 .. k -> Byte], NEW n \in Nat
  PROVE  /\ Cut(p, n) \in [1 .. k -> Byte]
         /\ \A i \in 1 .. k : Cut(p, n)[i] = IF i <= n THEN p[i] ELSE 0
         /\ k <= n => Cut(p, n) = p
<1>1. 0 \in Byte
  BY BaseIsPositive DEF Byte
<1> QED
  BY <1>1 DEF Cut

(* What is made of memory.                                                 *)
LEMMA RawIs ==
  ASSUME NEW a \in Addresses, NEW n \in Nat
  PROVE  LET copied == IF a.family = "local" THEN [a EXCEPT !.ip = Cut(a.ip, n)] ELSE a
         IN  /\ copied \in Addresses /\ copied.family = a.family /\ copied.port = a.port
             /\ a.family = "local" => copied.ip = Cut(a.ip, n)
             /\ RawSize(copied) \in Nat
             /\ FromRaw(a, n) = IF n < RawSize(copied) THEN Unspec ELSE copied
<1> DEFINE copied == IF a.family = "local" THEN [a EXCEPT !.ip = Cut(a.ip, n)] ELSE a
<1>1. /\ a.family \in Families /\ a \in AddressesOf(a.family)
      /\ a.ip \in [1 .. AddrBytes[a.family] -> Byte] /\ AddrBytes[a.family] \in Nat
  BY AddressIs, FamilyBytes
<1>2. /\ copied \in Addresses /\ copied.family = a.family /\ copied.port = a.port
      /\ a.family = "local" => copied.ip = Cut(a.ip, n)
  <2>1. CASE a.family = "local"
    <3>1. Cut(a.ip, n) \in [1 .. AddrBytes[a.family] -> Byte]
      BY <1>1, CutIs
    <3> QED
      BY <1>1, <2>1, <3>1, ReplacedParts DEF Addresses
  <2>2. CASE a.family # "local"
    BY <2>2
  <2> QED
    BY <2>1, <2>2
<1>3. FromRaw(a, n) = IF n < RawSize(copied) THEN Unspec ELSE copied
  BY DEF FromRaw, Cut
<1> HIDE DEF copied
<1>4. RawSize(copied) \in Nat
  <2>1. /\ copied.ip \in [1 .. AddrBytes[copied.family] -> Byte]
        /\ copied.family \in Families /\ AddrBytes[copied.family] \in Nat
    BY <1>2, AddressIs, FamilyBytes
  <2>2. PathLength(copied.ip) \in 0 .. AddrBytes[copied.family]
    BY <2>1, PathLengthIs
  <2>3. PathLength(copied.ip) + 1 \in Nat /\ AddrBytes[copied.family] + 2 \in Nat
    BY <2>1, <2>2
  <2>4. BytesPath \in Nat
    BY AddressAssumption
  <2>5. CASE copied.family \in IPFamilies
    BY <2>3, <2>5 DEF RawSize, IPFamilies
  <2>6. CASE copied.family = "local"
    BY <2>3, <2>4, <2>6 DEF RawSize, IPFamilies
  <2>7. CASE copied.family \notin IPFamilies \union {"local"}
    BY <2>7 DEF RawSize
  <2> QED
    BY <2>5, <2>6, <2>7
<1> QED
  BY <1>2, <1>3, <1>4 DEF copied

(* It is an address, and it is compared and hashed as the one that was in  *)
(* memory, if as many bytes were given as bufsize() says, and if it was    *)
(* made of fewer.                                                          *)
LEMMA RawKeeps ==
  ASSUME NEW a \in Addresses, NEW n \in Nat
  PROVE  /\ FromRaw(a, n) \in Addresses
         /\ RawSize(a) \in Nat
         /\ n = RawSize(a) => Hashed(FromRaw(a, n)) = Hashed(a)
         /\ n <= RawSize(a) /\ FromRaw(a, n) # Unspec
              => Hashed(FromRaw(a, n)) = Hashed(a)
<1> DEFINE copied == IF a.family = "local" THEN [a EXCEPT !.ip = Cut(a.ip, n)] ELSE a
           size == RawSize(a)
<1>1. /\ copied \in Addresses /\ copied.family = a.family /\ copied.port = a.port
      /\ a.family = "local" => copied.ip = Cut(a.ip, n)
      /\ RawSize(copied) \in Nat
      /\ FromRaw(a, n) = IF n < RawSize(copied) THEN Unspec ELSE copied
  BY RawIs
<1>2. /\ a.family \in Families
      /\ a.ip \in [1 .. AddrBytes[a.family] -> Byte] /\ AddrBytes[a.family] \in Nat
  BY AddressIs, FamilyBytes
<1>3. CASE a.family # "local"
  <2>1. copied = a
    BY <1>3
  <2> HIDE DEF copied
  <2>2. FromRaw(a, n) \in Addresses /\ RawSize(a) \in Nat
    BY <1>1, <2>1, UnspecIs
  <2>3. FromRaw(a, n) # Unspec => FromRaw(a, n) = a
    BY <1>1, <2>1
  <2>4. n = RawSize(a) => FromRaw(a, n) = a
    BY <1>1, <2>1
  <2> QED
    BY <2>2, <2>3, <2>4
<1>4. CASE a.family = "local"
  <2> DEFINE p == a.ip
             k == BytesPath
             m == PathLength(p)
             c == Cut(p, n)
  <2>1. k \in Nat \ {0} /\ p \in [1 .. k -> Byte]
    BY <1>2, <1>4, FamilyBytes, AddressAssumption
  <2>2. /\ m \in 0 .. k /\ \A i \in 1 .. m : p[i] # 0
        /\ m < k => p[m + 1] = 0
    BY <2>1, PathLengthIs
  <2>3. /\ c \in [1 .. k -> Byte]
        /\ \A i \in 1 .. k : c[i] = IF i <= n THEN p[i] ELSE 0
    BY <2>1, CutIs
  <2>4. /\ RawSize(a) = IF p[1] = 0 THEN k ELSE m + 1
        /\ RawSize(copied) = IF c[1] = 0 THEN k ELSE PathLength(c) + 1
    BY <1>1, <1>4 DEF RawSize, IPFamilies
  <2>5. /\ Hashed(a) = <<a.family, SubSeq(p, 1, m), a.port>>
        /\ Hashed(copied) = <<a.family, SubSeq(c, 1, PathLength(c)), a.port>>
    BY <1>1, <1>4 DEF Hashed
  <2> DEFINE l == PathLength(c)
  <2> HIDE DEF copied, p, m, c, l
  <2>6. 1 \in 1 .. k
    BY <2>1
  <2>7. ASSUME p[1] = 0, n <= RawSize(a), ~(n < RawSize(copied))
        PROVE  Hashed(copied) = Hashed(a)
    <3>1. RawSize(copied) = k /\ RawSize(a) = k
      BY <2>3, <2>4, <2>6, <2>7
    <3>2. k <= n
      BY <2>1, <2>7, <3>1
    <3>3. c = p
      BY <2>1, <3>2, CutIs DEF c
    <3> QED
      BY <2>5, <3>3 DEF m
  <2>8. ASSUME p[1] # 0, n = m + 1
        PROVE  Hashed(copied) = Hashed(a) /\ RawSize(copied) = n
    <3>1. l = m
      <4>1. \A i \in 1 .. m : c[i] # 0
        BY <2>1, <2>2, <2>3, <2>8
      <4>2. m < k => c[m + 1] = 0
        BY <2>1, <2>2, <2>3, <2>8
      <4> QED
        BY <2>1, <2>2, <2>3, <4>1, <4>2, PathLengthUnique DEF l
    <3>2. SubSeq(c, 1, m) = SubSeq(p, 1, m)
      <4>1. \A i \in 1 .. m : c[i] = p[i]
        BY <2>1, <2>2, <2>3, <2>8
      <4> QED
        BY <2>1, <2>2, <2>3, <4>1
    <3>3. c[1] = p[1]
      BY <2>2, <2>3, <2>6, <2>8
    <3> QED
      BY <2>4, <2>5, <2>8, <3>1, <3>2, <3>3 DEF l
  <2>9. ASSUME p[1] # 0, n <= m
        PROVE  n < RawSize(copied)
    <3>1. CASE n = 0
      BY <2>1, <2>3, <2>4, <2>6, <3>1
    <3>2. CASE n # 0
      <4>1. l = n
        <5>1. \A i \in 1 .. n : c[i] # 0
          BY <2>1, <2>2, <2>3, <2>9
        <5>2. n < k => c[n + 1] = 0
          BY <2>1, <2>3
        <5>3. n \in 0 .. k
          BY <2>1, <2>2, <2>9
        <5> QED
          BY <2>1, <2>3, <5>1, <5>2, <5>3, PathLengthUnique DEF l
      <4>2. c[1] = p[1]
        BY <2>3, <2>6, <3>2
      <4> QED
        BY <2>4, <2>9, <4>1, <4>2 DEF l
    <3> QED
      BY <3>1, <3>2
  <2>10. ASSUME n <= RawSize(a), ~(n < RawSize(copied))
         PROVE  Hashed(copied) = Hashed(a)
    <3>1. CASE p[1] = 0
      BY <2>7, <2>10, <3>1
    <3>2. CASE p[1] # 0
      <4>1. n <= m + 1 /\ m \in Nat
        BY <2>2, <2>4, <2>10, <3>2
      <4>2. ~(n <= m)
        BY <2>9, <2>10, <3>2
      <4>3. n = m + 1
        BY <4>1, <4>2
      <4> QED
        BY <2>8, <3>2, <4>3
    <3> QED
      BY <3>1, <3>2
  <2>11. ASSUME n = RawSize(a) PROVE ~(n < RawSize(copied))
    <3>1. CASE p[1] = 0
      BY <2>3, <2>4, <2>6, <2>11, <3>1
    <3>2. CASE p[1] # 0
      BY <2>4, <2>8, <2>11, <3>2
    <3> QED
      BY <3>1, <3>2
  <2>12. RawSize(a) \in Nat
    BY <2>1, <2>2, <2>4
  <2>13. FromRaw(a, n) \in Addresses
    BY <1>1, UnspecIs
  <2>14. n = RawSize(a) => n <= RawSize(a)
    BY <2>12
  <2> QED
    BY <1>1, <2>10, <2>11, <2>12, <2>13, <2>14
<1> QED
  BY <1>3, <1>4
-----------------------------------------------------------------------------
(* Addresses as keys.                                                      *)

(* memcmp() of two paths finds the first byte in which they differ.        *)
LEMMA PrecedesIsOrder ==
  ASSUME NEW k \in Nat, NEW p \in [1 .. k -> Byte], NEW q \in [1 .. k -> Byte]
  PROVE  /\ Precedes(p, q) \/ Precedes(q, p) <=> p # q
         /\ ~(Precedes(p, q) /\ Precedes(q, p))
<1>1. DOMAIN p = 1 .. k /\ DOMAIN q = 1 .. k /\ \A i \in 1 .. k : p[i] \in Nat /\ q[i] \in Nat
  BY DEF Byte
<1>2. ASSUME p # q PROVE Precedes(p, q) \/ Precedes(q, p)
  <2> DEFINE D == {i \in 1 .. k : p[i] # q[i]}
  <2>1. D \in SUBSET Nat /\ D # {}
    BY <1>2
  <2>2. PICK m \in D : \A i \in 0 .. m - 1 : i \notin D
    <3> HIDE DEF D
    <3> QED
      BY <2>1, Least
  <2>3. \A j \in 1 .. m - 1 : p[j] = q[j]
    <3> SUFFICES ASSUME NEW j \in 1 .. m - 1 PROVE p[j] = q[j]
      OBVIOUS
    <3>1. j \in 0 .. m - 1 /\ j \in 1 .. k
      BY <2>2
    <3> QED
      BY <2>2, <3>1
  <2>4. m \in 1 .. k /\ (p[m] < q[m] \/ q[m] < p[m])
    BY <1>1, <2>2
  <2> QED
    BY <1>1, <2>3, <2>4 DEF Precedes
<1>3. ASSUME Precedes(p, q) \/ Precedes(q, p) PROVE p # q
  <2>1. PICK i \in 1 .. k : p[i] < q[i] \/ q[i] < p[i]
    BY <1>1, <1>3 DEF Precedes
  <2> QED
    BY <1>1, <2>1
<1>4. ASSUME Precedes(p, q), Precedes(q, p) PROVE FALSE
  <2>1. PICK i \in 1 .. k : p[i] < q[i] /\ \A j \in 1 .. i - 1 : p[j] = q[j]
    BY <1>1, <1>4 DEF Precedes
  <2>2. PICK h \in 1 .. k : q[h] < p[h] /\ \A j \in 1 .. h - 1 : q[j] = p[j]
    BY <1>1, <1>4 DEF Precedes
  <2>3. p[i] # q[i] /\ p[h] # q[h] /\ i # h
    BY <1>1, <2>1, <2>2
  <2>4. i \in 1 .. h - 1 \/ h \in 1 .. i - 1
    BY <2>3
  <2> QED
    BY <2>1, <2>2, <2>3, <2>4
<1> QED
  BY <1>2, <1>3, <1>4

(* Addresses of one port that are not IPv6 are ordered by operator<.       *)
LEMMA LessIsOrder ==
  ASSUME NEW a \in Addresses, NEW b \in Addresses,
         a.port = b.port, a.family # "inet6", b.family # "inet6"
  PROVE  /\ Less(a, b) \/ Less(b, a) <=> ~Equal(a, b)
         /\ ~(Less(a, b) /\ Less(b, a))
<1>1. /\ a.family \in Families /\ b.family \in Families
      /\ a.port \in Nat /\ b.port \in Nat
      /\ a.ip \in [1 .. AddrBytes[a.family] -> Byte]
      /\ b.ip \in [1 .. AddrBytes[b.family] -> Byte]
      /\ AddrBytes[a.family] \in Nat
  BY AddressIs, FamilyBytes
<1>2. CASE a.family # b.family
  <2>1. Less(a, b) = (Rank[a.family] < Rank[b.family])
    BY <1>2 DEF Less
  <2>2. Less(b, a) = (Rank[b.family] < Rank[a.family])
    BY <1>2 DEF Less
  <2>3. Rank[a.family] < Rank[b.family] \/ Rank[b.family] < Rank[a.family]
    BY <1>1, <1>2 DEF Rank, Families, IPFamilies
  <2>4. Rank[a.family] \in Nat /\ Rank[b.family] \in Nat
    BY <1>1 DEF Rank, Families, IPFamilies
  <2>5. ~Equal(a, b)
    BY <1>2 DEF Equal
  <2>6. ~(Rank[a.family] < Rank[b.family] /\ Rank[b.family] < Rank[a.family])
    BY <2>4
  <2> QED
    BY <2>1, <2>2, <2>3, <2>5, <2>6
<1>3. CASE a.family = b.family /\ a.family = "inet"
  <2> DEFINE x == Number(a.ip)
             y == Number(b.ip)
  <2>1. Less(a, b) = (x < y \/ a.port < b.port)
    BY <1>3 DEF Less
  <2>2. Less(b, a) = (y < x \/ b.port < a.port)
    BY <1>3 DEF Less
  <2>3. /\ a.ip \in [1 .. Bytes4 -> Byte] /\ b.ip \in [1 .. Bytes4 -> Byte]
        /\ Bytes4 \in Nat
    BY <1>1, <1>3, FamilyBytes
  <2>4. /\ x \in 0 .. Pow2[ByteBits * Bytes4] - 1 /\ y \in 0 .. Pow2[ByteBits * Bytes4] - 1
    BY <2>3, NumberType
  <2>5. x = y <=> a.ip = b.ip
    BY <2>3, NumberIsInjective
  <2>6. Equal(a, b) = (x = y)
    BY <1>3, <2>5 DEF Equal
  <2> HIDE DEF x, y
  <2>7. ~(a.port < b.port) /\ ~(b.port < a.port)
    BY <1>1
  <2>8. (x < y \/ y < x <=> x # y) /\ ~(x < y /\ y < x)
    BY <2>4
  <2> QED
    BY <2>1, <2>2, <2>6, <2>7, <2>8
<1>4. CASE a.family = b.family /\ a.family # "inet"
  <2>1. Less(a, b) = Precedes(a.ip, b.ip) /\ Less(b, a) = Precedes(b.ip, a.ip)
    BY <1>4 DEF Less
  <2>2. Equal(a, b) = (a.ip = b.ip)
    BY <1>4 DEF Equal
  <2> DEFINE k == AddrBytes[a.family]
             p == a.ip
             q == b.ip
  <2>3. k \in Nat /\ p \in [1 .. k -> Byte] /\ q \in [1 .. k -> Byte]
    BY <1>1, <1>4
  <2> HIDE DEF k, p, q
  <2>4. /\ Precedes(p, q) \/ Precedes(q, p) <=> p # q
        /\ ~(Precedes(p, q) /\ Precedes(q, p))
    BY <2>3, PrecedesIsOrder
  <2> QED
    BY <2>1, <2>2, <2>4 DEF p, q
<1> QED
  BY <1>2, <1>3, <1>4

(* An address of which not all bytes are at their maximum is not the last. *)
LEMMA NotTheLast ==
  ASSUME NEW k \in Nat, NEW ip \in [1 .. k -> Byte], BelowMax(ip) # {}
  PROVE  Number(ip) + 1 < Pow2[ByteBits * k]
<1> DEFINE last == [i \in 1 .. k |-> Base - 1]
           S == {i \in Nat : i <= k => Leading(last)[i] = Pow2[ByteBits * i] - 1}
<1>1. last \in [1 .. k -> Byte] /\ \A i \in 1 .. k : last[i] = Base - 1
  BY BaseIsPositive DEF Byte
<1> HIDE DEF last
<1>2. 0 \in S
  BY <1>1, NoByte, LeadingDefined
<1>3. ASSUME NEW i \in Nat, i \in S PROVE i + 1 \in S
  <2> SUFFICES ASSUME i + 1 <= k
               PROVE  Leading(last)[i + 1] = Pow2[ByteBits * (i + 1)] - 1
    OBVIOUS
  <2> DEFINE p == Pow2[ByteBits * i]
  <2>1. i + 1 \in 1 .. k /\ (i + 1) - 1 = i /\ Leading(last)[i] = p - 1
    BY <1>3
  <2>2. Leading(last)[i + 1] = (p - 1) * Base + (Base - 1)
    <3>1. Leading(last)[i + 1] = Leading(last)[(i + 1) - 1] * Base + last[i + 1]
      BY <1>1, <2>1, LeadingDefined
    <3> HIDE DEF p
    <3> QED
      BY <1>1, <2>1, <3>1
  <2>3. p \in Nat \ {0} /\ Pow2[ByteBits * (i + 1)] = p * Base
    BY ByteMore
  <2> HIDE DEF p
  <2>4. (p - 1) * Base + (Base - 1) = p * Base - 1
    BY <2>3, BaseIsPositive
  <2> QED
    BY <2>2, <2>3, <2>4
<1> HIDE DEF S
<1>4. k \in S
  BY <1>2, <1>3, Induction
<1>5. Leading(last)[k] = Pow2[ByteBits * k] - 1
  BY <1>4 DEF S
<1>6. Number(last) = Pow2[ByteBits * k] - 1
  BY <1>1, <1>5, NumberIsLeading, LengthOf
<1>7. Number(ip) # Pow2[ByteBits * k] - 1
  <2> SUFFICES ASSUME Number(ip) = Number(last) PROVE FALSE
    BY <1>6
  <2>1. ip = last
    BY <1>1, NumberIsInjective
  <2>2. PICK i \in 1 .. k : ip[i] < Base - 1
    BY DEF BelowMax
  <2> QED
    BY <1>1, <2>1, <2>2, BaseIsPositive
<1>8. Number(ip) \in 0 .. Pow2[ByteBits * k] - 1 /\ Pow2[ByteBits * k] \in Nat
  BY NumberType, ByteMore
<1> QED
  BY <1>7, <1>8

(* operator++ leads to a greater address, unless there is none.            *)
LEMMA IncrementIsGreater ==
  ASSUME NEW a \in Addresses, a.family \in IPFamilies, BelowMax(a.ip) # {}
  PROVE  Less(a, Increment(a)) /\ ~Less(Increment(a), a)
<1>1. /\ a \in AddressesOf(a.family) /\ a.port \in Nat
      /\ a.ip \in [1 .. AddrBytes[a.family] -> Byte]
  BY AddressIs
<1> DEFINE b == Increment(a)
<1>2. b \in AddressesOf(a.family) /\ b.port = a.port
  BY <1>1, IncrementType
<1>3. b.family = a.family /\ b.ip \in [1 .. AddrBytes[a.family] -> Byte]
  BY <1>2 DEF AddressesOf
<1>4. CASE a.family = "inet"
  <2> DEFINE x == Number(a.ip)
             y == Number(b.ip)
  <2>1. a.ip \in [1 .. Bytes4 -> Byte] /\ Bytes4 \in Nat
    BY <1>1, <1>4, FamilyBytes
  <2>2. x + 1 < Pow2[ByteBits * Bytes4] /\ x \in 0 .. Pow2[ByteBits * Bytes4] - 1
    BY <2>1, NotTheLast, NumberType
  <2>3. y = x + 1
    BY <1>1, <1>4, <2>2, Increment4
  <2> HIDE DEF b
  <2>4. Less(a, b) = (x < y \/ a.port < b.port) /\ Less(b, a) = (y < x \/ b.port < a.port)
    BY <1>3, <1>4 DEF Less
  <2> HIDE DEF x, y
  <2>5. x \in Nat
    BY <2>2
  <2>6. x < y /\ ~(y < x) /\ ~(b.port < a.port)
    BY <1>1, <1>2, <2>3, <2>5
  <2> QED
    BY <2>4, <2>6 DEF b
<1>5. CASE a.family = "inet6"
  <2> DEFINE last == Max(BelowMax(a.ip))
  <2>1. /\ last \in BelowMax(a.ip)
        /\ b.ip = [a.ip EXCEPT ![last] = @ + 1]
    BY <1>1, <1>5, Increment6
  <2> HIDE DEF last
  <2>2. last \in DOMAIN a.ip /\ DOMAIN b.ip = DOMAIN a.ip
    BY <2>1 DEF BelowMax
  <2> HIDE DEF b
  <2>3. \A i \in DOMAIN a.ip : a.ip[i] \in Nat
    <3> DEFINE k == AddrBytes[a.family]
               p == a.ip
    <3>1. p \in [1 .. k -> Byte]
      BY <1>1
    <3> HIDE DEF k, p
    <3>2. \A i \in DOMAIN p : p[i] \in Byte
      BY <3>1
    <3> QED
      BY <3>2 DEF p, Byte
  <2>4. a.ip[last] < b.ip[last] /\ \A i \in DOMAIN b.ip : ~(b.ip[i] < a.ip[i])
    BY <2>1, <2>2, <2>3
  <2>5. /\ Less(a, b) = ((\E i \in DOMAIN a.ip : a.ip[i] < b.ip[i]) \/ a.port < b.port)
        /\ Less(b, a) = ((\E i \in DOMAIN b.ip : b.ip[i] < a.ip[i]) \/ b.port < a.port)
    BY <1>3, <1>5 DEF Less
  <2>6. ~(b.port < a.port)
    BY <1>1, <1>2
  <2>7. Less(a, b)
    BY <2>2, <2>4, <2>5
  <2>8. ~Less(b, a)
    BY <2>4, <2>5, <2>6
  <2> QED
    BY <2>7, <2>8 DEF b
<1> QED
  BY <1>4, <1>5 DEF IPFamilies
-----------------------------------------------------------------------------
(* The objects.                                                            *)

(* They hold addresses.                                                    *)
DataType == data \in [Objects -> Addresses]

(* The bits of an address stand for it, and memory that is cleared for the *)
(* default constructor's.                                                  *)
LEMMA FromItsBits ==
  ASSUME NEW a
  PROVE  FromBits(Bits(a)) = a
<1>1. CASE a = Unspec
  BY <1>1 DEF FromBits, Bits
<1>2. CASE a # Unspec
  <2>1. Bits(a) = {a}
    BY <1>2 DEF Bits
  <2>2. (CHOOSE b \in {a} : TRUE) = a
    OBVIOUS
  <2> QED
    BY <2>1, <2>2 DEF FromBits
<1> QED
  BY <1>1, <1>2

(* Three exclusive ors exchange what two objects hold, and an object that  *)
(* is swapped with itself is cleared.                                      *)
LEMMA SwapIs ==
  ASSUME NEW o \in Objects, NEW q \in Objects, SwapWith(o, q),
         data \in [Objects -> Addresses]
  PROVE  data' = [x \in Objects |-> CASE o = q /\ x = o -> Unspec
                                      [] o # q /\ x = o -> data[q]
                                      [] o # q /\ x = q -> data[o]
                                      [] OTHER          -> data[x]]
<1> DEFINE before == [x \in Objects |-> Bits(data[x])]
           first  == XorInto(before, o, q)
           second == XorInto(first, q, o)
           third  == XorInto(second, o, q)
<1>1. data' = [x \in Objects |-> FromBits(third[x])]
  BY DEF SwapWith
<1>2. \A x \in Objects : FromBits(before[x]) = data[x]
  BY FromItsBits
<1>3. FromBits({}) = Unspec
  BY DEF FromBits
<1>4. before = [x \in Objects |-> before[x]]
  OBVIOUS
<1> HIDE DEF before
<1>5. first = [x \in Objects |-> IF x = o THEN SymDiff(before[o], before[q]) ELSE before[x]]
  BY <1>4 DEF XorInto
<1> HIDE DEF first
<1>6. second = [x \in Objects |-> IF x = q THEN SymDiff(first[q], first[o]) ELSE first[x]]
  BY <1>5 DEF XorInto
<1> HIDE DEF second
<1>7. third = [x \in Objects |-> IF x = o THEN SymDiff(second[o], second[q]) ELSE second[x]]
  BY <1>6 DEF XorInto
<1> HIDE DEF third
<1>8. CASE o = q
  <2>1. SymDiff(before[o], before[o]) = {} /\ SymDiff({}, {}) = {}
    BY DEF SymDiff
  <2>2. third = [x \in Objects |-> IF x = o THEN {} ELSE before[x]]
    BY <1>5, <1>6, <1>7, <1>8, <2>1
  <2> QED
    BY <1>1, <1>2, <1>3, <1>8, <2>2
<1>9. CASE o # q
  <2> DEFINE A == before[o]
             B == before[q]
  <2>1. SymDiff(B, SymDiff(A, B)) = A /\ SymDiff(SymDiff(A, B), A) = B
    BY DEF SymDiff
  <2>2. first[o] = SymDiff(A, B) /\ first[q] = B /\ second[q] = A /\ second[o] = SymDiff(A, B)
    BY <1>5, <1>6, <1>9, <2>1
  <2>3. third[o] = B /\ third[q] = A /\ \A x \in Objects \ {o, q} : third[x] = before[x]
    BY <1>5, <1>6, <1>7, <1>9, <2>1, <2>2
  <2> HIDE DEF A, B
  <2>4. FromBits(A) = data[o] /\ FromBits(B) = data[q]
    BY <1>2 DEF A, B
  <2> QED
    BY <1>1, <1>2, <1>9, <2>3, <2>4
<1> QED
  BY <1>8, <1>9

(* The numbers of bytes that are given are numbers.                        *)
LEMMA RoomIs == 0 .. Max({Bytes4 + 2, Bytes6 + 2, BytesPath + 1}) \subseteq Nat
<1> DEFINE S == {Bytes4 + 2, Bytes6 + 2, BytesPath + 1}
           k == Bytes4 + 2 + Bytes6 + 2 + BytesPath + 1
<1>1. k \in Nat /\ S \in SUBSET (1 .. k) /\ S # {}
  BY AddressAssumption
<1> HIDE DEF S, k
<1>2. Max(S) \in 1 .. k
  BY <1>1, LastPlace
<1> QED
  BY <1>1, <1>2 DEF S

(* Every operation of a client leaves addresses in the objects.            *)
LEMMA DataTypeStep ==
  ASSUME DataType, [ObjectsNext]_data
  PROVE  DataType'
<1> USE DEF DataType
<1> SUFFICES ASSUME NEW o \in Objects,
                    \/ \E a \in ClientAddresses : Construct(o, a)
                    \/ \E q \in Objects,
                          n \in 0 .. Max({Bytes4 + 2, Bytes6 + 2, BytesPath + 1}) :
                         ConstructRaw(o, q, n)
                    \/ CountUp(o)
                    \/ \E p \in ClientPorts : SetPortOf(o, p)
                    \/ \E q \in Objects : SwapWith(o, q)
             PROVE  DataType'
  BY DEF ObjectsNext
<1>1. data[o] \in Addresses
  OBVIOUS
<1>2. ASSUME NEW a \in ClientAddresses, Construct(o, a) PROVE DataType'
  BY <1>2, ObjectsAssumption DEF Construct
<1>3. ASSUME NEW q \in Objects, NEW n \in Nat, ConstructRaw(o, q, n) PROVE DataType'
  <2>1. FromRaw(data[q], n) \in Addresses
    BY RawKeeps
  <2> QED
    BY <1>3, <2>1 DEF ConstructRaw
<1>4. ASSUME CountUp(o) PROVE DataType'
  <2>1. data[o].family \in IPFamilies /\ data[o] \in AddressesOf(data[o].family)
    BY <1>1, <1>4, AddressIs DEF CountUp
  <2>2. Increment(data[o]) \in AddressesOf(data[o].family) /\ data[o].family \in Families
    BY <2>1, IncrementType DEF Families
  <2>3. Increment(data[o]) \in Addresses
    BY <2>2 DEF Addresses
  <2> QED
    BY <1>4, <2>3 DEF CountUp
<1>5. ASSUME NEW p \in ClientPorts, SetPortOf(o, p) PROVE DataType'
  <2>1. SetPort(data[o], p) \in Addresses
    BY <1>1, ObjectsAssumption, SetPortType
  <2> QED
    BY <1>5, <2>1 DEF SetPortOf
<1>6. ASSUME NEW q \in Objects, SwapWith(o, q) PROVE DataType'
  BY <1>6, SwapIs, UnspecIs
<1> QED
  BY <1>2, <1>3, <1>4, <1>5, <1>6, RoomIs

(* Whatever clients do with objects, they hold addresses.                  *)
THEOREM ObjectsHoldAddresses == ObjectsSpec => []DataType
<1>1. ObjectsInit => DataType
  BY UnspecIs DEF ObjectsInit, DataType
<1> QED
  BY <1>1, DataTypeStep, PTL DEF ObjectsSpec

(* The properties that make addresses keys, of any two addresses.          *)
LEMMA KeyIs ==
  ASSUME NEW a \in Addresses, NEW b \in Addresses
  PROVE  /\ a.family \in IPFamilies /\ BelowMax(a.ip) # {}
              => Less(a, Increment(a)) /\ ~Less(Increment(a), a)
         /\ a.port = b.port /\ "inet6" \notin {a.family, b.family}
              => /\ Less(a, b) \/ Less(b, a) <=> ~Equal(a, b)
                 /\ ~(Less(a, b) /\ Less(b, a))
                 /\ LessOrEqual(a, b) <=> Less(a, b) \/ Equal(a, b)
         /\ Equal(a, b) => Hashed(a) = Hashed(b)
<1>1. a.family \in IPFamilies /\ BelowMax(a.ip) # {}
        => Less(a, Increment(a)) /\ ~Less(Increment(a), a)
  BY IncrementIsGreater
<1>2. ASSUME a.port = b.port, "inet6" \notin {a.family, b.family}
      PROVE  /\ Less(a, b) \/ Less(b, a) <=> ~Equal(a, b)
             /\ ~(Less(a, b) /\ Less(b, a))
  BY <1>2, LessIsOrder
<1>3. LessOrEqual(a, b) <=> ~Less(b, a)
  BY DEF LessOrEqual
<1>4. Equal(a, b) => Hashed(a) = Hashed(b)
  BY DEF Equal, Hashed
<1> QED
  BY <1>1, <1>2, <1>3, <1>4

(* Objects serve as keys of maps, whatever bytes and ports are: a client   *)
(* of std::map and std::unordered_map may rely on operator<, on the        *)
(* operators derived from it and on hash(), for all but IPv6 addresses.    *)
THEOREM AddressesAreKeys == ObjectsSpec => []ServesAsKey
<1>1. DataType => ServesAsKey
  <2> SUFFICES ASSUME DataType PROVE ServesAsKey
    OBVIOUS
  <2>1. \A o \in Objects : data[o] \in Addresses
    BY DEF DataType
  <2> QED
    BY <2>1, KeyIs DEF ServesAsKey
<1> QED
  BY <1>1, ObjectsHoldAddresses, PTL
-----------------------------------------------------------------------------
(* Addresses sent as bytes.                                                *)

(* The first bytes of what was sent in two parts.                          *)
LEMMA PartsAre ==
  ASSUME NEW s \in Seq(Nat), NEW t \in Seq(Nat)
  PROVE  /\ s \o t \in Seq(Nat) /\ Len(s \o t) = Len(s) + Len(t)
         /\ s # <<>> => SubSeq(s \o t, 1, Len(s)) = s
         /\ t # <<>> => SubSeq(s \o t, Len(s) + 1, Len(s) + Len(t)) = t
<1>1. s \o t \in Seq(Nat) /\ Len(s \o t) = Len(s) + Len(t)
  BY ConcatProperties
<1>2. ASSUME s # <<>> PROVE SubSeq(s \o t, 1, Len(s)) = s
  <2>1. 1 \in 1 .. Len(s) /\ Len(s) \in 1 .. Len(s)
    BY <1>2, EmptySeq
  <2> QED
    BY <2>1, SubSeqOfConcat1, SubSeqFull
<1>3. ASSUME t # <<>> PROVE SubSeq(s \o t, Len(s) + 1, Len(s) + Len(t)) = t
  <2> DEFINE m == Len(s)
             n == Len(t)
  <2>1. m \in Nat /\ n \in Nat \ {0}
    BY <1>3, EmptySeq, LenProperties
  <2>2. /\ m + 1 \in m + 1 .. m + n /\ m + n \in m + 1 .. m + n
        /\ (m + 1) - m = 1 /\ (m + n) - m = n
    BY <2>1
  <2>3. SubSeq(s \o t, m + 1, m + n) = SubSeq(t, (m + 1) - m, (m + n) - m)
    BY <2>2, SubSeqOfConcat2
  <2> QED
    BY <2>2, <2>3, SubSeqFull
<1> QED
  BY <1>1, <1>2, <1>3

(* It does not matter which parts were joined first.                       *)
LEMMA Regroup ==
  ASSUME NEW s \in Seq(Nat), NEW t \in Seq(Nat), NEW u \in Seq(Nat)
  PROVE  (s \o t) \o u = s \o (t \o u)
<1> DEFINE left  == (s \o t) \o u
           right == s \o (t \o u)
<1>1. Len(s) \in Nat /\ Len(t) \in Nat /\ Len(u) \in Nat
  BY LenProperties
<1>2. /\ left \in Seq(Nat) /\ right \in Seq(Nat)
      /\ Len(left) = Len(s) + Len(t) + Len(u) /\ Len(right) = Len(left)
  BY <1>1, ConcatProperties
<1>3. ASSUME NEW i \in 1 .. Len(left) PROVE left[i] = right[i]
  BY <1>1, <1>2, ConcatProperties
<1> HIDE DEF left, right
<1>4. left = right
  BY <1>2, <1>3, SeqEqual
<1> QED
  BY <1>4 DEF left, right

(* What is behind the first byte of the first bytes.                       *)
LEMMA BehindFirst ==
  ASSUME NEW x \in Nat, NEW s \in Seq(Nat), NEW n \in 1 .. Len(s) + 1
  PROVE  LET buf == SubSeq(<<x>> \o s, 1, n)
         IN  /\ buf # <<>> /\ Head(buf) = x
             /\ Tail(buf) = SubSeq(s, 1, n - 1)
<1> DEFINE all == <<x>> \o s
           buf == SubSeq(all, 1, n)
<1>1. <<x>> \in Seq(Nat) /\ Len(<<x>>) = 1 /\ Len(s) \in Nat
  BY LenProperties
<1>2. /\ all \in Seq(Nat) /\ Len(all) = Len(s) + 1
      /\ \A i \in 1 .. Len(s) + 1 : all[i] = IF i <= 1 THEN <<x>>[i] ELSE s[i - 1]
  BY <1>1, ConcatProperties
<1> HIDE DEF all
<1>3. 1 \in 1 .. Len(all) /\ n \in 1 .. Len(all)
  BY <1>1, <1>2
<1>4. Head(buf) = all[1] /\ Tail(buf) = SubSeq(all, 2, n)
  BY <1>2, <1>3, HeadTailOfSubSeq
<1>5. all[1] = x
  BY <1>1, <1>2
<1>6. Len(buf) = n
  BY <1>2, <1>3
<1>7. SubSeq(all, 2, n) = SubSeq(s, 1, n - 1)
  <2>1. CASE n = 1
    <3>1. SubSeq(all, 2, 1) = <<>> /\ SubSeq(s, 1, 0) = <<>>
      BY SubSeqEmpty
    <3> QED
      BY <2>1, <3>1
  <2>2. CASE n # 1
    <3>1. /\ 2 \in Len(<<x>>) + 1 .. Len(<<x>>) + Len(s)
          /\ n \in Len(<<x>>) + 1 .. Len(<<x>>) + Len(s)
      BY <1>1, <2>2
    <3>2. SubSeq(<<x>> \o s, 2, n) = SubSeq(s, 2 - Len(<<x>>), n - Len(<<x>>))
      BY <1>1, <3>1, SubSeqOfConcat2
    <3> QED
      BY <1>1, <3>2 DEF all
  <2> QED
    BY <2>1, <2>2
<1> QED
  BY <1>3, <1>4, <1>5, <1>6, <1>7 DEF all

(* The address and the port without the type.                              *)
Body(a, with_port) == a.ip \o (IF with_port THEN FromNumber(a.port, 2) ELSE <<>>)

(* A port is two bytes, from which it is read back.                        *)
LEMMA PortIs ==
  ASSUME NEW p \in Ports
  PROVE  /\ FromNumber(p, 2) \in [1 .. 2 -> Byte]
         /\ Number(FromNumber(p, 2)) = p
<1>1. Pow2[ByteBits * (0 + 1)] = Pow2[ByteBits * 0] * Base
  BY ByteMore
<1>2. Pow2[ByteBits * 1] = Base
  BY <1>1, NoByte, BaseIsPositive
<1>3. Pow2[ByteBits * (1 + 1)] = Pow2[ByteBits * 1] * Base
  BY ByteMore
<1>4. Pow2[ByteBits * 2] = Base * Base
  BY <1>2, <1>3
<1>5. p \in 0 .. Pow2[ByteBits * 2] - 1 /\ p \in Nat
  BY <1>4 DEF Ports
<1> QED
  BY <1>5, BytesType, NumberOfBytes

(* Bytes are numbers, and so is what is made of them.                      *)
LEMMA BytesAreNumbers ==
  ASSUME NEW k \in Nat, NEW ip \in [1 .. k -> Byte]
  PROVE  ip \in Seq(Nat) /\ Len(ip) = k
<1>1. Byte \subseteq Nat
  BY DEF Byte
<1> QED
  BY <1>1, LengthOf, SeqMonotonic

(* The size of what is sent of an IP address.                              *)
BodySize(a, with_port) == AddrBytes[a.family] + (IF with_port THEN 2 ELSE 0)

(* It starts with the bytes of the address, and the port is behind them.   *)
LEMMA BodyIs ==
  ASSUME NEW a \in Addresses, a.family \in IPFamilies, NEW with_port \in BOOLEAN
  PROVE  LET k    == AddrBytes[a.family]
             body == Body(a, with_port)
             size == BodySize(a, with_port)
         IN  /\ k \in Nat \ {0} /\ size \in Nat \ {0}
             /\ body \in Seq(Nat) /\ Len(body) = size
             /\ SubSeq(body, 1, k) = a.ip
             /\ with_port => Number(SubSeq(body, k + 1, k + 2)) = a.port
<1> DEFINE k == AddrBytes[a.family]
           ip == a.ip
           port == IF with_port THEN FromNumber(a.port, 2) ELSE <<>>
<1>1. k \in Nat \ {0} /\ ip \in [1 .. k -> Byte] /\ a.port \in Ports
  BY AddressIs, FamilyBytes
<1>2. /\ FromNumber(a.port, 2) \in [1 .. 2 -> Byte]
      /\ Number(FromNumber(a.port, 2)) = a.port
  BY <1>1, PortIs
<1>3. FromNumber(a.port, 2) \in Seq(Nat) /\ Len(FromNumber(a.port, 2)) = 2
  BY <1>2, BytesAreNumbers
<1>4. /\ port \in Seq(Nat) /\ Len(port) = IF with_port THEN 2 ELSE 0
      /\ with_port => port = FromNumber(a.port, 2)
  <2>1. CASE with_port
    BY <1>3, <2>1
  <2>2. CASE ~with_port
    BY <2>2, EmptySeq
  <2> QED
    BY <2>1, <2>2
<1>5. ASSUME with_port PROVE port # <<>>
  <2>1. Len(port) = 2 /\ Len(<<>>) = 0
    BY <1>4, <1>5, EmptySeq
  <2> HIDE DEF port
  <2> QED
    BY <2>1
<1>6. Body(a, with_port) = ip \o port /\ BodySize(a, with_port) = k + Len(port)
  BY <1>4 DEF Body, BodySize
<1> HIDE DEF k, ip, port
<1>7. ip \in Seq(Nat) /\ Len(ip) = k
  BY <1>1, BytesAreNumbers
<1>8. ip # <<>>
  BY <1>1, <1>7
<1>9. /\ ip \o port \in Seq(Nat) /\ Len(ip \o port) = k + Len(port)
      /\ SubSeq(ip \o port, 1, k) = ip
      /\ with_port => SubSeq(ip \o port, k + 1, k + Len(port)) = port
  BY <1>4, <1>5, <1>7, <1>8, PartsAre
<1>10. k + Len(port) \in Nat \ {0}
  BY <1>1, <1>4
<1>11. with_port => SubSeq(ip \o port, k + 1, k + 2) = port
  BY <1>4, <1>9
<1>12. with_port => Number(SubSeq(ip \o port, k + 1, k + 2)) = a.port
  BY <1>2, <1>4, <1>11
<1> QED
  BY <1>1, <1>6, <1>9, <1>10, <1>12 DEF k, ip

(* What an address is read back as.                                        *)
ReadBack(a, with_port) == IF with_port THEN a ELSE SetPort(a, 0)

(* The first bytes of it are read back as it was, or not at all.           *)
LEMMA ReadsBody ==
  ASSUME NEW a \in Addresses, a.family \in IPFamilies, NEW with_port \in BOOLEAN,
         NEW n \in 0 .. BodySize(a, with_port)
  PROVE  DeserializeAs(a.family, SubSeq(Body(a, with_port), 1, n), with_port) =
           IF n < BodySize(a, with_port) THEN Failure
           ELSE [size |-> BodySize(a, with_port), addr |-> ReadBack(a, with_port)]
<1> DEFINE f == a.family
           k == AddrBytes[f]
           body == Body(a, with_port)
           size == BodySize(a, with_port)
           buf == SubSeq(body, 1, n)
<1>1. /\ k \in Nat \ {0} /\ size \in Nat \ {0}
      /\ body \in Seq(Nat) /\ Len(body) = size
      /\ SubSeq(body, 1, k) = a.ip
      /\ with_port => Number(SubSeq(body, k + 1, k + 2)) = a.port
  BY BodyIs
<1>2. MinSize(f, FALSE, with_port) = size
  <2>1. size + 0 = size
    BY <1>1
  <2> QED
    BY <2>1 DEF MinSize, BodySize
<1>3. /\ a.ip \in [1 .. k -> Byte] /\ a.port \in Ports /\ 0 \in Ports
      /\ f \in Families /\ a \in AddressesOf(f)
  <2>1. 0 \in Ports
    BY BaseIsPositive DEF Ports
  <2> QED
    BY <2>1, AddressIs
<1>4. CASE n < size
  <2>1. Len(buf) = n
    <3> HIDE DEF body, size
    <3> QED
      BY <1>1, <1>4
  <2>2. size > Len(buf)
    BY <1>1, <1>4, <2>1
  <2> HIDE DEF buf, size
  <2> QED
    BY <1>2, <1>4, <2>2 DEF DeserializeAs, buf, size
<1>5. CASE ~(n < size)
  <2>1. n = size
    <3>1. n \in 0 .. size
      OBVIOUS
    <3> HIDE DEF size
    <3> QED
      BY <1>1, <1>5, <3>1
  <2>2. buf = body
    <3> HIDE DEF body, size
    <3> QED
      BY <1>1, <2>1, SubSeqFull
  <2>3. Len(buf) = size /\ buf # <<>> /\ ~(size > Len(buf))
    <3> HIDE DEF body, size, buf
    <3> QED
      BY <1>1, <2>2
  <2> DEFINE port == IF with_port THEN Number(SubSeq(buf, k + 1, k + 2)) ELSE 0
             read == [family |-> f, ip |-> SubSeq(buf, 1, k), port |-> port]
  <2>4. DeserializeAs(f, buf, with_port) = [size |-> size, addr |-> read]
    <3> HIDE DEF size, buf
    <3> QED
      BY <1>2, <2>3 DEF DeserializeAs
  <2>5. SubSeq(buf, 1, k) = a.ip
    BY <1>1, <2>2
  <2>6. port = IF with_port THEN a.port ELSE 0
    BY <1>1, <2>2
  <2>7. port \in Ports
    BY <1>3, <2>6
  <2> HIDE DEF port, buf
  <2>8. read \in AddressesOf(f) /\ read.family = f /\ read.ip = a.ip /\ read.port = port
    BY <1>3, <2>5, <2>7 DEF AddressesOf
  <2> HIDE DEF read
  <2>9. read \in Addresses
    BY <1>3, <2>8 DEF Addresses
  <2>10. /\ ReadBack(a, with_port) \in Addresses
         /\ ReadBack(a, with_port).family = f /\ ReadBack(a, with_port).ip = a.ip
         /\ ReadBack(a, with_port).port = port
    BY <1>3, <2>6, SetPortType DEF ReadBack
  <2>11. read = ReadBack(a, with_port)
    BY <2>8, <2>9, <2>10, AddressEquality
  <2> QED
    BY <1>5, <2>4, <2>11 DEF buf
<1> QED
  BY <1>4, <1>5

(* A receiver who is told of the type, or reads it from the first byte.    *)
Receives(f, buf, with_type, with_port) ==
  IF with_type THEN Deserialize(buf, with_port) ELSE DeserializeAs(f, buf, with_port)

(* Nothing is read from no bytes.                                          *)
LEMMA NothingRead ==
  ASSUME NEW f, NEW with_type \in BOOLEAN, NEW with_port \in BOOLEAN
  PROVE  Receives(f, <<>>, with_type, with_port) = Failure
<1>1. CASE with_type
  BY <1>1 DEF Receives, Deserialize
<1>2. CASE ~with_type
  BY <1>2 DEF Receives, DeserializeAs
<1> QED
  BY <1>1, <1>2

(* The byte of the type stands for one family of IP addresses only.        *)
LEMMA TypeIs ==
  ASSUME NEW f \in IPFamilies, NEW t, t = TypeOf[f]
  PROVE  /\ t \in Nat /\ t \in Range(TypeOf)
         /\ (CHOOSE g \in IPFamilies : TypeOf[g] = t) = f
<1>1. /\ DOMAIN TypeOf = IPFamilies
      /\ TypeOf["inet"] = 0 /\ TypeOf["inet6"] = 1
  BY DEF TypeOf, IPFamilies
<1>2. t \in Nat
  BY <1>1 DEF IPFamilies
<1>3. \A g \in IPFamilies : TypeOf[g] = t => g = f
  BY <1>1 DEF IPFamilies
<1>4. t \in Range(TypeOf)
  BY <1>1 DEF Range
<1> QED
  BY <1>2, <1>3, <1>4

(* The same of what is sent with the type in front of it.                  *)
LEMMA ReadsTyped ==
  ASSUME NEW a \in Addresses, a.family \in IPFamilies, NEW with_port \in BOOLEAN,
         NEW n \in 0 .. BodySize(a, with_port) + 1
  PROVE  Deserialize(SubSeq(<<TypeOf[a.family]>> \o Body(a, with_port), 1, n), with_port) =
           IF n < BodySize(a, with_port) + 1 THEN Failure
           ELSE [size |-> BodySize(a, with_port) + 1, addr |-> ReadBack(a, with_port)]
<1> DEFINE f == a.family
           t == TypeOf[f]
           body == Body(a, with_port)
           size == BodySize(a, with_port)
           buf == SubSeq(<<t>> \o body, 1, n)
           r == DeserializeAs(f, SubSeq(body, 1, n - 1), with_port)
<1>1. /\ size \in Nat \ {0} /\ body \in Seq(Nat) /\ Len(body) = size
      /\ n \in 0 .. size + 1
  BY BodyIs
<1>2. t \in Nat /\ t \in Range(TypeOf) /\ (CHOOSE g \in IPFamilies : TypeOf[g] = t) = f
  BY TypeIs
<1>3. CASE n = 0
  <2>1. buf = <<>>
    BY <1>3, SubSeqEmpty
  <2>2. Deserialize(<<>>, with_port) = Failure
    BY DEF Deserialize
  <2>3. n < size + 1
    BY <1>1, <1>3
  <2> HIDE DEF buf, size
  <2> QED
    BY <2>1, <2>2, <2>3 DEF buf, size
<1>4. CASE n # 0
  <2>1. n \in 1 .. size + 1 /\ n - 1 \in 0 .. size /\ (n - 1 < size <=> n < size + 1)
    BY <1>1, <1>4
  <2>2. r = IF n - 1 < size THEN Failure
            ELSE [size |-> size, addr |-> ReadBack(a, with_port)]
    BY <2>1, ReadsBody
  <2> HIDE DEF t, size, body
  <2>3. buf # <<>> /\ Head(buf) = t /\ Tail(buf) = SubSeq(body, 1, n - 1)
    BY <1>1, <1>2, <2>1, BehindFirst
  <2> HIDE DEF buf
  <2>4. Deserialize(buf, with_port) = IF r.size = 0 THEN Failure
                                      ELSE [r EXCEPT !.size = @ + 1]
    <3> DEFINE g == CHOOSE h \in IPFamilies : TypeOf[h] = Head(buf)
               s == DeserializeAs(g, Tail(buf), with_port)
    <3>1. Head(buf) \in Range(TypeOf)
      BY <1>2, <2>3
    <3>2. Head(buf) = TypeOf[f]
      BY <2>3 DEF t
    <3>3. g = f
      BY <3>2, TypeIs
    <3>4. Deserialize(buf, with_port) = IF s.size = 0 THEN Failure
                                        ELSE [s EXCEPT !.size = @ + 1]
      BY <2>3, <3>1 DEF Deserialize
    <3> HIDE DEF g
    <3> QED
      BY <2>3, <3>3, <3>4
  <2> HIDE DEF r
  <2>5. CASE n - 1 < size
    <3>1. r = Failure
      BY <2>2, <2>5
    <3>2. Failure.size = 0
      BY DEF Failure
    <3>3. Deserialize(buf, with_port) = Failure
      BY <2>4, <3>1, <3>2
    <3> QED
      BY <2>1, <2>5, <3>3 DEF buf, t, body, size
  <2>6. CASE ~(n - 1 < size)
    <3>1. r = [size |-> size, addr |-> ReadBack(a, with_port)]
      BY <2>2, <2>6
    <3>2. r.size # 0 /\ [r EXCEPT !.size = @ + 1]
            = [size |-> size + 1, addr |-> ReadBack(a, with_port)]
      BY <1>1, <3>1
    <3>3. Deserialize(buf, with_port)
            = [size |-> size + 1, addr |-> ReadBack(a, with_port)]
      BY <2>4, <3>2
    <3> QED
      BY <2>1, <2>6, <3>3 DEF buf, t, body, size
  <2> QED
    BY <2>5, <2>6
<1> QED
  BY <1>3, <1>4

(* Either way, the first bytes of what was sent are read back as it was,   *)
(* or not at all.                                                          *)
LEMMA TransferIs ==
  ASSUME NEW a \in Addresses, NEW with_type \in BOOLEAN, NEW with_port \in BOOLEAN
  PROVE  LET size == MinSize(a.family, with_type, with_port)
         IN  \A room \in 0 .. size + 1 :
               LET sent == Serialize(a, room, with_type, with_port)
               IN  \A n \in 0 .. Len(sent) :
                     Receives(a.family, SubSeq(sent, 1, n), with_type, with_port) =
                       IF size = 0 \/ room < size \/ n < size THEN Failure
                       ELSE [size |-> size, addr |-> ReadBack(a, with_port)]
<1> DEFINE size == MinSize(a.family, with_type, with_port)
<1> SUFFICES ASSUME NEW room \in 0 .. size + 1,
                    NEW n \in 0 .. Len(Serialize(a, room, with_type, with_port))
             PROVE  Receives(a.family, SubSeq(Serialize(a, room, with_type, with_port), 1, n),
                            with_type, with_port) =
                      IF size = 0 \/ room < size \/ n < size THEN Failure
                      ELSE [size |-> size, addr |-> ReadBack(a, with_port)]
  OBVIOUS
<1> DEFINE sent == Serialize(a, room, with_type, with_port)
<1>1. CASE size = 0 \/ room < size
  <2>1. sent = <<>>
    BY <1>1 DEF Serialize
  <2>2. n = 0
    BY <2>1
  <2>3. SubSeq(sent, 1, n) = <<>>
    BY <2>1, <2>2, SubSeqEmpty
  <2>4. Receives(a.family, SubSeq(sent, 1, n), with_type, with_port) = Failure
    BY <2>3, NothingRead
  <2> QED
    BY <1>1, <2>4
<1>2. CASE ~(size = 0 \/ room < size)
  <2> DEFINE body == Body(a, with_port)
             front == IF with_type THEN <<TypeOf[a.family]>> ELSE <<>>
             port == IF with_port THEN FromNumber(a.port, 2) ELSE <<>>
  <2>1. a.family \in IPFamilies
    BY <1>2 DEF MinSize
  <2>2. /\ BodySize(a, with_port) \in Nat \ {0}
        /\ body \in Seq(Nat) /\ Len(body) = BodySize(a, with_port)
    BY <2>1, BodyIs
  <2>3. size = BodySize(a, with_port) + (IF with_type THEN 1 ELSE 0)
    BY <2>1 DEF MinSize, BodySize
  <2>4. sent = (front \o a.ip) \o port
    BY <1>2 DEF Serialize
  <2>5. front \in Seq(Nat) /\ a.ip \in Seq(Nat) /\ port \in Seq(Nat)
    <3>1. /\ a.ip \in [1 .. AddrBytes[a.family] -> Byte] /\ AddrBytes[a.family] \in Nat
          /\ a.port \in Ports
      BY <2>1, AddressIs, FamilyBytes
    <3>2. a.ip \in Seq(Nat)
      BY <3>1, BytesAreNumbers
    <3>3. FromNumber(a.port, 2) \in Seq(Nat)
      BY <3>1, PortIs, BytesAreNumbers
    <3>4. TypeOf[a.family] \in Nat
      BY <2>1, TypeIs
    <3> QED
      BY <3>2, <3>3, <3>4, EmptySeq
  <2>6. sent = front \o body
    <3> DEFINE ip == a.ip
    <3>1. body = ip \o port
      BY DEF Body
    <3>2. sent = (front \o ip) \o port /\ ip \in Seq(Nat)
      BY <2>4, <2>5
    <3> HIDE DEF front, port, sent, body, ip
    <3>3. (front \o ip) \o port = front \o (ip \o port)
      BY <2>5, <3>2, Regroup
    <3> QED
      BY <3>1, <3>2, <3>3
  <2>7. CASE with_type
    <3>1. sent = <<TypeOf[a.family]>> \o body /\ size = BodySize(a, with_port) + 1
      BY <2>3, <2>6, <2>7
    <3>2. Len(sent) = BodySize(a, with_port) + 1
      <4>1. <<TypeOf[a.family]>> \in Seq(Nat) /\ Len(<<TypeOf[a.family]>>) = 1
        BY <2>5, <2>7
      <4> HIDE DEF body, sent
      <4>2. Len(sent) = 1 + Len(body)
        BY <2>2, <3>1, <4>1, ConcatProperties
      <4> QED
        BY <2>2, <4>2
    <3>3. n \in 0 .. BodySize(a, with_port) + 1
      BY <3>2
    <3>4. Deserialize(SubSeq(sent, 1, n), with_port) =
            IF n < size THEN Failure
            ELSE [size |-> size, addr |-> ReadBack(a, with_port)]
      <4> HIDE DEF size, sent
      <4> QED
        BY <2>1, <3>1, <3>3, ReadsTyped
    <3> QED
      BY <1>2, <2>7, <3>4 DEF Receives
  <2>8. CASE ~with_type
    <3>1. size = BodySize(a, with_port)
      BY <2>2, <2>3, <2>8
    <3>2. sent = body
      <4>1. front = <<>>
        BY <2>8
      <4> HIDE DEF front, body, sent
      <4> QED
        BY <2>2, <2>6, <4>1, ConcatEmptySeq
    <3>3. n \in 0 .. BodySize(a, with_port)
      BY <2>2, <3>2
    <3>4. DeserializeAs(a.family, SubSeq(sent, 1, n), with_port) =
            IF n < size THEN Failure
            ELSE [size |-> size, addr |-> ReadBack(a, with_port)]
      <4> HIDE DEF size, sent
      <4> QED
        BY <2>1, <3>1, <3>2, <3>3, ReadsBody
    <3> QED
      BY <1>2, <2>8, <3>4 DEF Receives
  <2> QED
    BY <2>7, <2>8
<1> QED
  BY <1>1, <1>2

(* Whatever the bytes of an address, its port, the room in the buffer and  *)
(* the bytes that arrive of it: serialize() and deserialize() yield the    *)
(* address that was sent or fail, and the constructor from memory never    *)
(* makes another address of what buffer() and bufsize() offer.             *)
THEOREM AddressesSurviveTransfer == ObjectsSpec => []SurvivesTransfer
<1>1. DataType => SurvivesTransfer
  <2> SUFFICES ASSUME DataType, NEW o \in Objects,
                      NEW with_type \in BOOLEAN, NEW with_port \in BOOLEAN
               PROVE  LET a    == data[o]
                          size == MinSize(a.family, with_type, with_port)
                      IN  /\ \A room \in 0 .. size + 1 :
                               LET sent == Serialize(a, room, with_type, with_port)
                               IN  \A n \in 0 .. Len(sent) :
                                     Receives(a.family, SubSeq(sent, 1, n),
                                             with_type, with_port) =
                                       IF size = 0 \/ room < size \/ n < size THEN Failure
                                       ELSE [size |-> size, addr |-> ReadBack(a, with_port)]
                          /\ Hashed(FromRaw(a, RawSize(a))) = Hashed(a)
                          /\ \A n \in 0 .. RawSize(a) :
                               FromRaw(a, n) # Unspec => Hashed(FromRaw(a, n)) = Hashed(a)
    BY DEF SurvivesTransfer, Receives, ReadBack
  <2> DEFINE a == data[o]
  <2>1. a \in Addresses
    BY DEF DataType
  <2> HIDE DEF a
  <2>2. LET size == MinSize(a.family, with_type, with_port)
        IN  \A room \in 0 .. size + 1 :
              LET sent == Serialize(a, room, with_type, with_port)
              IN  \A n \in 0 .. Len(sent) :
                    Receives(a.family, SubSeq(sent, 1, n), with_type, with_port) =
                      IF size = 0 \/ room < size \/ n < size THEN Failure
                      ELSE [size |-> size, addr |-> ReadBack(a, with_port)]
    BY <2>1, TransferIs
  <2>3. RawSize(a) \in Nat
    <3>1. 0 \in Nat
      OBVIOUS
    <3> QED
      BY <2>1, <3>1, RawKeeps
  <2>4. Hashed(FromRaw(a, RawSize(a))) = Hashed(a)
    BY <2>1, <2>3, RawKeeps
  <2>5. ASSUME NEW n \in 0 .. RawSize(a), FromRaw(a, n) # Unspec
        PROVE  Hashed(FromRaw(a, n)) = Hashed(a)
    <3>1. n \in Nat /\ n <= RawSize(a)
      BY <2>3
    <3> QED
      BY <2>1, <2>5, <3>1, RawKeeps
  <2> QED
    BY <2>2, <2>4, <2>5 DEF a
<1> QED
  BY <1>1, ObjectsHoldAddresses, PTL
=============================================================================
