----------------------------- MODULE VarintType -----------------------------
(***************************************************************************)
(* The operators of liberate::types::varint, which compute with its base   *)
(* type varint_base, a signed integer of BaseBits bits.  Clients use only  *)
(* operations whose results the type can hold, and, as C++17 demands,      *)
(* shift only by less than its width, and only positive numbers to the     *)
(* left.                                                                   *)
(***************************************************************************)
EXTENDS Powers

CONSTANT BaseBits  (* The width of varint_base: 64.                         *)

ASSUME VarintAssumption == BaseBits \in Nat \ {0}

VarintBase == -Pow2[BaseBits - 1] .. Pow2[BaseBits - 1] - 1
Places     == 0 .. BaseBits - 1

VARIABLES
  v1,              (* A variable of type varint,                            *)
  v2               (* and the other operand: a varint, or an integer.       *)

varint_vars == <<v1, v2>>
-----------------------------------------------------------------------------
(* The places of the bits of a number in two's complement, and the number  *)
(* that has its bits at some places.                                       *)
OneBits(n) == {i \in Places : (n \div Pow2[i]) % 2 = 1}

Weight(i) == IF i = BaseBits - 1 THEN -Pow2[i] ELSE Pow2[i]

PartialSums(S) ==
  LET Sum[k \in 0 .. BaseBits] ==
        IF k = 0 THEN 0
        ELSE IF k - 1 \in S THEN Sum[k - 1] + Weight(k - 1) ELSE Sum[k - 1]
  IN  Sum

NumberOf(S) == PartialSums(S)[BaseBits]

Plus(a, t)  == a + t
Minus(a, t) == a - t
Times(a, t) == a * t

(* Division truncates towards zero, and the remainder follows the sign of  *)
(* the dividend.                                                           *)
Abs(a)         == IF a < 0 THEN -a ELSE a
Quotient(a, t) == (IF (a < 0) = (t < 0) THEN 1 ELSE -1) * (Abs(a) \div Abs(t))

(* A fault: the remainder is never negative.                               *)
RemainderPositive(a, t) == Abs(a) % Abs(t)

Remainder(a, t) == (IF a < 0 THEN -1 ELSE 1) * (Abs(a) % Abs(t))

Complement(a) == NumberOf(Places \ OneBits(a))
And(a, t)     == NumberOf(OneBits(a) \intersect OneBits(t))
Or(a, t)      == NumberOf(OneBits(a) \union OneBits(t))
Xor(a, t)     ==
  NumberOf((OneBits(a) \union OneBits(t)) \ (OneBits(a) \intersect OneBits(t)))

ShiftLeft(a, t)  == a * Pow2[t]
ShiftRight(a, t) == a \div Pow2[t]

(* Comparison of a varint with an integer.                                 *)
IsEqual(a, o)     == a = o
IsDifferent(a, o) == a # o
IsLess(a, o)      == a < o
IsGreater(a, o)   == a > o
IsAtMost(a, o)    == a < o
IsAtLeast(a, o)   == a > o

-----------------------------------------------------------------------------
(* The assignment operators.                                               *)
Assign(n) == n \in VarintBase /\ v1' = n /\ UNCHANGED v2
AddAssign == Assign(Plus(v1, v2))
SubAssign == Assign(Minus(v1, v2))
MulAssign == Assign(Times(v1, v2))
DivAssign == v2 # 0 /\ Assign(Quotient(v1, v2))
ModAssign == v2 # 0 /\ Quotient(v1, v2) \in VarintBase /\ Assign(Remainder(v1, v2))
AndAssign == Assign(And(v1, v2))
OrAssign  == Assign(Or(v1, v2))
XorAssign == Assign(Xor(v1, v2))
ShlAssign == v2 \in Places /\ v1 >= 0 /\ Assign(ShiftLeft(v1, v2))
ShrAssign == v2 \in Places /\ Assign(ShiftRight(v1, v2))

(* operator- and operator~, assigned to the variable.                      *)
Negate == Assign(-v1)
Invert == Assign(Complement(v1))

(* to_varint(), the cast and the literal operator.                         *)
Convert == v2' \in VarintBase /\ UNCHANGED v1

VarintInit == v1 = 0 /\ v2 = 0

VarintNext ==
  \/ Convert \/ Negate \/ Invert
  \/ AddAssign \/ SubAssign \/ MulAssign \/ DivAssign \/ ModAssign
  \/ AndAssign \/ OrAssign \/ XorAssign
  \/ ShlAssign \/ ShrAssign

VarintSpec == VarintInit /\ [][VarintNext]_varint_vars
-----------------------------------------------------------------------------
(* Properties.                                                             *)

(* The operators agree as those of an integer type do: the quotient and    *)
(* the remainder make up the dividend, and the remainder is the smaller    *)
(* part; the bitwise operators never leave the type, and fit the           *)
(* arithmetic ones in two's complement; shifts multiply and divide; and of *)
(* <, == and > exactly one holds.                                          *)
OperatorsAgree ==
  /\ v2 # 0 => /\ v1 = Quotient(v1, v2) * v2 + Remainder(v1, v2)
               /\ Abs(Remainder(v1, v2)) < Abs(v2)
  /\ {Complement(v1), And(v1, v2), Or(v1, v2), Xor(v1, v2)} \subseteq VarintBase
  /\ Complement(v1) = -v1 - 1
  /\ And(v1, v2) + Or(v1, v2) = v1 + v2
  /\ Xor(v1, v2) = Or(v1, v2) - And(v1, v2)
  /\ v2 \in Places =>
       /\ ShiftRight(v1, v2) = Quotient(v1 - And(v1, Pow2[v2] - 1), Pow2[v2])
       /\ v1 >= 0 => ShiftRight(ShiftLeft(v1, v2), v2) = v1
  /\ IsLess(v1, v2) <=> ~IsEqual(v1, v2) /\ ~IsGreater(v1, v2)
  /\ IsGreater(v1, v2) => ~IsEqual(v1, v2)
  /\ IsDifferent(v1, v2) <=> ~IsEqual(v1, v2)

(* "In itself, it should behave very much like it's base type": what is    *)
(* not greater than an integer is less than or equal to it.                *)
OrdersLikeBase ==
  /\ IsAtMost(v1, v2) <=> ~IsGreater(v1, v2)
  /\ IsAtLeast(v1, v2) <=> ~IsLess(v1, v2)
=============================================================================
