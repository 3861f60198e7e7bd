--------------------------- MODULE Serialization ---------------------------
(***************************************************************************)
(* serialize_int() and deserialize_int(), serialize_varint() and           *)
(* deserialize_varint(), on a buffer that is used over and over again.     *)
(*                                                                         *)
(* A unit of the buffer is a number below Pow2[UnitBits]; what a buffer of *)
(* char holds is the same bits, read as a signed number.  A varint puts    *)
(* one bit less than that in a unit, and marks all units but the last with *)
(* the highest bit.                                                        *)
(***************************************************************************)
EXTENDS Powers, Sequences

CONSTANTS
  UnitBits,     (* The bits of a unit: 8.                                   *)
  IntUnits,     (* sizeof the integer type.                                 *)
  VarintBits,   (* The bits of varint_base: 64.                             *)
  BufferSize,   (* The units of the buffer.                                 *)
  SignedUnits,  (* Whether the units are of a signed type.                  *)
  Varints       (* The varints that are written.                            *)

ASSUME SerializationAssumption ==
  /\ {UnitBits, IntUnits, VarintBits, BufferSize} \subseteq Nat \ {0}
  /\ 1 < UnitBits /\ UnitBits <= VarintBits
  /\ SignedUnits \in BOOLEAN
  /\ Varints \subseteq -Pow2[VarintBits - 1] .. Pow2[VarintBits - 1] - 1

Ints  == 0 .. Pow2[UnitBits * IntUnits] - 1
Radix == Pow2[UnitBits - 1] \* The values of the bits of a varint in a unit.

VARIABLES
  buffer,  (* The contents of the memory.                                   *)
  written  (* What was serialized last, and the size that was returned.     *)

serial_vars == <<buffer, written>>

-----------------------------------------------------------------------------
(* Integers.                                                               *)

(* The units of value in network byte order.                               *)
Units(value) ==
  [i \in 1 .. IntUnits |->
     (value \div Pow2[UnitBits * (IntUnits - i)]) % Pow2[UnitBits]]

(* A unit cast to the integer type: a signed one is sign extended.         *)
Cast(u) == IF SignedUnits /\ u >= Radix THEN u - Pow2[UnitBits] ELSE u

(* The units are added from the last one to the first one, each shifted to *)
(* its place.                                                              *)
FromUnits(units) ==
  LET sum[i \in 0 .. IntUnits] ==
        IF i = 0 THEN 0
        ELSE sum[i - 1] + Cast(units[IntUnits + 1 - i]) * Pow2[UnitBits * (i - 1)]
  IN  sum[IntUnits] % Pow2[UnitBits * IntUnits]

Failed == [value |-> 0, size |-> 0]

(* deserialize_int() of a buffer.                                          *)
DecodeInt(units) ==
  IF Len(units) < IntUnits THEN Failed
  ELSE [value |-> FromUnits(units), size |-> IntUnits]

-----------------------------------------------------------------------------
(* Varints.                                                                *)

(* serialized_size(): one unit for each time value can be shifted before   *)
(* it is zero.  A negative value never is.                                 *)
SerializedSize(value) ==
  CHOOSE n \in 1 .. VarintBits :
    /\ value < Pow2[(UnitBits - 1) * n]
    /\ \A m \in 1 .. n - 1 : value >= Pow2[(UnitBits - 1) * m]

(* What is left of value after each shift.  It is decremented behind the   *)
(* shift, and a shift to zero, behind which it is negative, is the last.   *)
Input(value) ==
  LET input[i \in Nat] ==
        IF i = 0 THEN value ELSE input[i - 1] \div Radix - 1
  IN  input

(* The units that are written, from the last one to the first one.  They   *)
(* may be fewer than SerializedSize, which decrements nothing.             *)
UnitCount(value) ==
  CHOOSE k \in 1 .. value + 1 :
    Input(value)[k] < 0 /\ \A i \in 1 .. k - 1 : Input(value)[i] >= 0

WrittenUnits(value) ==
  LET k == UnitCount(value)
  IN  [j \in 1 .. k |->
         (IF j < k THEN Radix ELSE 0) + (Input(value)[k - j] % Radix)]

(* Conversion to varint_base.                                              *)
Signed(n) == IF n < Pow2[VarintBits - 1] THEN n ELSE n - Pow2[VarintBits]

(* Whether a unit is marked.  The mark of a signed unit is its sign, and   *)
(* what is left of the unit under the mask 128 is never above zero.        *)
Marked(u) == ~SignedUnits /\ u >= Radix

(* A fault: the bias of the continued units is forgotten.                  *)
ReadUnbiased(units) ==
  LET value[i \in DOMAIN units] ==
        IF i = 1 THEN units[1] % Radix
        ELSE value[i - 1] * Radix + (units[i] % Radix)
  IN  value

(* The value of the units up to each of them.                              *)
Read(units) ==
  LET value[i \in DOMAIN units] ==
        IF i = 1 THEN units[1] % Radix
        ELSE (value[i - 1] + 1) * Radix + (units[i] % Radix)
  IN  value

(* Whether more than i of the units are read.  The loop reads the next     *)
(* unit and only then looks whether the buffer ends, and it fails if it    *)
(* ends right behind that unit.                                            *)
GoesOn(units, i) ==
  /\ Marked(units[i])
  /\ Read(units)[i] + 1 < Pow2[VarintBits - (UnitBits - 1)]
  /\ i + 1 < Len(units)

(* deserialize_varint() of a buffer.                                       *)
Decode(units) ==
  LET ends == {n \in DOMAIN units :
                 ~Marked(units[n]) /\ \A i \in 1 .. n - 1 : GoesOn(units, i)}
  IN  IF ends = {} THEN Failed
      ELSE LET n == CHOOSE n \in ends : TRUE
           IN  [value |-> Signed(Read(units)[n]), size |-> n]

-----------------------------------------------------------------------------
Wrote(kind, value, size) ==
  written' = [kind |-> kind, value |-> value, size |-> size]

(* units become the last ones of the first size units of the buffer.       *)
Store(units, size) ==
  buffer' = [i \in DOMAIN buffer |->
    IF i \in size - Len(units) + 1 .. size THEN units[i - size + Len(units)]
    ELSE buffer[i]]

(* serialize_int() of value to a buffer of length units.                   *)
SerializeInt(value, length) ==
  IF length < IntUnits
  THEN Wrote("int", value, 0) /\ UNCHANGED buffer
  ELSE Wrote("int", value, IntUnits) /\ Store(Units(value), IntUnits)

(* serialize_varint() of value to a buffer of length units.  A call that   *)
(* does not return stands for itself in written only.                      *)
SerializeVarint(value, length) ==
  IF length = 0 THEN Wrote("varint", value, 0) /\ UNCHANGED buffer
  ELSE IF value < 0 THEN Wrote("no_return", value, 0) /\ UNCHANGED buffer
  ELSE IF length < SerializedSize(value)
  THEN Wrote("varint", value, 0) /\ UNCHANGED buffer
  ELSE /\ Wrote("varint", value, SerializedSize(value))
       /\ Store(WrittenUnits(value), SerializedSize(value))

SerialInit ==
  /\ buffer = [i \in 1 .. BufferSize |-> 0]
  /\ written = [kind |-> "none", value |-> 0, size |-> 0]

SerialNext ==
  \E length \in 0 .. BufferSize :
    \/ \E value \in Ints : SerializeInt(value, length)
    \/ \E value \in Varints : SerializeVarint(value, length)

SerialSpec == SerialInit /\ [][SerialNext]_serial_vars

-----------------------------------------------------------------------------
(* Properties.                                                             *)

Received(n) == SubSeq(buffer, 1, n)
Complete == written.size = Len(WrittenUnits(written.value))

(* What was written is read back, whatever was in the buffer before: an    *)
(* integer, and a varint whose units are all written, with the size that   *)
(* was returned, though there are more units behind it; and a buffer that  *)
(* ends within it is not read at all.                                      *)
ReadsWhatWasWritten ==
  written.size > 0 =>
    LET all == [value |-> written.value, size |-> written.size]
    IN  /\ written.kind = "int" =>
             \A n \in 0 .. BufferSize :
               DecodeInt(Received(n)) = IF n < written.size THEN Failed ELSE all
        /\ written.kind = "varint" /\ Complete =>
             \A n \in 0 .. BufferSize \ {written.size} :
               Decode(Received(n)) = IF n < written.size THEN Failed ELSE all

(* What serialize_varint() returns is "the number of units written to the  *)
(* buffer".                                                                *)
ReturnsUnitsWritten == written.kind = "varint" /\ written.size > 0 => Complete
=============================================================================
