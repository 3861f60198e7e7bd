------------------------------- MODULE Crc32 -------------------------------
(***************************************************************************)
(* The table driven checksum crc32(), accumulated chunk by chunk, where    *)
(* the checksum of one call is the initial value of the next.  Checksums,  *)
(* bytes and the polynomial are the sets of their bits that are set; how   *)
(* many there are is a constant.                                           *)
(***************************************************************************)
EXTENDS Integers, SequencesExt

CONSTANTS
  CrcBits,    (* The bits of a checksum: 32.                                *)
  OctetBits,  (* The bits of a byte: 8.                                     *)
  Polynomial, (* The reversed polynomial, whose highest bit is set.         *)
  MaxBytes    (* The bytes accumulated.                                     *)

Mask     == 0 .. CrcBits - 1       \* CRC32_MASK and CRC32_INITIALIZER
LowMask  == 0 .. OctetBits - 1     \* 0xFF
Checksum == SUBSET Mask
Octet    == SUBSET LowMask

ASSUME CrcAssumption ==
  /\ {CrcBits, OctetBits} \subseteq Nat \ {0} /\ OctetBits <= CrcBits
  /\ Polynomial \in Checksum /\ CrcBits - 1 \in Polynomial
  /\ MaxBytes \in Nat

VARIABLES
  checksum, (* What the last call returned, or the default initial value.   *)
  accepted, (* History: the bytes since the first call.                     *)
  restarts  (* History: how many calls took a checksum for the default.     *)

crc_vars == <<checksum, accepted, restarts>>

-----------------------------------------------------------------------------
a ^^ b      == (a \ b) \union (b \ a)          \* Exclusive or.
Right(a, n) == {i \in Mask : i + n \in a}      \* a >> n

(* One division step of the table generator.                               *)
IterValue(val) ==
  IF 0 \in val THEN Right(val, 1) ^^ Polynomial ELSE Right(val, 1)

(* The values of an index after each step.                                 *)
IterValues(index) ==
  LET value[n \in 0 .. OctetBits] ==
        IF n = 0 THEN index ELSE IterValue(value[n - 1])
  IN  value

(* A fault: one step less.                                                 *)
TableElementShort(index) == IterValues(index)[OctetBits - 1]

(* The table: each index after as many steps as a byte has bits.           *)
TableElement(index) == IterValues(index)[OctetBits]

TableStep(sum, value) ==
  TableElement((sum ^^ value) \intersect LowMask) ^^ Right(sum, OctetBits)

Inverted(sum) == Mask \ sum

(* Where accumulation starts: a checksum so far is inverted, the default   *)
(* value is taken as it is.                                                *)
Start(initial) == IF initial = Mask THEN initial ELSE Inverted(initial)

(* crc32() of the bytes from begin to end.                                 *)
Accumulated(bytes, initial) ==
  LET sum[n \in 0 .. Len(bytes)] ==
        IF n = 0 THEN Start(initial) ELSE TableStep(sum[n - 1], bytes[n])
  IN  sum

Crc(bytes, initial) == Inverted(Accumulated(bytes, initial)[Len(bytes)])

-----------------------------------------------------------------------------
CrcInit == checksum = Mask /\ accepted = <<>> /\ restarts = 0

(* The next call, on a chunk of any length.                                *)
Accumulate(bytes) ==
  /\ checksum' = Crc(bytes, checksum)
  /\ accepted' = accepted \o bytes
  /\ restarts' = IF accepted # <<>> /\ checksum = Mask
                 THEN restarts + 1 ELSE restarts

CrcNext ==
  \E bytes \in BoundedSeq(Octet, MaxBytes - Len(accepted)) : Accumulate(bytes)

CrcSpec == CrcInit /\ [][CrcNext]_crc_vars

-----------------------------------------------------------------------------
(* Properties.                                                             *)

(* The register of the definition: the bits of the bytes, lowest first,    *)
(* are shifted into a register that starts with all bits set, and that is  *)
(* divided by the polynomial.                                              *)
BitOf(bytes, n) ==
  IF n % OctetBits \in bytes[1 + n \div OctetBits] THEN {0} ELSE {}

Register(bytes) ==
  LET register[n \in 0 .. OctetBits * Len(bytes)] ==
        IF n = 0 THEN Mask ELSE IterValue(register[n - 1] ^^ BitOf(bytes, n - 1))
  IN  register

ByDefinition(bytes) == Inverted(Register(bytes)[OctetBits * Len(bytes)])

(* The checksum accumulated over any chunks is that of all bytes, as long  *)
(* as no checksum was taken for the default value, and sets no bit that a  *)
(* checksum has not.                                                       *)
AccumulatesByDefinition ==
  restarts = 0 /\ accepted # <<>> =>
    checksum = ByDefinition(accepted) /\ checksum \in Checksum
=============================================================================
