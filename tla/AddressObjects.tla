--------------------------- MODULE AddressObjects --------------------------
(***************************************************************************)
(* socket_address objects: clients construct, copy and swap them, count    *)
(* them up, keep them as the keys of maps, and send them as bytes.         *)
(***************************************************************************)
EXTENDS SocketAddress

CONSTANTS
  Objects,         (* The variables of type socket_address.                 *)
  ClientAddresses, (* The addresses that clients construct.                 *)
  ClientPorts      (* The ports they set.                                   *)

ASSUME ObjectsAssumption ==
  ClientAddresses \subseteq Addresses /\ ClientPorts \subseteq Ports

VARIABLE data (* The address each of them holds.                            *)

ObjectsInit == data = [o \in Objects |-> Unspec]

-----------------------------------------------------------------------------
(* The constructors from a type, an address and a port, and from a path.   *)
Construct(o, a) == data' = [data EXCEPT ![o] = a]

(* The constructor from the first n bytes of the buffer of q.              *)
ConstructRaw(o, q, n) == data' = [data EXCEPT ![o] = FromRaw(data[q], n)]

(* operator++ throws unless the object holds an IP address.                *)
CountUp(o) ==
  /\ data[o].family \in IPFamilies
  /\ data' = [data EXCEPT ![o] = Increment(@)]

SetPortOf(o, p) == data' = [data EXCEPT ![o] = SetPort(@, p)]

(* Memory as the set of its bits: the address stands for all of them, and  *)
(* zeroed memory is the empty set.                                         *)
Bits(a)     == {a} \ {Unspec}
FromBits(S) == IF S = {} THEN Unspec ELSE CHOOSE a \in S : TRUE

(* swap() is three exclusive ors in place, memory'[x] = memory[x] ^ [y].   *)
XorInto(memory, x, y) == [memory EXCEPT ![x] = SymDiff(@, memory[y])]

SwapWith(o, q) ==
  LET before == [x \in Objects |-> Bits(data[x])]
      first  == XorInto(before, o, q)
      second == XorInto(first, q, o)
      third  == XorInto(second, o, q)
  IN  data' = [x \in Objects |-> FromBits(third[x])]

ObjectsNext ==
  \E o \in Objects :
    \/ \E a \in ClientAddresses : Construct(o, a)
    \/ \E q \in Objects, n \in 0 .. Max({Bytes4 + 2, Bytes6 + 2, BytesPath + 1}) :
         ConstructRaw(o, q, n)
    \/ CountUp(o)
    \/ \E p \in ClientPorts : SetPortOf(o, p)
    \/ \E q \in Objects : SwapWith(o, q)

ObjectsSpec == ObjectsInit /\ [][ObjectsNext]_data
-----------------------------------------------------------------------------
(* Properties.                                                             *)

(* An address that was serialized to a buffer and of which only the first  *)
(* bytes arrived is read back as it was, but for a port that was not sent, *)
(* or not at all: never as another address, nor with another size.  The    *)
(* same is true of the first bytes of a buffer(), of which bufsize() ones  *)
(* are enough; of a path what is behind its end may get lost.              *)
SurvivesTransfer ==
  \A o \in Objects, with_type, with_port \in BOOLEAN :
    LET a    == data[o]
        size == MinSize(a.family, with_type, with_port)
        Read(buf) == IF with_type THEN Deserialize(buf, with_port)
                     ELSE DeserializeAs(a.family, buf, with_port)
    IN  /\ \A room \in 0 .. size + 1 :
               LET sent == Serialize(a, room, with_type, with_port)
               IN  \A n \in 0 .. Len(sent) :
                     Read(SubSeq(sent, 1, n)) =
                       IF size = 0 \/ room < size \/ n < size THEN Failure
                       ELSE [size |-> size,
                             addr |-> IF with_port THEN a ELSE SetPort(a, 0)]
        /\ Hashed(FromRaw(a, RawSize(a))) = Hashed(a)
        /\ \A n \in 0 .. RawSize(a) :
             FromRaw(a, n) # Unspec => Hashed(FromRaw(a, n)) = Hashed(a)

(* Addresses serve as keys of maps.  operator++ leads to a greater address *)
(* unless it overflows, so that counting up visits keys in order.  Among   *)
(* addresses that are not IPv6 and have the same port operator< is an      *)
(* order: exactly one of two different ones is less than the other, none   *)
(* is less than itself, and the operators derived from it agree.  Equal    *)
(* addresses have the same hash.                                           *)
ServesAsKey ==
  \A o, q \in Objects :
    LET a == data[o]  b == data[q] IN
    /\ a.family \in IPFamilies /\ BelowMax(a.ip) # {}
         => Less(a, Increment(a)) /\ ~Less(Increment(a), a)
    /\ a.port = b.port /\ "inet6" \notin {a.family, b.family}
         => /\ Less(a, b) \/ Less(b, a) <=> ~Equal(a, b)
            /\ ~(Less(a, b) /\ Less(b, a))
            /\ LessOrEqual(a, b) <=> Less(a, b) \/ Equal(a, b)
    /\ Equal(a, b) => Hashed(a) = Hashed(b)

(* "Make it possible to use struct sockaddr as a map key": of two          *)
(* addresses at most one is less than the other.                           *)
LessIsStrict ==
  \A o, q \in Objects : ~(Less(data[o], data[q]) /\ Less(data[q], data[o]))
=============================================================================
