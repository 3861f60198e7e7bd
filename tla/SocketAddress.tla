--------------------------- MODULE SocketAddress ---------------------------
(***************************************************************************)
(* The value of a liberate::net::socket_address and the operations on it.  *)
(* An IP address is the sequence of its bytes in network byte order.  The  *)
(* number of bits of a byte and the numbers of bytes are constants, and a  *)
(* port is a number of two bytes.  A local address is its path.            *)
(***************************************************************************)
EXTENDS Powers, SequencesExt

CONSTANTS
  ByteBits,  (* The bits of a byte: 8.                                      *)
  Bytes4,    (* The bytes of an IPv4 address: 4.                            *)
  Bytes6,    (* The bytes of an IPv6 address: 16.                           *)
  BytesPath  (* The bytes of a path: UNIX_PATH_MAX.                         *)

ASSUME AddressAssumption ==
  {ByteBits, Bytes4, Bytes6, BytesPath} \subseteq Nat \ {0}

Base  == Pow2[ByteBits]
Byte  == 0 .. Base - 1
Ports == 0 .. Base * Base - 1

(* The address families, and their numeric order.                          *)
IPFamilies == {"inet", "inet6"}
Families   == {"unspec", "local"} \union IPFamilies
AddrBytes  ==
  [unspec |-> 0, local |-> BytesPath, inet |-> Bytes4, inet6 |-> Bytes6]
Rank       == [unspec |-> 0, local |-> 1, inet |-> 2, inet6 |-> 10]

AddressesOf(f) ==
  [family : {f}, ip : [1 .. AddrBytes[f] -> Byte],
   port : IF f \in IPFamilies THEN Ports ELSE {0}]

Addresses == UNION {AddressesOf(f) : f \in Families}

(* The default constructor: the structure is zeroed.                       *)
Unspec == [family |-> "unspec", ip |-> <<>>, port |-> 0]

(* ntohl() of an address, and back to k bytes.                             *)
Number(ip) ==
  LET upto[i \in 0 .. Len(ip)] ==
        IF i = 0 THEN 0 ELSE upto[i - 1] * Base + ip[i]
  IN  upto[Len(ip)]
FromNumber(n, k) ==
  [i \in 1 .. k |-> (n \div Pow2[ByteBits * (k - i)]) % Base]

-----------------------------------------------------------------------------
(* Comparison.                                                             *)

Equal(a, b) == a.family = b.family /\ a.port = b.port /\ a.ip = b.ip

(* A fault: bytes behind the first difference count.                       *)
PrecedesAnywhere(p, q) == \E i \in DOMAIN p : p[i] < q[i]

(* memcmp() of two paths.                                                  *)
Precedes(p, q) ==
  \E i \in DOMAIN p : p[i] < q[i] /\ \A j \in 1 .. i - 1 : p[j] = q[j]

Less(a, b) ==
  IF a.family # b.family THEN Rank[a.family] < Rank[b.family]
  ELSE CASE a.family = "inet" -> Number(a.ip) < Number(b.ip) \/ a.port < b.port
         [] a.family = "inet6" ->
              (\E i \in DOMAIN a.ip : a.ip[i] < b.ip[i]) \/ a.port < b.port
         [] OTHER -> Precedes(a.ip, b.ip)

(* operator<=, as comparison_operators derives it from operator<.          *)
LessOrEqual(a, b) == ~Less(b, a)

(* strlen() of a path: the bytes before the first zero.                    *)
PathLength(p) == Min({i - 1 : i \in {j \in DOMAIN p : p[j] = 0}} \union {Len(p)})

(* The bytes that hash() looks at, and the port.                           *)
Hashed(a) ==
  <<a.family, IF a.family = "local" THEN SubSeq(a.ip, 1, PathLength(a.ip)) ELSE a.ip,
    a.port>>

-----------------------------------------------------------------------------
(* operator++, which throws for what is not an IP address.  The last byte  *)
(* of an IPv6 address that is not at its maximum is incremented; those     *)
(* behind it keep theirs.                                                  *)

BelowMax(ip) == {i \in DOMAIN ip : ip[i] < Base - 1}

Increment(a) ==
  IF a.family = "inet"
  THEN [a EXCEPT !.ip = FromNumber(Number(a.ip) + 1, Bytes4)]
  ELSE IF BelowMax(a.ip) = {} THEN a
  ELSE [a EXCEPT !.ip[Max(BelowMax(a.ip))] = @ + 1]

SetPort(a, p) == IF a.family \in IPFamilies THEN [a EXCEPT !.port = p] ELSE a

-----------------------------------------------------------------------------
(* The constructor from a struct sockaddr.                                 *)

(* bufsize(), less the family and what is padding in it: an unnamed path   *)
(* counts in full, and one without a zero byte counts one behind its end.  *)
RawSize(a) ==
  CASE a.family \in IPFamilies -> AddrBytes[a.family] + 2
    [] a.family = "local" ->
         IF a.ip[1] = 0 THEN BytesPath ELSE PathLength(a.ip) + 1
    [] OTHER -> 0

(* What is made of n bytes behind the family.  Those that are missing are  *)
(* zero, and if they do not suffice for what was made of them, all are.    *)
FromRaw(a, n) ==
  LET copied == IF a.family = "local"
                THEN [a EXCEPT !.ip = [i \in DOMAIN @ |-> IF i <= n THEN @[i] ELSE 0]]
                ELSE a
  IN  IF n < RawSize(copied) THEN Unspec ELSE copied

-----------------------------------------------------------------------------
(* Serialization: an optional byte for the type, the bytes of the address, *)
(* and optionally the two bytes of the port.                               *)

(* address_type, as far as it can be serialized.                           *)
TypeOf == [inet |-> 0, inet6 |-> 1]

(* calculate_minsize(); 0 stands for an address that has no such form.     *)
MinSize(f, with_type, with_port) ==
  IF f \notin IPFamilies THEN 0
  ELSE AddrBytes[f] + (IF with_port THEN 2 ELSE 0)
                    + (IF with_type THEN 1 ELSE 0)

(* The bytes written to a buffer of len bytes; none on failure.            *)
Serialize(a, len, with_type, with_port) ==
  LET size == MinSize(a.family, with_type, with_port)
  IN  IF size = 0 \/ len < size THEN <<>>
      ELSE (IF with_type THEN <<TypeOf[a.family]>> ELSE <<>>)
             \o a.ip
             \o (IF with_port THEN FromNumber(a.port, 2) ELSE <<>>)

Failure == [size |-> 0, addr |-> Unspec]

(* deserialize() with a type given: the bytes consumed, and the address.   *)
DeserializeAs(f, buf, with_port) ==
  LET size == MinSize(f, FALSE, with_port)
      n    == AddrBytes[f]
  IN  IF f \notin IPFamilies \/ buf = <<>> \/ size > Len(buf) THEN Failure
      ELSE [size |-> size,
            addr |-> [family |-> f,
                      ip     |-> SubSeq(buf, 1, n),
                      port   |-> IF with_port
                                 THEN Number(SubSeq(buf, n + 1, n + 2))
                                 ELSE 0]]

(* A fault: the port is read without a look at the bytes that remain.      *)
DeserializePrefix(buf, with_port) ==
  IF Len(buf) < 2 \/ Head(buf) \notin Range(TypeOf) THEN Failure
  ELSE LET f == CHOOSE g \in IPFamilies : TypeOf[g] = Head(buf)
           r == DeserializeAs(f, Tail(buf) \o <<0>>, with_port)
       IN  IF r.size = 0 THEN Failure ELSE [r EXCEPT !.size = @ + 1]

(* deserialize() with the type in the first byte.                          *)
Deserialize(buf, with_port) ==
  IF buf = <<>> \/ Head(buf) \notin Range(TypeOf) THEN Failure
  ELSE LET f == CHOOSE g \in IPFamilies : TypeOf[g] = Head(buf)
           r == DeserializeAs(f, Tail(buf), with_port)
       IN  IF r.size = 0 THEN Failure ELSE [r EXCEPT !.size = @ + 1]
=============================================================================
