------------------------------ MODULE Network ------------------------------
(***************************************************************************)
(* The network of liberate::net: an IP network given in CIDR notation, and *)
(* the set of its addresses that are reserved.                             *)
(*                                                                         *)
(* A step is a whole call; a network is not meant to be shared by threads. *)
(***************************************************************************)
EXTENDS SocketAddress, FiniteSets

CONSTANTS
  NetworkLimit, (* NETWORK_LIMIT, and the bits of a uint64_t.               *)
  Netspecs,     (* The networks a client names: an address and a mask size. *)
  Identifiers,  (* The identifiers a client maps to addresses.              *)
  HashOf,       (* std::hash of each identifier.                            *)
  Requested     (* The addresses a client itself reserves and releases.     *)

(* The limit is 64.  parse_extended_cidr() rejects other masks, and a port *)
(* beside a mask.                                                          *)
ASSUME NetworkAssumption ==
  /\ NetworkLimit \in Nat
  /\ ByteBits * Bytes4 <= NetworkLimit /\ NetworkLimit <= ByteBits * Bytes6
  /\ \A n \in Netspecs :
       /\ n.addr \in AddressesOf("inet") \union AddressesOf("inet6")
       /\ n.addr.port = 0
       /\ n.mask \in 1 .. ByteBits * AddrBytes[n.addr.family]
  /\ HashOf \in [Identifiers -> Nat]
  /\ Requested \subseteq Addresses

VARIABLES
  m_network,   (* The address of the netspec; its family is m_family.       *)
  m_mask_size,
  m_allocated, (* The reserved addresses.                                   *)
  result       (* What the last call was, its argument, and its outcome.    *)

vars == <<m_network, m_mask_size, m_allocated, result>>

m_family == m_network.family

-----------------------------------------------------------------------------
(* make_mask32() and make_mask128(): how many low bits of byte i are zero. *)
HostBits(i) ==
  LET bits == ByteBits * i - m_mask_size
  IN  IF bits < 0 THEN 0 ELSE IF bits > ByteBits THEN ByteBits ELSE bits

(* Byte b at place i with the bits outside of the mask cleared.            *)
Prefix(b, i) == b - (b % Pow2[HostBits(i)])

(* A fault: the port stays.                                                *)
MaskedWithPort(a) ==
  [a EXCEPT !.ip = [i \in DOMAIN a.ip |-> Prefix(a.ip[i], i)]]

(* make_masked()                                                           *)
Masked(a) ==
  [family |-> a.family, ip |-> [i \in DOMAIN a.ip |-> Prefix(a.ip[i], i)], port |-> 0]

NetworkAddress == Masked(m_network)

(* The bits outside of the mask are set, and so are those of the port.     *)
BroadcastAddress ==
  [family |-> m_family,
   ip     |-> [i \in DOMAIN m_network.ip |->
                 Prefix(m_network.ip[i], i) + Pow2[HostBits(i)] - 1],
   port   |-> Base * Base - 1]

InNetwork(a) == a.family = m_family /\ Equal(NetworkAddress, Masked(a))

GatewayAddress ==
  LET first == Increment(NetworkAddress)
  IN  IF InNetwork(first) THEN first ELSE NetworkAddress

-----------------------------------------------------------------------------
Limit == IF m_family = "inet" THEN ByteBits * Bytes4 ELSE NetworkLimit

(* get_max(), in 64 bits; it throws a domain_error for a mask above Limit. *)
TooLarge == m_mask_size > Limit
GetMax   == (Pow2[Limit - m_mask_size] - 2) % Pow2[NetworkLimit]

(* The k-th address after the lowest that can be allocated.                *)
Candidate[k \in Nat] ==
  Increment(IF k = 0 THEN NetworkAddress ELSE Candidate[k - 1])

Position(a) == Cardinality({b \in m_allocated : Less(b, a)})

(* A fault: stop at the number of addresses, wherever they are.            *)
NextIndexAtEnd == Cardinality(m_allocated)

(* Where reserve_address() stops: the first reserved address, in ascending *)
(* order, that is not the candidate at its place, or the end.              *)
NextIndex ==
  CHOOSE k \in 0 .. Cardinality(m_allocated) :
    /\ \A a \in m_allocated : ~(a = Candidate[k] /\ Position(a) = k)
    /\ \A j \in 0 .. k - 1 :
         \E a \in m_allocated : a = Candidate[j] /\ Position(a) = j

-----------------------------------------------------------------------------
Outcome(call, arg, ret, addr) ==
  result' = [call |-> call, arg |-> arg, ret |-> ret, addr |-> addr]

Throw(call, arg, what) ==
  Outcome(call, arg, what, Unspec) /\ UNCHANGED m_allocated

Allocate(call, arg, a) ==
  /\ m_allocated' = m_allocated \union {a}
  /\ Outcome(call, arg, "ok", a)

(* reserve_address(): the lowest address that is free.                     *)
Reserve ==
  /\ IF TooLarge THEN Throw("reserve", Unspec, "domain_error")
     ELSE IF GetMax <= Cardinality(m_allocated)
     THEN Throw("reserve", Unspec, "out_of_range")
     ELSE LET k == NextIndex
              a == Candidate[k]
          IN  IF k < Cardinality(m_allocated) \/ m_allocated = {}
                 \/ Less(a, BroadcastAddress)
              THEN Allocate("reserve", Unspec, a)
              ELSE Throw("reserve", Unspec, "logic_error")
  /\ UNCHANGED <<m_network, m_mask_size>>

(* What mapped_address() does: throw, divide by zero, count up to the hash *)
(* for ever with a uint32_t, which has the bits of an IPv4 address, or     *)
(* return.  A call that does not return stands for itself in result only.  *)
MapResult(id) ==
  IF TooLarge THEN "domain_error"
  ELSE IF GetMax = 0 THEN "undefined"
  ELSE IF HashOf[id] % GetMax >= Pow2[ByteBits * Bytes4] THEN "no_return"
  ELSE "ok"

Mapped(id) == Candidate[HashOf[id] % GetMax]

MappedAddress(id) ==
  /\ IF MapResult(id) # "ok" THEN Throw("map", id, MapResult(id))
     ELSE Outcome("map", id, "ok", Mapped(id)) /\ UNCHANGED m_allocated
  /\ UNCHANGED <<m_network, m_mask_size>>

(* reserve_address() of an identifier gives up when there is a collision.  *)
ReserveFor(id) ==
  /\ IF MapResult(id) # "ok" THEN Throw("reserve_id", id, MapResult(id))
     ELSE IF Mapped(id) \in m_allocated
     THEN Throw("reserve_id", id, "out_of_range")
     ELSE Allocate("reserve_id", id, Mapped(id))
  /\ UNCHANGED <<m_network, m_mask_size>>

(* reserve_address() of an address.                                        *)
ReserveAddress(a) ==
  /\ IF ~InNetwork(a) \/ a \in m_allocated
     THEN Throw("reserve_addr", a, "false")
     ELSE Allocate("reserve_addr", a, a)
  /\ UNCHANGED <<m_network, m_mask_size>>

IsReserved(a) ==
  /\ Outcome("is_reserved", a, IF a \in m_allocated THEN "ok" ELSE "false", a)
  /\ UNCHANGED <<m_network, m_mask_size, m_allocated>>

ReleaseAddress(a) ==
  /\ IF a \in m_allocated
     THEN /\ m_allocated' = m_allocated \ {a}
          /\ Outcome("release", a, "ok", a)
     ELSE Throw("release", a, "false")
  /\ UNCHANGED <<m_network, m_mask_size>>

(* reset(), and the constructors, which a copy uses with its own netspec.  *)
Reset(n) ==
  /\ m_network'   = n.addr
  /\ m_mask_size' = n.mask
  /\ m_allocated' = {}
  /\ Outcome("reset", Unspec, "ok", Unspec)

Init ==
  \E n \in Netspecs :
    /\ m_network   = n.addr
    /\ m_mask_size = n.mask
    /\ m_allocated = {}
    /\ result = [call |-> "reset", arg |-> Unspec, ret |-> "ok", addr |-> Unspec]

Next ==
  \/ Reserve
  \/ \E id \in Identifiers : ReserveFor(id) \/ MappedAddress(id)
  \/ \E a \in Requested \union m_allocated :
       ReserveAddress(a) \/ ReleaseAddress(a) \/ IsReserved(a)
  \/ \E n \in Netspecs : Reset(n)

Spec == Init /\ [][Next]_vars

-----------------------------------------------------------------------------
(* Properties.                                                             *)

(* The addresses a network can hand out: all but its first and its last,   *)
(* with port 0.                                                            *)
Hosts ==
  LET net  == NetworkAddress
      last == BroadcastAddress.ip
  IN  {a \in [family : {m_family}, ip : [DOMAIN net.ip -> Byte], port : {0}] :
         Masked(a) = net /\ a.ip # net.ip /\ a.ip # last}

(* The addresses that reserve_address() tries, and that they are in        *)
(* ascending order, each a single time.                                    *)
Candidates == {Candidate[i] : i \in 0 .. GetMax - 1}

Ascending ==
  /\ GetMax \in Nat
  /\ \A i, j \in 0 .. GetMax - 1 : Less(Candidate[i], Candidate[j]) <=> i < j

(* They are all addresses the network can hand out, of which there is one, *)
(* they precede its last, and are counted with a uint32_t.                 *)
Exhaustive ==
  /\ ~TooLarge /\ GetMax # 0
  /\ Candidates = Hosts
  /\ \A a \in Hosts : Less(a, BroadcastAddress)
  /\ \A i \in 0 .. GetMax - 1 : ~(i >= Pow2[ByteBits * Bytes4])

(* Clients name no addresses of a network but those.                       *)
NamesHosts == \A a \in Requested : InNetwork(a) => a \in Candidates

(* The byte-wise masks stand for a prefix of the address: an address is in *)
(* the network when it agrees with the netspec in its first mask_size      *)
(* bits, whatever its port, the broadcast address is the last of them, and *)
(* the gateway, which operator++ computes, is one of them too.  max_size() *)
(* is the number of addresses between the first and the last, or less for  *)
(* an IPv6 network with more bits than the limit; but for a network of a   *)
(* single address.  So many addresses are handed out in ascending order,   *)
(* as long as operator++ of an IPv6 address has no byte to carry; for IPv4 *)
(* these are all there are, if there are any.                              *)
MaskIsPrefix ==
  LET bits  == ByteBits * AddrBytes[m_family]
      of(a) == Number(a.ip) \div Pow2[bits - m_mask_size]
      ips   == [1 .. AddrBytes[m_family] -> Byte]
  IN  /\ \A a \in [family : {m_family}, ip : ips, port : {0, Base * Base - 1}] :
           /\ InNetwork(a) <=> of(a) = of(m_network)
           /\ InNetwork(a) => Number(a.ip) <= Number(BroadcastAddress.ip)
      /\ InNetwork(BroadcastAddress)
      /\ InNetwork(GatewayAddress)
      /\ m_mask_size < Limit =>
           LET between == Number(BroadcastAddress.ip) - Number(NetworkAddress.ip) - 1
           IN  IF m_family = "inet" THEN GetMax = between ELSE GetMax <= between
      /\ m_mask_size < Limit /\ (m_family = "inet" \/ GetMax < Base) => Ascending
      /\ m_mask_size < Limit - 1 /\ m_family = "inet" => Exhaustive

(* An address reserve_address() returns was not reserved before: "Returns  *)
(* a new socket_address".                                                  *)
ReservesNew ==
  [][result'.call \in {"reserve", "reserve_id"} /\ result'.ret = "ok"
       => result'.addr \notin m_allocated]_vars

(* A network implements a pool of its host addresses, as long as its       *)
(* clients themselves reserve nothing but host addresses.                  *)
Pool ==
  INSTANCE AddressPool WITH
    None <- Unspec, hosts <- Hosts, reserved <- m_allocated,
    names <- [id \in Identifiers |-> Mapped(id)]

ImplementsPool == Pool!Spec
=============================================================================
