--------------------------- MODULE NetworkProofs ----------------------------
(***************************************************************************)
(* Proofs about Network, for bytes, addresses, masks and limits of any     *)
(* size: the byte-wise masks stand for prefixes, the addresses that        *)
(* reserve_address() tries ascend and are the hosts, where MaskIsPrefix    *)
(* says so; reserve_address() returns no address that is reserved, and the *)
(* network implements a pool of its hosts.                                 *)
(***************************************************************************)
EXTENDS Network, AddressProofs, FunctionTheorems

(* The zero bits at the end of the first i bytes of a network address.     *)
Hidden(i) == IF ByteBits * i <= m_mask_size THEN 0 ELSE ByteBits * i - m_mask_size

(* Either all of them are in the last of these bytes, or all of its bits   *)
(* are zero.                                                               *)
LEMMA HiddenBits ==
  ASSUME m_mask_size \in Nat, NEW i \in Nat
  PROVE  /\ Hidden(i) \in Nat /\ Hidden(i + 1) \in Nat
         /\ HostBits(i + 1) \in 0 .. ByteBits
         /\ \/ Hidden(i) = 0 /\ Hidden(i + 1) = HostBits(i + 1)
            \/ Hidden(i + 1) = Hidden(i) + ByteBits /\ HostBits(i + 1) = ByteBits
<1> DEFINE n == ByteBits * i
           b == ByteBits
           m == m_mask_size
<1>1. b \in Nat \ {0} /\ m \in Nat
  BY AddressAssumption
<1>2. n \in Nat /\ b * (i + 1) = n + b
  BY <1>1
<1>3. /\ Hidden(i) = IF n <= m THEN 0 ELSE n - m
      /\ Hidden(i + 1) = IF n + b <= m THEN 0 ELSE n + b - m
  BY <1>1, <1>2 DEF Hidden
<1>4. HostBits(i + 1) = IF n + b - m < 0 THEN 0
                        ELSE IF n + b - m > b THEN b ELSE n + b - m
  BY <1>1, <1>2 DEF HostBits
<1> HIDE DEF n, b, m
<1>5. ByteBits = b
  BY DEF b
<1> QED
  BY <1>1, <1>2, <1>3, <1>4, <1>5

(* The bytes of the network and of the broadcast address.                  *)
Cleared(ip) == [i \in DOMAIN ip |-> Prefix(ip[i], i)]
Filled(ip)  == [i \in DOMAIN ip |-> Prefix(ip[i], i) + Pow2[HostBits(i)] - 1]

(* They are bytes again.                                                   *)
LEMMA MaskedBytes ==
  ASSUME m_mask_size \in Nat, NEW k \in Nat, NEW ip \in [1 .. k -> Byte]
  PROVE  /\ Cleared(ip) \in [1 .. k -> Byte]
         /\ Filled(ip) \in [1 .. k -> Byte]
<1>1. ASSUME NEW i \in 1 .. k
      PROVE  Prefix(ip[i], i) \in Byte /\ Prefix(ip[i], i) + Pow2[HostBits(i)] - 1 \in Byte
  <2>1. i - 1 \in Nat /\ (i - 1) + 1 = i
    OBVIOUS
  <2>2. HostBits(i) \in 0 .. ByteBits
    BY <2>1, HiddenBits
  <2> DEFINE b == ip[i]
             h == HostBits(i)
  <2>3. b \in Byte /\ h \in 0 .. ByteBits /\ Prefix(ip[i], i) = b - (b % Pow2[h])
    BY <2>2 DEF Prefix
  <2> HIDE DEF b, h
  <2>4. /\ Clear(b, Pow2[h]) = b - (b % Pow2[h])
        /\ Clear(b, Pow2[h]) \in Byte
        /\ Clear(b, Pow2[h]) + Pow2[h] - 1 \in Byte
    BY <2>3, ClearInByte
  <2> QED
    BY <2>3, <2>4 DEF h
<1> QED
  BY <1>1 DEF Cleared, Filled

(* Byte by byte the number of an address gets that of its network, and of  *)
(* the last address of it.                                                 *)
LEMMA ClearedLeading ==
  ASSUME m_mask_size \in Nat, NEW k \in Nat, NEW ip \in [1 .. k -> Byte], NEW i \in 0 .. k
  PROVE  /\ Leading(Cleared(ip))[i] = Clear(Leading(ip)[i], Pow2[Hidden(i)])
         /\ Leading(Filled(ip))[i]
              = Clear(Leading(ip)[i], Pow2[Hidden(i)]) + Pow2[Hidden(i)] - 1
<1> DEFINE Holds(j) ==
             /\ Leading(Cleared(ip))[j] = Clear(Leading(ip)[j], Pow2[Hidden(j)])
             /\ Leading(Filled(ip))[j]
                  = Clear(Leading(ip)[j], Pow2[Hidden(j)]) + Pow2[Hidden(j)] - 1
           S == {j \in Nat : j <= k => Holds(j)}
<1>1. Cleared(ip) \in [1 .. k -> Byte] /\ Filled(ip) \in [1 .. k -> Byte]
  BY MaskedBytes
<1>2. 0 \in S
  <2>1. Pow2[Hidden(0)] = 1
    <3>1. ByteBits * 0 = 0
      BY AddressAssumption
    <3>2. Hidden(0) = 0
      BY <3>1 DEF Hidden
    <3> QED
      BY <3>2, Pow2Defined
  <2>2. /\ Leading(ip)[0] = 0 /\ Leading(Cleared(ip))[0] = 0
        /\ Leading(Filled(ip))[0] = 0
    BY <1>1, LeadingDefined
  <2>3. Clear(0, 1) = 0
    BY DEF Clear
  <2> QED
    BY <2>1, <2>2, <2>3
<1>3. ASSUME NEW j \in Nat, j \in S PROVE j + 1 \in S
  <2> SUFFICES ASSUME j + 1 <= k PROVE Holds(j + 1)
    OBVIOUS
  <2>1. j + 1 \in 1 .. k /\ (j + 1) - 1 = j /\ j \in 0 .. k /\ Holds(j)
    BY <1>3
  <2> DEFINE x == Leading(ip)[j]
             r == ip[j + 1]
             h == HostBits(j + 1)
             H == Hidden(j)
             H2 == Hidden(j + 1)
  <2>2. /\ x \in Nat /\ r \in Byte /\ h \in 0 .. ByteBits /\ H \in Nat /\ H2 \in Nat
        /\ \/ H = 0 /\ H2 = h
           \/ H2 = H + ByteBits /\ h = ByteBits
    <3>1. Leading(ip)[j] \in Nat
      BY <2>1, LeadingDefined
    <3> QED
      BY <2>1, <3>1, HiddenBits
  <2>3. /\ Leading(ip)[j + 1] = x * Base + r
        /\ Leading(Cleared(ip))[j + 1] = Leading(Cleared(ip))[j] * Base + Cleared(ip)[j + 1]
        /\ Leading(Filled(ip))[j + 1] = Leading(Filled(ip))[j] * Base + Filled(ip)[j + 1]
    <3>1. \A jp \in [1 .. k -> Byte] :
            Leading(jp)[j + 1] = Leading(jp)[j] * Base + jp[j + 1]
      BY <2>1, LeadingDefined
    <3> QED
      BY <1>1, <3>1
  <2>4. /\ Cleared(ip)[j + 1] = r - (r % Pow2[h])
        /\ Filled(ip)[j + 1] = (r - (r % Pow2[h])) + Pow2[h] - 1
    BY <2>1 DEF Cleared, Filled, Prefix
  <2>5. /\ Leading(Cleared(ip))[j] = Clear(x, Pow2[H])
        /\ Leading(Filled(ip))[j] = Clear(x, Pow2[H]) + Pow2[H] - 1
    BY <2>1
  <2> HIDE DEF x, r, h, H, H2
  <2>6. Clear(r, Pow2[h]) = r - (r % Pow2[h])
    BY <2>2, ClearInByte
  <2>7. /\ Clear(x, Pow2[H]) * Base + Clear(r, Pow2[h]) = Clear(x * Base + r, Pow2[H2])
        /\ (Clear(x, Pow2[H]) + Pow2[H] - 1) * Base + (Clear(r, Pow2[h]) + Pow2[h] - 1)
             = Clear(x * Base + r, Pow2[H2]) + Pow2[H2] - 1
    BY <2>2, ClearStep
  <2>8. /\ Leading(Cleared(ip))[j + 1] = Clear(x * Base + r, Pow2[H2])
        /\ Leading(Filled(ip))[j + 1] = Clear(x * Base + r, Pow2[H2]) + Pow2[H2] - 1
    BY <2>3, <2>4, <2>5, <2>6, <2>7
  <2> QED
    BY <2>3, <2>8 DEF H2
<1> HIDE DEF S, Holds
<1>4. i \in S
  BY <1>2, <1>3, Induction
<1> QED
  BY <1>4 DEF S, Holds

-----------------------------------------------------------------------------
(* What a netspec is.                                                      *)
IsNetspec ==
  /\ m_network \in AddressesOf("inet") \union AddressesOf("inet6")
  /\ m_network.port = 0
  /\ m_mask_size \in 1 .. ByteBits * AddrBytes[m_family]

(* The bytes of its addresses, their number, and the number of the first.  *)
Width == AddrBytes[m_family]
Size  == Pow2[ByteBits * Width - m_mask_size]
First == Number(NetworkAddress.ip)

(* What follows for the constants of a network from its netspec.           *)
LEMMA NetspecType ==
  ASSUME IsNetspec
  PROVE  /\ m_family \in IPFamilies
         /\ Width \in Nat \ {0} /\ Width = IF m_family = "inet" THEN Bytes4 ELSE Bytes6
         /\ m_network \in AddressesOf(m_family)
         /\ m_mask_size \in Nat \ {0}
         /\ ByteBits * Width \in Nat /\ m_mask_size <= ByteBits * Width
         /\ Size \in Nat \ {0} /\ Hidden(Width) = ByteBits * Width - m_mask_size
<1>1. /\ m_network.family \in {"inet", "inet6"}
      /\ m_network \in AddressesOf(m_network.family)
  BY DEF IsNetspec, AddressesOf
<1>2. Width \in Nat \ {0} /\ Width = IF m_family = "inet" THEN Bytes4 ELSE Bytes6
  BY <1>1, AddressAssumption DEF Width, AddrBytes, m_family
<1>3. m_mask_size \in 1 .. ByteBits * Width
  BY DEF IsNetspec, Width
<1> DEFINE n == ByteBits * Width
<1>4. n \in Nat
  BY <1>2, AddressAssumption
<1>5. m_mask_size \in 1 .. n
  BY <1>3
<1>6. Hidden(Width) = IF n <= m_mask_size THEN 0 ELSE n - m_mask_size
  BY DEF Hidden
<1> HIDE DEF n
<1>7. /\ m_mask_size \in Nat \ {0} /\ m_mask_size <= n /\ n - m_mask_size \in Nat
      /\ Hidden(Width) = n - m_mask_size
  BY <1>4, <1>5, <1>6
<1>8. Pow2[n - m_mask_size] \in Nat \ {0}
  BY <1>7, Pow2Defined
<1> QED
  BY <1>1, <1>2, <1>4, <1>7, <1>8 DEF n, Size, m_family, IPFamilies

(* The members of an address of the network's family.                      *)
LEMMA AddressParts ==
  ASSUME IsNetspec, NEW a \in AddressesOf(m_family)
  PROVE  /\ a.family = m_family /\ a.ip \in [1 .. Width -> Byte] /\ a.port \in Ports
         /\ a = [family |-> a.family, ip |-> a.ip, port |-> a.port]
BY NetspecType DEF AddressesOf, Width

(* The addresses of the network's family are all such records.             *)
LEMMA AddressSet ==
  IsNetspec => AddressesOf(m_family) =
                 [family : {m_family}, ip : [1 .. Width -> Byte], port : Ports]
BY NetspecType DEF AddressesOf, Width

(* Such addresses are told apart by their bytes and ports.                 *)
LEMMA SameAddress ==
  ASSUME IsNetspec, NEW a \in AddressesOf(m_family), NEW b \in AddressesOf(m_family),
         a.ip = b.ip, a.port = b.port
  PROVE  a = b
<1>1. /\ a \in [family : {m_family}, ip : [1 .. Width -> Byte], port : Ports]
      /\ b \in [family : {m_family}, ip : [1 .. Width -> Byte], port : Ports]
  BY AddressSet
<1> QED
  BY <1>1

(* Bytes and a port make such an address.                                  *)
LEMMA AddressFromParts ==
  ASSUME IsNetspec, NEW ip \in [1 .. Width -> Byte], NEW p \in Ports
  PROVE  [family |-> m_family, ip |-> ip, port |-> p] \in AddressesOf(m_family)
BY NetspecType DEF AddressesOf, Width

(* The least and the largest port are ports.                               *)
LEMMA PortRange == 0 \in Ports /\ Base * Base - 1 \in Ports
<1>1. Base * Base \in Nat \ {0}
  BY BaseIsPositive
<1> DEFINE p == Base * Base
<1> HIDE DEF p
<1>2. 0 \in 0 .. p - 1 /\ p - 1 \in 0 .. p - 1
  BY <1>1 DEF p
<1> QED
  BY <1>2 DEF Ports, p

(* make_masked() clears the bits behind the mask in the number.            *)
LEMMA MaskedNumber ==
  ASSUME IsNetspec, NEW a \in AddressesOf(m_family)
  PROVE  /\ Masked(a) \in AddressesOf(m_family)
         /\ Masked(a).family = m_family /\ Masked(a).port = 0
         /\ Number(Masked(a).ip) = Clear(Number(a.ip), Size)
<1>1. a.ip \in [1 .. Width -> Byte] /\ Width \in Nat /\ m_mask_size \in Nat
  BY AddressParts, NetspecType
<1>2. Masked(a) = [family |-> m_family, ip |-> Cleared(a.ip), port |-> 0]
  BY AddressParts DEF Masked, Cleared
<1>3. Cleared(a.ip) \in [1 .. Width -> Byte]
  BY <1>1, MaskedBytes
<1>4. Width \in 0 .. Width /\ Hidden(Width) = ByteBits * Width - m_mask_size
  BY <1>1, NetspecType
<1>5. Leading(Cleared(a.ip))[Width] = Clear(Leading(a.ip)[Width], Size)
  BY <1>1, <1>4, ClearedLeading DEF Size
<1>6. Number(Cleared(a.ip)) = Clear(Number(a.ip), Size)
  BY <1>1, <1>3, <1>5, NumberIsLeading, LengthOf
<1> QED
  BY <1>2, <1>3, <1>6, AddressFromParts, PortRange

(* The broadcast address is the last that begins with these bits.          *)
LEMMA BroadcastNumber ==
  ASSUME IsNetspec
  PROVE  /\ BroadcastAddress \in AddressesOf(m_family)
         /\ First = Clear(Number(m_network.ip), Size)
         /\ Number(BroadcastAddress.ip) = First + Size - 1
<1>1. /\ m_network \in AddressesOf(m_family) /\ m_network.ip \in [1 .. Width -> Byte]
      /\ Width \in Nat /\ m_mask_size \in Nat
  BY AddressParts, NetspecType
<1>2. BroadcastAddress =
        [family |-> m_family, ip |-> Filled(m_network.ip), port |-> Base * Base - 1]
  BY DEF BroadcastAddress, Filled
<1>3. Filled(m_network.ip) \in [1 .. Width -> Byte]
  BY <1>1, MaskedBytes
<1>4. Width \in 0 .. Width /\ Hidden(Width) = ByteBits * Width - m_mask_size
  BY <1>1, NetspecType
<1>5. Leading(Filled(m_network.ip))[Width]
        = Clear(Leading(m_network.ip)[Width], Size) + Size - 1
  BY <1>1, <1>4, ClearedLeading DEF Size
<1>6. Number(Filled(m_network.ip)) = Clear(Number(m_network.ip), Size) + Size - 1
  BY <1>1, <1>3, <1>5, NumberIsLeading, LengthOf
<1>7. First = Clear(Number(m_network.ip), Size)
  BY <1>1, MaskedNumber DEF First, NetworkAddress
<1> QED
  BY <1>2, <1>3, <1>6, <1>7, AddressFromParts, PortRange

(* Numbers agree with their last bits cleared when they agree in the       *)
(* others.                                                                 *)
LEMMA ClearIsSame ==
  ASSUME NEW x \in Nat, NEW y \in Nat, NEW p \in Nat \ {0}
  PROVE  Clear(x, p) = Clear(y, p) <=> x \div p = y \div p
<1> DEFINE d == x \div p
           e == y \div p
<1>1. d \in Nat /\ e \in Nat
  OBVIOUS
<1>2. Clear(x, p) = p * d /\ Clear(y, p) = p * e
  BY DEF Clear
<1> HIDE DEF d, e
<1>3. p * d = p * e <=> d = e
  BY <1>1
<1> QED
  BY <1>2, <1>3 DEF d, e

(* The number of an address of the network's family has its bits.          *)
LEMMA NumberOf ==
  ASSUME IsNetspec, NEW a \in AddressesOf(m_family)
  PROVE  Number(a.ip) \in Nat /\ Number(a.ip) < Pow2[ByteBits * Width]
<1>1. Number(a.ip) \in 0 .. Pow2[ByteBits * Width] - 1
  BY AddressParts, NetspecType, NumberType
<1>2. Pow2[ByteBits * Width] \in Nat
  BY NetspecType, Pow2Defined
<1> QED
  BY <1>1, <1>2

(* The masks stand for a prefix.                                           *)
LEMMA InsideIsPrefix ==
  ASSUME IsNetspec, NEW a \in AddressesOf(m_family)
  PROVE  /\ InNetwork(a) <=> Number(a.ip) \div Size = Number(m_network.ip) \div Size
         /\ InNetwork(a) <=> First <= Number(a.ip) /\ Number(a.ip) <= First + Size - 1
<1>1. /\ Masked(a) \in AddressesOf(m_family) /\ Masked(m_network) \in AddressesOf(m_family)
      /\ Masked(a).family = m_family /\ Masked(m_network).family = m_family
      /\ Masked(a).port = 0 /\ Masked(m_network).port = 0
      /\ Number(Masked(a).ip) = Clear(Number(a.ip), Size)
      /\ Number(Masked(m_network).ip) = Clear(Number(m_network.ip), Size)
  BY NetspecType, MaskedNumber
<1>2. InNetwork(a) <=> Masked(m_network).ip = Masked(a).ip
  BY <1>1, AddressParts DEF InNetwork, Equal, NetworkAddress
<1>3. Masked(m_network).ip = Masked(a).ip
        <=> Number(Masked(m_network).ip) = Number(Masked(a).ip)
  BY <1>1, NetspecType, AddressParts, NumberIsInjective
<1> DEFINE x == Number(a.ip)
           y == Number(m_network.ip)
           s == Size
<1>4. x \in Nat /\ y \in Nat /\ s \in Nat \ {0}
  BY NetspecType, NumberOf
<1> HIDE DEF x, y, s
<1>5. Clear(x, s) = Clear(y, s) <=> x \div s = y \div s
  BY <1>4, ClearIsSame
<1> DEFINE e == y \div s
           f == Clear(y, s)
<1>6. e \in Nat /\ f \in Nat /\ f = s * e
  BY <1>4, ClearIsBelow DEF Clear
<1>7. x \div s = e <=> s * e <= x /\ x <= s * e + s - 1
  <2> HIDE DEF e, f
  <2> QED
    BY <1>4, <1>6
<1>8. First = f
  BY BroadcastNumber DEF f, y, s
<1> QED
  BY <1>2, <1>3, <1>1, <1>5, <1>6, <1>7, <1>8 DEF x, y, s

-----------------------------------------------------------------------------
(* The first and the last address of a network, and the gateway, are in it.*)
LEMMA EndsAreInside ==
  ASSUME IsNetspec
  PROVE  /\ InNetwork(NetworkAddress) /\ InNetwork(BroadcastAddress)
         /\ InNetwork(GatewayAddress)
         /\ NetworkAddress \in AddressesOf(m_family) /\ NetworkAddress.port = 0
         /\ First \in Nat /\ First + Size <= Pow2[ByteBits * Width]
<1>1. /\ NetworkAddress \in AddressesOf(m_family) /\ NetworkAddress.port = 0
      /\ BroadcastAddress \in AddressesOf(m_family)
      /\ Number(BroadcastAddress.ip) = First + Size - 1
      /\ Size \in Nat \ {0} /\ Pow2[ByteBits * Width] \in Nat
  BY NetspecType, MaskedNumber, BroadcastNumber, Pow2Defined DEF NetworkAddress
<1>2. First \in Nat
  BY <1>1, NumberOf DEF First
<1>3. First + Size - 1 < Pow2[ByteBits * Width]
  BY <1>1, NumberOf
<1>4. InNetwork(NetworkAddress)
  <2>1. Number(NetworkAddress.ip) = First
    BY DEF First
  <2> QED
    BY <1>1, <1>2, <2>1, InsideIsPrefix
<1>5. InNetwork(BroadcastAddress)
  BY <1>1, <1>2, InsideIsPrefix
<1>6. InNetwork(GatewayAddress)
  BY <1>4 DEF GatewayAddress
<1> QED
  BY <1>1, <1>2, <1>3, <1>4, <1>5, <1>6

(* max_size() leaves out the first and the last address.                   *)
LEMMA MaxSize ==
  ASSUME IsNetspec, m_mask_size < Limit
  PROVE  /\ ~TooLarge /\ GetMax \in Nat /\ GetMax <= Size - 2
         /\ GetMax = Pow2[Limit - m_mask_size] - 2
         /\ m_family = "inet" => GetMax = Size - 2 /\ Size <= Pow2[ByteBits * Bytes4]
<1>1. /\ NetworkLimit \in Nat /\ ByteBits * Bytes4 <= NetworkLimit
      /\ NetworkLimit <= ByteBits * Bytes6
  BY NetworkAssumption
<1>2. /\ Limit \in Nat /\ Limit <= NetworkLimit /\ Limit <= ByteBits * Width
      /\ m_family = "inet" => Limit = ByteBits * Width /\ Limit = ByteBits * Bytes4
  <2>1. CASE m_family = "inet"
    <3>1. Width = Bytes4 /\ ByteBits * Width \in Nat
      BY <2>1, NetspecType
    <3>2. Limit = ByteBits * Width
      BY <2>1, <3>1 DEF Limit
    <3> QED
      BY <1>1, <2>1, <3>1, <3>2
  <2>2. CASE m_family # "inet"
    <3>1. Width = Bytes6 /\ ByteBits * Width \in Nat
      BY <2>2, NetspecType
    <3>2. Limit = NetworkLimit
      BY <2>2 DEF Limit
    <3> QED
      BY <1>1, <2>2, <3>1, <3>2
  <2> QED
    BY <2>1, <2>2
<1> DEFINE n == ByteBits * Width
           m == m_mask_size
           l == Limit
           c == NetworkLimit
<1>3. n \in Nat /\ m \in Nat \ {0} /\ l \in Nat /\ c \in Nat /\ m < l /\ l <= c /\ l <= n
  BY <1>1, <1>2, NetspecType
<1>4. Size = Pow2[n - m] /\ GetMax = (Pow2[l - m] - 2) % Pow2[c]
  BY DEF Size, GetMax
<1> HIDE DEF n, m, l, c
<1>5. l - m \in Nat \ {0} /\ n - m \in Nat /\ l - m <= n - m /\ l - m <= c /\ n - m <= n
  BY <1>3
<1>6. /\ 2 * Pow2[0] <= Pow2[l - m] /\ Pow2[0] = 1
      /\ Pow2[l - m] <= Pow2[n - m] /\ Pow2[l - m] <= Pow2[c] /\ Pow2[n - m] <= Pow2[n]
  <2>1. 0 <= l - m /\ 0 < l - m
    BY <1>5
  <2> QED
    BY <1>3, <1>5, <2>1, Pow2Grows, Pow2Defined
<1>7. Pow2[l - m] \in Nat /\ Pow2[n - m] \in Nat /\ Pow2[c] \in Nat
  BY <1>3, <1>5, Pow2Defined
<1>8. (Pow2[l - m] - 2) % Pow2[c] = Pow2[l - m] - 2
  <2> DEFINE x == Pow2[l - m] - 2
             y == Pow2[c]
  <2>1. x \in Nat /\ y \in Nat /\ x < y
    BY <1>6, <1>7
  <2> HIDE DEF x, y
  <2> QED
    BY <2>1 DEF x, y
<1>9. GetMax = Pow2[l - m] - 2 /\ GetMax \in Nat /\ GetMax <= Size - 2
  BY <1>4, <1>6, <1>7, <1>8
<1>10. ~TooLarge
  BY <1>3 DEF TooLarge, l, m
<1>11. ASSUME m_family = "inet"
       PROVE  GetMax = Size - 2 /\ Size <= Pow2[ByteBits * Bytes4]
  <2>1. l = n /\ n = ByteBits * Bytes4
    BY <1>2, <1>11 DEF l, n
  <2> QED
    BY <1>4, <1>6, <1>9, <2>1
<1> QED
  BY <1>9, <1>10, <1>11 DEF l, m

-----------------------------------------------------------------------------
(* The candidates are counted from the one behind the network address.     *)
LEMMA CandidateDefined ==
  ASSUME IsNetspec
  PROVE  /\ Candidate \in [Nat -> AddressesOf(m_family)]
         /\ Candidate[0] = Increment(NetworkAddress)
         /\ \A n \in Nat : Candidate[n + 1] = Increment(Candidate[n])
         /\ \A n \in Nat : Candidate[n].port = 0
<1> DEFINE V == {a \in AddressesOf(m_family) : a.port = 0}
           first == Increment(NetworkAddress)
           step == [n \in Nat |-> [a \in V |-> Increment(a)]]
           Solves(f) == f = [k \in Nat |-> Increment(IF k = 0 THEN NetworkAddress ELSE f[k - 1])]
<1>1. first \in V /\ step \in [Nat -> [V -> V]]
  <2>1. \A a \in V : Increment(a) \in V
    BY NetspecType, IncrementType
  <2>2. NetworkAddress \in V
    BY EndsAreInside
  <2> HIDE DEF V
  <2> QED
    BY <2>1, <2>2
<1>2. PICK f : Iterates(f, V, first, step)
  <2> HIDE DEF V, first, step
  <2> QED
    BY <1>1, Recursion
<1>3. Solves(f)
  <2>1. f \in [Nat -> V] /\ f[0] = Increment(NetworkAddress)
    BY <1>2 DEF Iterates
  <2>2. ASSUME NEW k \in Nat, k # 0 PROVE f[k] = Increment(f[k - 1])
    <3>1. k - 1 \in Nat /\ (k - 1) + 1 = k
      BY <2>2
    <3>2. f[k] = step[k - 1][f[k - 1]] /\ f[k - 1] \in V
      BY <1>2, <3>1 DEF Iterates
    <3> HIDE DEF V
    <3> QED
      BY <3>1, <3>2
  <2> HIDE DEF V
  <2> QED
    BY <2>1, <2>2
<1>4. Candidate = CHOOSE g : Solves(g)
  BY DEF Candidate
<1>5. Solves(Candidate)
  <2> HIDE DEF Solves
  <2> QED
    BY <1>3, <1>4
<1>6. ASSUME NEW k \in Nat
      PROVE  Candidate[k] = Increment(IF k = 0 THEN NetworkAddress ELSE Candidate[k - 1])
  BY <1>5
<1>7. Candidate[0] = first
  BY <1>6
<1>8. ASSUME NEW n \in Nat PROVE Candidate[n + 1] = Increment(Candidate[n])
  <2>1. n + 1 \in Nat /\ n + 1 # 0 /\ (n + 1) - 1 = n
    OBVIOUS
  <2> QED
    BY <1>6, <2>1
<1>9. \A n \in Nat : Candidate[n] \in V
  <2> DEFINE S == {n \in Nat : Candidate[n] \in V}
  <2>1. 0 \in S
    BY <1>1, <1>7
  <2>2. ASSUME NEW n \in Nat, n \in S PROVE n + 1 \in S
    <3>1. Candidate[n] \in V
      BY <2>2
    <3>2. Increment(Candidate[n]) \in V
      BY <3>1, NetspecType, IncrementType
    <3> HIDE DEF V
    <3> QED
      BY <1>8, <3>2
  <2> HIDE DEF S
  <2>3. Nat \subseteq S
    BY <2>1, <2>2, Induction
  <2> QED
    BY <2>3 DEF S
<1>10. Candidate = [k \in Nat |-> Candidate[k]]
  BY <1>5
<1> QED
  BY <1>7, <1>8, <1>9, <1>10

(* Candidates of an IPv4 network are counted up from its first address.    *)
LEMMA CandidateNumber ==
  ASSUME IsNetspec, m_family = "inet", NEW n \in Nat, n + 1 < Size
  PROVE  Number(Candidate[n].ip) = First + n + 1
<1> DEFINE S == {k \in Nat : k + 1 < Size => Number(Candidate[k].ip) = First + k + 1}
<1>1. First \in Nat /\ Size \in Nat /\ First + Size <= Pow2[ByteBits * Width]
      /\ Pow2[ByteBits * Width] \in Nat
  BY EndsAreInside, NetspecType, Pow2Defined
<1>2. Width = Bytes4
  BY NetspecType
<1>3. 0 \in S
  <2> SUFFICES ASSUME 0 + 1 < Size PROVE Number(Candidate[0].ip) = First + 0 + 1
    OBVIOUS
  <2>1. NetworkAddress \in AddressesOf(m_family) /\ Number(NetworkAddress.ip) = First
    BY EndsAreInside DEF First
  <2>2. First + 1 < Pow2[ByteBits * Width]
    BY <1>1
  <2>3. Number(Increment(NetworkAddress).ip) = First + 1
    BY <1>2, <2>1, <2>2, Increment4
  <2> QED
    BY <1>1, <2>3, CandidateDefined
<1>4. ASSUME NEW k \in Nat, k \in S PROVE k + 1 \in S
  <2> SUFFICES ASSUME (k + 1) + 1 < Size
               PROVE  Number(Candidate[k + 1].ip) = First + (k + 1) + 1
    OBVIOUS
  <2>1. Number(Candidate[k].ip) = First + k + 1
    BY <1>1, <1>4
  <2>2. (First + k + 1) + 1 < Pow2[ByteBits * Width]
    BY <1>1
  <2>3. Candidate[k] \in AddressesOf(m_family)
    BY CandidateDefined
  <2>4. Number(Increment(Candidate[k]).ip) = (First + k + 1) + 1
    BY <1>2, <2>1, <2>2, <2>3, Increment4
  <2>5. Candidate[k + 1] = Increment(Candidate[k])
    BY CandidateDefined
  <2> QED
    BY <1>1, <2>4, <2>5
<1> HIDE DEF S
<1>5. n \in S
  BY <1>3, <1>4, Induction
<1> QED
  BY <1>5 DEF S

(* So they are in ascending order.                                         *)
LEMMA Ascending4 ==
  ASSUME IsNetspec, m_family = "inet", m_mask_size < Limit
  PROVE  Ascending
<1>1. GetMax \in Nat /\ GetMax = Size - 2 /\ Size \in Nat /\ First \in Nat
  BY MaxSize, NetspecType, EndsAreInside
<1>2. ASSUME NEW i \in 0 .. GetMax - 1, NEW j \in 0 .. GetMax - 1
      PROVE  Less(Candidate[i], Candidate[j]) <=> i < j
  <2>1. i \in Nat /\ j \in Nat /\ i + 1 < Size /\ j + 1 < Size
    BY <1>1
  <2>2. /\ Number(Candidate[i].ip) = First + i + 1
        /\ Number(Candidate[j].ip) = First + j + 1
    BY <2>1, CandidateNumber
  <2>3. /\ Candidate[i].family = "inet" /\ Candidate[j].family = "inet"
        /\ Candidate[i].port = 0 /\ Candidate[j].port = 0
    BY <2>1, CandidateDefined, AddressParts
  <2>4. Less(Candidate[i], Candidate[j])
          <=> Number(Candidate[i].ip) < Number(Candidate[j].ip) \/ 0 < 0
    BY <2>3 DEF Less
  <2> QED
    BY <1>1, <2>1, <2>2, <2>4
<1> QED
  BY <1>1, <1>2 DEF Ascending

(* For IPv4 the candidates are all hosts.                                  *)
LEMMA Exhaustive4 ==
  ASSUME IsNetspec, m_family = "inet", m_mask_size < Limit - 1
  PROVE  Exhaustive
<1>1. m_mask_size < Limit /\ Limit - m_mask_size \in Nat /\ 1 < Limit - m_mask_size
  <2>1. m_mask_size \in Nat /\ Limit \in Nat
    BY NetspecType, NetworkAssumption, AddressAssumption DEF Limit
  <2> QED
    BY <2>1
<1>2. /\ ~TooLarge /\ GetMax \in Nat /\ GetMax = Size - 2
      /\ GetMax = Pow2[Limit - m_mask_size] - 2
      /\ Size <= Pow2[ByteBits * Bytes4]
  BY <1>1, MaxSize
<1>3. GetMax # 0
  <2>1. 2 * Pow2[1] <= Pow2[Limit - m_mask_size]
    BY <1>1, Pow2Grows
  <2>2. Pow2[1] = 2
    BY Pow2Defined
  <2>3. Pow2[Limit - m_mask_size] \in Nat
    BY <1>1, Pow2Defined
  <2> QED
    BY <1>2, <2>1, <2>2, <2>3
<1>4. /\ First \in Nat /\ Size \in Nat
      /\ Width \in Nat /\ Width = Bytes4
      /\ NetworkAddress \in AddressesOf(m_family)
      /\ BroadcastAddress \in AddressesOf(m_family)
      /\ Number(NetworkAddress.ip) = First
      /\ Number(BroadcastAddress.ip) = First + Size - 1
  BY NetspecType, EndsAreInside, BroadcastNumber DEF First
<1> DEFINE V == {a \in AddressesOf(m_family) : a.port = 0}
<1>5. ASSUME NEW a \in V
      PROVE  a \in Hosts <=> First < Number(a.ip) /\ Number(a.ip) < First + Size - 1
  <2>1. /\ a \in [family : {m_family}, ip : [1 .. Width -> Byte], port : Ports]
        /\ a.port = 0
    BY AddressSet
  <2>2. DOMAIN NetworkAddress.ip = 1 .. Width
    BY <1>4, AddressParts
  <2>3. a \in Hosts <=> /\ Masked(a) = NetworkAddress
                        /\ a.ip # NetworkAddress.ip /\ a.ip # BroadcastAddress.ip
    BY <2>1, <2>2 DEF Hosts
  <2>4. Masked(a) = NetworkAddress <=> InNetwork(a)
    <3>1. Masked(a) \in AddressesOf(m_family) /\ NetworkAddress \in AddressesOf(m_family)
      BY <1>4, MaskedNumber
    <3>2. InNetwork(a) <=> /\ NetworkAddress.family = Masked(a).family
                           /\ NetworkAddress.port = Masked(a).port
                           /\ NetworkAddress.ip = Masked(a).ip
      BY <2>1 DEF InNetwork, Equal
    <3> QED
      BY <3>1, <3>2, SameAddress, AddressParts
  <2>5. InNetwork(a) <=> First <= Number(a.ip) /\ Number(a.ip) <= First + Size - 1
    BY InsideIsPrefix
  <2>6. a.ip # NetworkAddress.ip <=> Number(a.ip) # First
    BY <1>4, <2>1, AddressParts, NumberIsInjective
  <2>7. a.ip # BroadcastAddress.ip <=> Number(a.ip) # First + Size - 1
    BY <1>4, <2>1, AddressParts, NumberIsInjective
  <2>8. Number(a.ip) \in Nat
    BY NumberOf
  <2> QED
    BY <1>4, <2>3, <2>4, <2>5, <2>6, <2>7, <2>8
<1>6. Hosts \in SUBSET V
  <2>1. DOMAIN NetworkAddress.ip = 1 .. Width
    BY <1>4, AddressParts
  <2>2. Hosts \in SUBSET [family : {m_family}, ip : [1 .. Width -> Byte], port : {0}]
    BY <2>1 DEF Hosts
  <2> QED
    BY <2>2, AddressSet, PortRange
<1>7. ASSUME NEW i \in 0 .. GetMax - 1
      PROVE  /\ Candidate[i] \in V /\ Candidate[i] \in Hosts
             /\ Number(Candidate[i].ip) = First + i + 1
  <2>1. i \in Nat /\ i + 1 < Size
    BY <1>2, <1>4
  <2>2. Candidate[i] \in V /\ Number(Candidate[i].ip) = First + i + 1
    BY <2>1, CandidateDefined, CandidateNumber
  <2>3. First < First + i + 1 /\ First + i + 1 < First + Size - 1
    BY <1>2, <1>4
  <2> HIDE DEF V
  <2> QED
    BY <1>5, <2>2, <2>3
<1>8. Candidates = Hosts
  <2>1. ASSUME NEW a \in Hosts PROVE a \in Candidates
    <3>1. a \in V /\ Number(a.ip) \in Nat
      BY <1>6, NumberOf
    <3>2. First < Number(a.ip) /\ Number(a.ip) < First + Size - 1
      <4> HIDE DEF V
      <4> QED
        BY <1>5, <3>1
    <3> DEFINE i == Number(a.ip) - First - 1
    <3>3. i \in 0 .. GetMax - 1 /\ First + i + 1 = Number(a.ip)
      BY <1>2, <1>4, <3>1, <3>2
    <3> HIDE DEF i
    <3>4. Candidate[i] \in V /\ Number(Candidate[i].ip) = Number(a.ip)
      BY <1>7, <3>3
    <3>5. Candidate[i].ip = a.ip
      BY <1>4, <3>1, <3>4, AddressParts, NumberIsInjective
    <3>6. Candidate[i] = a
      BY <3>1, <3>4, <3>5, SameAddress
    <3> QED
      BY <3>3, <3>6 DEF Candidates
  <2>2. ASSUME NEW a \in Candidates PROVE a \in Hosts
    BY <1>7 DEF Candidates
  <2> QED
    BY <2>1, <2>2
<1>9. ASSUME NEW a \in Hosts PROVE Less(a, BroadcastAddress)
  <2>1. a \in V
    BY <1>6
  <2>2. Number(a.ip) < First + Size - 1
    <3> HIDE DEF V
    <3> QED
      BY <1>5, <2>1
  <2>3. a.family = "inet" /\ BroadcastAddress.family = "inet"
    BY <1>4, <2>1, AddressParts
  <2> QED
    BY <1>4, <2>2, <2>3 DEF Less
<1>10. \A i \in 0 .. GetMax - 1 : ~(i >= Pow2[ByteBits * Bytes4])
  <2>1. Pow2[ByteBits * Bytes4] \in Nat
    BY <1>4, NetspecType, Pow2Defined
  <2> QED
    BY <1>2, <1>4, <2>1
<1> QED
  BY <1>2, <1>3, <1>8, <1>9, <1>10 DEF Exhaustive

(* operator++ of an IPv6 address adds one to its last byte, if that is not *)
(* the largest one, ...                                                    *)
LEMMA LastByteCounts ==
  ASSUME IsNetspec, m_family = "inet6", NEW a \in AddressesOf(m_family),
         a.ip[Width] < Base - 1
  PROVE  /\ Increment(a).ip[Width] = a.ip[Width] + 1
         /\ \A i \in 1 .. Width - 1 : Increment(a).ip[i] = a.ip[i]
<1>1. Width \in Nat \ {0} /\ a \in AddressesOf("inet6") /\ a.ip \in [1 .. Width -> Byte]
  BY AddressParts, NetspecType
<1>2. BelowMax(a.ip) \in SUBSET (1 .. Width) /\ Width \in BelowMax(a.ip)
  BY <1>1 DEF BelowMax
<1> DEFINE last == Max(BelowMax(a.ip))
<1>3. /\ last \in BelowMax(a.ip) /\ Width <= last
      /\ Increment(a).ip = [a.ip EXCEPT ![last] = @ + 1]
  BY <1>1, <1>2, Increment6
<1> HIDE DEF last
<1>4. last = Width
  BY <1>1, <1>2, <1>3
<1> QED
  BY <1>1, <1>3, <1>4

(* ... which it is not for a network of no more addresses than a byte has. *)
LEMMA LastByteHasRoom ==
  ASSUME IsNetspec, m_family = "inet6", m_mask_size < Limit, GetMax < Base
  PROVE  /\ NetworkAddress.ip[Width] \in Nat
         /\ NetworkAddress.ip[Width] + GetMax < Base
<1>1. /\ Width \in Nat \ {0} /\ m_mask_size \in Nat /\ m_network \in AddressesOf(m_family)
      /\ GetMax \in Nat /\ GetMax <= Size - 2 /\ Size \in Nat \ {0}
      /\ Hidden(Width) = ByteBits * Width - m_mask_size
  BY NetspecType, MaxSize
<1>2. Width - 1 \in Nat /\ (Width - 1) + 1 = Width
  BY <1>1
<1>3. /\ HostBits(Width) \in 0 .. ByteBits
      /\ HostBits(Width) = Hidden(Width) \/ HostBits(Width) = ByteBits
  BY <1>1, <1>2, HiddenBits
<1> DEFINE r == m_network.ip[Width]
           h == HostBits(Width)
           y == Clear(r, Pow2[h])
<1>4. r \in Byte
  BY <1>1, AddressParts
<1>5. NetworkAddress.ip[Width] = r - (r % Pow2[h])
  <2>1. m_network.ip \in [1 .. Width -> Byte] /\ Width \in 1 .. Width
    BY <1>1, AddressParts
  <2> QED
    BY <2>1 DEF NetworkAddress, Masked, Prefix
<1> HIDE DEF r, h
<1>6. h \in 0 .. ByteBits
  BY <1>3 DEF h
<1>7. y = r - (r % Pow2[h]) /\ y \in Byte /\ y + Pow2[h] - 1 \in Byte
  BY <1>4, <1>6, ClearInByte
<1>8. y \in Nat /\ y + Pow2[h] - 1 < Base /\ r \in 0 .. Base - 1
  BY <1>4, <1>7, BaseIsPositive DEF Byte
<1>9. y + GetMax < Base
  <2>1. CASE h = ByteBits
    <3>1. Clear(r, Base) = 0
      BY <1>8, BaseIsPositive, ClearBytes
    <3> QED
      BY <1>1, <2>1, <3>1 DEF Base
  <2>2. CASE h = Hidden(Width)
    <3>1. Pow2[h] = Size
      BY <1>1, <2>2 DEF Size
    <3> HIDE DEF y
    <3> QED
      BY <1>1, <1>8, <3>1, BaseIsPositive
  <2> QED
    BY <1>3, <2>1, <2>2 DEF h
<1> QED
  BY <1>5, <1>7, <1>8, <1>9

(* Candidates of an IPv6 network differ in their last byte only, as long   *)
(* as it has room.                                                         *)
LEMMA CandidateBytes ==
  ASSUME IsNetspec, m_family = "inet6", m_mask_size < Limit, GetMax < Base,
         NEW n \in Nat, n < GetMax
  PROVE  /\ Candidate[n].ip[Width] = NetworkAddress.ip[Width] + n + 1
         /\ \A i \in 1 .. Width - 1 : Candidate[n].ip[i] = NetworkAddress.ip[i]
<1> DEFINE b == NetworkAddress.ip[Width]
           Holds(k) == /\ Candidate[k].ip[Width] = b + k + 1
                       /\ \A i \in 1 .. Width - 1 : Candidate[k].ip[i] = NetworkAddress.ip[i]
           S == {k \in Nat : k < GetMax => Holds(k)}
<1>1. b \in Nat /\ b + GetMax < Base /\ GetMax \in Nat /\ Base \in Nat
  BY LastByteHasRoom, MaxSize, BaseIsPositive
<1>2. 0 \in S
  <2> SUFFICES ASSUME 0 < GetMax PROVE Holds(0)
    OBVIOUS
  <2>1. b < Base - 1 /\ NetworkAddress \in AddressesOf(m_family)
    BY <1>1, EndsAreInside
  <2>2. /\ Increment(NetworkAddress).ip[Width] = b + 1
        /\ \A i \in 1 .. Width - 1 : Increment(NetworkAddress).ip[i] = NetworkAddress.ip[i]
    BY <2>1, LastByteCounts
  <2>3. b + 0 + 1 = b + 1
    BY <1>1
  <2> QED
    BY <2>2, <2>3, CandidateDefined
<1>3. ASSUME NEW k \in Nat, k \in S PROVE k + 1 \in S
  <2> SUFFICES ASSUME k + 1 < GetMax PROVE Holds(k + 1)
    OBVIOUS
  <2>1. Holds(k)
    BY <1>1, <1>3
  <2> HIDE DEF b
  <2>2. b + k + 1 < Base - 1 /\ b + (k + 1) + 1 = (b + k + 1) + 1
    BY <1>1
  <2>3. Candidate[k] \in AddressesOf(m_family) /\ Candidate[k].ip[Width] < Base - 1
    BY <2>1, <2>2, CandidateDefined
  <2>4. /\ Increment(Candidate[k]).ip[Width] = Candidate[k].ip[Width] + 1
        /\ \A i \in 1 .. Width - 1 : Increment(Candidate[k]).ip[i] = Candidate[k].ip[i]
    BY <2>3, LastByteCounts
  <2>5. Candidate[k + 1] = Increment(Candidate[k])
    BY CandidateDefined
  <2> QED
    BY <2>1, <2>2, <2>4, <2>5
<1> HIDE DEF S
<1>4. n \in S
  BY <1>2, <1>3, Induction
<1> QED
  BY <1>4 DEF S

(* So they are in ascending order.                                         *)
LEMMA Ascending6 ==
  ASSUME IsNetspec, m_family = "inet6", m_mask_size < Limit, GetMax < Base
  PROVE  Ascending
<1>1. GetMax \in Nat /\ NetworkAddress.ip[Width] \in Nat /\ Width \in Nat \ {0}
  BY MaxSize, LastByteHasRoom, NetspecType
<1>2. ASSUME NEW i \in 0 .. GetMax - 1, NEW j \in 0 .. GetMax - 1
      PROVE  Less(Candidate[i], Candidate[j]) <=> i < j
  <2>1. i \in Nat /\ j \in Nat /\ i < GetMax /\ j < GetMax
    BY <1>1
  <2> DEFINE p == Candidate[i].ip
             q == Candidate[j].ip
             b == NetworkAddress.ip[Width]
  <2>2. /\ p[Width] = b + i + 1 /\ q[Width] = b + j + 1
        /\ \A n \in 1 .. Width - 1 : p[n] = q[n]
    BY <2>1, CandidateBytes
  <2>3. /\ Candidate[i].family = "inet6" /\ Candidate[j].family = "inet6"
        /\ Candidate[i].port = 0 /\ Candidate[j].port = 0
        /\ p \in [1 .. Width -> Byte] /\ q \in [1 .. Width -> Byte]
    BY <2>1, CandidateDefined, AddressParts
  <2>4. Less(Candidate[i], Candidate[j]) <=> (\E n \in DOMAIN p : p[n] < q[n]) \/ 0 < 0
    BY <2>3 DEF Less
  <2>5. b \in Nat
    BY <1>1
  <2> HIDE DEF p, q, b
  <2>6. \A n \in 1 .. Width : p[n] \in Nat
    BY <2>3, BaseIsPositive DEF Byte
  <2>7. (\E n \in DOMAIN p : p[n] < q[n]) <=> p[Width] < q[Width]
    <3>1. DOMAIN p = 1 .. Width /\ Width \in 1 .. Width
      BY <1>1, <2>3
    <3>2. ASSUME NEW n \in 1 .. Width, n # Width PROVE ~(p[n] < q[n])
      <4>1. n \in 1 .. Width - 1
        BY <1>1, <3>2
      <4> QED
        BY <2>2, <2>6, <4>1
    <3> QED
      BY <3>1, <3>2
  <2> QED
    BY <2>1, <2>2, <2>4, <2>5, <2>7
<1> QED
  BY <1>1, <1>2 DEF Ascending

(* The property of the masks follows from the netspec alone.               *)
LEMMA NetspecIsPrefix == IsNetspec => MaskIsPrefix
<1> SUFFICES ASSUME IsNetspec PROVE MaskIsPrefix
  OBVIOUS
<1>1. /\ Width = AddrBytes[m_family]
      /\ Size = Pow2[ByteBits * AddrBytes[m_family] - m_mask_size]
      /\ Size \in Nat \ {0} /\ First \in Nat /\ First = Number(NetworkAddress.ip)
      /\ Number(BroadcastAddress.ip) = First + Size - 1
  BY NetspecType, EndsAreInside, BroadcastNumber DEF Size, Width, First
<1>2. ASSUME NEW a \in [family : {m_family}, ip : [1 .. AddrBytes[m_family] -> Byte],
                        port : {0, Base * Base - 1}]
      PROVE  /\ InNetwork(a)
                  <=> Number(a.ip) \div Pow2[ByteBits * AddrBytes[m_family] - m_mask_size]
                        = Number(m_network.ip)
                            \div Pow2[ByteBits * AddrBytes[m_family] - m_mask_size]
             /\ InNetwork(a) => Number(a.ip) <= Number(BroadcastAddress.ip)
  <2>1. a \in AddressesOf(m_family)
    BY <1>1, AddressSet, PortRange
  <2> QED
    BY <1>1, <2>1, InsideIsPrefix
<1>3. InNetwork(BroadcastAddress) /\ InNetwork(GatewayAddress)
  BY EndsAreInside
<1>4. ASSUME m_mask_size < Limit
      PROVE  IF m_family = "inet"
             THEN GetMax = Number(BroadcastAddress.ip) - Number(NetworkAddress.ip) - 1
             ELSE GetMax <= Number(BroadcastAddress.ip) - Number(NetworkAddress.ip) - 1
  <2>1. Number(BroadcastAddress.ip) - Number(NetworkAddress.ip) - 1 = Size - 2
    BY <1>1
  <2> QED
    BY <1>4, <2>1, MaxSize
<1>5. ASSUME m_mask_size < Limit, m_family = "inet" \/ GetMax < Base
      PROVE  Ascending
  BY <1>5, Ascending4, Ascending6, NetspecType DEF IPFamilies
<1>6. ASSUME m_mask_size < Limit - 1, m_family = "inet"
      PROVE  Exhaustive
  BY <1>6, Exhaustive4
<1> QED
  BY <1>2, <1>3, <1>4, <1>5, <1>6 DEF MaskIsPrefix

(* The network is always one that was named.                               *)
HasNetspec == \E n \in Netspecs : m_network = n.addr /\ m_mask_size = n.mask

(* The networks that clients name are such netspecs.                       *)
LEMMA NetspecsAre == HasNetspec => IsNetspec
BY NetworkAssumption DEF HasNetspec, IsNetspec, m_family

(* The network stays one that a client named.                              *)
LEMMA KeepsNetspec == HasNetspec /\ [Next]_vars => HasNetspec'
<1> SUFFICES ASSUME HasNetspec, [Next]_vars PROVE HasNetspec'
  OBVIOUS
<1>1. ASSUME NEW n \in Netspecs, Reset(n) PROVE HasNetspec'
  BY <1>1 DEF Reset, HasNetspec
<1>2. CASE UNCHANGED <<m_network, m_mask_size>>
  BY <1>2 DEF HasNetspec
<1> QED
  BY <1>1, <1>2 DEF Next, vars, Reserve, ReserveFor, MappedAddress, ReserveAddress,
                    ReleaseAddress, IsReserved

(* In every network, of any size and address, the masks stand for a prefix *)
(* and the candidates of reserve_address() are what MaskIsPrefix says.     *)
THEOREM MasksArePrefixes == Spec => []MaskIsPrefix
<1>1. Init => HasNetspec
  BY DEF Init, HasNetspec
<1> QED
  BY <1>1, KeepsNetspec, NetspecsAre, NetspecIsPrefix, PTL DEF Spec

-----------------------------------------------------------------------------
(* Candidates are counted by their places.                                 *)
LEMMA CountCandidates ==
  ASSUME Ascending, NEW k \in Nat, k <= GetMax
  PROVE  LET B == {Candidate[j] : j \in 0 .. k - 1}
         IN  IsFiniteSet(B) /\ Cardinality(B) = k
<1> DEFINE B == {Candidate[j] : j \in 0 .. k - 1}
           f == [j \in 0 .. k - 1 |-> Candidate[j]]
<1>1. 0 .. k - 1 \subseteq 0 .. GetMax - 1
  BY DEF Ascending
<1>2. \A i, j \in 0 .. k - 1 : f[i] = f[j] => i = j
  <2>1. ASSUME NEW i \in 0 .. k - 1, NEW j \in 0 .. k - 1, f[i] = f[j]
        PROVE  ~(i < j) /\ ~(j < i)
    BY <1>1, <2>1 DEF Ascending
  <2> QED
    BY <1>1, <2>1
<1>3. f \in [0 .. k - 1 -> B] /\ \A b \in B : \E j \in 0 .. k - 1 : f[j] = b
  OBVIOUS
<1> HIDE DEF f, B
<1>4. ExistsBijection(0 .. k - 1, B)
  BY <1>2, <1>3, Fun_IsBij DEF ExistsBijection
<1> QED
  BY <1>4, Below, FS_Bijection DEF B

(* As many reserved addresses precede a candidate as there are candidates  *)
(* before it, if these are reserved and no others are.                     *)
LEMMA PositionOfNext ==
  ASSUME Ascending, m_allocated \subseteq Candidates,
         NEW k \in 0 .. GetMax - 1,
         \A j \in 0 .. k - 1 : Candidate[j] \in m_allocated
  PROVE  Position(Candidate[k]) = k
<1>1. k \in Nat /\ k <= GetMax /\ 0 .. k - 1 \subseteq 0 .. GetMax - 1
  BY DEF Ascending
<1>2. ASSUME NEW b \in m_allocated
      PROVE  Less(b, Candidate[k]) <=> \E j \in 0 .. k - 1 : b = Candidate[j]
  <2>1. PICK i \in 0 .. GetMax - 1 : b = Candidate[i]
    BY DEF Candidates
  <2> QED
    BY <1>1, <2>1 DEF Ascending
<1>3. {b \in m_allocated : Less(b, Candidate[k])} = {Candidate[j] : j \in 0 .. k - 1}
  BY <1>2
<1> QED
  BY <1>1, <1>3, CountCandidates DEF Position

(* There is a place at which reserve_address() stops, and its candidate is *)
(* free.                                                                   *)
LEMMA NextIsFree ==
  ASSUME Ascending, IsFiniteSet(m_allocated), m_allocated \subseteq Candidates,
         Cardinality(m_allocated) < GetMax
  PROVE  /\ NextIndex \in 0 .. GetMax - 1
         /\ Candidate[NextIndex] \notin m_allocated
<1> DEFINE n == Cardinality(m_allocated)
           InPlace(k) == Candidate[k] \in m_allocated /\ Position(Candidate[k]) = k
           T == {k \in 0 .. n : ~InPlace(k)}
<1>1. n \in Nat /\ GetMax \in Nat
  BY FS_CardinalityType DEF Ascending
<1>2. ~InPlace(n)
  <2> SUFFICES ASSUME InPlace(n) PROVE FALSE
    OBVIOUS
  <2> DEFINE B == {b \in m_allocated : Less(b, Candidate[n])}
  <2>1. Cardinality(B) = n
    BY DEF Position
  <2>2. ~Less(Candidate[n], Candidate[n])
    BY <1>1 DEF Ascending
  <2>3. B \in SUBSET m_allocated /\ Candidate[n] \notin B
    BY <2>2
  <2> HIDE DEF B
  <2>4. B = m_allocated
    BY <2>1, <2>3, FS_Subset
  <2> QED
    BY <2>3, <2>4
<1>3. PICK m \in T : \A i \in 0 .. m - 1 : i \notin T
  <2>1. T \in SUBSET Nat /\ T # {}
    BY <1>1, <1>2
  <2> HIDE DEF T
  <2> QED
    BY <2>1, Least
<1>4. m \in 0 .. n /\ ~InPlace(m) /\ \A j \in 0 .. m - 1 : InPlace(j)
  BY <1>1, <1>3
<1> DEFINE Stops(k) ==
  /\ \A a \in m_allocated : ~(a = Candidate[k] /\ Position(a) = k)
  /\ \A j \in 0 .. k - 1 :
       \E a \in m_allocated : a = Candidate[j] /\ Position(a) = j
<1>5. NextIndex \in 0 .. n /\ Stops(NextIndex)
  <2>1. \E k \in 0 .. n : Stops(k)
    BY <1>4
  <2>2. NextIndex = CHOOSE k \in 0 .. n : Stops(k)
    BY DEF NextIndex
  <2> HIDE DEF Stops, n
  <2> QED
    BY <2>1, <2>2
<1>6. NextIndex \in 0 .. GetMax - 1
  BY <1>1, <1>5
<1>7. Candidate[NextIndex] \in m_allocated => Position(Candidate[NextIndex]) = NextIndex
  BY <1>5, <1>6, PositionOfNext
<1> QED
  BY <1>5, <1>6, <1>7

(* While the candidates ascend, and as long as clients themselves name no  *)
(* address of the network that is not one of them ...                      *)
Orderly ==
  ~TooLarge =>
    Ascending /\ NamesHosts

(* ... only candidates are reserved.                                       *)
Inv ==
  /\ IsFiniteSet(m_allocated)
  /\ ~TooLarge => m_allocated \subseteq Candidates

(* What reserve_address() and its form for an identifier return is new.    *)
LEMMA ReservesCandidate ==
  ASSUME Inv, Orderly, Reserve, result'.ret = "ok"
  PROVE  /\ ~TooLarge
         /\ result'.addr \in Candidates \ m_allocated
         /\ m_allocated' = m_allocated \union {result'.addr}
<1>1. ~TooLarge
  BY DEF Reserve, Throw, Outcome
<1>2. Ascending /\ m_allocated \subseteq Candidates /\ IsFiniteSet(m_allocated)
  BY <1>1 DEF Inv, Orderly
<1>3. ~(GetMax <= Cardinality(m_allocated))
  BY <1>1 DEF Reserve, Throw, Outcome
<1>4. Cardinality(m_allocated) < GetMax
  BY <1>2, <1>3, FS_CardinalityType DEF Ascending
<1>5. Candidate[NextIndex] \in Candidates \ m_allocated
  BY <1>2, <1>4, NextIsFree DEF Candidates
<1>6. Allocate("reserve", Unspec, Candidate[NextIndex])
  BY <1>1, <1>3 DEF Reserve, Throw, Outcome
<1> QED
  BY <1>1, <1>5, <1>6 DEF Allocate, Outcome

(* mapped_address() returns a candidate.                                   *)
LEMMA MapsToCandidate ==
  ASSUME NEW id \in Identifiers, Orderly, MapResult(id) = "ok"
  PROVE  ~TooLarge /\ Mapped(id) \in Candidates
<1>1. ~TooLarge /\ GetMax # 0
  BY DEF MapResult
<1>2. GetMax \in Nat /\ HashOf[id] \in Nat
  BY <1>1, NetworkAssumption DEF Orderly, Ascending
<1>3. HashOf[id] % GetMax \in 0 .. GetMax - 1
  BY <1>1, <1>2
<1> QED
  BY <1>1, <1>3 DEF Mapped, Candidates

(* reserve_address() of an identifier takes a candidate that is free.      *)
LEMMA ReservesForCandidate ==
  ASSUME NEW id \in Identifiers, Orderly, ReserveFor(id), result'.ret = "ok"
  PROVE  /\ ~TooLarge
         /\ result'.addr \in Candidates \ m_allocated
         /\ m_allocated' = m_allocated \union {result'.addr}
<1>1. MapResult(id) = "ok" /\ Mapped(id) \notin m_allocated
  BY DEF ReserveFor, Throw, Outcome
<1>2. Allocate("reserve_id", id, Mapped(id))
  BY <1>1 DEF ReserveFor
<1> QED
  BY <1>1, <1>2, MapsToCandidate DEF Allocate, Outcome

(* The candidates are those of the netspec.                                *)
LEMMA CandidatesStay ==
  ASSUME UNCHANGED <<m_network, m_mask_size>>
  PROVE  Candidates' = Candidates /\ TooLarge' = TooLarge
<1>1. Candidate' = Candidate
  BY DEF Candidate, NetworkAddress, Masked, Prefix, HostBits
<1>2. GetMax' = GetMax /\ TooLarge' = TooLarge
  BY DEF GetMax, TooLarge, Limit, m_family
<1> QED
  BY <1>1, <1>2 DEF Candidates

(* Only candidates are reserved by a step.                                 *)
LEMMA InvNext ==
  ASSUME Inv, Orderly, [Next]_vars
  PROVE  Inv'
<1> DEFINE Stays == UNCHANGED <<m_network, m_mask_size>>
<1>1. ASSUME Stays, m_allocated' \subseteq m_allocated PROVE Inv'
  <2>1. IsFiniteSet(m_allocated')
    BY <1>1, FS_Subset DEF Inv
  <2> QED
    BY <1>1, <2>1, CandidatesStay DEF Inv
<1>2. ASSUME Stays, NEW a, m_allocated' = m_allocated \union {a},
             ~TooLarge => a \in Candidates
      PROVE  Inv'
  <2>1. IsFiniteSet(m_allocated')
    BY <1>2, FS_AddElement DEF Inv
  <2> QED
    BY <1>2, <2>1, CandidatesStay DEF Inv
<1>3. CASE Reserve
  <2>1. Stays
    BY <1>3 DEF Reserve
  <2>2. CASE result'.ret = "ok"
    BY <1>2, <1>3, <2>1, <2>2, ReservesCandidate
  <2>3. CASE result'.ret # "ok"
    <3>1. m_allocated' = m_allocated
      BY <1>3, <2>3 DEF Reserve, Throw, Allocate, Outcome
    <3> QED
      BY <1>1, <2>1, <3>1
  <2> QED
    BY <2>2, <2>3
<1>4. ASSUME NEW id \in Identifiers, ReserveFor(id) PROVE Inv'
  <2>1. Stays
    BY <1>4 DEF ReserveFor
  <2>2. CASE result'.ret = "ok"
    BY <1>2, <1>4, <2>1, <2>2, ReservesForCandidate
  <2>3. CASE result'.ret # "ok"
    <3>1. m_allocated' = m_allocated
      BY <1>4, <2>3 DEF ReserveFor, Throw, Allocate, Outcome
    <3> QED
      BY <1>1, <2>1, <3>1
  <2> QED
    BY <2>2, <2>3
<1>5. ASSUME NEW id \in Identifiers, MappedAddress(id) PROVE Inv'
  BY <1>1, <1>5 DEF MappedAddress, Throw, Outcome
<1>6. ASSUME NEW a \in Requested \union m_allocated, ReserveAddress(a) PROVE Inv'
  <2>1. Stays
    BY <1>6 DEF ReserveAddress
  <2>2. CASE InNetwork(a) /\ a \notin m_allocated
    <3>1. ~TooLarge => a \in Candidates
      BY <1>6, <2>2 DEF Orderly, NamesHosts
    <3>2. m_allocated' = m_allocated \union {a}
      BY <1>6, <2>2 DEF ReserveAddress, Allocate
    <3> QED
      BY <1>2, <2>1, <3>1, <3>2
  <2>3. CASE ~(InNetwork(a) /\ a \notin m_allocated)
    BY <1>1, <1>6, <2>1, <2>3 DEF ReserveAddress, Throw
  <2> QED
    BY <2>2, <2>3
<1>7. ASSUME NEW a \in Requested \union m_allocated,
             ReleaseAddress(a) \/ IsReserved(a)
      PROVE  Inv'
  BY <1>1, <1>7 DEF ReleaseAddress, IsReserved, Throw, Outcome
<1>8. ASSUME NEW n \in Netspecs, Reset(n) PROVE Inv'
  BY <1>8, FS_EmptySet DEF Reset, Inv
<1>9. CASE UNCHANGED vars
  BY <1>1, <1>9 DEF vars
<1> QED
  BY <1>3, <1>4, <1>5, <1>6, <1>7, <1>8, <1>9 DEF Next

(* The networks whose addresses are counted without a carry, or not at all.*)
CountsUp(n) ==
  IF n.addr.family = "inet" THEN n.mask # ByteBits * Bytes4
  ELSE n.mask # NetworkLimit /\ NetworkLimit <= n.mask + ByteBits

(* A network whose addresses have no byte to carry is orderly.             *)
LEMMA NetspecIsOrderly ==
  ASSUME \A n \in Netspecs : CountsUp(n), HasNetspec, ~TooLarge => NamesHosts
  PROVE  Orderly
<1> SUFFICES ASSUME ~TooLarge PROVE Ascending
  BY DEF Orderly
<1>1. IsNetspec
  BY NetspecsAre
<1>2. CountsUp([addr |-> m_network, mask |-> m_mask_size])
  BY DEF HasNetspec, CountsUp
<1>3. /\ m_mask_size \in Nat /\ Limit \in Nat /\ ByteBits \in Nat
      /\ m_mask_size <= Limit /\ m_mask_size # Limit
  <2>1. m_mask_size \in Nat /\ NetworkLimit \in Nat /\ ByteBits * Bytes4 \in Nat
    BY <1>1, NetspecType, NetworkAssumption, AddressAssumption
  <2>2. m_mask_size # Limit
    BY <1>2 DEF CountsUp, Limit, m_family
  <2>3. Limit \in Nat
    BY <2>1 DEF Limit
  <2>4. ~(m_mask_size > Limit)
    BY DEF TooLarge
  <2> QED
    BY <2>1, <2>2, <2>3, <2>4, AddressAssumption
<1>4. CASE m_family = "inet"
  BY <1>1, <1>3, <1>4, Ascending4
<1>5. CASE m_family = "inet6"
  <2>1. NetworkLimit <= m_mask_size + ByteBits /\ Limit = NetworkLimit
    BY <1>2, <1>5 DEF CountsUp, Limit, m_family
  <2>2. Limit - m_mask_size \in Nat /\ Limit - m_mask_size <= ByteBits
    BY <1>3, <2>1
  <2>3. Pow2[Limit - m_mask_size] <= Base /\ Pow2[Limit - m_mask_size] \in Nat
    BY <1>3, <2>2, Pow2Grows, Pow2Defined DEF Base
  <2>4. GetMax = Pow2[Limit - m_mask_size] - 2
    BY <1>1, <1>3, MaxSize
  <2>5. GetMax < Base
    BY <2>3, <2>4, BaseIsPositive
  <2> QED
    BY <1>1, <1>3, <1>5, <2>5, Ascending6
<1> QED
  BY <1>1, <1>4, <1>5, NetspecType DEF IPFamilies

(* reserve_address() returns no address that is reserved, whatever was     *)
(* reserved and released before, and by name or for an identifier, as long *)
(* as clients name hosts: in each IPv4 network of more than one address,   *)
(* and in each IPv6 network whose candidates differ in their last byte.    *)
THEOREM ReservesOnlyNew ==
  ASSUME \A n \in Netspecs : CountsUp(n)
  PROVE  Spec /\ [](~TooLarge => NamesHosts) => ReservesNew
<1>1. Init => Inv
  BY FS_EmptySet DEF Init, Inv
<1>2. Inv /\ Orderly /\ [Next]_vars => Inv'
  BY InvNext
<1>3. Inv /\ Orderly /\ [Next]_vars
        => [result'.call \in {"reserve", "reserve_id"} /\ result'.ret = "ok"
              => result'.addr \notin m_allocated]_vars
  <2> SUFFICES ASSUME Inv, Orderly, Next,
                      result'.call \in {"reserve", "reserve_id"}, result'.ret = "ok"
               PROVE  result'.addr \notin m_allocated
    BY DEF vars
  <2>1. CASE Reserve
    BY <2>1, ReservesCandidate
  <2>2. ASSUME NEW id \in Identifiers, ReserveFor(id)
        PROVE  result'.addr \notin m_allocated
    BY <2>2, ReservesForCandidate
  <2>3. ASSUME NEW id \in Identifiers, MappedAddress(id) PROVE FALSE
    BY <2>3 DEF MappedAddress, Throw, Outcome
  <2>4. ASSUME NEW a \in Requested \union m_allocated,
               ReserveAddress(a) \/ ReleaseAddress(a) \/ IsReserved(a)
        PROVE  FALSE
    BY <2>4 DEF ReserveAddress, ReleaseAddress, IsReserved, Allocate, Throw, Outcome
  <2>5. ASSUME NEW n \in Netspecs, Reset(n) PROVE FALSE
    BY <2>5 DEF Reset, Outcome
  <2> QED
    BY <2>1, <2>2, <2>3, <2>4, <2>5 DEF Next
<1>4. HasNetspec /\ (~TooLarge => NamesHosts) => Orderly
  BY NetspecIsOrderly
<1>5. Init => HasNetspec
  BY DEF Init, HasNetspec
<1> QED
  BY <1>1, <1>2, <1>3, <1>4, <1>5, KeepsNetspec, PTL DEF Spec, ReservesNew

-----------------------------------------------------------------------------
(* What a network promises, as long as its candidates are all its hosts.   *)
Usable == Ascending /\ Exhaustive /\ NamesHosts

(* A pool is orderly.                                                      *)
LEMMA UsableIsOrderly == Usable => Orderly
BY DEF Usable, Orderly

(* Host addresses are addresses of the network.                            *)
LEMMA HostsAreInside ==
  ASSUME NEW a \in Hosts
  PROVE  InNetwork(a)
BY DEF Hosts, InNetwork, Equal

(* Identifiers are mapped to host addresses.                               *)
LEMMA NamesAreHosts ==
  Usable => [id \in Identifiers |-> Mapped(id)] \in [Identifiers -> Hosts]
<1> SUFFICES ASSUME Usable, NEW id \in Identifiers PROVE Mapped(id) \in Hosts
  OBVIOUS
<1>1. GetMax \in Nat \ {0} /\ HashOf[id] \in Nat
  BY NetworkAssumption DEF Usable, Ascending, Exhaustive
<1>2. HashOf[id] % GetMax \in 0 .. GetMax - 1
  BY <1>1
<1> QED
  BY <1>2 DEF Mapped, Candidates, Usable, Exhaustive

(* mapped_address() of a pool returns.                                     *)
LEMMA MapsAll ==
  ASSUME Usable, NEW id \in Identifiers
  PROVE  MapResult(id) = "ok"
<1>1. GetMax \in Nat \ {0} /\ HashOf[id] \in Nat
  BY NetworkAssumption DEF Usable, Ascending, Exhaustive
<1>2. HashOf[id] % GetMax \in 0 .. GetMax - 1
  BY <1>1
<1> QED
  BY <1>2 DEF MapResult, Usable, Exhaustive

(* The pool stays what it is until the network is reset.                   *)
LEMMA PoolStays ==
  ASSUME UNCHANGED <<m_network, m_mask_size>>
  PROVE  /\ Hosts' = Hosts
         /\ [id \in Identifiers |-> Mapped(id)]' = [id \in Identifiers |-> Mapped(id)]
<1>1. Candidate' = Candidate
  BY DEF Candidate, NetworkAddress, Masked, Prefix, HostBits
<1>2. GetMax' = GetMax
  BY DEF GetMax, Limit, m_family
<1>3. Hosts' = Hosts
  BY DEF Hosts, NetworkAddress, BroadcastAddress, Masked, Prefix, HostBits, m_family
<1> QED
  BY <1>1, <1>2, <1>3 DEF Mapped

(* reserve_address() refuses only if every host is reserved.               *)
LEMMA ReserveTakes ==
  ASSUME Inv, Usable, Reserve
  PROVE  Pool!Reserve
<1>1. ~TooLarge /\ Ascending /\ Candidates = Hosts /\ GetMax \in Nat
  BY DEF Usable, Exhaustive, Ascending
<1>2. IsFiniteSet(m_allocated) /\ m_allocated \subseteq Hosts
  BY <1>1 DEF Inv
<1>3. Cardinality(m_allocated) \in Nat
  BY <1>2, FS_CardinalityType
<1>4. CASE GetMax <= Cardinality(m_allocated)
  <2>1. IsFiniteSet(Hosts) /\ Cardinality(Hosts) = GetMax
    BY <1>1, CountCandidates DEF Candidates
  <2>2. Hosts = m_allocated
    <3>1. m_allocated \in SUBSET Hosts
      BY <1>2
    <3>2. Cardinality(m_allocated) = Cardinality(Hosts)
      BY <1>1, <1>3, <1>4, <2>1, <3>1, FS_Subset
    <3> QED
      BY <2>1, <3>1, <3>2, FS_Subset
  <2>3. Throw("reserve", Unspec, "out_of_range")
    BY <1>1, <1>4 DEF Reserve
  <2> QED
    BY <2>2, <2>3 DEF Throw, Outcome, Pool!Reserve, Pool!Refuse, Pool!Outcome
<1>5. CASE ~(GetMax <= Cardinality(m_allocated))
  <2>1. Candidate[NextIndex] \in Hosts \ m_allocated
    BY <1>1, <1>2, <1>3, <1>5, NextIsFree DEF Candidates
  <2>2. Less(Candidate[NextIndex], BroadcastAddress)
    BY <2>1 DEF Usable, Exhaustive
  <2>3. Allocate("reserve", Unspec, Candidate[NextIndex])
    BY <1>1, <1>5, <2>2 DEF Reserve
  <2> QED
    BY <2>1, <2>3 DEF Allocate, Outcome, Pool!Reserve, Pool!Take, Pool!Outcome
<1> QED
  BY <1>4, <1>5

(* A step of the network is a step of the pool, or none.                   *)
LEMMA StepSimulation ==
  ASSUME Inv, Usable, [id \in Identifiers |-> Mapped(id)]' \in [Identifiers -> Hosts'],
         [Next]_vars
  PROVE  [Pool!Next]_Pool!vars
<1> DEFINE Stays == UNCHANGED <<m_network, m_mask_size>>
<1> USE DEF Outcome, Throw, Allocate,
            Pool!Outcome, Pool!Take, Pool!Refuse
<1>1. ASSUME Stays,
             \/ Pool!Reserve
             \/ \E id \in Identifiers : Pool!ReserveFor(id) \/ Pool!MappedAddress(id)
             \/ Pool!ReserveAddress(result'.arg)
             \/ Pool!ReleaseAddress(result'.arg)
             \/ Pool!IsReserved(result'.arg)
      PROVE  Pool!Next
  BY <1>1, PoolStays DEF Pool!Next
<1>2. CASE Reserve
  BY <1>1, <1>2, ReserveTakes DEF Reserve
<1>3. ASSUME NEW id \in Identifiers, ReserveFor(id) \/ MappedAddress(id)
      PROVE  Pool!Next
  <2>1. MapResult(id) = "ok" /\ Mapped(id) \in Hosts
    BY MapsAll, NamesAreHosts
  <2>2. Pool!ReserveFor(id) \/ Pool!MappedAddress(id)
    BY <1>3, <2>1 DEF ReserveFor, MappedAddress, Pool!ReserveFor, Pool!MappedAddress
  <2>3. Stays
    BY <1>3 DEF ReserveFor, MappedAddress
  <2> QED
    BY <1>1, <2>2, <2>3
<1>4. ASSUME NEW a \in Requested \union m_allocated, ReserveAddress(a)
      PROVE  Pool!Next
  <2>1. Stays /\ result'.arg = a
    BY <1>4 DEF ReserveAddress
  <2>2. CASE InNetwork(a) /\ a \notin m_allocated
    <3>1. a \in Hosts
      BY <1>4, <2>2 DEF Usable, NamesHosts, Exhaustive
    <3> QED
      BY <1>1, <1>4, <2>1, <2>2, <3>1 DEF ReserveAddress, Pool!ReserveAddress
  <2>3. CASE ~(InNetwork(a) /\ a \notin m_allocated)
    <3>1. a \notin Hosts \ m_allocated
      BY <2>3, HostsAreInside
    <3> QED
      BY <1>1, <1>4, <2>1, <2>3, <3>1 DEF ReserveAddress, Pool!ReserveAddress
  <2> QED
    BY <2>2, <2>3
<1>5. ASSUME NEW a \in Requested \union m_allocated, ReleaseAddress(a)
      PROVE  Pool!Next
  <2>1. Stays /\ result'.arg = a
    BY <1>5 DEF ReleaseAddress
  <2>2. ~TooLarge /\ Ascending /\ Candidates = Hosts
    BY DEF Usable, Exhaustive, Ascending
  <2>3. a \in m_allocated => a \in Hosts
    BY <2>2 DEF Inv
  <2> QED
    BY <1>1, <1>5, <2>1, <2>3 DEF ReleaseAddress, Pool!ReleaseAddress
<1>6. ASSUME NEW a \in Requested \union m_allocated, IsReserved(a)
      PROVE  Pool!Next
  <2>1. Stays /\ result'.arg = a
    BY <1>6 DEF IsReserved
  <2> QED
    BY <1>1, <1>6, <2>1 DEF IsReserved, Pool!IsReserved
<1>7. ASSUME NEW n \in Netspecs, Reset(n)
      PROVE  Pool!Next
  BY <1>7 DEF Reset, Pool!Next, Pool!Reset
<1>8. CASE UNCHANGED vars
  <2>1. UNCHANGED <<m_allocated, result>> /\ Stays
    BY <1>8 DEF vars
  <2> QED
    BY <2>1, PoolStays DEF Pool!vars
<1> QED
  BY <1>2, <1>3, <1>4, <1>5, <1>6, <1>7, <1>8 DEF Next

(* An IPv4 network of any size that has hosts implements the pool of its   *)
(* hosts, as long as clients name no others of its addresses.              *)
THEOREM NetworkIsPool ==
  ASSUME \A n \in Netspecs :
           n.addr.family = "inet" /\ n.mask < ByteBits * Bytes4 - 1
  PROVE  Spec /\ []NamesHosts => ImplementsPool
<1>1. Init => Inv
  BY FS_EmptySet DEF Init, Inv
<1>2. Inv /\ Orderly /\ [Next]_vars => Inv'
  BY InvNext
<1> DEFINE Names == [id \in Identifiers |-> Mapped(id)] \in [Identifiers -> Hosts]
<1>3. Usable => Orderly
  BY UsableIsOrderly
<1>4. Usable => Names
  BY NamesAreHosts
<1>5. Init /\ Names => Pool!Init
  BY DEF Init, Pool!Init
<1>6. Inv /\ Usable /\ Names' /\ [Next]_vars => [Pool!Next]_Pool!vars
  BY StepSimulation
<1>7. HasNetspec /\ NamesHosts => Usable
  <2> SUFFICES ASSUME HasNetspec, NamesHosts PROVE Usable
    OBVIOUS
  <2>1. m_family = "inet" /\ m_mask_size < Limit - 1
    BY DEF HasNetspec, Limit, m_family
  <2>2. IsNetspec
    BY NetspecsAre
  <2>3. m_mask_size < Limit
    <3>1. m_mask_size \in Nat /\ Limit \in Nat
      BY <2>2, NetspecType, NetworkAssumption, AddressAssumption DEF Limit
    <3> QED
      BY <2>1, <3>1
  <2> QED
    BY <2>1, <2>2, <2>3, Ascending4, Exhaustive4 DEF Usable
<1>8. Init => HasNetspec
  BY DEF Init, HasNetspec
<1> QED
  BY <1>1, <1>2, <1>3, <1>4, <1>5, <1>6, <1>7, <1>8, KeepsNetspec,
     PTL DEF Spec, ImplementsPool, Pool!Spec
=============================================================================
