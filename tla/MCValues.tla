------------------------------ MODULE MCValues ------------------------------
(***************************************************************************)
(* Instances for TLC of the components that compute values: addresses,     *)
(* masks, serialization and checksums; the encodings of texts, paths, URLs *)
(* and netspecs; and what is made of packets, answers and errors.  They    *)
(* share nothing, so a behaviour exercises one of them, and the others     *)
(* stay as they are.                                                       *)
(***************************************************************************)
EXTENDS AddressObjects, Network, Cidr, IpPacket, Serialization, Crc32,
  VarintType, Texts, Url, Resolve, ErrorText

CONSTANT Parts (* The components that are exercised.                        *)

VARIABLES                                        \* Besides those of the above:
  part,                                          \* the component of a behaviour,
  size, base, line_pc, shown, linebuf, lines,    \* of Hexdump,
  root, names                                    \* of Paths.

masks    == vars
cidrs    == cidr_vars
packets  == packet_vars
resolved == resolve_vars
net      == <<data, masks, cidrs, packets, resolved>>

integers  == serial_vars
varints   == varint_vars
checksums == crc_vars
numbers   == <<integers, varints, checksums>>

hexdump == <<size, base, line_pc, shown, linebuf, lines>>
urls    == url_vars
paths   == <<root, names>>
errors  == error_vars
texts   == <<text, hexdump, urls, paths, errors>>

-----------------------------------------------------------------------------
(* Addresses.                                                              *)

(* Bytes of two bits, IPv4 addresses of two of them, IPv6 ones of three.   *)
IPv4(n) == [family |-> "inet", ip |-> FromNumber(n, Bytes4), port |-> 0]
IPv6(n) == [family |-> "inet6", ip |-> FromNumber(n, Bytes6), port |-> 0]

(* An IPv4 address that is counted up to the last one and from there on,   *)
(* IPv6 ones with and without bytes to carry, and every path.              *)
SomeAddresses == {IPv4(14), IPv6(0), IPv6(27)} \union AddressesOf("local")
SomePorts     == {0, Base * Base - 1}

(* Every mask of both families.                                            *)
AllNetworks ==
  [addr : {IPv4(n) : n \in {0, 6, 13}}, mask : 1 .. ByteBits * Bytes4]
    \union [addr : {IPv6(n) : n \in {0, 27, 45}}, mask : 1 .. ByteBits * Bytes6]

NoHashes == <<>>

(* Numbers that are the largest mask of either family, or more than the    *)
(* largest port.                                                           *)
SomeGiven == {IPv4(6), IPv6(27)}
SomeRuns  == {0, 4, 6, 20}

(* Headers of both versions and of none, in which no two bytes are equal,  *)
(* and a byte behind each.                                                 *)
Header(version, bytes) ==
  [i \in 1 .. bytes + 1 |-> IF i = 1 THEN version * 16 + 15 ELSE i]

SomePackets == {Header(4, 20), Header(6, 40), Header(5, 40)}

(* No port, none that is a number or an int, the largest one and one       *)
(* behind it.                                                              *)
PortsInNames == {NoPort, BadPort, HugePort, PortValues - 1, PortValues}

-----------------------------------------------------------------------------
(* Numbers.                                                                *)

(* Varints of up to four units.                                            *)
SomeVarints == 0 .. 15

(* The polynomial x^4 + x + 1, reversed.                                   *)
SomePolynomial == {2, 3}

-----------------------------------------------------------------------------
(* Texts.                                                                  *)

(* A NUL, the percent sign, 4, <, F, g and a character that is not one     *)
(* of ASCII.                                                               *)
SomeCharacters == {0, 37, 52, 60, 70, 103, 233}

(* Columns of a byte, with a frame; inputs of none to two lines and a byte *)
(* from zero, and from an offset whose digits do not all fit.              *)
H == INSTANCE Hexdump WITH
  OffsetSize <- 1, BytesPerLine <- 8, BytesPerColumn <- 1, Groups <- 2,
  ColumnPad <- 1, GroupPad <- 2, Frame <- TRUE,
  Sizes <- 0 .. 17, Bases <- {0, 250}, pc <- line_pc, result <- lines

(* A scheme with its separator, a start that is none, and one that becomes *)
(* one with another slash.                                                 *)
SomeStarts ==
  {<<Plain("A"), Plain(":"), Plain("/"), Plain("/")>>,
   <<Plain("A"), Plain(":"), Plain("/"), Plain("A")>>,
   <<Plain("A"), Plain("/"), Plain(":"), Plain("/")>>}

SomeLetters == {Plain(c) : c \in {"/", "?", "#", "&", "=", ",", "A", "yes"}}
LowerCase   == [c \in {"A"} |-> "a"]

(* One that is printed as another.                                         *)
PrintedAs == [c \in UrlChars \ UrlKept |-> IF c = "," THEN "-" ELSE c]

(* A letter in both cases, the colon of a drive, and the other delimiter.  *)
F == INSTANCE Paths WITH
  UpperOf <- [c \in {"a"} |-> "A"], Chars <- {"a", "A", ":", "\\"},
  MaxChars <- 3, MaxNames <- 2

ASSUME ValuesAssumption == H!HexdumpAssumption

-----------------------------------------------------------------------------
(* The components not exercised start in one of their initial states.      *)
InitOfNet ==
  /\ ObjectsInit
  /\ Init /\ (part # "masks" =>
                m_network = IPv4(0) /\ m_mask_size = ByteBits * Bytes4)
  /\ CidrInit /\ (part # "cidrs" => network = [addr |-> IPv4(6), mask |-> 4])
  /\ PacketInit /\ (part # "packets" => packet = Header(4, 20))
  /\ ResolveInit /\ (part # "resolved" =>
                       request = [type |-> "AT_LOCAL", host |-> "", port |-> NoPort])

InitOfNumbers == SerialInit /\ VarintInit /\ CrcInit

InitOfTexts ==
  /\ TextInit
  /\ H!Init /\ (part # "hexdump" => size = 0 /\ base = 0)
  /\ UrlInit /\ (part # "urls" => url_text[2] = Plain("/"))
  /\ F!Init /\ (part # "paths" => root = "root")
  /\ ErrorInit

ValuesInit == part \in Parts /\ InitOfNet /\ InitOfNumbers /\ InitOfTexts

NextOfNet ==
  \/ part = "addresses" /\ ObjectsNext /\ UNCHANGED <<masks, cidrs, packets, resolved>>
  \/ /\ part = "masks" /\ \E n \in Netspecs : Reset(n)
     /\ UNCHANGED <<data, cidrs, packets, resolved>>
  \/ part = "cidrs" /\ CidrNext /\ UNCHANGED <<data, masks, packets, resolved>>
  \/ part = "packets" /\ PacketNext /\ UNCHANGED <<data, masks, cidrs, resolved>>
  \/ part = "resolved" /\ ResolveNext /\ UNCHANGED <<data, masks, cidrs, packets>>

NextOfNumbers ==
  \/ part = "integers" /\ SerialNext /\ UNCHANGED <<varints, checksums>>
  \/ part = "varint" /\ VarintNext /\ UNCHANGED <<integers, checksums>>
  \/ part = "checksums" /\ CrcNext /\ UNCHANGED <<integers, varints>>

NextOfTexts ==
  \/ part = "texts" /\ TextNext /\ UNCHANGED <<hexdump, urls, paths, errors>>
  \/ part = "hexdump" /\ H!Next /\ UNCHANGED <<text, urls, paths, errors>>
  \/ part = "urls" /\ UrlNext /\ UNCHANGED <<text, hexdump, paths, errors>>
  \/ part = "paths" /\ F!Next /\ UNCHANGED <<text, hexdump, urls, errors>>
  \/ part = "errors" /\ ErrorNext /\ UNCHANGED <<text, hexdump, urls, paths>>

ValuesNext ==
  /\ UNCHANGED part
  /\ \/ NextOfNet /\ UNCHANGED <<numbers, texts>>
     \/ NextOfNumbers /\ UNCHANGED <<net, texts>>
     \/ NextOfTexts /\ UNCHANGED <<net, numbers>>

ValuesSpec == ValuesInit /\ [][ValuesNext]_<<part, net, numbers, texts>>

-----------------------------------------------------------------------------
(* The properties of the components that are instances, each stated where  *)
(* its component is.                                                       *)

(* A hexdump shows the input where its layout puts it, and nothing else.   *)
ShowsInput == part = "hexdump" => H!ShowsInput

(* Paths are converted to the other form and back.                         *)
ConvertsPaths == part = "paths" => F!ConvertsPaths

=============================================================================
