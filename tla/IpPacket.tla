------------------------------ MODULE IpPacket ------------------------------
(***************************************************************************)
(* The addresses in the header of an IP packet of which any number of      *)
(* bytes have arrived.                                                     *)
(***************************************************************************)
EXTENDS SocketAddress

CONSTANT Packets  (* Packets: sequences of bytes.                           *)

VARIABLES
  packet,         (* The packet that is received.                           *)
  bufsize,        (* How many of its bytes are in the buffer.               *)
  source, dest,   (* The client's two addresses.                            *)
  asked, returned (* What the last call was to parse, and what it returned. *)

packet_vars == <<packet, bufsize, source, dest, asked, returned>>

(* The bytes behind the first offset ones.                                 *)
Take(offset, n) == SubSeq(packet, offset + 1, offset + n)

(* The constructor from a type and bytes.                                  *)
Address(f, ip) == [family |-> f, ip |-> ip, port |-> 0]

(* The version, in the upper half of the first byte.                       *)
Proto == packet[1] \div 16

(* A fault: the offset of the source address in both.                      *)
OffsetUnmoved(f, which) == IF f = "inet" THEN 12 ELSE 8

(* Where the addresses start, and their bytes.                             *)
Offset(f, which) ==
  CASE f = "inet"  -> IF which = "source" THEN 12 ELSE 16
    [] f = "inet6" -> IF which = "source" THEN 8 ELSE 24

Length(f) == IF f = "inet" THEN 4 ELSE 16

(* parse_address_helper().  The addresses are taken in turn, so the source *)
(* may be overwritten though the destination is cut off.                   *)
Parse(which) ==
  LET families == {f \in IPFamilies :
                     bufsize > 0 /\ Proto = (IF f = "inet" THEN 4 ELSE 6)}
      f        == CHOOSE g \in families : TRUE
      Fits(w)  == Offset(f, w) + Length(f) <= bufsize
      Read(w)  == Address(f, Take(Offset(f, w), Length(f)))
      first    == families # {} /\ ("source" \in which => Fits("source"))
      second   == first /\ ("dest" \in which => Fits("dest"))
  IN  /\ source' = IF first /\ "source" \in which THEN Read("source") ELSE source
      /\ dest'   = IF second /\ "dest" \in which THEN Read("dest") ELSE dest
      /\ asked' = which /\ returned' = second
      /\ UNCHANGED <<packet, bufsize>>

ParseAddresses     == Parse({"source", "dest"})
ParseSourceAddress == Parse({"source"})
ParseDestAddress   == Parse({"dest"})

(* Another byte is received.                                               *)
Receive ==
  /\ bufsize < Len(packet)
  /\ bufsize' = bufsize + 1
  /\ asked' = {} /\ returned' = FALSE
  /\ UNCHANGED <<packet, source, dest>>

PacketInit ==
  /\ packet \in Packets /\ bufsize = 0
  /\ source = Unspec /\ dest = Unspec
  /\ asked = {} /\ returned = FALSE

PacketNext == ParseAddresses \/ ParseSourceAddress \/ ParseDestAddress \/ Receive

PacketSpec == PacketInit /\ [][PacketNext]_packet_vars

-----------------------------------------------------------------------------
(* The last bytes of the addresses.  Before them an IPv4 header has its    *)
(* version and length, type of service, total length, identification,      *)
(* flags with the fragment offset, time to live, protocol and checksum; an *)
(* IPv6 header its version, class and flow, payload length, next header    *)
(* and hop limit.                                                          *)
EndOf(f, which) ==
  LET before  == IF f = "inet" THEN 1 + 1 + 2 + 2 + 2 + 1 + 1 + 2 ELSE 4 + 2 + 1 + 1
      address == IF f = "inet" THEN 4 ELSE 16
  IN  before + (IF which = "source" THEN address ELSE address + address)

(* Each address is what it was or the one of its field in the header, and  *)
(* a call returns true exactly if it has set the addresses it was to set,  *)
(* which it does once their fields have arrived.                           *)
ReadsHeader ==
  LET f      == IF packet[1] \div 16 = 4 THEN "inet" ELSE "inet6"
      valid  == packet[1] \div 16 \in {4, 6}
      bytes  == IF f = "inet" THEN 4 ELSE 16
      In(w)  == Address(f, Take(EndOf(f, w) - bytes, bytes))
      objects == [source |-> source, dest |-> dest]
  IN  /\ returned => valid /\ \A w \in asked : objects[w] = In(w)
      /\ asked # {} => (returned <=> valid /\ \A w \in asked : EndOf(f, w) <= bufsize)
      /\ \A w \in {"source", "dest"} :
           objects[w] # Unspec => valid /\ objects[w] = In(w)
=============================================================================
