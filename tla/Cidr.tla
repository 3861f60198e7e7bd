-------------------------------- MODULE Cidr --------------------------------
(***************************************************************************)
(* Addresses and networks given as texts: parse_extended_cidr(), what the  *)
(* constructors of socket_address and network make of its results, and the *)
(* texts that both print.                                                  *)
(*                                                                         *)
(* A text is a sequence of tokens: a delimiter, an address, a run of       *)
(* digits, or "x", which is no part of any of these.  IPv6 addresses are   *)
(* spelled out in full, so that nothing can be added to one.               *)
(***************************************************************************)
EXTENDS SocketAddress

CONSTANTS
  Given,     (* The addresses that texts have, with port 0.                 *)
  Runs,      (* The numbers that texts have.                                *)
  MaxTokens  (* The tokens of a text; it may have one more in brackets.     *)

ASSUME CidrAssumption ==
  /\ Given \subseteq AddressesOf("inet") \union AddressesOf("inet6")
  /\ \A a \in Given : a.port = 0
  /\ Runs \subseteq Nat /\ MaxTokens \in Nat

VARIABLES
  cidr_text, (* What the client has written so far.                         *)
  network    (* A network's m_network and m_mask_size.                      *)

cidr_vars == <<cidr_text, network>>

Mark(c)       == [kind |-> c]
Digits(n)     == [kind |-> "digits", n |-> n]
Spelled(a)    == [kind |-> a.family, ip |-> a.ip]
Delimiters    == {Mark(c) : c \in {"[", "]", ":", "/"}}

-----------------------------------------------------------------------------
(* Parsing.                                                                *)

(* strstr(): where the first of some tokens is, or 0.                      *)
First(s, kinds) ==
  LET at == {i \in DOMAIN s : s[i].kind \in kinds}
  IN  IF at = {} THEN 0 ELSE Min(at)

Behind(s, i) == SubSeq(s, i + 1, Len(s))

IsNumeric(s) == s = <<>> \/ (Len(s) = 1 /\ s[1].kind = "digits")

(* atoi(): the number a text begins with, or 0.                            *)
Atoi(s) == IF First(s, {"digits"}) = 1 THEN s[1].n ELSE 0

(* inet_pton(): the address a text is, if it is one.                       *)
PToN(s) ==
  {[family |-> f, ip |-> s[1].ip, port |-> 0] :
     f \in {g \in IPFamilies : Len(s) = 1 /\ s[1].kind = g}}

(* A mask does not start at the beginning.                                 *)
HasMask(s)    == First(s, {"/"}) > 1
BeforeMask(s) == IF HasMask(s) THEN SubSeq(s, 1, First(s, {"/"}) - 1) ELSE s

(* The colon behind an address, or 0: the one behind "]" if the text       *)
(* starts with "[", else the first one.  If that is one of an IPv6 address *)
(* what follows it is not a number.                                        *)
InBrackets(s) == First(s, {"["}) = 1
Colon(s) ==
  LET closed == {i \in DOMAIN s \ {1} :
                   s[i] = Mark(":") /\ i > 2 /\ s[i - 1] = Mark("]")}
      first  == First(s, {":", "inet6"})
  IN  IF InBrackets(s) THEN IF closed = {} THEN 0 ELSE Min(closed)
      ELSE IF first # 0 /\ s[first] = Mark(":") THEN first ELSE 0

(* A fault: whatever follows the colon is taken for a port.                *)
HasPortUnchecked(s) == Colon(s) # 0

HasPort(s) == Colon(s) # 0 /\ IsNumeric(Behind(s, Colon(s)))

(* What is taken for the address: brackets are removed when a colon        *)
(* follows, though it may not start a port.                                *)
AddressPart(s) ==
  LET bracket == IF InBrackets(s) /\ Colon(s) # 0 THEN 1 ELSE 0
  IN  SubSeq(s, 1 + bracket, IF HasPort(s) THEN Colon(s) - 1 - bracket ELSE Len(s))

Result(ret, addr, mask) == [ret |-> ret, addr |-> addr, mask |-> mask]

(* parse_extended_cidr(): whether it returned or raised an exception, and  *)
(* what it left in its result.                                             *)
ParseExtendedCidr(cidr, no_mask, port) ==
  LET s        == BeforeMask(cidr)
      detected == IF port = 0 /\ HasPort(s)
                  THEN Atoi(Behind(s, Colon(s))) % (Base * Base) ELSE port
      parsed   == {SetPort(a, detected) : a \in PToN(AddressPart(s))}
      addr     == CHOOSE a \in parsed : TRUE
      mask     == Atoi(Behind(cidr, First(cidr, {"/"})))
  IN  IF HasMask(cidr) /\ (no_mask \/ HasPort(s)) THEN Result("false", Unspec, -1)
      ELSE IF parsed = {} THEN Result("throw", Unspec, -1)
      ELSE IF no_mask     THEN Result("true", addr, 0)
      ELSE IF HasMask(cidr) /\ mask \in 1 .. ByteBits * AddrBytes[addr.family]
      THEN Result("true", addr, mask)
      ELSE Result("false", addr, -1)

(* The constructors from a text.  What is no address at all is a path,     *)
(* which is no longer than there is room for.                              *)
FromText(s, port) ==
  LET r == ParseExtendedCidr(s, TRUE, port)
  IN  IF r.ret = "throw" /\ s # <<>>
      THEN [family |-> "local", ip |-> s, port |-> 0] ELSE r.addr

VerifyCidr(s)    == ParseExtendedCidr(s, TRUE, 0).ret = "true"
VerifyNetspec(s) == ParseExtendedCidr(s, FALSE, 0).ret = "true"

-----------------------------------------------------------------------------
(* Printing.                                                               *)

CidrStr(a) == IF a.family \in IPFamilies THEN <<Spelled(a)>> ELSE <<>>

(* A fault: no brackets around IPv6 addresses.                             *)
FullStrBare(a) ==
  IF a.family \in IPFamilies
  THEN CidrStr(a) \o <<Mark(":"), Digits(a.port)>> ELSE a.ip

FullStr(a) ==
  CASE a.family = "inet"  -> CidrStr(a) \o <<Mark(":"), Digits(a.port)>>
    [] a.family = "inet6" -> <<Mark("[")>> \o CidrStr(a)
                               \o <<Mark("]"), Mark(":"), Digits(a.port)>>
    [] OTHER              -> a.ip

Netspec(n) == CidrStr(n.addr) \o <<Mark("/"), Digits(n.mask)>>

-----------------------------------------------------------------------------
(* The client.                                                             *)

CidrInit ==
  /\ cidr_text = <<>>
  /\ network \in {n \in [addr : Given, mask : Runs] : VerifyNetspec(Netspec(n))}

(* Numbers and addresses do not touch, since they would be one word, and   *)
(* addresses are where an address may be.                                  *)
Write(token) ==
  /\ Len(cidr_text) < MaxTokens + (IF InBrackets(cidr_text) THEN 1 ELSE 0)
  /\ token.kind = "digits" =>
       \A i \in {Len(cidr_text)} \ {0} : cidr_text[i].kind \notin IPFamilies \union {"digits"}
  /\ token.kind \in IPFamilies => cidr_text \in {<<>>, <<Mark("[")>>}
  /\ cidr_text' = Append(cidr_text, token)
  /\ UNCHANGED network

(* reset() replaces the network by a new one, unless the constructor of    *)
(* that throws.                                                            *)
ResetNetwork ==
  LET r == ParseExtendedCidr(cidr_text, FALSE, 0)
  IN  /\ network' = IF r.ret = "true" THEN [addr |-> r.addr, mask |-> r.mask]
                    ELSE network
      /\ cidr_text' = <<>>

CidrNext ==
  \/ \E token \in Delimiters \union {Mark("x")}
       \union {Spelled(a) : a \in Given} \union {Digits(n) : n \in Runs} : Write(token)
  \/ ResetNetwork

CidrSpec == CidrInit /\ [][CidrNext]_cidr_vars

-----------------------------------------------------------------------------
(* Properties.                                                             *)

(* What is constructed from a text prints as a text from which it can be   *)
(* constructed again, the address without its port is one that             *)
(* verify_cidr() accepts, and a network can be copied by its netspec,      *)
(* though the client tried to reset it to a text that was refused.         *)
ReadsBack ==
  /\ \A port \in {0, 1} \union {Base * Base - 1} :
       LET a == FromText(cidr_text, port)
       IN  /\ FromText(FullStr(a), 0) = a
           /\ a.family \in IPFamilies => VerifyCidr(CidrStr(a))
  /\ VerifyNetspec(Netspec(network))
  /\ ParseExtendedCidr(Netspec(network), FALSE, 0) =
       Result("true", network.addr, network.mask)

(* The forms of cidr.h: an address, possibly with a port, for which one of *)
(* IPv6 is in brackets; and an address with a mask that has a bit, and no  *)
(* more than the address.  What follows the number of a mask is ignored.   *)
HostTexts(a) ==
  {<<Spelled(a)>>}
    \union {delimited \o port :
      delimited \in {<<Mark("["), Spelled(a), Mark("]"), Mark(":")>>}
                      \union (IF a.family = "inet" THEN {<<Spelled(a), Mark(":")>>} ELSE {}),
      port \in {<<>>} \union {<<Digits(n)>> : n \in Runs}}

NetworkTexts(a) ==
  {<<Spelled(a), Mark("/"), Digits(n)>> :
     n \in Runs \intersect 1 .. ByteBits * AddrBytes[a.family]}

(* Texts of these forms are accepted, no others are, and those that are    *)
(* mean the address, the port, unless another was given, and the mask.     *)
AcceptsItsForms ==
  LET hosts == {a \in Given : cidr_text \in HostTexts(a)}
      nets  == {a \in Given : Len(cidr_text) > 2 /\ SubSeq(cidr_text, 1, 3) \in NetworkTexts(a)}
      port  == Atoi(SubSeq(cidr_text, Len(cidr_text), Len(cidr_text))) % (Base * Base)
      r     == ParseExtendedCidr(cidr_text, FALSE, 0)
  IN  /\ VerifyCidr(cidr_text) <=> hosts # {}
      /\ VerifyNetspec(cidr_text) <=> nets # {}
      /\ \A a \in hosts : /\ FromText(cidr_text, 0) = [a EXCEPT !.port = port]
                          /\ FromText(cidr_text, 1) = [a EXCEPT !.port = 1]
      /\ \A a \in nets : r.addr = a /\ r.mask = cidr_text[3].n
=============================================================================
