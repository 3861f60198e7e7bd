----------------------------- MODULE CallProofs -----------------------------
(***************************************************************************)
(* Proofs about the functions that are told something from outside:        *)
(* resolve() by getaddrinfo(), for any names, ports and answers;           *)
(* error_message() by strerror_r(), for any threads and codes;             *)
(* parse_addresses() by the bytes of any packets; and                      *)
(* parse_extended_cidr() by any texts: what is constructed from one prints *)
(* as one from which it can be constructed again, and the verifiers accept *)
(* exactly the forms that are documented.                                  *)
(***************************************************************************)
EXTENDS Resolve, ErrorText, IpPacket, Cidr, AddressProofs

-----------------------------------------------------------------------------
(* resolve()                                                               *)
ResolveTypeOK ==
  /\ pc \in {"called", "ask", "returned"} \union Exceptions
  /\ request \in [type : Types, host : HostNames \union {EmptyName}, port : NamedPorts]
  /\ answers \in Seq(Answers)
  /\ todo \in Seq(AddressFamilies)

(* How many families resolve() asks for.                                   *)
Asked == IF request.type = "AT_UNSPEC" THEN 2 ELSE 1

(* While it asks, it has what was answered, and that was for a legal call. *)
Underway ==
  /\ request.port \notin {BadPort, HugePort}
  /\ port = PortOf(request.port)
  /\ Len(answers) + Len(todo) = Asked
  /\ results = {WithPort(a, port) : a \in Found}
  /\ \A a \in Found : a.family \in AddressFamilies

ResolveIInv ==
  /\ ResolveTypeOK
  /\ pc \in {"called", "invalid_argument", "out_of_range"} => answers = <<>> /\ results = {}
  /\ pc \in {"ask", "returned"} => Underway
  /\ pc = "returned" => todo = <<>>
  /\ pc = "logic_error" => \A a \in Found : a.family \in AddressFamilies

(* Without an answer nothing was found, and another one adds what it has.  *)
LEMMA NothingFound == answers = <<>> => Found = {}
BY DEF Found

(* The next answer adds its addresses to those that were found.            *)
LEMMA FoundWithAnother ==
  ASSUME answers \in Seq(Answers), NEW answer \in Answers,
         answers' = Append(answers, answer)
  PROVE  Found' = Found \union answer.found
<1>1. /\ DOMAIN answers = 1 .. Len(answers) /\ Len(answers) \in Nat
      /\ DOMAIN answers' = 1 .. Len(answers) + 1
      /\ \A i \in 1 .. Len(answers) : answers'[i] = answers[i]
      /\ answers'[Len(answers) + 1] = answer
  OBVIOUS
<1>2. answer.found \subseteq Listed
  BY DEF Answers
<1>3. DOMAIN answers' = (DOMAIN answers) \union {Len(answers) + 1}
  BY <1>1
<1> QED
  BY <1>1, <1>2, <1>3 DEF Found

(* The conversion to 16 bits changes a port by a multiple of their values. *)
LEMMA PortOfNumber ==
  ASSUME NEW p \in Int
  PROVE  /\ p % PortValues \in Port
         /\ (p - (p % PortValues)) % PortValues = 0
<1>1. PortValues \in Nat \ {0}
  BY ResolveAssumption
<1>2. p % PortValues \in 0 .. PortValues - 1
  BY <1>1
<1>3. ASSUME NEW n \in Nat \ {0} PROVE (p - (p % n)) % n = 0
  <2> DEFINE q == p \div n
  <2>1. q \in Int /\ p - (p % n) = q * n
    OBVIOUS
  <2>2. (q * n) % n = 0
    <3> HIDE DEF q
    <3> QED
      BY <2>1
  <2> QED
    BY <2>1, <2>2
<1> QED
  BY <1>1, <1>2, <1>3 DEF Port

(* Nothing is asked and nothing found before the call.                     *)
LEMMA ResolveInitial == ResolveInit => ResolveIInv
BY NothingFound DEF ResolveInit, ResolveIInv, ResolveTypeOK

(* An answer that raises no exception is added to the results.             *)
LEMMA AskKeeps ==
  ASSUME ResolveIInv, NEW answer \in Answers, Ask(answer)
  PROVE  ResolveIInv'
<1>1. /\ ResolveTypeOK /\ Underway /\ pc = "ask" /\ todo # <<>>
      /\ answers' = Append(answers, answer)
      /\ request' = request /\ port' = port
  BY DEF Ask, ResolveIInv
<1>2. Found' = Found \union answer.found
  <2>1. answers \in Seq(Answers)
    BY <1>1 DEF ResolveTypeOK
  <2> QED
    BY <1>1, <2>1, FoundWithAnother
<1>3. answers' \in Seq(Answers) /\ Len(answers') = Len(answers) + 1
      /\ Len(answers) \in Nat
  BY <1>1 DEF ResolveTypeOK
<1>4. Tail(todo) \in Seq(AddressFamilies) /\ Len(Tail(todo)) = Len(todo) - 1
      /\ Len(todo) \in Nat
  BY <1>1 DEF ResolveTypeOK
<1>5. CASE Raised(answer) # {}
  <2>1. pc' \in Raised(answer) /\ UNCHANGED <<todo, results>>
    BY <1>5 DEF Ask
  <2>2. Raised(answer) \subseteq {"logic_error", "range_error"}
    BY DEF Raised
  <2>3. ResolveTypeOK'
    BY <1>1, <1>3, <2>1, <2>2 DEF ResolveTypeOK, Exceptions
  <2>4. pc' = "logic_error" => answer.found = {}
    BY <2>1, <1>5 DEF Raised, Answers
  <2> QED
    BY <1>1, <1>2, <2>1, <2>2, <2>3, <2>4 DEF ResolveIInv, Underway
<1>6. CASE Raised(answer) = {}
  <2>1. results' = Added(answer) /\ todo' = Tail(todo) /\ pc' = pc
    BY <1>6 DEF Ask
  <2>2. \A a \in answer.found : a.family \in AddressFamilies
    BY <1>6 DEF Raised
  <2>3. ResolveTypeOK'
    BY <1>1, <1>3, <1>4, <2>1 DEF ResolveTypeOK
  <2>4. results' = {WithPort(a, port) : a \in Found \union answer.found}
    BY <1>1, <2>1, <2>2 DEF Added, Underway
  <2>5. \A a \in Found' : a.family \in AddressFamilies
    BY <1>1, <1>2, <2>2 DEF Underway
  <2>6. Underway'
    BY <1>1, <1>2, <1>3, <1>4, <2>1, <2>4, <2>5 DEF Underway, Asked
  <2> QED
    BY <1>1, <2>1, <2>3, <2>6 DEF ResolveIInv
<1> QED
  BY <1>5, <1>6

(* Every step of resolve() keeps the invariant.                            *)
LEMMA ResolveKept ==
  ASSUME ResolveIInv, [ResolveNext]_resolve_vars
  PROVE  ResolveIInv'
<1>1. CASE Refuse
  BY <1>1, NothingFound
     DEF Refuse, ResolveIInv, ResolveTypeOK, Underway, Found, Exceptions
<1>2. CASE Accept
  <2>1. /\ pc' = "ask" /\ todo' = FamiliesOf(request.type)
        /\ answers = <<>> /\ results = {}
        /\ UNCHANGED <<results, request, answers>>
        /\ request.type \in {"AT_UNSPEC", "AT_INET4", "AT_INET6"}
        /\ request.port \notin {BadPort, HugePort} /\ port' = PortOf(request.port)
    BY <1>2 DEF Accept, ResolveIInv, ResolveTypeOK, Types
  <2>2. todo' \in Seq(AddressFamilies) /\ Len(todo') = Asked
    <3>1. CASE request.type = "AT_UNSPEC"
      BY <2>1, <3>1 DEF FamiliesOf, AddressFamilies, Asked
    <3>2. CASE request.type = "AT_INET4"
      BY <2>1, <3>2 DEF FamiliesOf, AddressFamilies, Asked
    <3>3. CASE request.type = "AT_INET6"
      BY <2>1, <3>3 DEF FamiliesOf, AddressFamilies, Asked
    <3> QED
      BY <2>1, <3>1, <3>2, <3>3
  <2>3. Found' = {} /\ Len(answers') = 0
    BY <2>1, NothingFound DEF Found
  <2>4. Underway'
    BY <2>1, <2>2, <2>3 DEF Underway, Asked
  <2>5. ResolveTypeOK'
    BY <2>1, <2>2 DEF ResolveIInv, ResolveTypeOK
  <2> QED
    BY <2>1, <2>4, <2>5 DEF ResolveIInv
<1>3. CASE Return
  BY <1>3 DEF Return, ResolveIInv, ResolveTypeOK, Underway, Asked, Found
<1>4. ASSUME NEW answer \in Answers, Ask(answer) PROVE ResolveIInv'
  BY <1>4, AskKeeps
<1>5. CASE UNCHANGED resolve_vars
  BY <1>5 DEF resolve_vars, ResolveIInv, ResolveTypeOK, Underway, Asked, Found
<1> QED
  BY <1>1, <1>2, <1>3, <1>4, <1>5 DEF ResolveNext, Terminated

(* resolve() returns all addresses that were answered, with the port of    *)
(* the name, after it has asked for each family, or it raises an exception *)
(* when it can not.                                                        *)
THEOREM ReturnsEverything == ResolveSpec => []ReturnsAllAnswers
<1>1. ResolveIInv => ReturnsAllAnswers
  <2> SUFFICES ASSUME ResolveIInv PROVE ReturnsAllAnswers
    OBVIOUS
  <2>1. ASSUME pc = "returned"
        PROVE  /\ Len(answers) = Asked
               /\ results = {WithPort(a, port) : a \in Found}
               /\ port \in Port
               /\ request.port # NoPort => (request.port - port) % PortValues = 0
    <3>1. Underway /\ todo = <<>> /\ answers \in Seq(Answers) /\ request.port \in NamedPorts
      BY <2>1 DEF ResolveIInv, ResolveTypeOK
    <3>2. Len(answers) = Asked
      BY <3>1 DEF Underway, Asked
    <3>3. CASE request.port = NoPort
      BY <3>1, <3>2, <3>3, ResolveAssumption DEF Underway, PortOf, Port
    <3>4. CASE request.port # NoPort
      <4>1. request.port \in Int
        BY <3>1, <3>4, ResolveAssumption DEF Underway
      <4> QED
        BY <3>1, <3>2, <3>4, <4>1, PortOfNumber DEF Underway, PortOf
    <3> QED
      BY <3>3, <3>4
  <2>2. ASSUME NEW a \in Found, a.family \notin AddressFamilies
        PROVE  pc = "range_error"
    BY <2>2, NothingFound DEF ResolveIInv, ResolveTypeOK, Underway, Exceptions
  <2> QED
    BY <2>1, <2>2 DEF ReturnsAllAnswers, Asked
<1>2. ResolveInit => ResolveIInv
  BY ResolveInitial
<1>3. ResolveIInv /\ [ResolveNext]_resolve_vars => ResolveIInv'
  BY ResolveKept
<1> QED
  BY <1>1, <1>2, <1>3, PTL DEF ResolveSpec

-----------------------------------------------------------------------------
(* error_message()                                                         *)

(* What strerror_r() leaves in the buffer.                                 *)
Unknown == Codes \ Known

(* A thread that writes to the buffer or is going to copy it asks for a    *)
(* code that the C library does not know, and the others do not use it.    *)
BufferUse(t) ==
  /\ at[t] # "idle" => code[t] \in Codes
  /\ at[t] = "write" => e[t] = "buf" /\ code[t] \in Unknown /\ buf # NoText
  /\ at[t] = "copy" =>
       \/ e[t] = "constant" /\ code[t] \in Known
       \/ e[t] = "buf" /\ code[t] \in Unknown /\ buf # NoText
  /\ at[t] = "idle" /\ code[t] # NoText =>
       IF code[t] \in Known THEN message[t] = code[t]
       ELSE message[t] \in Unknown \union {Torn}

ErrorIInv ==
  /\ ErrorTypeOK
  /\ buf \in Unknown \union {Torn, NoText}
  /\ \A t \in Threads : BufferUse(t)

(* The buffer holds no text before the first call.                         *)
LEMMA ErrorInitial == ErrorInit => ErrorIInv
BY ErrorTextAssumption DEF ErrorInit, ErrorIInv, ErrorTypeOK, Messages, BufferUse

(* Every step of a thread keeps what its own state says of the buffer, and *)
(* what it leaves there is right for all others.                           *)
LEMMA ErrorKept ==
  ErrorIInv /\ [ErrorNext]_error_vars => ErrorIInv'
<1> SUFFICES ASSUME ErrorIInv, [ErrorNext]_error_vars PROVE ErrorIInv'
    OBVIOUS
<1>a. /\ ErrorTypeOK /\ buf \in Unknown \union {Torn, NoText}
      /\ \A t \in Threads : BufferUse(t)
    BY DEF ErrorIInv
<1>1. ASSUME NEW t \in Threads, NEW c \in Codes, Call(t, c) PROVE ErrorIInv'
  <2>1. ErrorTypeOK' BY <1>1, <1>a DEF Call, ErrorTypeOK, Messages
  <2>2. ASSUME NEW u \in Threads PROVE BufferUse(u)'
        BY <1>1, <1>a, <2>2 DEF Call, ErrorTypeOK, BufferUse
  <2> QED BY <1>1, <1>a, <2>1, <2>2 DEF ErrorIInv, Call, Unknown
<1>2. ASSUME NEW t \in Threads, Format(t) PROVE ErrorIInv'
  <2>1. ErrorTypeOK' BY <1>2, <1>a DEF Format, BeginWrite, Writers, ErrorTypeOK, Messages
  <2>2. buf' \in Unknown \union {Torn, NoText} BY <1>2, <1>a DEF Format, BeginWrite, Unknown
  <2>3. code[t] \in Codes /\ Torn # NoText
        BY <1>2, <1>a, ErrorTextAssumption DEF Format, BufferUse
  <2>4. ASSUME NEW u \in Threads PROVE BufferUse(u)'
    <3>1. CASE code[t] \in Known
          BY <1>2, <1>a, <2>4, <3>1 DEF Format, BeginWrite, ErrorTypeOK, BufferUse
    <3>2. CASE code[t] \notin Known
          BY <1>2, <1>a, <2>3, <2>4, <3>2 DEF Format, BeginWrite, ErrorTypeOK, BufferUse, Unknown
    <3> QED BY <3>1, <3>2
  <2> QED BY <2>1, <2>2, <2>4 DEF ErrorIInv, Unknown
<1>3. ASSUME NEW t \in Threads, Written(t) PROVE ErrorIInv'
  <2>1. code[t] \in Unknown BY <1>3, <1>a DEF Written, BufferUse
  <2>2. buf' \in Unknown \union {Torn} BY <1>3, <2>1 DEF Written, Unknown
  <2>3. ErrorTypeOK' BY <1>3, <1>a, <2>2 DEF Written, ErrorTypeOK, Messages, Unknown
  <2>4. buf' # NoText BY <2>2, ErrorTextAssumption DEF Unknown
  <2>5. ASSUME NEW u \in Threads PROVE BufferUse(u)'
    <3>1. CASE u = t BY <1>3, <1>a, <2>1, <2>4, <3>1, <2>5
                     DEF Written, ErrorTypeOK, BufferUse, Unknown
    <3>2. CASE u # t
          BY <1>3, <1>a, <2>4, <3>2, <2>5 DEF Written, ErrorTypeOK, BufferUse, Unknown
    <3> QED BY <3>1, <3>2
  <2> QED BY <2>2, <2>3, <2>5 DEF ErrorIInv, Unknown
<1>4. ASSUME NEW t \in Threads, Copy(t) PROVE ErrorIInv'
  <2>1. ErrorTypeOK' BY <1>4, <1>a DEF Copy, ErrorTypeOK, Messages
  <2>2. ASSUME NEW u \in Threads PROVE BufferUse(u)'
        BY <1>4, <1>a, <2>2 DEF Copy, ErrorTypeOK, BufferUse, Unknown
  <2> QED BY <1>4, <1>a, <2>1, <2>2 DEF ErrorIInv, Copy, Unknown
<1>5. CASE UNCHANGED error_vars
      BY <1>5, <1>a DEF ErrorIInv, error_vars, ErrorTypeOK, BufferUse, Unknown
<1> QED BY <1>1, <1>2, <1>3, <1>4, <1>5 DEF ErrorNext

(* So it holds of every state.                                             *)
LEMMA ErrorInvariant == ErrorSpec => []ErrorIInv
<1>1. ErrorInit => ErrorIInv BY ErrorInitial
<1>2. ErrorIInv /\ [ErrorNext]_error_vars => ErrorIInv' BY ErrorKept
<1> QED BY <1>1, <1>2, PTL DEF ErrorSpec

(* The buffer holds the text of a code or parts of several, and every      *)
(* thread is at a place of error_message().                                *)
THEOREM ErrorTypeCorrect == ErrorSpec => []ErrorTypeOK
<1>1. ErrorIInv => ErrorTypeOK BY DEF ErrorIInv
<1> QED BY <1>1, ErrorInvariant, PTL

(* error_message() of a code that the C library knows returns its message, *)
(* however many threads call it at once.                                   *)
THEOREM ReportsTheError == ErrorSpec => []ReportsOwnError
<1>1. ErrorIInv => ReportsOwnError BY DEF ErrorIInv, BufferUse, ReportsOwnError, Unknown
<1> QED BY <1>1, ErrorInvariant, PTL
-----------------------------------------------------------------------------
(* parse_addresses()                                                       *)

Versions == [inet |-> 4, inet6 |-> 6]

(* The addresses of a header of a version, and those of the client: what   *)
(* they were before, or what is in the header.                             *)
In(f, w) == Address(f, Take(Offset(f, w), Length(f)))

HoldsHeader(address, w) ==
  address # Unspec =>
    \E f \in IPFamilies : Proto = Versions[f] /\ address = In(f, w)

PacketInv ==
  /\ bufsize \in Nat
  /\ HoldsHeader(source, "source") /\ HoldsHeader(dest, "dest")
  /\ asked \subseteq {"source", "dest"} /\ returned \in BOOLEAN
  /\ returned =>
       \E f \in IPFamilies :
         /\ Proto = Versions[f]
         /\ "source" \in asked => source = In(f, "source")
         /\ "dest" \in asked => dest = In(f, "dest")
  /\ asked # {} =>
       (returned <=> \E f \in IPFamilies :
                       /\ bufsize > 0 /\ Proto = Versions[f]
                       /\ \A w \in asked : Offset(f, w) + Length(f) <= bufsize)

(* A header has one version.                                               *)
LEMMA OneVersion ==
  ASSUME NEW f \in IPFamilies, NEW g \in IPFamilies,
         Proto = Versions[f], Proto = Versions[g]
  PROVE  f = g
BY DEF Versions, IPFamilies

(* The fields end where the addresses that are read do.                    *)
LEMMA FieldsAre ==
  ASSUME NEW f \in IPFamilies, NEW w \in {"source", "dest"}
  PROVE  /\ EndOf(f, w) = Offset(f, w) + Length(f)
         /\ EndOf(f, w) - Length(f) = Offset(f, w)
         /\ Length(f) = IF f = "inet" THEN 4 ELSE 16
         /\ Offset(f, w) \in Nat /\ Length(f) \in Nat \ {0}
BY DEF EndOf, Offset, Length, IPFamilies

(* Parsing reads nothing but the header.                                   *)
LEMMA ParseKeeps ==
  ASSUME PacketInv, NEW which \in SUBSET {"source", "dest"}, Parse(which)
  PROVE  PacketInv'
<1> DEFINE families == {f \in IPFamilies :
                          bufsize > 0 /\ Proto = (IF f = "inet" THEN 4 ELSE 6)}
           f == CHOOSE g \in families : TRUE
           Fits(w) == Offset(f, w) + Length(f) <= bufsize
           first  == families # {} /\ ("source" \in which => Fits("source"))
           second == first /\ ("dest" \in which => Fits("dest"))
<1>1. /\ source' = IF first /\ "source" \in which THEN In(f, "source") ELSE source
      /\ dest'   = IF second /\ "dest" \in which THEN In(f, "dest") ELSE dest
      /\ asked' = which /\ returned' = second
      /\ UNCHANGED <<packet, bufsize>>
  BY DEF Parse, In
<1>2. \A g \in IPFamilies : g \in families <=> bufsize > 0 /\ Proto = Versions[g]
  BY DEF Versions, IPFamilies
<1>3. families # {} => f \in IPFamilies /\ bufsize > 0 /\ Proto = Versions[f]
  <2>1. families # {} => f \in families
    OBVIOUS
  <2> QED
    BY <1>2, <2>1
<1>4. \A g \in IPFamilies : bufsize > 0 /\ Proto = Versions[g] => families # {} /\ g = f
  <2> HIDE DEF f, families
  <2> QED
    BY <1>2, <1>3, OneVersion
<1> HIDE DEF families, f
<1>5. \A g, w : In(g, w)' = In(g, w)
  BY <1>1 DEF In, Address, Take
<1>6. Proto' = Proto
  BY <1>1 DEF Proto
<1>7. bufsize' \in Nat /\ asked' \subseteq {"source", "dest"} /\ returned' \in BOOLEAN
  BY <1>1 DEF PacketInv
<1>8. HoldsHeader(source, "source")' /\ HoldsHeader(dest, "dest")'
  BY <1>1, <1>3, <1>5, <1>6 DEF PacketInv, HoldsHeader
<1>9. returned' => \E g \in IPFamilies :
        /\ Proto' = Versions[g]
        /\ "source" \in asked' => source' = In(g, "source")'
        /\ "dest" \in asked' => dest' = In(g, "dest")'
  BY <1>1, <1>3, <1>5, <1>6
<1>10. returned' <=> \E g \in IPFamilies :
                       /\ bufsize' > 0 /\ Proto' = Versions[g]
                       /\ \A w \in asked' : Offset(g, w) + Length(g) <= bufsize'
  BY <1>1, <1>3, <1>4, <1>6
<1> QED
  BY <1>7, <1>8, <1>9, <1>10 DEF PacketInv

(* So do the calls with one of the addresses, and a byte more.             *)
LEMMA PacketKept ==
  ASSUME PacketInv, [PacketNext]_packet_vars
  PROVE  PacketInv'
<1>1. CASE ParseAddresses
  BY <1>1, ParseKeeps DEF ParseAddresses
<1>2. CASE ParseSourceAddress
  BY <1>2, ParseKeeps DEF ParseSourceAddress
<1>3. CASE ParseDestAddress
  BY <1>3, ParseKeeps DEF ParseDestAddress
<1>4. ASSUME packet' = packet
      PROVE  Proto' = Proto /\ \A f, w : In(f, w)' = In(f, w)
  BY <1>4 DEF Proto, In, Address, Take
<1>5. CASE Receive
  <2>1. /\ UNCHANGED <<packet, source, dest>>
        /\ asked' = {} /\ returned' = FALSE /\ bufsize' \in Nat
    BY <1>5 DEF Receive, PacketInv
  <2>2. HoldsHeader(source, "source")' /\ HoldsHeader(dest, "dest")'
    BY <1>4, <2>1 DEF HoldsHeader, PacketInv
  <2> QED
    BY <2>1, <2>2 DEF PacketInv
<1>6. CASE UNCHANGED packet_vars
  <2>1. UNCHANGED <<packet, bufsize, source, dest, asked, returned>>
    BY <1>6 DEF packet_vars
  <2> QED
    BY <1>4, <2>1 DEF PacketInv, HoldsHeader
<1> QED
  BY <1>1, <1>2, <1>3, <1>5, <1>6 DEF PacketNext

(* The addresses are read from their fields, if all that was asked for has *)
(* arrived, and are otherwise those the client had or read before.         *)
THEOREM ReadsTheHeader == PacketSpec => []ReadsHeader
<1>1. PacketInit => PacketInv
  <2> SUFFICES ASSUME PacketInit PROVE PacketInv
    OBVIOUS
  <2>1. /\ bufsize = 0 /\ source = Unspec /\ dest = Unspec
        /\ asked = {} /\ returned = FALSE
    BY DEF PacketInit
  <2>2. HoldsHeader(source, "source") /\ HoldsHeader(dest, "dest")
    BY <2>1 DEF HoldsHeader
  <2> QED
    BY <2>1, <2>2 DEF PacketInv
<1>2. PacketInv => ReadsHeader
  <2> SUFFICES ASSUME PacketInv PROVE ReadsHeader
    OBVIOUS
  <2> DEFINE g == IF packet[1] \div 16 = 4 THEN "inet" ELSE "inet6"
             valid == packet[1] \div 16 \in {4, 6}
             objects == [source |-> source, dest |-> dest]
             bytes == IF g = "inet" THEN 4 ELSE 16
             Field(w) == Address(g, Take(EndOf(g, w) - bytes, bytes))
  <2>1. g \in IPFamilies /\ \A f \in IPFamilies : Proto = Versions[f] <=> valid /\ f = g
    BY DEF IPFamilies, Versions, Proto
  <2>2. \A w \in {"source", "dest"} :
          Field(w) = In(g, w) /\ EndOf(g, w) = Offset(g, w) + Length(g)
                              /\ EndOf(g, w) > 0
    BY <2>1, FieldsAre DEF In
  <2>3. objects["source"] = source /\ objects["dest"] = dest
    OBVIOUS
  <2> HIDE DEF g, valid, objects
  <2>4. returned => valid /\ \A w \in asked : objects[w] = Field(w)
    BY <2>1, <2>2, <2>3 DEF PacketInv
  <2>5. asked # {} => (returned <=> valid /\ \A w \in asked : EndOf(g, w) <= bufsize)
    <3> SUFFICES ASSUME asked # {}
                 PROVE  returned <=> valid /\ \A w \in asked : EndOf(g, w) <= bufsize
      OBVIOUS
    <3>1. returned <=> \E f \in IPFamilies :
                         /\ bufsize > 0 /\ Proto = Versions[f]
                         /\ \A w \in asked : Offset(f, w) + Length(f) <= bufsize
      BY DEF PacketInv
    <3>2. returned <=> /\ bufsize > 0 /\ valid
                       /\ \A w \in asked : Offset(g, w) + Length(g) <= bufsize
      BY <2>1, <3>1
    <3>3. asked \subseteq {"source", "dest"} /\ bufsize \in Nat
      BY DEF PacketInv
    <3>4. \A w \in asked : EndOf(g, w) = Offset(g, w) + Length(g)
      BY <2>2, <3>3
    <3>5. \A w \in asked : Offset(g, w) + Length(g) \in Nat \ {0}
      BY <2>1, <3>3, FieldsAre
    <3>6. ASSUME \A w \in asked : Offset(g, w) + Length(g) <= bufsize
          PROVE  bufsize > 0
      <4>1. PICK w \in asked : TRUE
        OBVIOUS
      <4> DEFINE last == Offset(g, w) + Length(g)
      <4>2. last \in Nat \ {0} /\ last <= bufsize
        BY <3>5, <3>6
      <4> HIDE DEF last
      <4> QED
        BY <3>3, <4>2
    <3> QED
      BY <3>2, <3>4, <3>6
  <2>6. \A w \in {"source", "dest"} :
          objects[w] # Unspec => valid /\ objects[w] = Field(w)
    BY <2>1, <2>2, <2>3 DEF PacketInv, HoldsHeader
  <2> QED
    BY <2>4, <2>5, <2>6 DEF ReadsHeader, g, valid, objects
<1> QED
  BY <1>1, <1>2, PacketKept, PTL DEF PacketSpec

-----------------------------------------------------------------------------
(* parse_extended_cidr()                                                   *)

(* The only place of some tokens is the first one.                         *)
LEMMA FirstIs ==
  ASSUME NEW s, NEW kinds, NEW k \in Nat,
         {i \in DOMAIN s : s[i].kind \in kinds} = {k}
  PROVE  First(s, kinds) = k
<1>1. Min({k}) \in {k}
  BY FirstPlace
<1> QED
  BY <1>1 DEF First

(* There is no first one.                                                  *)
LEMMA NoneIsFirst ==
  ASSUME NEW s, NEW kinds, \A i \in DOMAIN s : s[i].kind \notin kinds
  PROVE  First(s, kinds) = 0
BY DEF First

(* The part of a text that is one token.                                   *)
LEMMA OneToken ==
  ASSUME NEW S, NEW s \in Seq(S), NEW k \in 1 .. Len(s)
  PROVE  SubSeq(s, k, k) = <<s[k]>>
<1> DEFINE t == SubSeq(s, k, k)
           u == <<s[k]>>
<1>1. s[k] \in S
  BY ElementOfSeq, LenProperties
<1>2. t \in Seq(S) /\ Len(t) = 1 /\ t[1] = s[k]
  OBVIOUS
<1>3. u \in Seq(S) /\ Len(u) = 1 /\ u[1] = s[k]
  BY <1>1
<1> HIDE DEF t, u
<1>4. t = u
  BY <1>2, <1>3, SeqEqual
<1> QED
  BY <1>4 DEF t, u

(* The tokens of texts.                                                    *)
Tokens == Delimiters \union {Mark("x")}
            \union {Spelled(a) : a \in Given} \union {Digits(n) : n \in Runs}

(* Their digits are numbers.                                               *)
LEMMA DigitsAre ==
  ASSUME NEW t \in Tokens, t.kind = "digits"
  PROVE  t.n \in Nat
<1>1. CASE t \in Delimiters \union {Mark("x")}
  BY <1>1 DEF Delimiters, Mark
<1>2. CASE t \in {Spelled(a) : a \in Given}
  BY <1>2, CidrAssumption DEF Spelled, AddressesOf
<1>3. CASE t \in {Digits(n) : n \in Runs}
  BY <1>3, CidrAssumption DEF Digits
<1> QED
  BY <1>1, <1>2, <1>3 DEF Tokens

(* An IP address and a port.                                               *)
IsHost(a) ==
  /\ a = [family |-> a.family, ip |-> a.ip, port |-> a.port]
  /\ a.family \in IPFamilies /\ a.port \in Ports

(* Without a port.                                                         *)
Portless(a) == [family |-> a.family, ip |-> a.ip, port |-> 0]

(* The port is set again.                                                  *)
LEMMA PortIsSet ==
  ASSUME NEW a, IsHost(a), NEW p \in Ports
  PROVE  /\ IsHost(SetPort(Portless(a), p))
         /\ SetPort(Portless(a), p).port = p
         /\ SetPort(Portless(a), p).family = a.family
         /\ p = a.port => SetPort(Portless(a), p) = a
<1>1. SetPort(Portless(a), p) = [family |-> a.family, ip |-> a.ip, port |-> p]
  BY DEF SetPort, Portless, IsHost
<1> QED
  BY <1>1 DEF IsHost

(* inet_pton() makes of a text no more than one address, of the first      *)
(* token.                                                                  *)
LEMMA PToNIs ==
  ASSUME NEW s
  PROVE  \/ PToN(s) = {}
         \/ /\ Len(s) = 1 /\ s[1].kind \in IPFamilies
            /\ PToN(s) = {[family |-> s[1].kind, ip |-> s[1].ip, port |-> 0]}
<1> DEFINE fs == {g \in IPFamilies : Len(s) = 1 /\ s[1].kind = g}
<1>1. CASE Len(s) = 1 /\ s[1].kind \in IPFamilies
  <2>1. fs = {s[1].kind}
    BY <1>1
  <2> QED
    BY <1>1, <2>1 DEF PToN
<1>2. CASE ~(Len(s) = 1 /\ s[1].kind \in IPFamilies)
  <2>1. fs = {}
    BY <1>2
  <2> QED
    BY <2>1 DEF PToN
<1> QED
  BY <1>1, <1>2

(* An address that stands alone.                                           *)
LEMMA AloneIs ==
  ASSUME NEW a, IsHost(a)
  PROVE  LET s == <<Spelled(a)>>
         IN  /\ ~HasMask(s) /\ BeforeMask(s) = s /\ ~HasPort(s)
             /\ AddressPart(s) = s
             /\ PToN(s) = {Portless(a)}
<1> DEFINE s == <<Spelled(a)>>
<1>1. /\ DOMAIN s = {1} /\ Len(s) = 1
      /\ s[1].kind = a.family /\ s[1].ip = a.ip /\ a.family \in {"inet", "inet6"}
  BY DEF Spelled, IsHost, IPFamilies
<1> HIDE DEF s
<1>2. First(s, {"/"}) = 0 /\ First(s, {"["}) = 0
  BY <1>1, NoneIsFirst
<1>3. ~HasMask(s) /\ BeforeMask(s) = s /\ ~InBrackets(s)
  BY <1>2 DEF HasMask, BeforeMask, InBrackets
<1>4. Colon(s) = 0
  <2>1. First(s, {":", "inet6"}) \in {0, 1}
    <3>1. CASE a.family = "inet"
      BY <1>1, <3>1, NoneIsFirst
    <3>2. CASE a.family = "inet6"
      <4>1. {i \in DOMAIN s : s[i].kind \in {":", "inet6"}} = {1}
        BY <1>1, <3>2
      <4> QED
        BY <4>1, FirstIs
    <3> QED
      BY <1>1, <3>1, <3>2
  <2>2. s[1] # Mark(":")
    BY <1>1 DEF Mark
  <2> QED
    BY <1>3, <2>1, <2>2 DEF Colon
<1>5. ~HasPort(s)
  BY <1>4 DEF HasPort
<1>6. AddressPart(s) = s
  <2>1. AddressPart(s) = SubSeq(s, 1 + 0, Len(s))
    BY <1>3, <1>5 DEF AddressPart
  <2>2. s \in Seq({Spelled(a)}) /\ s = <<s[1]>>
    BY DEF s
  <2>3. SubSeq(s, 1, 1) = <<s[1]>>
    BY <1>1, <2>2, OneToken
  <2> QED
    BY <1>1, <2>1, <2>2, <2>3
<1>7. PToN(s) = {Portless(a)}
  BY <1>1, PToNIs DEF Portless, PToN, IPFamilies
<1> QED
  BY <1>3, <1>5, <1>6, <1>7 DEF s

(* Parts put together.                                                     *)
LEMMA Together ==
  \A v, w, x, y, z :
    /\ <<x>> \o <<y, z>> = <<x, y, z>>
    /\ <<v>> \o <<w>> = <<v, w>>
    /\ <<v, w>> \o <<x, y, z>> = <<v, w, x, y, z>>
<1> SUFFICES ASSUME NEW v, NEW w, NEW x, NEW y, NEW z
             PROVE  /\ <<x>> \o <<y, z>> = <<x, y, z>>
                    /\ <<v>> \o <<w>> = <<v, w>>
                    /\ <<v, w>> \o <<x, y, z>> = <<v, w, x, y, z>>
  OBVIOUS
<1> DEFINE S == {v, w, x, y, z}
<1>1. /\ <<x>> \in Seq(S) /\ <<y, z>> \in Seq(S) /\ <<x, y, z>> \in Seq(S)
      /\ <<v>> \in Seq(S) /\ <<w>> \in Seq(S) /\ <<v, w>> \in Seq(S)
      /\ <<v, w, x, y, z>> \in Seq(S)
  OBVIOUS
<1> HIDE DEF S
<1>2. <<x>> \o <<y, z>> = <<x, y, z>>
  <2> DEFINE s == <<x>> \o <<y, z>>
             t == <<x, y, z>>
  <2>1. s \in Seq(S) /\ Len(s) = 3 /\ s[1] = x /\ s[2] = y /\ s[3] = z
    BY <1>1, ConcatProperties
  <2>2. Len(t) = 3 /\ t[1] = x /\ t[2] = y /\ t[3] = z
    OBVIOUS
  <2>3. t \in Seq(S)
    BY <1>1
  <2> HIDE DEF s, t
  <2>4. s = t
    BY <2>1, <2>2, <2>3, SeqEqual
  <2> QED
    BY <2>4 DEF s, t
<1>3. <<v>> \o <<w>> = <<v, w>>
  <2> DEFINE s == <<v>> \o <<w>>
             t == <<v, w>>
  <2>1. s \in Seq(S) /\ Len(s) = 2 /\ s[1] = v /\ s[2] = w
    BY <1>1, ConcatProperties
  <2>2. t \in Seq(S) /\ Len(t) = 2 /\ t[1] = v /\ t[2] = w
    BY <1>1
  <2> HIDE DEF s, t
  <2>3. s = t
    BY <2>1, <2>2, SeqEqual
  <2> QED
    BY <2>3 DEF s, t
<1>4. <<v, w>> \o <<x, y, z>> = <<v, w, x, y, z>>
  <2> DEFINE s == <<v, w>> \o <<x, y, z>>
             t == <<v, w, x, y, z>>
  <2>1. s \in Seq(S) /\ Len(s) = 5
    BY <1>1, ConcatProperties
  <2>2. s[1] = v /\ s[2] = w /\ s[3] = x /\ s[4] = y /\ s[5] = z
    BY <1>1, ConcatProperties
  <2>3. t \in Seq(S)
    BY <1>1
  <2>4. Len(t) = 5 /\ t[1] = v /\ t[2] = w /\ t[3] = x /\ t[4] = y /\ t[5] = z
    OBVIOUS
  <2> HIDE DEF s, t
  <2>5. s = t
    BY <2>1, <2>2, <2>3, <2>4, SeqEqual
  <2> QED
    BY <2>5 DEF s, t
<1> QED
  BY <1>2, <1>3, <1>4

(* An address with a port, as full_str() prints it.                        *)
LEMMA PrintedIs ==
  ASSUME NEW a, IsHost(a)
  PROVE  LET s == FullStr(a)
         IN  /\ ~HasMask(s) /\ BeforeMask(s) = s /\ HasPort(s)
             /\ Behind(s, Colon(s)) = <<Digits(a.port)>>
             /\ AddressPart(s) = <<Spelled(a)>>
<1> DEFINE s == FullStr(a)
           x == Spelled(a)
           p == Digits(a.port)
<1>1. /\ x.kind = a.family /\ p.kind = "digits" /\ a.family \in {"inet", "inet6"}
      /\ \A c : Mark(c).kind = c
  BY DEF Spelled, Digits, Mark, IsHost, IPFamilies
<1>2. CidrStr(a) = <<x>>
  BY <1>1 DEF CidrStr, IPFamilies
<1>3. IsNumeric(<<p>>)
  BY <1>1 DEF IsNumeric
<1>4. CASE a.family = "inet"
  <2>1. s = <<x, Mark(":"), p>>
    BY <1>2, <1>4, Together DEF FullStr
  <2> HIDE DEF s, x, p
  <2>2. /\ Len(s) = 3 /\ DOMAIN s = 1 .. 3
        /\ s[1] = x /\ s[2] = Mark(":") /\ s[3] = p
        /\ s \in Seq({x, Mark(":"), p})
    BY <2>1
  <2>3. s[1].kind = "inet" /\ s[2].kind = ":" /\ s[3].kind = "digits"
    BY <1>1, <1>4, <2>2
  <2>4. First(s, {"/"}) = 0 /\ First(s, {"["}) = 0
    <3>1. \A i \in DOMAIN s : s[i].kind \notin {"/"} /\ s[i].kind \notin {"["}
      BY <2>2, <2>3
    <3> QED
      BY <3>1, NoneIsFirst
  <2>5. ~HasMask(s) /\ BeforeMask(s) = s /\ ~InBrackets(s)
    BY <2>4 DEF HasMask, BeforeMask, InBrackets
  <2>6. First(s, {":", "inet6"}) = 2
    <3>1. {i \in DOMAIN s : s[i].kind \in {":", "inet6"}} = {2}
      BY <2>2, <2>3
    <3> QED
      BY <3>1, FirstIs
  <2>7. Colon(s) = 2
    BY <2>2, <2>5, <2>6 DEF Colon
  <2>8. Behind(s, 2) = <<p>>
    <3>1. Behind(s, 2) = SubSeq(s, 3, 3) /\ 3 \in 1 .. Len(s)
      BY <2>2 DEF Behind
    <3> QED
      BY <2>2, <3>1, OneToken
  <2>9. HasPort(s)
    BY <1>3, <2>7, <2>8 DEF HasPort
  <2>10. AddressPart(s) = <<x>>
    <3>1. AddressPart(s) = SubSeq(s, 1 + 0, 2 - 1 - 0) /\ 1 \in 1 .. Len(s)
      BY <2>2, <2>5, <2>7, <2>9 DEF AddressPart
    <3>2. AddressPart(s) = SubSeq(s, 1, 1)
      BY <3>1
    <3> QED
      BY <2>2, <3>1, <3>2, OneToken
  <2> QED
    BY <2>5, <2>7, <2>8, <2>9, <2>10 DEF s, x, p
<1>5. CASE a.family = "inet6"
  <2>1. s = <<Mark("["), x, Mark("]"), Mark(":"), p>>
    <3>1. s = <<Mark("[")>> \o <<x>> \o <<Mark("]"), Mark(":"), p>>
      BY <1>2, <1>5 DEF FullStr
    <3> DEFINE c == Mark("[")
               d == Mark("]")
               el == Mark(":")
    <3> HIDE DEF s, x, p, c, d, el
    <3>2. <<c>> \o <<x>> = <<c, x>>
      BY Together
    <3>3. <<c, x>> \o <<d, el, p>> = <<c, x, d, el, p>>
      BY Together
    <3>4. s = <<c, x>> \o <<d, el, p>>
      BY <3>1, <3>2 DEF c, d, el
    <3> QED
      BY <3>3, <3>4 DEF c, d, el
  <2> HIDE DEF s, x, p
  <2>2. /\ Len(s) = 5 /\ DOMAIN s = 1 .. 5
        /\ s[1] = Mark("[") /\ s[2] = x /\ s[3] = Mark("]") /\ s[4] = Mark(":") /\ s[5] = p
        /\ s \in Seq({x, Mark("["), Mark("]"), Mark(":"), p})
    BY <2>1
  <2>3. /\ s[1].kind = "[" /\ s[2].kind = "inet6" /\ s[3].kind = "]"
        /\ s[4].kind = ":" /\ s[5].kind = "digits"
    BY <1>1, <1>5, <2>2
  <2>4. First(s, {"/"}) = 0
    BY <2>2, <2>3, NoneIsFirst
  <2>5. First(s, {"["}) = 1
    <3>1. {i \in DOMAIN s : s[i].kind \in {"["}} = {1}
      BY <2>2, <2>3
    <3> QED
      BY <3>1, FirstIs
  <2>6. ~HasMask(s) /\ BeforeMask(s) = s /\ InBrackets(s)
    BY <2>4, <2>5 DEF HasMask, BeforeMask, InBrackets
  <2>7. Colon(s) = 4
    <3> DEFINE closed == {i \in DOMAIN s \ {1} :
                            s[i] = Mark(":") /\ i > 2 /\ s[i - 1] = Mark("]")}
    <3>1. closed = {4}
      <4>1. \A i \in closed : i = 4
        <5> SUFFICES ASSUME NEW i \in closed PROVE i = 4
          OBVIOUS
        <5>1. i \in 1 .. 5 /\ s[i] = Mark(":")
          BY <2>2
        <5>2. s[i].kind = ":"
          BY <1>1, <5>1
        <5> QED
          BY <2>3, <5>1, <5>2
      <4>2. 4 \in closed
        BY <2>2
      <4> QED
        BY <4>1, <4>2
    <3>2. Min({4}) \in {4}
      BY FirstPlace
    <3>3. Colon(s) = IF closed = {} THEN 0 ELSE Min(closed)
      BY <2>6 DEF Colon
    <3> HIDE DEF closed
    <3> QED
      BY <3>1, <3>2, <3>3
  <2>8. Behind(s, 4) = <<p>>
    BY <2>2, OneToken DEF Behind
  <2>9. HasPort(s)
    BY <1>3, <2>7, <2>8 DEF HasPort
  <2>10. AddressPart(s) = <<x>>
    <3>1. AddressPart(s) = SubSeq(s, 1 + 1, 4 - 1 - 1)
      BY <2>6, <2>7, <2>9 DEF AddressPart
    <3> QED
      BY <2>2, <3>1, OneToken
  <2> QED
    BY <2>6, <2>7, <2>8, <2>9, <2>10 DEF s, x, p
<1> QED
  BY <1>1, <1>4, <1>5

(* A network, as netspec() prints it.                                      *)
LEMMA NetspecTextIs ==
  ASSUME NEW n, IsHost(n.addr)
  PROVE  LET s == Netspec(n)
         IN  /\ HasMask(s) /\ BeforeMask(s) = <<Spelled(n.addr)>>
             /\ Behind(s, First(s, {"/"})) = <<Digits(n.mask)>>
<1> DEFINE s == Netspec(n)
           x == Spelled(n.addr)
           m == Digits(n.mask)
<1>1. /\ x.kind = n.addr.family /\ m.kind = "digits"
      /\ n.addr.family \in {"inet", "inet6"} /\ Mark("/").kind = "/"
  BY DEF Spelled, Digits, Mark, IsHost, IPFamilies
<1>2. CidrStr(n.addr) = <<x>>
  BY <1>1 DEF CidrStr, IPFamilies
<1>3. s = <<x, Mark("/"), m>>
  BY <1>2, Together DEF Netspec
<1> HIDE DEF s, x, m
<1>4. /\ Len(s) = 3 /\ DOMAIN s = 1 .. 3
      /\ s[1] = x /\ s[2] = Mark("/") /\ s[3] = m
      /\ s \in Seq({x, Mark("/"), m})
  BY <1>3
<1>5. First(s, {"/"}) = 2
  <2>1. {i \in DOMAIN s : s[i].kind \in {"/"}} = {2}
    BY <1>1, <1>4
  <2> QED
    BY <2>1, FirstIs
<1>6. HasMask(s)
  BY <1>5 DEF HasMask
<1>7. BeforeMask(s) = <<x>>
  <2>1. BeforeMask(s) = SubSeq(s, 1, 1) /\ 1 \in 1 .. Len(s)
    BY <1>4, <1>5, <1>6 DEF BeforeMask
  <2> QED
    BY <1>4, <2>1, OneToken
<1>8. Behind(s, 2) = <<m>>
  BY <1>4, OneToken DEF Behind
<1> QED
  BY <1>5, <1>6, <1>7, <1>8 DEF s, x, m

-----------------------------------------------------------------------------
(* Parsing any text.                                                       *)

(* A place in the text, or none.                                           *)
LEMMA FirstType ==
  ASSUME NEW s \in Seq(Tokens), NEW kinds
  PROVE  First(s, kinds) \in 0 .. Len(s)
<1> DEFINE with == {i \in DOMAIN s : s[i].kind \in kinds}
<1>1. with \in SUBSET (1 .. Len(s)) /\ with \in SUBSET Nat /\ Len(s) \in Nat
  BY LenProperties
<1>2. First(s, kinds) = IF with = {} THEN 0 ELSE Min(with)
  BY DEF First
<1> HIDE DEF with
<1>3. with # {} => Min(with) \in with
  BY <1>1, FirstPlace
<1> DEFINE n == Len(s)
<1>4. n \in Nat /\ with \in SUBSET (1 .. n)
  BY <1>1
<1> HIDE DEF n
<1>5. 0 \in 0 .. n /\ 1 .. n \in SUBSET (0 .. n)
  BY <1>4
<1>6. First(s, kinds) \in 0 .. n
  BY <1>2, <1>3, <1>4, <1>5
<1> QED
  BY <1>6 DEF n

(* A part of a text is a text.                                             *)
LEMMA PartIsText ==
  ASSUME NEW s \in Seq(Tokens), NEW i \in Nat \ {0}, NEW j \in Int, j <= Len(s)
  PROVE  SubSeq(s, i, j) \in Seq(Tokens)
<1>1. ASSUME NEW h \in i .. j PROVE s[h] \in Tokens
  <2>1. h \in 1 .. Len(s)
    BY LenProperties
  <2> QED
    BY <2>1, ElementOfSeq
<1> QED
  BY <1>1, SubSeqProperties

(* Before the mask and behind the colon.                                   *)
LEMMA PartsAreTexts ==
  ASSUME NEW s \in Seq(Tokens)
  PROVE  /\ BeforeMask(s) \in Seq(Tokens)
         /\ Colon(s) \in 0 .. Len(s)
         /\ \A i \in 0 .. Len(s) : Behind(s, i) \in Seq(Tokens)
<1>1. Len(s) \in Nat /\ DOMAIN s = 1 .. Len(s)
  BY LenProperties
<1>2. BeforeMask(s) \in Seq(Tokens)
  <2>1. First(s, {"/"}) - 1 \in Int /\ First(s, {"/"}) - 1 <= Len(s)
    BY <1>1, FirstType
  <2>2. SubSeq(s, 1, First(s, {"/"}) - 1) \in Seq(Tokens)
    BY <2>1, PartIsText
  <2> QED
    BY <2>2 DEF BeforeMask
<1>3. Colon(s) \in 0 .. Len(s)
  <2> DEFINE closed == {i \in DOMAIN s \ {1} :
                          s[i] = Mark(":") /\ i > 2 /\ s[i - 1] = Mark("]")}
             first == First(s, {":", "inet6"})
  <2>1. closed \in SUBSET (1 .. Len(s)) /\ closed \in SUBSET Nat
    BY <1>1
  <2>2. first \in 0 .. Len(s)
    BY FirstType
  <2>3. Colon(s) \in {0, first} \/ (closed # {} /\ Colon(s) = Min(closed))
    BY DEF Colon
  <2> HIDE DEF closed, first
  <2>4. closed # {} => Min(closed) \in closed
    BY <2>1, FirstPlace
  <2> DEFINE n == Len(s)
  <2>5. n \in Nat /\ closed \in SUBSET (1 .. n) /\ first \in 0 .. n
    BY <1>1, <2>1, <2>2
  <2> HIDE DEF n
  <2>6. 0 \in 0 .. n /\ 1 .. n \in SUBSET (0 .. n)
    BY <2>5
  <2>7. Colon(s) \in 0 .. n
    BY <2>3, <2>4, <2>5, <2>6
  <2> QED
    BY <2>7 DEF n
<1>4. ASSUME NEW i \in 0 .. Len(s) PROVE Behind(s, i) \in Seq(Tokens)
  <2>1. i + 1 \in Nat \ {0} /\ Len(s) \in Int /\ Len(s) <= Len(s)
    BY <1>1
  <2>2. SubSeq(s, i + 1, Len(s)) \in Seq(Tokens)
    BY <2>1, PartIsText
  <2> QED
    BY <2>2 DEF Behind
<1> QED
  BY <1>2, <1>3, <1>4

(* A number.                                                               *)
LEMMA AtoiIs ==
  ASSUME NEW s \in Seq(Tokens)
  PROVE  Atoi(s) \in Nat
<1>1. CASE First(s, {"digits"}) = 1
  <2> DEFINE with == {i \in DOMAIN s : s[i].kind \in {"digits"}}
  <2>1. with \in SUBSET Nat /\ First(s, {"digits"}) = IF with = {} THEN 0 ELSE Min(with)
    BY LenProperties DEF First
  <2>2. 1 \in with
    <3> HIDE DEF with
    <3>1. with # {} /\ Min(with) = 1
      BY <1>1, <2>1
    <3> QED
      BY <2>1, <3>1, FirstPlace
  <2>3. 1 \in 1 .. Len(s) /\ s[1].kind = "digits"
    BY <2>2, LenProperties
  <2>4. s[1] \in Tokens
    BY <2>3, ElementOfSeq
  <2> QED
    BY <1>1, <2>3, <2>4, DigitsAre DEF Atoi
<1>2. CASE First(s, {"digits"}) # 1
  BY <1>2 DEF Atoi
<1> QED
  BY <1>1, <1>2

(* The number of a text that is one.                                       *)
LEMMA AtoiOfDigits ==
  ASSUME NEW n
  PROVE  Atoi(<<Digits(n)>>) = n
<1> DEFINE s == <<Digits(n)>>
<1>1. DOMAIN s = {1} /\ s[1].kind = "digits" /\ s[1].n = n
  BY DEF Digits
<1> HIDE DEF s
<1>2. {i \in DOMAIN s : s[i].kind \in {"digits"}} = {1}
  BY <1>1
<1>3. First(s, {"digits"}) = 1
  BY <1>2, FirstIs
<1>4. Atoi(s) = n
  BY <1>1, <1>3 DEF Atoi
<1> QED
  BY <1>4 DEF s

(* The port that is in a text, or else the given one.                      *)
Detected(s, given) ==
  IF given = 0 /\ HasPort(s) THEN Atoi(Behind(s, Colon(s))) % (Base * Base) ELSE given

(* It is one that has two bytes.                                           *)
LEMMA DetectedIs ==
  ASSUME NEW s \in Seq(Tokens), NEW given \in Ports
  PROVE  Detected(s, given) \in Ports
<1> DEFINE n == Atoi(Behind(s, Colon(s)))
<1>1. n \in Nat
  BY PartsAreTexts, AtoiIs
<1>2. Detected(s, given) \in {n % (Base * Base), given}
  BY DEF Detected
<1> HIDE DEF n
<1> DEFINE b == Base * Base
<1>3. b \in Nat \ {0}
  BY BaseIsPositive
<1>4. Ports = 0 .. b - 1
  BY DEF Ports
<1> HIDE DEF b
<1>5. n % b \in 0 .. b - 1
  BY <1>1, <1>3
<1> QED
  BY <1>2, <1>4, <1>5 DEF b

(* The outcome of parse_extended_cidr(), case by case: p is what           *)
(* inet_pton() made of a part of the text.                                 *)
Outcome(cidr, no_mask, given, p) ==
  LET s    == BeforeMask(cidr)
      addr == SetPort(p, Detected(s, given))
      mask == Atoi(Behind(cidr, First(cidr, {"/"})))
  IN  IF HasMask(cidr) /\ (no_mask \/ HasPort(s)) THEN Result("false", Unspec, -1)
      ELSE IF PToN(AddressPart(s)) = {} THEN Result("throw", Unspec, -1)
      ELSE IF no_mask THEN Result("true", addr, 0)
      ELSE IF HasMask(cidr) /\ mask \in 1 .. ByteBits * AddrBytes[addr.family]
      THEN Result("true", addr, mask)
      ELSE Result("false", addr, -1)

(* The set of addresses that the parse is stated with has no other member. *)
LEMMA ParseIs ==
  ASSUME NEW cidr, NEW no_mask \in BOOLEAN, NEW given, NEW p,
         LET found == PToN(AddressPart(BeforeMask(cidr))) IN found = {} \/ found = {p}
  PROVE  ParseExtendedCidr(cidr, no_mask, given) = Outcome(cidr, no_mask, given, p)
<1> DEFINE s == BeforeMask(cidr)
           found == PToN(AddressPart(s))
           d == Detected(s, given)
           parsed == {SetPort(a, d) : a \in found}
<1>1. found = {} <=> parsed = {}
  OBVIOUS
<1>2. found # {} => (CHOOSE a \in parsed : TRUE) = SetPort(p, d)
  <2> SUFFICES ASSUME found # {} PROVE (CHOOSE a \in parsed : TRUE) = SetPort(p, d)
    OBVIOUS
  <2>1. parsed = {SetPort(p, d)}
    OBVIOUS
  <2> HIDE DEF parsed
  <2> QED
    BY <2>1
<1> DEFINE addr == CHOOSE a \in parsed : TRUE
           mask == Atoi(Behind(cidr, First(cidr, {"/"})))
<1>3. ParseExtendedCidr(cidr, no_mask, given) =
        IF HasMask(cidr) /\ (no_mask \/ HasPort(s)) THEN Result("false", Unspec, -1)
        ELSE IF parsed = {} THEN Result("throw", Unspec, -1)
        ELSE IF no_mask THEN Result("true", addr, 0)
        ELSE IF HasMask(cidr) /\ mask \in 1 .. ByteBits * AddrBytes[addr.family]
        THEN Result("true", addr, mask)
        ELSE Result("false", addr, -1)
  BY DEF ParseExtendedCidr, Detected
<1> HIDE DEF addr, parsed
<1>4. found # {} => addr = SetPort(p, d)
  BY <1>2 DEF addr
<1> QED
  BY <1>1, <1>3, <1>4 DEF Outcome

(* Some ports.                                                             *)
LEMMA PortsAre ==
  {0, 1, Base * Base - 1} \subseteq Ports
<1>1. Base \in Nat /\ Base >= 2
  <2> DEFINE m == ByteBits - 1
             h == Pow2[m]
  <2>1. m \in Nat /\ ByteBits = m + 1
    BY AddressAssumption
  <2>2. Pow2[m + 1] = 2 * h /\ h \in Nat \ {0}
    BY <2>1, Pow2Defined
  <2> HIDE DEF m, h
  <2> QED
    BY <2>1, <2>2 DEF Base
<1> DEFINE b == Base
<1>2. b \in Nat /\ b >= 2
  BY <1>1
<1> HIDE DEF b
<1>3. b * b >= 4 /\ b * b \in Nat
  BY <1>2
<1> DEFINE c == b * b
<1>4. c \in Nat /\ c >= 4
  BY <1>3
<1> HIDE DEF c
<1>5. {0, 1, c - 1} \subseteq 0 .. c - 1
  BY <1>4
<1> QED
  BY <1>5 DEF b, c, Ports

(* What inet_pton() finds is an IP address without a port.                 *)
LEMMA FoundIs ==
  ASSUME NEW s
  PROVE  \E p : IsHost(p) /\ Portless(p) = p /\ (PToN(s) = {} \/ PToN(s) = {p})
<1> DEFINE p(f, ip) == [family |-> f, ip |-> ip, port |-> 0]
<1>1. ASSUME NEW f \in IPFamilies, NEW ip PROVE IsHost(p(f, ip)) /\ Portless(p(f, ip)) = p(f, ip)
  <2>1. 0 \in Ports
    BY PortsAre
  <2> QED
    BY <2>1 DEF IsHost, Portless
<1>2. CASE PToN(s) = {}
  <2>1. "inet" \in IPFamilies
    BY DEF IPFamilies
  <2>2. IsHost(p("inet", <<>>)) /\ Portless(p("inet", <<>>)) = p("inet", <<>>)
    BY <1>1, <2>1
  <2> QED
    BY <1>2, <2>2
<1>3. CASE PToN(s) # {}
  <2>1. s[1].kind \in IPFamilies /\ PToN(s) = {p(s[1].kind, s[1].ip)}
    BY <1>3, PToNIs
  <2>2. IsHost(p(s[1].kind, s[1].ip)) /\ Portless(p(s[1].kind, s[1].ip)) = p(s[1].kind, s[1].ip)
    BY <1>1, <2>1
  <2> QED
    BY <2>1, <2>2
<1> QED
  BY <1>2, <1>3

(* A text that is accepted is an IP address, one with a mask that is not   *)
(* longer and no port if masks are; a refused one leaves none if they are  *)
(* not.  The given port plays no part in whether a text is no address.     *)
LEMMA ResultIs ==
  ASSUME NEW s \in Seq(Tokens), NEW given \in Ports
  PROVE  /\ LET r == ParseExtendedCidr(s, TRUE, given)
            IN  \/ r.ret = "true" /\ IsHost(r.addr)
                \/ r.ret \in {"false", "throw"} /\ r.addr = Unspec
         /\ LET r == ParseExtendedCidr(s, FALSE, 0)
            IN  r.ret = "true" =>
                  /\ IsHost(r.addr) /\ r.addr.port = 0
                  /\ r.mask \in 1 .. ByteBits * AddrBytes[r.addr.family]
         /\ ParseExtendedCidr(s, TRUE, given).ret = "throw"
              => ParseExtendedCidr(s, TRUE, 0) = Result("throw", Unspec, -1)
<1> DEFINE t == BeforeMask(s)
           mask == Atoi(Behind(s, First(s, {"/"})))
<1>1. PICK p : /\ IsHost(p) /\ Portless(p) = p
               /\ (PToN(AddressPart(t)) = {} \/ PToN(AddressPart(t)) = {p})
  BY FoundIs
<1>2. \A no_mask \in BOOLEAN : \A q \in Ports :
        ParseExtendedCidr(s, no_mask, q) = Outcome(s, no_mask, q, p)
  BY <1>1, ParseIs
<1>3. \A q \in Ports : Detected(t, q) \in Ports
  BY PartsAreTexts, DetectedIs
<1>4. \A q \in Ports : IsHost(SetPort(p, q)) /\ SetPort(p, q).port = q
  BY <1>1, PortIsSet
<1>5. 0 \in Ports
  BY PortsAre
<1> DEFINE hasmask == HasMask(s)
           hasport == HasPort(t)
           nothing == PToN(AddressPart(t)) = {}
           with(q)   == SetPort(p, Detected(t, q))
           bits(a) == ByteBits * AddrBytes[a.family]
           refused == Result("false", Unspec, -1)
           thrown  == Result("throw", Unspec, -1)
           half    == Result("false", with(0), -1)
           host(q) == Result("true", with(q), 0)
           net     == Result("true", with(0), mask)
           r(q)    == ParseExtendedCidr(s, TRUE, q)
           rn      == ParseExtendedCidr(s, FALSE, 0)
<1>6. \A q \in Ports : IsHost(with(q)) /\ (~hasport => with(q).port = q)
  BY <1>3, <1>4 DEF Detected
<1>7. \A q \in Ports : /\ hasmask => r(q) = refused
                       /\ ~hasmask /\ nothing => r(q) = thrown
                       /\ ~hasmask /\ ~nothing => r(q) = host(q)
  BY <1>2 DEF Outcome
<1>8. \/ rn \in {refused, thrown, half}
      \/ rn = net /\ ~hasport /\ mask \in 1 .. bits(with(0))
  BY <1>2, <1>5 DEF Outcome
<1>9. /\ refused.ret = "false" /\ refused.addr = Unspec
      /\ thrown.ret = "throw" /\ thrown.addr = Unspec
      /\ half.ret = "false"
      /\ host(given).ret = "true" /\ host(given).addr = with(given)
      /\ net.ret = "true" /\ net.addr = with(0) /\ net.mask = mask
  BY DEF Result
<1> HIDE DEF t, mask, hasmask, hasport, nothing, with, bits, refused, thrown, half, host, net, r, rn
<1>10. \/ r(given).ret = "true" /\ IsHost(r(given).addr)
       \/ r(given).ret \in {"false", "throw"} /\ r(given).addr = Unspec
  <2>1. r(given) \in {refused, thrown, host(given)} /\ IsHost(with(given))
    BY <1>6, <1>7
  <2> QED
    BY <1>9, <2>1
<1>11. ASSUME rn.ret = "true"
       PROVE  IsHost(rn.addr) /\ rn.addr.port = 0 /\ rn.mask \in 1 .. bits(rn.addr)
  <2>1. rn = net /\ ~hasport /\ mask \in 1 .. bits(with(0))
    BY <1>8, <1>9, <1>11
  <2>2. rn.addr = with(0) /\ rn.mask = mask
    BY <1>9, <2>1
  <2> QED
    BY <1>5, <1>6, <2>1, <2>2
<1>12. ASSUME r(given).ret = "throw" PROVE r(0) = thrown
  <2>1. ~hasmask /\ nothing
    BY <1>7, <1>9, <1>12
  <2> QED
    BY <1>5, <1>7, <2>1
<1> QED
  BY <1>10, <1>11, <1>12 DEF bits, r, rn, thrown

(* The text of an IP address is accepted, and so is the one that has its   *)
(* port, which is made the same address of.                                *)
LEMMA HostReadsBack ==
  ASSUME NEW a, IsHost(a)
  PROVE  VerifyCidr(CidrStr(a)) /\ FromText(FullStr(a), 0) = a
<1> DEFINE x == <<Spelled(a)>>
           p == Portless(a)
<1>1. \A ret, addr, m : /\ Result(ret, addr, m).ret = ret
                        /\ Result(ret, addr, m).addr = addr
  BY DEF Result
<1>2. PToN(x) = {p}
  BY AloneIs
<1>3. VerifyCidr(CidrStr(a))
  <2>1. CidrStr(a) = x
    BY DEF CidrStr, IsHost
  <2>2. ~HasMask(x) /\ BeforeMask(x) = x /\ AddressPart(x) = x
    BY AloneIs
  <2> HIDE DEF x, p
  <2>3. ParseExtendedCidr(x, TRUE, 0) = Outcome(x, TRUE, 0, p)
    BY <1>2, <2>2, ParseIs
  <2>4. Outcome(x, TRUE, 0, p).ret = "true"
    BY <1>1, <1>2, <2>2 DEF Outcome
  <2> QED
    BY <2>1, <2>3, <2>4 DEF VerifyCidr
<1>4. FromText(FullStr(a), 0) = a
  <2> DEFINE s == FullStr(a)
             d == Detected(s, 0)
  <2>1. /\ ~HasMask(s) /\ BeforeMask(s) = s /\ HasPort(s)
        /\ Behind(s, Colon(s)) = <<Digits(a.port)>>
        /\ AddressPart(s) = x
    BY PrintedIs
  <2> HIDE DEF s, x
  <2>2. d = a.port
    <3>1. d = Atoi(<<Digits(a.port)>>) % (Base * Base)
      BY <2>1 DEF Detected
    <3>2. d = a.port % (Base * Base)
      BY <3>1, AtoiOfDigits
    <3> DEFINE b == Base * Base
               q == a.port
    <3>3. b \in Nat \ {0} /\ q \in 0 .. b - 1
      BY BaseIsPositive DEF Ports, IsHost
    <3> HIDE DEF b, q
    <3>4. q % b = q
      BY <3>3
    <3> QED
      BY <3>2, <3>4 DEF b, q
  <2>3. SetPort(p, d) = a
    BY <2>2, PortIsSet DEF IsHost
  <2> HIDE DEF p, d
  <2>4. ParseExtendedCidr(s, TRUE, 0) = Outcome(s, TRUE, 0, p)
    BY <1>2, <2>1, ParseIs
  <2>5. Outcome(s, TRUE, 0, p) = Result("true", SetPort(p, d), 0)
    BY <1>2, <2>1 DEF Outcome, d
  <2> DEFINE r == ParseExtendedCidr(s, TRUE, 0)
  <2>6. r.ret = "true" /\ r.addr = a
    <3>1. r = Result("true", a, 0)
      BY <2>3, <2>4, <2>5
    <3> HIDE DEF r
    <3> QED
      BY <3>1 DEF Result
  <2>7. FromText(s, 0) = IF r.ret = "throw" /\ s # <<>>
                         THEN [family |-> "local", ip |-> s, port |-> 0] ELSE r.addr
    BY DEF FromText
  <2> HIDE DEF r
  <2> QED
    BY <2>6, <2>7 DEF s
<1> QED
  BY <1>3, <1>4

(* The text of a network is accepted if its mask is not longer than an     *)
(* address, and then means the network.                                    *)
LEMMA NetspecReadsBack ==
  ASSUME NEW n, IsHost(n.addr), n.addr.port = 0
  PROVE  LET good == n.mask \in 1 .. ByteBits * AddrBytes[n.addr.family]
         IN  /\ VerifyNetspec(Netspec(n)) <=> good
             /\ good => ParseExtendedCidr(Netspec(n), FALSE, 0) = Result("true", n.addr, n.mask)
<1> DEFINE s == Netspec(n)
           x == <<Spelled(n.addr)>>
           a == n.addr
           p == Portless(a)
           mask == Atoi(Behind(s, First(s, {"/"})))
           bits == ByteBits * AddrBytes[a.family]
           r == ParseExtendedCidr(s, FALSE, 0)
<1>1. HasMask(s) /\ BeforeMask(s) = x /\ mask = n.mask
  BY NetspecTextIs, AtoiOfDigits
<1>2. ~HasPort(x) /\ AddressPart(x) = x /\ PToN(x) = {p}
  BY AloneIs
<1>3. SetPort(p, 0) = a
  BY PortsAre, PortIsSet
<1> HIDE DEF s, x, p
<1>4. r = Outcome(s, FALSE, 0, p)
  BY <1>1, <1>2, ParseIs
<1>5. Detected(x, 0) = 0
  BY <1>2 DEF Detected
<1> HIDE DEF mask, r
<1>6. /\ n.mask \in 1 .. bits => r = Result("true", a, n.mask)
      /\ n.mask \notin 1 .. bits => r = Result("false", a, -1)
  BY <1>1, <1>2, <1>3, <1>4, <1>5 DEF Outcome, mask
<1> DEFINE good == n.mask \in 1 .. bits
<1>7. /\ Result("true", a, n.mask).ret = "true"
      /\ Result("false", a, -1).ret = "false"
  BY DEF Result
<1> HIDE DEF good, bits
<1>8. r.ret = "true" <=> good
  BY <1>6, <1>7 DEF good
<1>9. VerifyNetspec(s) <=> r.ret = "true"
  BY DEF VerifyNetspec, r
<1> QED
  BY <1>6, <1>8, <1>9 DEF good, bits, s, r

(* Nothing is made of no text.                                             *)
LEMMA EmptyText ==
  FromText(<<>>, 0) = Unspec
<1> DEFINE s == <<>>
           r == ParseExtendedCidr(s, TRUE, 0)
<1>1. DOMAIN s = {} /\ Len(s) = 0 /\ s \in Seq(Tokens)
  OBVIOUS
<1>2. FromText(s, 0) = r.addr
  BY DEF FromText
<1> HIDE DEF s
<1>3. \A kinds : First(s, kinds) = 0
  BY <1>1, NoneIsFirst
<1>4. ~HasMask(s) /\ BeforeMask(s) = s /\ ~InBrackets(s)
  BY <1>3 DEF HasMask, BeforeMask, InBrackets
<1>5. Colon(s) = 0
  BY <1>3, <1>4 DEF Colon
<1>6. AddressPart(s) = SubSeq(s, 1, 0)
  BY <1>1, <1>4, <1>5 DEF AddressPart
<1>7. Len(SubSeq(s, 1, 0)) = 0
  BY <1>1, SubSeqProperties
<1>8. PToN(AddressPart(s)) = {}
  <2> DEFINE t == SubSeq(s, 1, 0)
  <2>1. AddressPart(s) = t /\ Len(t) # 1
    BY <1>6, <1>7
  <2> HIDE DEF t
  <2> QED
    BY <2>1, PToNIs
<1>9. r = Outcome(s, TRUE, 0, Unspec)
  BY <1>4, <1>8, ParseIs
<1>10. r = Result("throw", Unspec, -1)
  BY <1>4, <1>8, <1>9 DEF Outcome
<1> HIDE DEF r
<1>11. r.addr = Unspec
  BY <1>10 DEF Result
<1> QED
  BY <1>2, <1>11 DEF s

(* What is made of any text prints as one of which it is made again, ...   *)
LEMMA TextReadsBack ==
  ASSUME NEW s \in Seq(Tokens), NEW given \in Ports
  PROVE  LET a == FromText(s, given)
         IN  /\ FromText(FullStr(a), 0) = a
             /\ a.family \in IPFamilies => VerifyCidr(CidrStr(a))
<1> DEFINE a == FromText(s, given)
           r(q) == ParseExtendedCidr(s, TRUE, q)
           path == [family |-> "local", ip |-> s, port |-> 0]
<1>1. \A q \in Ports : FromText(s, q) = IF r(q).ret = "throw" /\ s # <<>> THEN path ELSE r(q).addr
  BY DEF FromText
<1>2. \/ r(given).ret = "true" /\ IsHost(r(given).addr)
      \/ r(given).ret \in {"false", "throw"} /\ r(given).addr = Unspec
  BY ResultIs
<1>3. r(given).ret = "throw" => r(0) = Result("throw", Unspec, -1)
  BY ResultIs
<1>4. Unspec.family = "unspec" /\ FullStr(Unspec) = <<>>
  BY DEF Unspec, FullStr
<1>5. path.family = "local" /\ FullStr(path) = s
  BY DEF FullStr
<1>6. Result("throw", Unspec, -1).ret = "throw"
  BY DEF Result
<1>7. "unspec" \notin IPFamilies /\ "local" \notin IPFamilies
  BY DEF IPFamilies
<1> HIDE DEF r, path
<1>8. CASE r(given).ret = "true"
  <2>1. IsHost(r(given).addr) /\ a = r(given).addr
    BY <1>1, <1>2, <1>8
  <2>2. IsHost(a)
    BY <2>1
  <2> HIDE DEF a
  <2> QED
    BY <2>2, HostReadsBack DEF a
<1>9. CASE r(given).ret = "throw" /\ s # <<>>
  <2>1. a = path
    BY <1>1, <1>9
  <2>2. r(0).ret = "throw" /\ 0 \in Ports
    BY <1>3, <1>6, <1>9, PortsAre
  <2>3. FromText(s, 0) = path
    BY <1>1, <1>9, <2>2
  <2> QED
    BY <1>5, <1>7, <2>1, <2>3
<1>10. CASE ~(r(given).ret = "true") /\ ~(r(given).ret = "throw" /\ s # <<>>)
  <2>1. a = Unspec
    BY <1>1, <1>2, <1>10
  <2> QED
    BY <1>4, <1>7, <2>1, EmptyText
<1> QED
  BY <1>8, <1>9, <1>10

-----------------------------------------------------------------------------
(* The client's texts and its network.                                     *)

(* ... and a network, an IP address without a port and with a mask that    *)
(* is not longer, is one that it can be copied by.                         *)
CidrIInv ==
  /\ cidr_text \in Seq(Tokens)
  /\ IsHost(network.addr) /\ network.addr.port = 0
  /\ network.mask \in 1 .. ByteBits * AddrBytes[network.addr.family]

(* The given addresses are IP addresses without a port.                    *)
LEMMA GivenAre ==
  ASSUME NEW a \in Given
  PROVE  IsHost(a) /\ a.port = 0
<1>1. a.port = 0 /\ (a \in AddressesOf("inet") \/ a \in AddressesOf("inet6"))
  BY CidrAssumption
<1>2. /\ a = [family |-> a.family, ip |-> a.ip, port |-> a.port]
      /\ a.family \in {"inet", "inet6"}
  BY <1>1 DEF AddressesOf
<1> QED
  BY <1>1, <1>2, PortsAre DEF IsHost, IPFamilies

(* The invariant holds of every state, ...                                 *)
LEMMA CidrInductive ==
  CidrSpec => []CidrIInv
<1>1. CidrInit => CidrIInv
  <2> SUFFICES ASSUME CidrInit PROVE CidrIInv
    OBVIOUS
  <2>1. network.addr \in Given /\ VerifyNetspec(Netspec(network)) /\ cidr_text = <<>>
    BY DEF CidrInit
  <2>2. IsHost(network.addr) /\ network.addr.port = 0
    BY <2>1, GivenAre
  <2>3. network.mask \in 1 .. ByteBits * AddrBytes[network.addr.family]
    BY <2>1, <2>2, NetspecReadsBack
  <2> QED
    BY <2>1, <2>2, <2>3 DEF CidrIInv
<1>2. CidrIInv /\ [CidrNext]_cidr_vars => CidrIInv'
  <2> SUFFICES ASSUME CidrIInv, [CidrNext]_cidr_vars PROVE CidrIInv'
    OBVIOUS
  <2>1. ASSUME NEW t \in Tokens, Write(t) PROVE CidrIInv'
    <3>1. cidr_text' = Append(cidr_text, t) /\ network' = network
      BY <2>1 DEF Write
    <3>2. cidr_text' \in Seq(Tokens)
      BY <3>1, AppendProperties DEF CidrIInv
    <3> QED
      BY <3>1, <3>2 DEF CidrIInv
  <2>2. CASE ResetNetwork
    <3> DEFINE r == ParseExtendedCidr(cidr_text, FALSE, 0)
    <3>1. r.ret = "true" => /\ IsHost(r.addr) /\ r.addr.port = 0
                            /\ r.mask \in 1 .. ByteBits * AddrBytes[r.addr.family]
      BY PortsAre, ResultIs DEF CidrIInv
    <3>2. /\ network' = IF r.ret = "true" THEN [addr |-> r.addr, mask |-> r.mask] ELSE network
          /\ cidr_text' = <<>> /\ <<>> \in Seq(Tokens)
      BY <2>2 DEF ResetNetwork
    <3> HIDE DEF r
    <3>3. CASE r.ret = "true"
      <4>1. network'.addr = r.addr /\ network'.mask = r.mask
        BY <3>2, <3>3
      <4> QED
        BY <3>1, <3>2, <3>3, <4>1 DEF CidrIInv
    <3>4. CASE r.ret # "true"
      BY <3>2, <3>4 DEF CidrIInv
    <3> QED
      BY <3>3, <3>4
  <2>3. CASE UNCHANGED cidr_vars
    BY <2>3 DEF CidrIInv, cidr_vars
  <2>4. CASE CidrNext
    <3>1. (\E t \in Tokens : Write(t)) \/ ResetNetwork
      BY <2>4 DEF CidrNext, Tokens
    <3> QED
      BY <2>1, <2>2, <3>1
  <2> QED
    BY <2>3, <2>4
<1> QED
  BY <1>1, <1>2, PTL DEF CidrSpec

(* ... and with it the texts and the network read back, whatever the       *)
(* client wrote, for all ports, addresses and masks.                       *)
THEOREM TextsReadBack == CidrSpec => []ReadsBack
<1>1. CidrIInv => ReadsBack
  <2> SUFFICES ASSUME CidrIInv PROVE ReadsBack
    OBVIOUS
  <2>1. cidr_text \in Seq(Tokens)
    BY DEF CidrIInv
  <2>2. ASSUME NEW given \in {0, 1} \union {Base * Base - 1}
        PROVE  LET a == FromText(cidr_text, given)
               IN  /\ FromText(FullStr(a), 0) = a
                   /\ a.family \in IPFamilies => VerifyCidr(CidrStr(a))
    <3>1. given \in Ports
      BY PortsAre
    <3> QED
      BY <2>1, <3>1, TextReadsBack
  <2>3. /\ VerifyNetspec(Netspec(network))
        /\ ParseExtendedCidr(Netspec(network), FALSE, 0) =
             Result("true", network.addr, network.mask)
    BY NetspecReadsBack DEF CidrIInv
  <2> QED
    BY <2>2, <2>3 DEF ReadsBack
<1> QED
  BY <1>1, CidrInductive, PTL

-----------------------------------------------------------------------------
(* The forms of texts                                                      *)

(* What a token is, by its kind.                                           *)
LEMMA TokenIs ==
  ASSUME NEW t \in Tokens
  PROVE  /\ t.kind \in {"[", "]", ":", "/", "x", "inet", "inet6", "digits"}
         /\ t.kind \in IPFamilies => \E a \in Given : t = Spelled(a)
         /\ t.kind = "digits" => \E n \in Runs : t = Digits(n)
         /\ \A c : t = Mark(c) => t.kind = c
         /\ t.kind \in {"[", "]", ":", "/"} => t = Mark(t.kind)
<1>1. \A c : Mark(c).kind = c
  BY DEF Mark
<1>2. CASE t \in Delimiters \union {Mark("x")}
  BY <1>1, <1>2 DEF Delimiters, IPFamilies
<1>3. CASE t \in {Spelled(a) : a \in Given}
  <2>1. PICK a \in Given : t = Spelled(a)
    BY <1>3
  <2>2. t.kind \in {"inet", "inet6"}
    BY <2>1, GivenAre DEF IsHost, Spelled, IPFamilies
  <2> QED
    BY <1>1, <2>1, <2>2
<1>4. CASE t \in {Digits(n) : n \in Runs}
  <2>1. PICK n \in Runs : t = Digits(n)
    BY <1>4
  <2>2. t.kind = "digits"
    BY <2>1 DEF Digits
  <2> QED
    BY <1>1, <2>1, <2>2 DEF IPFamilies
<1> QED
  BY <1>2, <1>3, <1>4 DEF Tokens

(* The first place of some tokens has one, and those before it have none.  *)
LEMMA FirstHas ==
  ASSUME NEW s \in Seq(Tokens), NEW kinds, First(s, kinds) # 0
  PROVE  /\ First(s, kinds) \in 1 .. Len(s) /\ s[First(s, kinds)].kind \in kinds
         /\ \A i \in 1 .. Len(s) : i < First(s, kinds) => s[i].kind \notin kinds
<1> DEFINE with == {i \in DOMAIN s : s[i].kind \in kinds}
<1>1. with \in SUBSET Nat /\ First(s, kinds) = IF with = {} THEN 0 ELSE Min(with)
  BY LenProperties DEF First
<1>2. with # {} /\ First(s, kinds) = Min(with)
  BY <1>1
<1>3. First(s, kinds) \in with /\ \A i \in with : First(s, kinds) <= i
  <2> HIDE DEF with
  <2> QED
    BY <1>1, <1>2, FirstPlace
<1> DEFINE f == First(s, kinds)
<1>4. f \in Nat /\ f \in with /\ \A i \in with : f <= i
  BY <1>1, <1>3
<1> HIDE DEF f
<1>5. \A i \in 1 .. Len(s) : i < f => i \notin with
  BY <1>4
<1> QED
  BY <1>4, <1>5, LenProperties DEF f

(* A place that has one, where those before it have none, is the first.    *)
LEMMA FirstWhere ==
  ASSUME NEW s \in Seq(Tokens), NEW kinds, NEW k \in 1 .. Len(s), s[k].kind \in kinds,
         \A i \in 1 .. Len(s) : i < k => s[i].kind \notin kinds
  PROVE  First(s, kinds) = k
<1> DEFINE with == {i \in DOMAIN s : s[i].kind \in kinds}
<1>1. /\ with \in SUBSET Nat /\ k \in with /\ k \in Nat
      /\ \A i \in with : ~(i < k)
  BY LenProperties
<1>2. First(s, kinds) = IF with = {} THEN 0 ELSE Min(with)
  BY DEF First
<1> HIDE DEF with
<1>3. Min(with) \in with /\ Min(with) <= k
  BY <1>1, FirstPlace
<1> DEFINE m == Min(with)
<1>4. m \in Nat /\ ~(m < k) /\ m <= k
  BY <1>1, <1>3
<1> HIDE DEF m
<1>5. m = k
  BY <1>1, <1>4
<1> QED
  BY <1>1, <1>2, <1>5 DEF m

(* What is behind a place is nothing or one token, or more.                *)
LEMMA BehindIs ==
  ASSUME NEW s \in Seq(Tokens), NEW c \in 1 .. Len(s)
  PROVE  /\ Len(s) = c => Behind(s, c) = <<>>
         /\ Len(s) = c + 1 => Behind(s, c) = <<s[c + 1]>>
         /\ IsNumeric(Behind(s, c)) <=>
              Len(s) = c \/ (Len(s) = c + 1 /\ s[c + 1].kind = "digits")
<1>1. Len(s) \in Nat /\ c \in Nat \ {0} /\ c <= Len(s)
  BY LenProperties
<1>2. Len(Behind(s, c)) = Len(s) - c
  BY <1>1 DEF Behind
<1>3. ASSUME Len(s) = c PROVE Behind(s, c) = <<>>
  <2>1. c < c + 1 /\ c + 1 \in Int
    BY <1>1
  <2>2. SubSeq(s, c + 1, c) = <<>>
    BY <1>1, <2>1, SubSeqEmpty
  <2> QED
    BY <1>3, <2>2 DEF Behind
<1>4. ASSUME Len(s) = c + 1 PROVE Behind(s, c) = <<s[c + 1]>>
  <2>1. c + 1 \in 1 .. Len(s)
    BY <1>1, <1>4
  <2>2. SubSeq(s, c + 1, c + 1) = <<s[c + 1]>>
    BY <2>1, OneToken
  <2> QED
    BY <1>4, <2>2 DEF Behind
<1>5. Len(s) # c /\ Len(s) # c + 1 => Behind(s, c) # <<>> /\ Len(Behind(s, c)) # 1
  <2>1. Len(<<>>) = 0
    OBVIOUS
  <2> QED
    BY <1>1, <1>2, <2>1
<1>6. <<s[c + 1]>> # <<>> /\ Len(<<s[c + 1]>>) = 1 /\ <<s[c + 1]>>[1] = s[c + 1]
  OBVIOUS
<1>7. Len(s) = c + 1 => Len(s) # c
  BY <1>1
<1> DEFINE b == Behind(s, c)
<1>8. IsNumeric(b) <=> b = <<>> \/ (Len(b) = 1 /\ b[1].kind = "digits")
  BY DEF IsNumeric
<1> HIDE DEF b
<1>9. IsNumeric(b) <=> Len(s) = c \/ (Len(s) = c + 1 /\ s[c + 1].kind = "digits")
  BY <1>3, <1>4, <1>5, <1>6, <1>7, <1>8 DEF b
<1> QED
  BY <1>3, <1>4, <1>9 DEF b

(* The forms with a colon, possibly with a port behind it: an address in   *)
(* brackets, and a bare one.                                               *)
Bracketed(s, x) ==
  /\ s[1] = Mark("[") /\ s[2] = x /\ s[3] = Mark("]") /\ s[4] = Mark(":")
  /\ Len(s) = 4 \/ (Len(s) = 5 /\ s[5].kind = "digits")

Bare(s, x) ==
  /\ s[1] = x /\ x.kind = "inet" /\ s[2] = Mark(":")
  /\ Len(s) = 2 \/ (Len(s) = 3 /\ s[3].kind = "digits")

(* The text is that of the address alone, or has one of these forms.       *)
HasForm(s, x) == s = <<x>> \/ Bracketed(s, x) \/ Bare(s, x)

(* Where the colon is, and what is around it.                              *)
LEMMA ColonOfForms ==
  ASSUME NEW s \in Seq(Tokens), NEW x \in Tokens, x.kind \in IPFamilies,
         Bracketed(s, x) \/ Bare(s, x)
  PROVE  /\ ~HasMask(s) /\ HasPort(s) /\ AddressPart(s) = <<x>>
         /\ Atoi(Behind(s, Colon(s))) = Atoi(SubSeq(s, Len(s), Len(s)))
<1>1. /\ \A i \in 1 .. Len(s) : s[i] \in Tokens
      /\ DOMAIN s = 1 .. Len(s) /\ Len(s) \in Nat
      /\ \A c : Mark(c).kind = c
      /\ x.kind \in {"inet", "inet6"}
  BY LenProperties, ElementOfSeq DEF Mark, IPFamilies
<1>2. Atoi(<<>>) = 0 /\ \A t : t.kind # "digits" => Atoi(<<t>>) = 0
  <2>1. First(<<>>, {"digits"}) = 0
    <3>1. DOMAIN <<>> = {}
      OBVIOUS
    <3> QED
      BY <3>1, NoneIsFirst
  <2>2. ASSUME NEW t, t.kind # "digits" PROVE First(<<t>>, {"digits"}) = 0
    <3>1. DOMAIN <<t>> = {1} /\ <<t>>[1] = t
      OBVIOUS
    <3> QED
      BY <2>2, <3>1, NoneIsFirst
  <2> QED
    BY <2>1, <2>2 DEF Atoi
<1>3. ASSUME Colon(s) \in 1 .. Len(s), s[Colon(s)] = Mark(":"),
             \/ Len(s) = Colon(s)
             \/ Len(s) = Colon(s) + 1 /\ s[Colon(s) + 1].kind = "digits"
      PROVE  /\ HasPort(s)
             /\ Atoi(Behind(s, Colon(s))) = Atoi(SubSeq(s, Len(s), Len(s)))
  <2> DEFINE c == Colon(s)
             n == Len(s)
  <2>1. c # 0 /\ IsNumeric(Behind(s, c)) /\ HasPort(s)
    BY <1>1, <1>3, BehindIs DEF HasPort
  <2>2. SubSeq(s, n, n) = <<s[n]>>
    <3>1. n \in 1 .. n
      BY <1>1, <1>3
    <3> QED
      BY <3>1, OneToken
  <2>3. CASE n = c
    <3>1. Behind(s, c) = <<>> /\ s[n].kind # "digits"
      BY <1>1, <1>3, <2>3, BehindIs
    <3> QED
      BY <1>2, <2>1, <2>2, <3>1
  <2>4. CASE n = c + 1
    <3>1. Behind(s, c) = <<s[n]>>
      BY <1>3, <2>4, BehindIs
    <3> QED
      BY <2>1, <2>2, <3>1
  <2> QED
    BY <1>3, <2>3, <2>4
<1> DEFINE n == Len(s)
<1>4. /\ n \in Nat /\ DOMAIN s = 1 .. n
      /\ \A i \in 1 .. n : s[i] \in Tokens /\ SubSeq(s, i, i) = <<s[i]>>
  BY <1>1, OneToken
<1>5. \A kinds :
        /\ (\A i \in 1 .. n : s[i].kind \notin kinds) => First(s, kinds) = 0
        /\ \A k \in 1 .. n :
             s[k].kind \in kinds /\ (\A i \in 1 .. n : i < k => s[i].kind \notin kinds)
               => First(s, kinds) = k
  BY <1>1, NoneIsFirst, FirstWhere
<1>6. CASE Bracketed(s, x)
  <2>1. /\ s[1] = Mark("[") /\ s[2] = x /\ s[3] = Mark("]") /\ s[4] = Mark(":")
        /\ n = 4 \/ (n = 5 /\ s[5].kind = "digits")
    BY <1>6 DEF Bracketed
  <2> HIDE DEF n
  <2>2. \A i \in 1 .. n : i \in {1, 2, 3, 4} \/ (i = 5 /\ s[5].kind = "digits")
    BY <2>1
  <2>3. s[1].kind = "[" /\ s[3].kind = "]" /\ s[4].kind = ":"
    BY <1>1, <2>1
  <2>4. First(s, {"/"}) = 0
    <3>1. \A i \in 1 .. n : s[i].kind \notin {"/"}
      BY <1>1, <2>1, <2>2, <2>3
    <3> QED
      BY <1>5, <3>1
  <2>5. First(s, {"["}) = 1
    <3>1. 1 \in 1 .. n /\ \A i \in 1 .. n : ~(i < 1)
      BY <2>1
    <3> QED
      BY <1>5, <2>3, <3>1
  <2>6. ~HasMask(s) /\ InBrackets(s)
    BY <2>4, <2>5 DEF HasMask, InBrackets
  <2>7. Colon(s) = 4
    <3> DEFINE closed == {i \in DOMAIN s \ {1} :
                            s[i] = Mark(":") /\ i > 2 /\ s[i - 1] = Mark("]")}
    <3>1. \A i \in closed : i = 4
      <4> SUFFICES ASSUME NEW i \in closed PROVE i = 4
        OBVIOUS
      <4>1. i \in 1 .. n /\ s[i].kind = ":"
        BY <1>1, <1>4
      <4> QED
        BY <1>1, <2>1, <2>2, <2>3, <4>1
    <3>2. 4 \in closed
      <4>1. 4 \in DOMAIN s \ {1} /\ 4 - 1 = 3 /\ 4 > 2
        BY <1>4, <2>1
      <4> QED
        BY <2>1, <4>1
    <3>3. Colon(s) = IF closed = {} THEN 0 ELSE Min(closed)
      BY <2>6 DEF Colon
    <3> HIDE DEF closed
    <3>4. closed = {4}
      BY <3>1, <3>2
    <3>5. Min({4}) \in {4}
      BY FirstPlace
    <3> QED
      BY <3>3, <3>4, <3>5
  <2>8. HasPort(s) /\ Atoi(Behind(s, Colon(s))) = Atoi(SubSeq(s, Len(s), Len(s)))
    <3>1. 4 \in 1 .. n /\ (n = 4 \/ (n = 4 + 1 /\ s[4 + 1].kind = "digits"))
      BY <2>1
    <3> QED
      BY <1>3, <2>1, <2>7, <3>1 DEF n
  <2>9. AddressPart(s) = <<x>>
    <3>1. AddressPart(s) = SubSeq(s, 1 + 1, 4 - 1 - 1)
      BY <2>6, <2>7, <2>8 DEF AddressPart
    <3>2. AddressPart(s) = SubSeq(s, 2, 2)
      BY <3>1
    <3>3. 2 \in 1 .. n
      BY <2>1
    <3> QED
      BY <1>4, <2>1, <3>2, <3>3
  <2> QED
    BY <2>6, <2>8, <2>9
<1>7. CASE Bare(s, x)
  <2>1. /\ s[1] = x /\ x.kind = "inet" /\ s[2] = Mark(":")
        /\ n = 2 \/ (n = 3 /\ s[3].kind = "digits")
    BY <1>7 DEF Bare
  <2> HIDE DEF n
  <2>2. \A i \in 1 .. n : i \in {1, 2} \/ (i = 3 /\ s[3].kind = "digits")
    BY <2>1
  <2>3. s[1].kind = "inet" /\ s[2].kind = ":"
    BY <1>1, <2>1
  <2>4. First(s, {"/"}) = 0 /\ First(s, {"["}) = 0
    <3>1. \A i \in 1 .. n : s[i].kind \notin {"/"} /\ s[i].kind \notin {"["}
      BY <1>1, <2>1, <2>2, <2>3
    <3> QED
      BY <1>5, <3>1
  <2>5. First(s, {":", "inet6"}) = 2
    <3>1. 2 \in 1 .. n /\ \A i \in 1 .. n : i < 2 => i = 1
      BY <2>1
    <3> QED
      BY <1>5, <2>3, <3>1
  <2>6. ~HasMask(s) /\ ~InBrackets(s)
    BY <2>4 DEF HasMask, InBrackets
  <2>7. Colon(s) = 2
    BY <2>1, <2>5, <2>6 DEF Colon
  <2>8. HasPort(s) /\ Atoi(Behind(s, Colon(s))) = Atoi(SubSeq(s, Len(s), Len(s)))
    <3>1. 2 \in 1 .. n /\ (n = 2 \/ (n = 2 + 1 /\ s[2 + 1].kind = "digits"))
      BY <2>1
    <3> QED
      BY <1>3, <2>1, <2>7, <3>1 DEF n
  <2>9. AddressPart(s) = <<x>>
    <3>1. AddressPart(s) = SubSeq(s, 1 + 0, 2 - 1 - 0)
      BY <2>6, <2>7, <2>8 DEF AddressPart
    <3>2. AddressPart(s) = SubSeq(s, 1, 1)
      BY <3>1
    <3>3. 1 \in 1 .. n
      BY <2>1
    <3> QED
      BY <1>4, <2>1, <3>2, <3>3
  <2> QED
    BY <2>6, <2>8, <2>9
<1> QED
  BY <1>6, <1>7

(* A text in which an address is found, alone or before a port, is one of  *)
(* the forms.                                                              *)
LEMMA FoundHasForm ==
  ASSUME NEW s \in Seq(Tokens), PToN(AddressPart(s)) # {}
  PROVE  \E a \in Given : \/ s = <<Spelled(a)>> /\ ~HasPort(s)
                          \/ (Bracketed(s, Spelled(a)) \/ Bare(s, Spelled(a))) /\ HasPort(s)
<1> DEFINE n == Len(s)
           c == Colon(s)
           skip == IF InBrackets(s) /\ c # 0 THEN 1 ELSE 0
           upto == IF HasPort(s) THEN c - 1 - skip ELSE n
           x == s[1 + skip]
<1>1. /\ n \in Nat /\ DOMAIN s = 1 .. n /\ c \in 0 .. n
      /\ \A i \in 1 .. n : s[i] \in Tokens
  BY LenProperties, ElementOfSeq, PartsAreTexts
<1>2. AddressPart(s) = SubSeq(s, 1 + skip, upto)
  BY DEF AddressPart
<1>3. /\ Len(SubSeq(s, 1 + skip, upto)) = 1 /\ SubSeq(s, 1 + skip, upto)[1].kind \in IPFamilies
  BY <1>2, PToNIs
<1>4. skip \in {0, 1} /\ upto \in Int /\ upto <= n
  BY <1>1
<1>5. InBrackets(s) => 1 \in 1 .. n /\ s[1].kind = "[" /\ s[1] = Mark("[")
  <2> SUFFICES ASSUME InBrackets(s)
               PROVE  1 \in 1 .. n /\ s[1].kind = "[" /\ s[1] = Mark("[")
    OBVIOUS
  <2>1. First(s, {"["}) = 1
    BY DEF InBrackets
  <2>2. 1 \in 1 .. n /\ s[1].kind \in {"["}
    BY <2>1, FirstHas
  <2> QED
    BY <1>1, <2>2, TokenIs
<1>6. HasPort(s) => /\ c \in 1 .. n /\ s[c] = Mark(":")
                    /\ n = c \/ (n = c + 1 /\ s[c + 1].kind = "digits")
  <2> SUFFICES ASSUME HasPort(s)
               PROVE  /\ c \in 1 .. n /\ s[c] = Mark(":")
                      /\ n = c \/ (n = c + 1 /\ s[c + 1].kind = "digits")
    OBVIOUS
  <2>1. c # 0 /\ IsNumeric(Behind(s, c))
    BY DEF HasPort
  <2>2. c \in 1 .. n
    BY <1>1, <2>1
  <2>3. s[c] = Mark(":")
    <3> DEFINE closed == {i \in DOMAIN s \ {1} :
                            s[i] = Mark(":") /\ i > 2 /\ s[i - 1] = Mark("]")}
               first == First(s, {":", "inet6"})
    <3>1. c = IF InBrackets(s) THEN IF closed = {} THEN 0 ELSE Min(closed)
              ELSE IF first # 0 /\ s[first] = Mark(":") THEN first ELSE 0
      BY DEF Colon
    <3>2. closed \in SUBSET Nat /\ \A i \in closed : s[i] = Mark(":")
      BY <1>1
    <3> HIDE DEF c, closed, first
    <3>3. closed # {} => Min(closed) \in closed
      BY <3>2, FirstPlace
    <3> QED
      BY <2>1, <3>1, <3>2, <3>3 DEF c
  <2> QED
    BY <2>1, <2>2, <2>3, BehindIs
<1>7. InBrackets(s) /\ c # 0 => c > 2 /\ s[c - 1] = Mark("]")
  <2> SUFFICES ASSUME InBrackets(s), c # 0 PROVE c > 2 /\ s[c - 1] = Mark("]")
    OBVIOUS
  <2> DEFINE closed == {i \in DOMAIN s \ {1} :
                          s[i] = Mark(":") /\ i > 2 /\ s[i - 1] = Mark("]")}
  <2>1. c = IF closed = {} THEN 0 ELSE Min(closed)
    BY DEF Colon
  <2>2. /\ closed \in SUBSET Nat
        /\ \A i \in closed : i > 2 /\ s[i - 1] = Mark("]")
    BY <1>1
  <2> HIDE DEF closed, c
  <2>3. c \in closed
    BY <2>1, <2>2, FirstPlace
  <2> QED
    BY <2>2, <2>3
<1> HIDE DEF n, c
<1>8. upto = 1 + skip /\ 1 + skip \in 1 .. n /\ SubSeq(s, 1 + skip, upto)[1] = x
  <2> HIDE DEF skip, upto
  <2>1. Len(SubSeq(s, 1 + skip, upto)) =
          IF 1 + skip <= upto THEN upto - (1 + skip) + 1 ELSE 0
    <3> DEFINE from == 1 + skip
    <3>1. from \in Int
      BY <1>4
    <3> HIDE DEF from
    <3>2. Len(SubSeq(s, from, upto)) = IF from <= upto THEN upto - from + 1 ELSE 0
      BY ONLY <1>4, <3>1, s \in Seq(Tokens)
    <3> QED
      BY <3>2 DEF from
  <2>2. upto = 1 + skip
    BY <1>3, <1>4, <2>1
  <2>3. 1 + skip \in 1 .. Len(s)
    <3>1. 1 + skip \in 1 .. n
      BY <1>1, <1>4, <2>2
    <3> QED
      BY <3>1 DEF n
  <2>4. SubSeq(s, 1 + skip, upto) = <<x>>
    BY <2>2, <2>3, OneToken
  <2>5. SubSeq(s, 1 + skip, upto)[1] = x
    <3> HIDE DEF x
    <3>1. <<x>>[1] = x
      OBVIOUS
    <3> QED
      BY ONLY <2>4, <3>1
  <2> QED
    BY ONLY <2>2, <2>3, <2>5 DEF n
<1>9. x \in Tokens /\ x.kind \in IPFamilies
  BY <1>1, <1>3, <1>8
<1>10. PICK a \in Given : x = Spelled(a)
  BY <1>9, TokenIs
<1>11. CASE InBrackets(s) /\ c # 0
  <2>1. skip = 1 /\ x = s[2] /\ 2 \in 1 .. n
    BY <1>8, <1>11
  <2>2. HasPort(s)
    <3> SUFFICES ASSUME ~HasPort(s) PROVE FALSE
      OBVIOUS
    <3>1. n = 2
      BY <1>8, <2>1
    <3> QED
      BY <1>1, <1>7, <1>11, <3>1
  <2>3. c = 4 /\ s[3] = Mark("]") /\ s[4] = Mark(":")
    <3>1. upto = c - 1 - skip /\ upto = 1 + skip
      BY <1>8, <2>2
    <3>2. c = 4
      <4> HIDE DEF upto, skip
      <4> QED
        BY <1>1, <2>1, <3>1
    <3> QED
      BY <1>6, <1>7, <1>11, <2>2, <3>2
  <2>4. n = 4 \/ (n = 5 /\ s[5].kind = "digits")
    BY <1>6, <2>2, <2>3
  <2>5. Bracketed(s, x)
    BY <1>5, <1>11, <2>1, <2>3, <2>4 DEF Bracketed, n
  <2> QED
    BY <1>10, <2>2, <2>5
<1>12. CASE ~(InBrackets(s) /\ c # 0)
  <2>1. skip = 0 /\ x = s[1] /\ 1 \in 1 .. n
    BY <1>8, <1>12
  <2>2. ~InBrackets(s)
    BY <1>5, <1>9, <2>1 DEF IPFamilies
  <2>3. CASE HasPort(s)
    <3>1. c = 2 /\ s[2] = Mark(":")
      <4>1. upto = c - 1 - skip /\ upto = 1 + skip
        BY <1>8, <2>3
      <4>2. c = 2
        <5> HIDE DEF upto, skip
        <5> QED
          BY <1>1, <2>1, <4>1
      <4> QED
        BY <1>6, <2>3, <4>2
    <3>2. x.kind = "inet"
      <4>1. First(s, {":", "inet6"}) = 2
        BY <2>2, <3>1 DEF Colon, c
      <4>2. s[1].kind \notin {":", "inet6"}
        BY <2>1, <4>1, FirstHas DEF n
      <4> QED
        BY <1>9, <2>1, <4>2 DEF IPFamilies
    <3>3. n = 2 \/ (n = 3 /\ s[3].kind = "digits")
      BY <1>6, <2>3, <3>1
    <3>4. Bare(s, x)
      BY <2>1, <3>1, <3>2, <3>3 DEF Bare, n
    <3> QED
      BY <1>10, <2>3, <3>4
  <2>4. CASE ~HasPort(s)
    <3>1. n = 1
      BY <1>8, <2>1, <2>4
    <3>2. s = <<x>>
      <4>1. s \in Seq(Tokens) /\ <<x>> \in Seq(Tokens) /\ Len(<<x>>) = 1 /\ <<x>>[1] = x
        BY <1>9
      <4> QED
        BY <2>1, <3>1, <4>1, SeqEqual DEF n
    <3> QED
      BY <1>10, <2>4, <3>2
  <2> QED
    BY <2>3, <2>4
<1> QED
  BY <1>11, <1>12

(* Sequences of some length, and two put together.                         *)
LEMMA ShortSequences ==
  ASSUME NEW S, NEW s \in Seq(S)
  PROVE  /\ Len(s) = 1 => s = <<s[1]>>
         /\ Len(s) = 2 => s = <<s[1], s[2]>>
         /\ Len(s) = 3 => s = <<s[1], s[2], s[3]>>
         /\ Len(s) = 4 => s = <<s[1], s[2], s[3], s[4]>>
         /\ Len(s) = 5 => s = <<s[1], s[2], s[3], s[4], s[5]>>
OBVIOUS

(* One token more, or none.                                                *)
LEMMA OneMore ==
  \A v, w, x, y, z :
    /\ <<v, w>> \o <<x>> = <<v, w, x>>
    /\ <<v, w, x, y>> \o <<z>> = <<v, w, x, y, z>>
    /\ <<v, w>> \o <<>> = <<v, w>>
    /\ <<v, w, x, y>> \o <<>> = <<v, w, x, y>>
<1> SUFFICES ASSUME NEW v, NEW w, NEW x, NEW y, NEW z
             PROVE  /\ <<v, w>> \o <<x>> = <<v, w, x>>
                    /\ <<v, w, x, y>> \o <<z>> = <<v, w, x, y, z>>
                    /\ <<v, w>> \o <<>> = <<v, w>>
                    /\ <<v, w, x, y>> \o <<>> = <<v, w, x, y>>
  OBVIOUS
<1> DEFINE S == {v, w, x, y, z}
<1>1. /\ <<v, w>> \in Seq(S) /\ <<x>> \in Seq(S) /\ <<z>> \in Seq(S)
      /\ <<v, w, x, y>> \in Seq(S) /\ <<v, w, x>> \in Seq(S)
      /\ <<v, w, x, y, z>> \in Seq(S)
  OBVIOUS
<1> HIDE DEF S
<1>2. <<v, w>> \o <<x>> = <<v, w, x>>
  <2> DEFINE s == <<v, w>> \o <<x>>
             t == <<v, w, x>>
  <2>1. s \in Seq(S) /\ Len(s) = 3 /\ s[1] = v /\ s[2] = w /\ s[3] = x
    BY <1>1, ConcatProperties
  <2>2. Len(t) = 3 /\ t[1] = v /\ t[2] = w /\ t[3] = x
    OBVIOUS
  <2>3. t \in Seq(S)
    BY <1>1
  <2> HIDE DEF s, t
  <2>4. s = t
    BY <2>1, <2>2, <2>3, SeqEqual
  <2> QED
    BY <2>4 DEF s, t
<1>3. <<v, w, x, y>> \o <<z>> = <<v, w, x, y, z>>
  <2> DEFINE s == <<v, w, x, y>> \o <<z>>
             t == <<v, w, x, y, z>>
  <2>1. s \in Seq(S) /\ Len(s) = 5
    BY <1>1, ConcatProperties
  <2>5. s[1] = v /\ s[2] = w /\ s[3] = x /\ s[4] = y /\ s[5] = z
    BY <1>1, ConcatProperties
  <2>2. Len(t) = 5 /\ t[1] = v /\ t[2] = w /\ t[3] = x /\ t[4] = y /\ t[5] = z
    OBVIOUS
  <2>3. t \in Seq(S)
    BY <1>1
  <2> HIDE DEF s, t
  <2>4. s = t
    BY <2>1, <2>2, <2>3, <2>5, SeqEqual
  <2> QED
    BY <2>4 DEF s, t
<1>4. <<v, w>> \o <<>> = <<v, w>> /\ <<v, w, x, y>> \o <<>> = <<v, w, x, y>>
  BY <1>1, ConcatEmptySeq
<1> QED
  BY <1>2, <1>3, <1>4

(* The first three tokens.                                                 *)
LEMMA FirstThree ==
  ASSUME NEW S, NEW s \in Seq(S), Len(s) > 2
  PROVE  SubSeq(s, 1, 3) = <<s[1], s[2], s[3]>>
<1> DEFINE t == SubSeq(s, 1, 3)
<1>1. t \in Seq(S) /\ Len(t) = 3 /\ t[1] = s[1] /\ t[2] = s[2] /\ t[3] = s[3]
  OBVIOUS
<1> HIDE DEF t
<1>2. t = <<t[1], t[2], t[3]>>
  BY <1>1, ShortSequences
<1> QED
  BY <1>1, <1>2 DEF t

(* The forms are those of HostTexts.                                       *)
LEMMA HostTextsAre ==
  ASSUME NEW a \in Given, NEW s \in Seq(Tokens)
  PROVE  s \in HostTexts(a) <=> HasForm(s, Spelled(a))
<1> DEFINE x == Spelled(a)
           four == <<Mark("["), x, Mark("]"), Mark(":")>>
           two  == <<x, Mark(":")>>
           delimiteds == {four} \union (IF a.family = "inet" THEN {two} ELSE {})
           ports == {<<>>} \union {<<Digits(n)>> : n \in Runs}
<1>1. s \in HostTexts(a) <=> \/ s = <<x>>
                             \/ \E d \in delimiteds : \E p \in ports : s = d \o p
  BY DEF HostTexts
<1>2. x.kind = a.family /\ \A n : Digits(n).kind = "digits"
  BY DEF Spelled, Digits
<1>3. /\ four \o <<>> = four /\ two \o <<>> = two
      /\ \A n : /\ four \o <<Digits(n)>> = <<Mark("["), x, Mark("]"), Mark(":"), Digits(n)>>
                /\ two \o <<Digits(n)>> = <<x, Mark(":"), Digits(n)>>
  BY OneMore
<1>4. \A i \in 1 .. Len(s) : s[i].kind = "digits" => \E n \in Runs : s[i] = Digits(n)
  BY LenProperties, ElementOfSeq, TokenIs
<1>5. ASSUME s \in HostTexts(a) PROVE HasForm(s, x)
  <2>1. \/ s = <<x>>
        \/ s = four \/ \E n \in Runs : s = four \o <<Digits(n)>>
        \/ a.family = "inet" /\ (s = two \/ \E n \in Runs : s = two \o <<Digits(n)>>)
    BY <1>1, <1>3, <1>5
  <2>2. CASE s = <<x>>
    BY <2>2 DEF HasForm
  <2>3. CASE s = four
    <3>1. Len(s) = 4 /\ s[1] = Mark("[") /\ s[2] = x /\ s[3] = Mark("]") /\ s[4] = Mark(":")
      BY <2>3
    <3> QED
      BY <3>1 DEF HasForm, Bracketed
  <2>4. ASSUME NEW n \in Runs, s = four \o <<Digits(n)>> PROVE HasForm(s, x)
    <3>1. s = <<Mark("["), x, Mark("]"), Mark(":"), Digits(n)>>
      BY <1>3, <2>4
    <3>2. /\ Len(s) = 5 /\ s[1] = Mark("[") /\ s[2] = x /\ s[3] = Mark("]")
          /\ s[4] = Mark(":") /\ s[5] = Digits(n)
      BY <3>1
    <3> HIDE DEF x
    <3> QED
      BY <1>2, <3>2 DEF HasForm, Bracketed
  <2>5. CASE a.family = "inet" /\ s = two
    <3>1. Len(s) = 2 /\ s[1] = x /\ s[2] = Mark(":")
      BY <2>5
    <3> HIDE DEF x
    <3> QED
      BY <1>2, <2>5, <3>1 DEF HasForm, Bare
  <2>6. ASSUME NEW n \in Runs, a.family = "inet", s = two \o <<Digits(n)>>
        PROVE  HasForm(s, x)
    <3>1. s = <<x, Mark(":"), Digits(n)>>
      BY <1>3, <2>6
    <3>2. Len(s) = 3 /\ s[1] = x /\ s[2] = Mark(":") /\ s[3] = Digits(n)
      BY <3>1
    <3> HIDE DEF x
    <3> QED
      BY <1>2, <2>6, <3>2 DEF HasForm, Bare
  <2> QED
    BY <2>1, <2>2, <2>3, <2>4, <2>5, <2>6
<1>6. ASSUME Bracketed(s, x) PROVE s \in HostTexts(a)
  <2>1. /\ s[1] = Mark("[") /\ s[2] = x /\ s[3] = Mark("]") /\ s[4] = Mark(":")
        /\ Len(s) = 4 \/ (Len(s) = 5 /\ s[5].kind = "digits")
    BY <1>6 DEF Bracketed
  <2>2. CASE Len(s) = 4
    <3>1. s = four
      BY <2>1, <2>2, ShortSequences
    <3> QED
      BY <1>1, <1>3, <3>1
  <2>3. CASE Len(s) = 5
    <3>1. 5 \in 1 .. Len(s) /\ s[5].kind = "digits"
      BY <2>1, <2>3
    <3>2. PICK n \in Runs : s[5] = Digits(n)
      BY <1>4, <3>1
    <3>3. s = <<s[1], s[2], s[3], s[4], s[5]>>
      BY <2>3, ShortSequences
    <3>4. s = four \o <<Digits(n)>>
      BY <1>3, <2>1, <3>2, <3>3
    <3> HIDE DEF four
    <3> QED
      BY <1>1, <3>4
  <2> QED
    BY <2>1, <2>2, <2>3
<1>7. ASSUME Bare(s, x) PROVE s \in HostTexts(a)
  <2>1. /\ s[1] = x /\ a.family = "inet" /\ s[2] = Mark(":")
        /\ Len(s) = 2 \/ (Len(s) = 3 /\ s[3].kind = "digits")
    BY <1>2, <1>7 DEF Bare
  <2>2. CASE Len(s) = 2
    <3>1. s = two
      BY <2>1, <2>2, ShortSequences
    <3> QED
      BY <1>1, <1>3, <2>1, <3>1
  <2>3. CASE Len(s) = 3
    <3>1. 3 \in 1 .. Len(s) /\ s[3].kind = "digits"
      BY <2>1, <2>3
    <3>2. PICK n \in Runs : s[3] = Digits(n)
      BY <1>4, <3>1
    <3>3. s = <<s[1], s[2], s[3]>>
      BY <2>3, ShortSequences
    <3>4. s = two \o <<Digits(n)>>
      BY <1>3, <2>1, <3>2, <3>3
    <3> HIDE DEF two
    <3> QED
      BY <1>1, <2>1, <3>4
  <2> QED
    BY <2>1, <2>2, <2>3
<1> HIDE DEF x
<1> QED
  BY <1>1, <1>5, <1>6, <1>7 DEF HasForm, x

(* An address with another port.                                           *)
LEMMA OnPort ==
  ASSUME NEW a \in Given, NEW p
  PROVE  /\ SetPort(Portless(a), p) = [a EXCEPT !.port = p]
         /\ p = 0 => [a EXCEPT !.port = p] = a
<1>1. /\ a = [family |-> a.family, ip |-> a.ip, port |-> a.port] /\ a.port = 0
      /\ a.family \in IPFamilies
  BY GivenAre DEF IsHost
<1>2. SetPort(Portless(a), p) = [family |-> a.family, ip |-> a.ip, port |-> p]
  BY <1>1 DEF SetPort, Portless
<1>3. [a EXCEPT !.port = p] = [family |-> a.family, ip |-> a.ip, port |-> p]
  BY <1>1
<1> QED
  BY <1>1, <1>2, <1>3

(* What a text of a host's form means.                                     *)
LEMMA HostTextIsRead ==
  ASSUME NEW a \in Given, NEW s \in Seq(Tokens), HasForm(s, Spelled(a)), NEW given \in Nat
  PROVE  LET seen == Atoi(SubSeq(s, Len(s), Len(s))) % (Base * Base)
         IN  ParseExtendedCidr(s, TRUE, given) =
               Result("true", [a EXCEPT !.port = IF given = 0 THEN seen ELSE given], 0)
<1> DEFINE x == Spelled(a)
           seen == Atoi(SubSeq(s, Len(s), Len(s))) % (Base * Base)
           p == Portless(a)
           d == Detected(s, given)
<1>1. PToN(<<x>>) = {p} /\ IsHost(a) /\ x.kind \in IPFamilies
  <2>1. IsHost(a)
    BY GivenAre
  <2> QED
    BY <2>1, AloneIs DEF IsHost, Spelled
<1>2. x \in Tokens
  BY DEF Tokens
<1>3. /\ ~HasMask(s) /\ AddressPart(s) = <<x>>
      /\ d = IF given = 0 THEN seen ELSE given
  <2>1. CASE s = <<x>>
    <3>1. ~HasMask(s) /\ ~HasPort(s) /\ AddressPart(s) = s
      BY <1>1, <2>1, AloneIs
    <3>2. Atoi(SubSeq(s, Len(s), Len(s))) = 0
      <4>1. Len(s) = 1 /\ s[1] = x
        BY <2>1
      <4>2. SubSeq(s, 1, 1) = s
        <5>1. 1 \in 1 .. Len(s)
          BY <4>1
        <5>2. SubSeq(s, 1, 1) = <<s[1]>>
          BY <5>1, OneToken
        <5> QED
          BY <2>1, <4>1, <5>2
      <4>3. First(s, {"digits"}) = 0
        <5>1. \A i \in DOMAIN s : s[i].kind \notin {"digits"}
          BY <1>1, <4>1, LenProperties DEF IPFamilies
        <5> QED
          BY <5>1, NoneIsFirst
      <4>4. SubSeq(s, Len(s), Len(s)) = s
        BY <4>1, <4>2
      <4>5. Atoi(s) = 0
        BY <4>3 DEF Atoi
      <4> QED
        BY <4>4, <4>5
    <3>3. seen = 0
      <4> DEFINE b == Base * Base
      <4>1. b \in Nat \ {0}
        BY BaseIsPositive
      <4> HIDE DEF b
      <4>2. 0 % b = 0
        BY <4>1
      <4> QED
        BY <3>2, <4>2 DEF b
    <3>4. d = given
      BY <3>1 DEF Detected
    <3> QED
      BY <2>1, <3>1, <3>3, <3>4
  <2>2. CASE Bracketed(s, x) \/ Bare(s, x)
    <3>1. /\ ~HasMask(s) /\ HasPort(s) /\ AddressPart(s) = <<x>>
          /\ Atoi(Behind(s, Colon(s))) = Atoi(SubSeq(s, Len(s), Len(s)))
      BY <1>1, <1>2, <2>2, ColonOfForms
    <3> QED
      BY <3>1 DEF Detected
  <2> QED
    BY <2>1, <2>2 DEF HasForm
<1>4. BeforeMask(s) = s
  BY <1>3 DEF BeforeMask
<1> HIDE DEF x, p, d, seen
<1>5. ParseExtendedCidr(s, TRUE, given) = Outcome(s, TRUE, given, p)
  BY <1>1, <1>3, <1>4, ParseIs
<1>6. Outcome(s, TRUE, given, p) = Result("true", SetPort(p, d), 0)
  BY <1>1, <1>3, <1>4 DEF Outcome, d
<1>7. SetPort(p, d) = [a EXCEPT !.port = d]
  BY OnPort DEF p
<1> QED
  BY <1>3, <1>5, <1>6, <1>7 DEF seen

(* A text with an address is of a host's form; one with a mask as well has *)
(* the address before it, and behind it a number that is the mask.         *)
LEMMA AcceptedHasForm ==
  ASSUME NEW s \in Seq(Tokens)
  PROVE  /\ VerifyCidr(s) => \E a \in Given : HasForm(s, Spelled(a))
         /\ VerifyNetspec(s) =>
              \E a \in Given : \E n \in Runs :
                /\ Len(s) > 2 /\ s[1] = Spelled(a) /\ s[2] = Mark("/") /\ s[3] = Digits(n)
                /\ n \in 1 .. ByteBits * AddrBytes[a.family]
<1> DEFINE t == BeforeMask(s)
           f == First(s, {"/"})
           mask == Atoi(Behind(s, f))
<1>1. PICK p : /\ IsHost(p) /\ (PToN(AddressPart(t)) = {} \/ PToN(AddressPart(t)) = {p})
  BY FoundIs
<1>2. \A no_mask \in BOOLEAN : ParseExtendedCidr(s, no_mask, 0) = Outcome(s, no_mask, 0, p)
  BY <1>1, ParseIs
<1>3. t \in Seq(Tokens)
  BY PartsAreTexts
<1>4. \A addr, m : Result("false", addr, m).ret # "true" /\ Result("throw", addr, m).ret # "true"
  BY DEF Result
<1>5. ASSUME VerifyCidr(s) PROVE \E a \in Given : HasForm(s, Spelled(a))
  <2>1. Outcome(s, TRUE, 0, p).ret = "true"
    BY <1>2, <1>5 DEF VerifyCidr
  <2>2. ~HasMask(s) /\ PToN(AddressPart(t)) # {}
    BY <1>4, <2>1 DEF Outcome
  <2>3. t = s
    BY <2>2 DEF BeforeMask
  <2> QED
    BY <2>2, <2>3, FoundHasForm DEF HasForm
<1>6. ASSUME VerifyNetspec(s)
      PROVE  \E a \in Given : \E n \in Runs :
               /\ Len(s) > 2 /\ s[1] = Spelled(a) /\ s[2] = Mark("/") /\ s[3] = Digits(n)
               /\ n \in 1 .. ByteBits * AddrBytes[a.family]
  <2>1. Outcome(s, FALSE, 0, p).ret = "true"
    BY <1>2, <1>6 DEF VerifyNetspec
  <2> DEFINE addr == SetPort(p, Detected(t, 0))
  <2>2. /\ HasMask(s) /\ ~HasPort(t) /\ PToN(AddressPart(t)) # {}
        /\ mask \in 1 .. ByteBits * AddrBytes[addr.family]
    BY <1>4, <2>1 DEF Outcome
  <2>3. PICK a \in Given : t = <<Spelled(a)>>
    BY <1>3, <2>2, FoundHasForm
  <2>4. Len(s) \in Nat /\ f \in 1 .. Len(s) /\ f > 1 /\ t = SubSeq(s, 1, f - 1)
        /\ s[f].kind \in {"/"}
    <3>1. f > 1 /\ f \in 0 .. Len(s) /\ t = SubSeq(s, 1, f - 1)
      BY <2>2, FirstType DEF HasMask, BeforeMask
    <3>2. f # 0
      BY <3>1, LenProperties
    <3> QED
      BY <3>1, <3>2, FirstHas, LenProperties
  <2> HIDE DEF t, f, mask, addr
  <2>5. f = 2
    <3> DEFINE m == f - 1
    <3>1. m \in 1 .. Len(s) /\ f = m + 1
      BY <2>4
    <3> HIDE DEF m
    <3>2. Len(SubSeq(s, 1, m)) = m /\ m \in Nat
      BY <3>1, LenProperties
    <3> DEFINE u == SubSeq(s, 1, m)
    <3>3. Len(u) = m
      BY <3>2
    <3>4. u = <<Spelled(a)>>
      BY <2>3, <2>4 DEF m
    <3> HIDE DEF u
    <3>5. Len(u) = 1
      BY <3>4
    <3>6. m = 1
      BY <3>3, <3>5
    <3> QED
      BY <3>1, <3>6
  <2>6. /\ s[1] = Spelled(a) /\ s[2] = Mark("/")
        /\ \A i \in 1 .. Len(s) : s[i] \in Tokens
    <3>1. \A i \in 1 .. Len(s) : s[i] \in Tokens
      BY LenProperties, ElementOfSeq
    <3>2. s[2] = Mark("/")
      BY <2>4, <2>5, <3>1, TokenIs
    <3>3. SubSeq(s, 1, 1) = <<s[1]>>
      <4>1. 1 \in 1 .. Len(s)
        BY <2>4
      <4> QED
        BY <4>1, OneToken
    <3>4. <<s[1]>> = <<Spelled(a)>>
      BY <2>3, <2>4, <2>5, <3>3
    <3>5. s[1] = Spelled(a)
      BY <3>4
    <3> QED
      BY <3>1, <3>2, <3>5
  <2>7. mask # 0
    BY <2>2
  <2>8. First(Behind(s, 2), {"digits"}) = 1 /\ mask = Behind(s, 2)[1].n
    BY <2>5, <2>7 DEF Atoi, mask
  <2>9. Behind(s, 2) \in Seq(Tokens)
    BY <2>4, <2>5, PartsAreTexts
  <2>10. 1 \in 1 .. Len(Behind(s, 2)) /\ Behind(s, 2)[1].kind \in {"digits"}
    BY <2>8, <2>9, FirstHas
  <2>11. Len(s) > 2 /\ Behind(s, 2)[1] = s[3]
    <3> DEFINE b == SubSeq(s, 3, Len(s))
    <3>1. Behind(s, 2) = b
      BY DEF Behind
    <3>2. Len(b) > 0
      BY <2>9, <2>10, <3>1, LenProperties
    <3>3. Len(b) = IF 3 <= Len(s) THEN Len(s) - 3 + 1 ELSE 0
      BY <2>4
    <3>4. 3 <= Len(s)
      <4> HIDE DEF b
      <4> QED
        BY <2>4, <3>2, <3>3
    <3>5. b[1] = s[3]
      BY <3>4
    <3> QED
      BY <2>4, <3>1, <3>4, <3>5
  <2>12. 3 \in 1 .. Len(s)
    BY <2>4, <2>11
  <2>13. PICK n \in Runs : s[3] = Digits(n)
    BY <2>6, <2>10, <2>11, <2>12, TokenIs
  <2>14. mask = n
    BY <2>8, <2>11, <2>13 DEF Digits
  <2>15. addr.family = a.family
    <3>1. p = Portless(a)
      <4>1. IsHost(a)
        BY GivenAre
      <4>2. PToN(AddressPart(t)) = {Portless(a)}
        BY <2>3, <4>1, AloneIs
      <4> QED
        BY <1>1, <4>2
    <3> QED
      BY <3>1 DEF addr, SetPort, Portless
  <2> QED
    BY <2>2, <2>6, <2>11, <2>13, <2>14, <2>15
<1> QED
  BY <1>5, <1>6

(* What a text that begins with a network's form means.                    *)
LEMMA NetTextIsRead ==
  ASSUME NEW a \in Given, NEW n \in Nat, NEW s \in Seq(Tokens),
         Len(s) > 2, s[1] = Spelled(a), s[2] = Mark("/"), s[3] = Digits(n),
         n \in 1 .. ByteBits * AddrBytes[a.family]
  PROVE  ParseExtendedCidr(s, FALSE, 0) = Result("true", a, n)
<1> DEFINE x == <<Spelled(a)>>
           p == Portless(a)
           mask == Atoi(Behind(s, First(s, {"/"})))
<1>1. IsHost(a)
  BY GivenAre
<1>2. /\ s[1].kind \in {"inet", "inet6"} /\ s[2].kind = "/" /\ s[3].kind = "digits"
      /\ s[3].n = n /\ Len(s) \in Nat
  BY <1>1, LenProperties DEF IsHost, Spelled, Mark, Digits, IPFamilies
<1>3. First(s, {"/"}) = 2
  <2>1. 2 \in 1 .. Len(s) /\ \A i \in 1 .. Len(s) : i < 2 => i = 1
    BY <1>2
  <2> QED
    BY <1>2, <2>1, FirstWhere
<1>4. HasMask(s) /\ BeforeMask(s) = x
  <2>1. 1 \in 1 .. Len(s)
    BY <1>2
  <2>2. SubSeq(s, 1, 1) = x
    BY <2>1, OneToken
  <2> QED
    BY <1>3, <2>2 DEF HasMask, BeforeMask
<1>5. mask = n
  <2> DEFINE b == Behind(s, 2)
  <2>1. b \in Seq(Tokens)
    <3>1. 2 \in 0 .. Len(s)
      BY <1>2
    <3> QED
      BY <3>1, PartsAreTexts
  <2>2. 1 \in 1 .. Len(b) /\ b[1] = s[3]
    <3>1. b = SubSeq(s, 3, Len(s))
      BY DEF Behind
    <3>2. Len(SubSeq(s, 3, Len(s))) = Len(s) - 3 + 1 /\ SubSeq(s, 3, Len(s))[1] = s[3]
      OBVIOUS
    <3> HIDE DEF b
    <3> QED
      BY <1>2, <3>1, <3>2
  <2> HIDE DEF b
  <2>3. \A i \in 1 .. Len(b) : ~(i < 1)
    BY <2>1, LenProperties
  <2>4. First(b, {"digits"}) = 1
    BY <1>2, <2>1, <2>2, <2>3, FirstWhere
  <2> QED
    BY <1>2, <1>3, <2>2, <2>4 DEF Atoi, b
<1>6. PToN(x) = {p} /\ AddressPart(x) = x /\ ~HasPort(x)
  BY <1>1, AloneIs
<1>7. SetPort(p, 0) = a
  BY OnPort
<1> HIDE DEF x, p, mask
<1>8. ParseExtendedCidr(s, FALSE, 0) = Outcome(s, FALSE, 0, p)
  BY <1>4, <1>6, ParseIs
<1>9. Detected(x, 0) = 0
  BY <1>6 DEF Detected
<1>10. Outcome(s, FALSE, 0, p) = Result("true", a, mask)
  BY <1>4, <1>5, <1>6, <1>7, <1>9 DEF Outcome, mask
<1> QED
  BY <1>5, <1>8, <1>10

(* A text is accepted as the specification of a host, or of a network,     *)
(* only if it has the form of one, and it then means that host or network, *)
(* whatever the client wrote, for all addresses, ports and masks.          *)
THEOREM FormsAreAccepted == CidrSpec => []AcceptsItsForms
<1>1. CidrIInv => AcceptsItsForms
  <2> DEFINE s     == cidr_text
             hosts == {a \in Given : s \in HostTexts(a)}
             nets  == {a \in Given : Len(s) > 2 /\ SubSeq(s, 1, 3) \in NetworkTexts(a)}
             seen  == Atoi(SubSeq(s, Len(s), Len(s))) % (Base * Base)
             r     == ParseExtendedCidr(s, FALSE, 0)
  <2> SUFFICES ASSUME s \in Seq(Tokens) PROVE AcceptsItsForms
    BY DEF CidrIInv
  <2>1. \A ret, addr, m : /\ Result(ret, addr, m).ret = ret
                          /\ Result(ret, addr, m).addr = addr
                          /\ Result(ret, addr, m).mask = m
    BY DEF Result
  <2>2. ASSUME NEW a \in hosts
        PROVE  /\ VerifyCidr(s)
               /\ FromText(s, 0) = [a EXCEPT !.port = seen]
               /\ FromText(s, 1) = [a EXCEPT !.port = 1]
    <3>1. a \in Given /\ HasForm(s, Spelled(a))
      BY HostTextsAre
    <3> HIDE DEF seen, hosts, s
    <3>2. /\ ParseExtendedCidr(s, TRUE, 0) = Result("true", [a EXCEPT !.port = seen], 0)
          /\ ParseExtendedCidr(s, TRUE, 1) = Result("true", [a EXCEPT !.port = 1], 0)
      <4>1. 0 \in Nat /\ 1 \in Nat /\ 1 # 0
        OBVIOUS
      <4> QED
        BY <3>1, <4>1, HostTextIsRead DEF seen, s
    <3> DEFINE zero == [a EXCEPT !.port = seen]
               one  == [a EXCEPT !.port = 1]
               r0   == ParseExtendedCidr(s, TRUE, 0)
               r1   == ParseExtendedCidr(s, TRUE, 1)
    <3>3. r0 = Result("true", zero, 0) /\ r1 = Result("true", one, 0)
      BY <3>2
    <3>4. /\ VerifyCidr(s) <=> r0.ret = "true"
          /\ r0.ret # "throw" => FromText(s, 0) = r0.addr
          /\ r1.ret # "throw" => FromText(s, 1) = r1.addr
      BY DEF VerifyCidr, FromText
    <3> HIDE DEF zero, one, r0, r1
    <3>5. r0.ret = "true" /\ r0.addr = zero /\ r1.ret = "true" /\ r1.addr = one
      BY <2>1, <3>3
    <3> QED
      BY <3>4, <3>5 DEF zero, one
  <2>3. VerifyCidr(s) => hosts # {}
    BY AcceptedHasForm, HostTextsAre
  <2>4. \A a \in Given : a \in nets <=>
          \E n \in Runs : /\ Len(s) > 2 /\ n \in 1 .. ByteBits * AddrBytes[a.family]
                          /\ s[1] = Spelled(a) /\ s[2] = Mark("/") /\ s[3] = Digits(n)
    <3> TAKE a \in Given
    <3> DEFINE bits == ByteBits * AddrBytes[a.family]
    <3>1. Len(s) > 2 => SubSeq(s, 1, 3) = <<s[1], s[2], s[3]>>
      BY FirstThree
    <3>2. a \in nets <=> /\ Len(s) > 2
                         /\ \E n \in Runs \intersect 1 .. bits :
                              SubSeq(s, 1, 3) = <<Spelled(a), Mark("/"), Digits(n)>>
      BY DEF NetworkTexts
    <3> HIDE DEF nets, s, bits
    <3>3. \A x, y, z : <<s[1], s[2], s[3]>> = <<x, y, z>> <=> s[1] = x /\ s[2] = y /\ s[3] = z
      OBVIOUS
    <3>4. a \in nets <=> /\ Len(s) > 2
                         /\ \E n \in Runs \intersect 1 .. bits :
                              s[1] = Spelled(a) /\ s[2] = Mark("/") /\ s[3] = Digits(n)
      BY <3>1, <3>2, <3>3
    <3> QED
      BY <3>4 DEF bits
  <2>5. ASSUME NEW a \in nets
        PROVE  r.ret = "true" /\ r.addr = a /\ r.mask = s[3].n
    <3>1. PICK n \in Runs : /\ Len(s) > 2 /\ n \in 1 .. ByteBits * AddrBytes[a.family]
                            /\ s[1] = Spelled(a) /\ s[2] = Mark("/") /\ s[3] = Digits(n)
      BY <2>4
    <3>2. a \in Given /\ n \in Nat /\ s[3].n = n
      BY <3>1, CidrAssumption DEF Digits
    <3>3. r = Result("true", a, n)
      BY <3>1, <3>2, NetTextIsRead
    <3> HIDE DEF r
    <3> QED
      BY <2>1, <3>2, <3>3
  <2>6. VerifyNetspec(s) <=> r.ret = "true"
    BY DEF VerifyNetspec
  <2>7. VerifyNetspec(s) => nets # {}
    <3> SUFFICES ASSUME VerifyNetspec(s) PROVE nets # {}
      OBVIOUS
    <3>1. PICK a \in Given : \E n \in Runs :
             /\ Len(s) > 2 /\ s[1] = Spelled(a) /\ s[2] = Mark("/") /\ s[3] = Digits(n)
             /\ n \in 1 .. ByteBits * AddrBytes[a.family]
      BY AcceptedHasForm
    <3>2. a \in nets
      <4> HIDE DEF nets, s
      <4> QED
        BY <2>4, <3>1
    <3> QED
      BY <3>2
  <2>8. AcceptsItsForms <=>
          /\ VerifyCidr(s) <=> hosts # {}
          /\ VerifyNetspec(s) <=> nets # {}
          /\ \A a \in hosts : /\ FromText(s, 0) = [a EXCEPT !.port = seen]
                              /\ FromText(s, 1) = [a EXCEPT !.port = 1]
          /\ \A a \in nets : r.addr = a /\ r.mask = s[3].n
    BY DEF AcceptsItsForms
  <2> HIDE DEF s, hosts, nets, seen, r
  <2>9. VerifyCidr(s) <=> hosts # {}
    BY <2>2, <2>3
  <2>10. VerifyNetspec(s) <=> nets # {}
    BY <2>5, <2>6, <2>7
  <2> QED
    BY <2>2, <2>5, <2>8, <2>9, <2>10
<1> QED
  BY <1>1, CidrInductive, PTL
=============================================================================
