------------------------------ MODULE Resolve ------------------------------
(***************************************************************************)
(* resolve(), which asks getaddrinfo() for the addresses of one family     *)
(* after the other.  What getaddrinfo() answers may differ from one call   *)
(* to the next, and it may fail.                                           *)
(***************************************************************************)
EXTENDS Integers, Sequences

CONSTANTS
  HostNames,  (* Host names.                                                *)
  Numbers,    (* What distinguishes the addresses of a family.              *)
  PortValues, (* How many values a port has: 2^16.                          *)
  NamedPorts, (* Ports as numbers in a name: int, or NoPort for none.       *)
  NoPort,
  BadPort,    (* Something behind the colon that is not a number,           *)
  HugePort    (* and one that is too large for int.                         *)

ASSUME ResolveAssumption ==
  /\ PortValues \in Nat \ {0}
  /\ NamedPorts \subseteq Int \union {NoPort, BadPort, HugePort}
  /\ {NoPort, BadPort, HugePort} \intersect Int = {}
  /\ NoPort \notin {BadPort, HugePort} /\ BadPort # HugePort

EmptyName == "" \* Nothing before the colon, or at all.

VARIABLES
  pc,       (* What resolve() does next, or what came of it.                *)
  todo,     (* The families that it has not asked for yet.                  *)
  port,     (* The port for all addresses.                                  *)
  results,  (* The set it returns.                                          *)
  request,  (* History: what it was called with.                            *)
  answers   (* History: what getaddrinfo() has answered.                    *)

resolve_vars == <<pc, todo, port, results, request, answers>>

AddressFamilies == {"AF_INET", "AF_INET6"}
Types    == {"AT_UNSPEC", "AT_INET4", "AT_INET6", "AT_LOCAL"}
Port     == 0 .. PortValues - 1

Exceptions == {"invalid_argument", "out_of_range", "range_error", "logic_error"}

WithPort(a, p) == [family |-> a.family, number |-> a.number, port |-> p]

(* What getaddrinfo() answers: addresses of any families, an error that    *)
(* means that there are none, one that means a failure, or an unknown one. *)
Listed  == [family : AddressFamilies \union {"AF_UNIX"}, number : Numbers]
Answers == [error : {"none"}, found : SUBSET Listed]
             \union [error : {"EAI_NONAME", "EAI_AGAIN", "unknown"}, found : {{}}]

-----------------------------------------------------------------------------
(* The number behind the colon becomes one of 16 bits.                     *)
PortOf(p) == IF p = NoPort THEN 0 ELSE p % PortValues

(* The families that are asked for, one after the other.                   *)
FamiliesOf(type) ==
  CASE type = "AT_UNSPEC" -> <<"AF_INET", "AF_INET6">>
    [] type = "AT_INET4"  -> <<"AF_INET">>
    [] type = "AT_INET6"  -> <<"AF_INET6">>

ResolveInit ==
  /\ request \in
       [type : Types, host : HostNames \union {EmptyName}, port : NamedPorts]
  /\ pc = "called"
  /\ todo = <<>> /\ port = 0 /\ results = {} /\ answers = <<>>

(* The arguments are checked: that there is a name, which with a port may  *)
(* be nothing else, the port with std::stoi(), and then the type.          *)
Unnamed == request.host = EmptyName /\ request.port = NoPort

Refuse ==
  /\ pc = "called"
  /\ \/ /\ \/ Unnamed \/ request.port = BadPort
           \/ request.port # HugePort /\ request.type = "AT_LOCAL"
        /\ pc' = "invalid_argument"
     \/ request.port = HugePort /\ pc' = "out_of_range"
  /\ UNCHANGED <<todo, port, results, request, answers>>

Accept ==
  /\ pc = "called"
  /\ ~Unnamed /\ request.port \notin {BadPort, HugePort} /\ request.type # "AT_LOCAL"
  /\ pc' = "ask"
  /\ todo' = FamiliesOf(request.type)
  /\ port' = PortOf(request.port)
  /\ UNCHANGED <<results, request, answers>>

(* The exception an answer leads to: an error that nobody knows, or an     *)
(* address of a family that a socket_address has not.                      *)
Raised(answer) ==
  IF answer.error = "unknown" THEN {"logic_error"}
  ELSE IF \E a \in answer.found : a.family \notin AddressFamilies THEN {"range_error"}
  ELSE {}

(* A fault: addresses found before are given up.                           *)
AddedAlone(answer) == {WithPort(a, port) : a \in answer.found}

(* The addresses of an answer with the port set.  A failure adds none, and *)
(* the result of resolve_internal() is ignored.                            *)
Added(answer) ==
  results \union {WithPort(a, port) :
                    a \in {b \in answer.found : b.family \in AddressFamilies}}

(* resolve_internal() of the next family.  getaddrinfo() answers with any  *)
(* subset of the addresses of that family, and possibly with one of a      *)
(* family that was not asked for.                                          *)
Ask(answer) ==
  /\ pc = "ask" /\ todo # <<>>
  /\ \A a \in answer.found : a.family \in {Head(todo), "AF_UNIX"}
  /\ answers' = Append(answers, answer)
  /\ IF Raised(answer) # {}
     THEN pc' \in Raised(answer) /\ UNCHANGED <<todo, results>>
     ELSE /\ results' = Added(answer)
          /\ todo' = Tail(todo)
          /\ UNCHANGED pc
  /\ UNCHANGED <<port, request>>

Return ==
  /\ pc = "ask" /\ todo = <<>>
  /\ pc' = "returned"
  /\ UNCHANGED <<todo, port, results, request, answers>>

Terminated == pc \in {"returned"} \union Exceptions /\ UNCHANGED resolve_vars

ResolveNext ==
  \/ Refuse \/ Accept \/ Return \/ Terminated
  \/ \E answer \in Answers : Ask(answer)

ResolveSpec == ResolveInit /\ [][ResolveNext]_resolve_vars

-----------------------------------------------------------------------------
(* Properties.                                                             *)

(* All addresses that getaddrinfo() has answered.                          *)
Found == {a \in Listed : \E i \in DOMAIN answers : a \in answers[i].found}

(* resolve() returns the addresses of all answers, of each family that was *)
(* asked for and with the port of the name, and no others.  If there was   *)
(* one of another family among them, it raises an exception rather than    *)
(* return what it got.                                                     *)
ReturnsAllAnswers ==
  /\ pc = "returned" =>
       /\ Len(answers) = IF request.type = "AT_UNSPEC" THEN 2 ELSE 1
       /\ results = {WithPort(a, port) : a \in Found}
       /\ port \in Port
       /\ request.port # NoPort => (request.port - port) % PortValues = 0
  /\ (\E a \in Found : a.family \notin AddressFamilies) => pc = "range_error"
=============================================================================
