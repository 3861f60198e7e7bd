---------------------------- MODULE AddressPool ----------------------------
(***************************************************************************)
(* What a network promises those that reserve addresses in it: a pool of   *)
(* host addresses, of which each is reserved at most once until it is      *)
(* released, and in which each identifier stands for a fixed address.      *)
(***************************************************************************)
CONSTANTS
  Identifiers, (* The identifiers that stand for addresses.                 *)
  None         (* No argument, or no address.                               *)

VARIABLES
  hosts,    (* The addresses of the pool.                                   *)
  names,    (* The address of each identifier.                              *)
  reserved, (* The addresses that are reserved.                             *)
  result    (* What the last call was, its argument, and its outcome.       *)

vars == <<hosts, names, reserved, result>>

Outcome(call, arg, ret, addr) ==
  result' = [call |-> call, arg |-> arg, ret |-> ret, addr |-> addr]

Take(call, arg, a) ==
  /\ Outcome(call, arg, "ok", a)
  /\ a \in hosts \ reserved
  /\ reserved' = reserved \union {a}

Refuse(call, arg, what) == Outcome(call, arg, what, None) /\ UNCHANGED reserved

Init ==
  /\ names \in [Identifiers -> hosts]
  /\ reserved = {}
  /\ result = [call |-> "reset", arg |-> None, ret |-> "ok", addr |-> None]

(* Some address that is free, unless there is none, for which an exception *)
(* is what the code has; its header says that nothing is returned.         *)
Reserve ==
  \/ Take("reserve", None, result'.addr)
  \/ Refuse("reserve", None, "out_of_range") /\ hosts \subseteq reserved

(* The address of an identifier, unless it is reserved.                    *)
ReserveFor(id) ==
  \/ Take("reserve_id", id, names[id])
  \/ Refuse("reserve_id", id, "out_of_range") /\ names[id] \in reserved

MappedAddress(id) ==
  Outcome("map", id, "ok", names[id]) /\ UNCHANGED reserved

(* A given address, unless it is reserved or not one of the pool.          *)
ReserveAddress(a) ==
  \/ Take("reserve_addr", a, a)
  \/ Refuse("reserve_addr", a, "false") /\ a \notin hosts \ reserved

IsReserved(a) ==
  /\ Outcome("is_reserved", a, IF a \in reserved THEN "ok" ELSE "false", a)
  /\ UNCHANGED reserved

(* The header promises success for each address of the pool, the code has  *)
(* it for reserved ones: a client can rely on it for those, and on failure *)
(* for an address that is not one of the pool.                             *)
ReleaseAddress(a) ==
  \/ /\ Outcome("release", a, "ok", a)
     /\ reserved' = reserved \ {a}
     /\ a \in hosts
  \/ a \notin reserved /\ Refuse("release", a, "false")

(* Another pool takes the place of this one, with nothing reserved.        *)
Reset ==
  /\ Outcome("reset", None, "ok", None)
  /\ reserved' = {}
  /\ names' \in [Identifiers -> hosts']

(* The argument of a call is what its outcome records.                     *)
Next ==
  \/ Reset
  \/ /\ UNCHANGED <<hosts, names>>
     /\ \/ Reserve
        \/ \E id \in Identifiers : ReserveFor(id) \/ MappedAddress(id)
        \/ ReserveAddress(result'.arg)
        \/ ReleaseAddress(result'.arg)
        \/ IsReserved(result'.arg)

Spec == Init /\ [][Next]_vars
=============================================================================
