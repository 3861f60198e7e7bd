----------------------------- MODULE MCNetwork -----------------------------
(***************************************************************************)
(* Instances of Network for TLC.  A byte has two bits, so that an IPv4     *)
(* address of two bytes is a number below 16, and an IPv6 address of three *)
(* one below 64.                                                           *)
(***************************************************************************)
EXTENDS Network

CONSTANTS IdA, IdB (* Two identifiers.                                      *)

IPv4(n) == [family |-> "inet", ip |-> FromNumber(n, Bytes4), port |-> 0]
IPv6(n) == [family |-> "inet6", ip |-> FromNumber(n, Bytes6), port |-> 0]

Spec4(n, mask) == [addr |-> IPv4(n), mask |-> mask]

(* 8 to 15 with six hosts, and 8 to 11 with two.                           *)
Networks4 == {Spec4(13, 1), Spec4(10, 2)}

(* Hosts of both networks, of one, of none, and one that is not IPv4.      *)
HostRequests == {IPv4(9), IPv4(10), IPv4(14), IPv4(3), IPv6(9)}

(* In the first network the identifiers have different addresses, in the   *)
(* second they collide.                                                    *)
TwoIds == {IdA, IdB}
Hashes == [id \in Identifiers |-> IF id = IdA THEN 2 ELSE 54]

NoIds      == {}
(* The address of the network itself.                                      *)
NetworkRequest == {IPv4(8)}
=============================================================================
