------------------------------- MODULE Powers -------------------------------
(***************************************************************************)
(* The powers of two, which widths of bytes, addresses and integers stand  *)
(* for: 1 << n.                                                            *)
(***************************************************************************)
EXTENDS Integers

Pow2[n \in Nat] == IF n = 0 THEN 1 ELSE 2 * Pow2[n - 1]
=============================================================================
