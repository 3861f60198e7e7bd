------------------------- MODULE MCConcurrentQueue -------------------------
(***************************************************************************)
(* Instances of ConcurrentQueue for TLC.                                   *)
(***************************************************************************)
EXTENDS ConcurrentQueue, TLC

Symmetry ==
  Permutations(Threads) \union Permutations(Nodes) \union Permutations(Values)
=============================================================================
