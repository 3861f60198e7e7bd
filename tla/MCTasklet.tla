----------------------------- MODULE MCTasklet -----------------------------
(***************************************************************************)
(* Instances of Tasklet for TLC.                                           *)
(***************************************************************************)
EXTENDS Tasklet, TLC

(* The calls that neither replace nor delete the context may overlap; a    *)
(* constructor, wait() or the destructor is the only call while it runs.   *)
SignalsOverlap == Signals \X Signals

(* As above, and clients also call stop() while another one waits.         *)
StopDuringWait ==
  SignalsOverlap \union {<<"stop", "wait">>, <<"wait", "stop">>}

Symmetry == Permutations(Contexts) \union Permutations(Callers)
=============================================================================
