------------------------- MODULE RestartableThread -------------------------
(***************************************************************************)
(* What a tasklet promises its clients, without contexts, locks and        *)
(* notifications: each tasklet is one thread that is started, asked to     *)
(* stop, terminates, is joined, and can then be started again.             *)
(***************************************************************************)
CONSTANTS
  Tasklets, (* The tasklet objects.                                         *)
  OneShot   (* Those whose task function may return without being stopped.  *)

VARIABLE phase

Phases == {"absent", "idle", "running", "stopping", "finished"}

TypeOK == phase \in [Tasklets -> Phases]

Init == phase = [t \in Tasklets |-> "absent"]

Move(t, from, to) ==
  /\ phase[t] \in from
  /\ phase' = [phase EXCEPT ![t] = to]

Construct(t) == Move(t, {"absent"}, "idle")
Start(t)     == Move(t, {"idle"}, "running")
Stop(t)      == Move(t, {"running"}, "stopping")
Return(t)    == t \in OneShot /\ Move(t, {"running"}, "finished")
Terminate(t) == Move(t, {"stopping"}, "finished")
Join(t)      == Move(t, {"finished"}, "idle")
Destroy(t)   == Move(t, {"idle"}, "absent")

Next ==
  \E t \in Tasklets :
    \/ Construct(t) \/ Start(t) \/ Stop(t) \/ Return(t)
    \/ Terminate(t) \/ Join(t) \/ Destroy(t)

Spec == Init /\ [][Next]_phase
=============================================================================
