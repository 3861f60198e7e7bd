----------------------------- MODULE FifoQueue -----------------------------
(***************************************************************************)
(* What the concurrent queue promises: push(), pop(), size() and empty()   *)
(* each take effect on one sequence of values in a single step between     *)
(* their call and their return.                                            *)
(***************************************************************************)
EXTENDS Naturals, Sequences

CONSTANTS
  Threads, (* The threads that use the queue.                               *)
  Values,  (* The values pushed.                                            *)
  None

VARIABLES
  items,   (* The values in the queue, the oldest first.                    *)
  call     (* Of each thread: the operation it executes, whether that took  *)
           (* effect ("done"), and its argument or its result.              *)

vars == <<items, call>>

Idle == [op |-> None, stage |-> "idle", data |-> None]

Init ==
  /\ items = <<>>
  /\ call  = [t \in Threads |-> Idle]

Invoke(t) ==
  /\ call[t] = Idle
  /\ \/ \E v \in Values :
          call' = [call EXCEPT ![t] =
                     [op |-> "push", stage |-> "called", data |-> v]]
     \/ \E o \in {"pop", "size", "empty"} :
          call' = [call EXCEPT ![t] =
                     [op |-> o, stage |-> "called", data |-> None]]
  /\ UNCHANGED items

(* The operation o of t takes effect and will return r.                    *)
Effect(t, o, r) ==
  /\ call[t].op = o
  /\ call[t].stage = "called"
  /\ call' = [call EXCEPT ![t] = [op |-> o, stage |-> "done", data |-> r]]

Push(t) ==
  /\ Effect(t, "push", None)
  /\ items' = Append(items, call[t].data)

Pop(t) ==
  /\ items # <<>>
  /\ Effect(t, "pop", Head(items))
  /\ items' = Tail(items)

PopNothing(t) ==
  /\ items = <<>>
  /\ Effect(t, "pop", None)
  /\ UNCHANGED items

Size(t)  == Effect(t, "size", Len(items)) /\ UNCHANGED items

(* 1 stands for true, 0 for false.                                         *)
Empty(t) ==
  Effect(t, "empty", IF items = <<>> THEN 1 ELSE 0) /\ UNCHANGED items

Return(t) ==
  /\ call[t].stage = "done"
  /\ call' = [call EXCEPT ![t] = Idle]
  /\ UNCHANGED items

(* The destructor, when no operation is about to take effect.              *)
Destroy ==
  /\ \A t \in Threads : call[t].stage # "called"
  /\ items' = <<>>
  /\ UNCHANGED call

Next ==
  \/ Destroy
  \/ \E t \in Threads :
       \/ Invoke(t) \/ Push(t) \/ Pop(t) \/ PopNothing(t)
       \/ Size(t) \/ Empty(t) \/ Return(t)

Spec == Init /\ [][Next]_vars
=============================================================================
