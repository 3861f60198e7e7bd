------------------------------ MODULE Tasklet ------------------------------
(***************************************************************************)
(* The tasklet of liberate::concurrency: a thread that can be started,     *)
(* stopped, joined and started again.                                      *)
(*                                                                         *)
(* A tasklet owns a heap allocated context.  The context carries the       *)
(* running flag, the std::thread and the condition (mutex and condition    *)
(* variable) the task function sleeps on.  The calls start(), stop(),      *)
(* wait(), wakeup() and ~tasklet() read the context pointer without a lock *)
(* and then synchronise on the mutex inside the context; wait() and the    *)
(* destructor replace the context of the tasklet by a fresh one, join the  *)
(* thread of the old one and delete it.                                    *)
(*                                                                         *)
(* Threads of two kinds take steps: callers of the interface, and the      *)
(* threads of the tasklets, each named by the context it was created with. *)
(* A step ends where the code touches state another thread can see.        *)
(***************************************************************************)
CONSTANTS
  Tasklets,    (* The tasklet objects.                                      *)
  Contexts,    (* The identities of contexts; one is reused once no pointer *)
               (* to it is left.                                            *)
  Callers,     (* The client threads that call the interface.               *)
  Owned,       (* The tasklets created without an external condition.       *)
  OneShot,     (* The tasklets whose task function may return by itself.    *)
  MayOverlap,  (* The pairs of calls clients make on one tasklet at a time. *)
  Shared,      (* The external condition of the tasklets not in Owned.      *)
  None

Signals == {"start", "stop", "wakeup"}
Joins   == {"wait", "destroy"}
Ops     == Signals \union Joins \union {"create"}

ASSUME TaskletAssumption ==
  /\ Owned \subseteq Tasklets
  /\ OneShot \subseteq Tasklets
  /\ MayOverlap \subseteq Ops \X Ops
  /\ Shared \notin Contexts
  /\ Contexts \intersect Callers = {}
  /\ None \notin Tasklets \union Contexts \union Callers

VARIABLES
  mctx,    (* m_context of each tasklet; None when it is not constructed.   *)
  owner,   (* the_tasklet of each context; None when it is not allocated.   *)
  running, (* The running flag of each context.                             *)
  thread,  (* the_thread of each context, and where its task function is.   *)
  mutex,   (* The holder of the mutex of each condition.                    *)
  pc, op,  (* Of each caller: its place in the call it makes, and the call, *)
  tgt,     (*   the tasklet it is made on,                                  *)
  ctx,     (*   the local pointer ctx,                                      *)
  cur      (*   and the local pointer current of try_joining().             *)

vars == <<mctx, owner, running, thread, mutex, pc, op, tgt, ctx, cur>>
objects == <<mctx, owner, running, thread, mutex>>
locals  == <<op, tgt, ctx, cur>>

Conditions  == Contexts \union {Shared}

(* "none": not joinable.  Otherwise the thread runs the task function      *)
(* ("body"), holds the mutex in nanosleep() having seen the flag set       *)
(* ("check"), blocks on the condition variable ("waiting"), has to take    *)
(* the mutex again ("woken"), has seen sleep() return false ("leaving"),   *)
(* or has terminated and waits to be joined ("done").                      *)
ThreadStates ==
  {"none", "body", "check", "waiting", "woken", "leaving", "done"}

CallerStates ==
  {"idle", "lock", "swap", "notify", "join", "delete", "release"}

TypeOK ==
  /\ mctx    \in [Tasklets -> Contexts \union {None}]
  /\ owner   \in [Contexts -> Tasklets \union {None}]
  /\ running \in [Contexts -> BOOLEAN]
  /\ thread  \in [Contexts -> ThreadStates]
  /\ mutex   \in [Conditions -> Contexts \union Callers \union {None}]
  /\ pc      \in [Callers -> CallerStates]
  /\ op      \in [Callers -> Ops \union {None}]
  /\ tgt     \in [Callers -> Tasklets \union {None}]
  /\ ctx     \in [Callers -> Contexts \union {None}]
  /\ cur     \in [Callers -> Contexts \union {None}]

Init ==
  /\ mctx    = [t \in Tasklets |-> None]
  /\ owner   = [x \in Contexts |-> None]
  /\ running = [x \in Contexts |-> FALSE]
  /\ thread  = [x \in Contexts |-> "none"]
  /\ mutex   = [m \in Conditions |-> None]
  /\ pc      = [c \in Callers |-> "idle"]
  /\ op      = [c \in Callers |-> None]
  /\ tgt     = [c \in Callers |-> None]
  /\ ctx     = [c \in Callers |-> None]
  /\ cur     = [c \in Callers |-> None]

-----------------------------------------------------------------------------
(* Contexts, conditions and threads.                                       *)

Allocated(x) == owner[x] # None
Live(x)      == thread[x] \notin {"none", "done"}

FlagAsJoinable(x) == running[x] \* A fault: the flag in place of the thread.
Joinable(x)       == thread[x] # "none"

IndeterminateFlag == None       \* A fault: the flag is not initialised.
InitialFlag       == FALSE

(* The condition of a context: its own, or the external one.               *)
Cond(x) == IF owner[x] \in Owned THEN x ELSE Shared

(* The contexts a new can return.  Excluding those a caller still points   *)
(* to lets an access to a deleted context be told from a legal one.        *)
Fresh ==
  {x \in Contexts : /\ ~Allocated(x)
                    /\ \A c \in Callers : x \notin {ctx[c], cur[c]}}

(* The new context x of tasklet t.                                         *)
Construct(x, t) ==
  /\ owner'   = [owner EXCEPT ![x] = t]
  /\ running' = [running EXCEPT ![x] = InitialFlag]

Delete(x) ==
  /\ owner'   = [owner EXCEPT ![x] = None]
  /\ running' = [running EXCEPT ![x] = FALSE]
  /\ thread'  = [thread EXCEPT ![x] = "none"]

Waiters(m) == {x \in Contexts : thread[x] = "waiting" /\ Cond(x) = m}

(* A fault: notify_one() whatever the condition.                           *)
NotifiedOne(x) ==
  LET W == Waiters(Cond(x)) IN IF W # {} THEN {{w} : w \in W} ELSE {W}

(* The sets of threads send_notification(ctx) can wake: notify_one() for   *)
(* an owned condition, notify_all() for an external one.                   *)
Notified(x) ==
  LET W == Waiters(Cond(x))
  IN  IF owner[x] \in Owned /\ W # {} THEN {{w} : w \in W} ELSE {W}

-----------------------------------------------------------------------------
(* Steps of the callers.                                                   *)

Exclusive(c, o, t) ==
  \A d \in Callers \ {c} : tgt[d] = t => <<o, op[d]>> \in MayOverlap

Return(c) ==
  /\ pc'  = [pc EXCEPT ![c] = "idle"]
  /\ op'  = [op EXCEPT ![c] = None]
  /\ tgt' = [tgt EXCEPT ![c] = None]
  /\ ctx' = [ctx EXCEPT ![c] = None]
  /\ cur' = [cur EXCEPT ![c] = None]

Goto(c, p) ==
  /\ pc' = [pc EXCEPT ![c] = p]
  /\ UNCHANGED locals

(* A fault: the mutex is not taken.                                        *)
CanAccess(c, ops) == pc[c] = "lock" /\ op[c] \in ops /\ Allocated(ctx[c])

(* The caller is about to lock the mutex of ctx in one of the calls ops,   *)
(* and it is free.                                                         *)
CanLock(c, ops) ==
  /\ pc[c] = "lock"
  /\ op[c] \in ops
  /\ Allocated(ctx[c])
  /\ mutex[Cond(ctx[c])] = None

-----------------------------------------------------------------------------
(* The interface.  Each call takes its first step when it reads m_context. *)
(* A step that would go through a deleted context is not taken:            *)
(* NoDanglingContext says whether there is one.                            *)

(* The constructors; with start_now the constructor goes on to start().    *)
Create(c, t) ==
  /\ pc[c] = "idle"
  /\ mctx[t] = None
  /\ Exclusive(c, "create", t)
  /\ \E x \in Fresh, start_now \in BOOLEAN :
       /\ mctx' = [mctx EXCEPT ![t] = x]
       /\ Construct(x, t)
       /\ IF start_now
          THEN /\ pc'  = [pc EXCEPT ![c] = "lock"]
               /\ op'  = [op EXCEPT ![c] = "create"]
               /\ tgt' = [tgt EXCEPT ![c] = t]
               /\ ctx' = [ctx EXCEPT ![c] = x]
               /\ UNCHANGED cur
          ELSE UNCHANGED <<pc, locals>>
  /\ UNCHANGED <<thread, mutex>>

(* Any other call reads m_context, and all but wakeup() then lock.         *)
Call(c, o, t) ==
  /\ pc[c] = "idle"
  /\ mctx[t] # None
  /\ Exclusive(c, o, t)
  /\ pc'  = [pc EXCEPT ![c] = IF o = "wakeup" THEN "notify" ELSE "lock"]
  /\ op'  = [op EXCEPT ![c] = o]
  /\ tgt' = [tgt EXCEPT ![c] = t]
  /\ ctx' = [ctx EXCEPT ![c] = mctx[t]]
  /\ UNCHANGED <<objects, cur>>

(* start(): under the lock, create the thread unless there is one.         *)
Start(c) ==
  /\ CanLock(c, {"start", "create"})
  /\ IF Joinable(ctx[c])
     THEN UNCHANGED <<running, thread>>
     ELSE /\ running' = [running EXCEPT ![ctx[c]] = TRUE]
          /\ thread'  = [thread EXCEPT ![ctx[c]] = "body"]
  /\ Return(c)
  /\ UNCHANGED <<mctx, owner, mutex>>

(* stop(): under the lock, clear the flag; the notification is sent after  *)
(* the lock is released.                                                   *)
Stop(c) ==
  /\ CanLock(c, {"stop"})
  /\ IF Joinable(ctx[c])
     THEN /\ running' = [running EXCEPT ![ctx[c]] = FALSE]
          /\ Goto(c, "notify")
     ELSE UNCHANGED running /\ Return(c)
  /\ UNCHANGED <<mctx, owner, thread, mutex>>

(* send_notification(ctx), which no lock protects.                         *)
Notify(c) ==
  /\ pc[c] = "notify"
  /\ Allocated(ctx[c])
  /\ \E W \in Notified(ctx[c]) :
       thread' = [x \in Contexts |-> IF x \in W THEN "woken" ELSE thread[x]]
  /\ IF op[c] \in Joins THEN Goto(c, "join") ELSE Return(c)
  /\ UNCHANGED <<mctx, owner, running, mutex>>

(* try_joining() is told to stop the thread by the destructor only.        *)
NeverWithStop(c) == FALSE       \* A fault: the destructor does not.
WithStop(c)      == op[c] = "destroy"

(* try_joining(), up to the swap: keep the lock if there is a thread.      *)
JoinLock(c) ==
  /\ CanLock(c, Joins)
  /\ IF Joinable(ctx[c])
     THEN /\ running' = IF WithStop(c)
                        THEN [running EXCEPT ![ctx[c]] = FALSE]
                        ELSE running
          /\ mutex' = [mutex EXCEPT ![Cond(ctx[c])] = c]
          /\ Goto(c, "swap")
     ELSE /\ UNCHANGED <<running, mutex>>
          /\ IF op[c] = "destroy" THEN Goto(c, "release") ELSE Return(c)
  /\ UNCHANGED <<mctx, owner, thread>>

(* Faults: m_context is copied, not replaced; the swap is missing.         *)
Copy(c, x) ==
  UNCHANGED mctx /\ cur' = [cur EXCEPT ![c] = mctx[tgt[c]]]
NoSwap(c, x) ==
  UNCHANGED mctx /\ cur' = [cur EXCEPT ![c] = x]

Swap(c, x) ==
  /\ mctx' = [mctx EXCEPT ![tgt[c]] = x]
  /\ cur'  = [cur EXCEPT ![c] = mctx[tgt[c]]]

(* A fresh context goes into the tasklet, what was there into current, and *)
(* the lock is released.                                                   *)
JoinSwap(c) ==
  /\ pc[c] = "swap"
  /\ Allocated(ctx[c])
  /\ \E x \in Fresh : Construct(x, owner[ctx[c]]) /\ Swap(c, x)
  /\ mutex' = [mutex EXCEPT ![Cond(ctx[c])] = None]
  /\ pc'    = [pc EXCEPT ![c] = "notify"]
  /\ UNCHANGED <<thread, op, tgt, ctx>>

(* Faults: detach() in place of join(), and no join at all.                *)
Detach(c) ==
  pc[c] = "join" /\ Allocated(ctx[c]) /\ Goto(c, "delete") /\ UNCHANGED objects
Abandon(c) ==
  pc[c] = "join" /\ Return(c) /\ UNCHANGED objects

(* the_thread.join() returns once the thread has terminated.               *)
Join(c) ==
  /\ pc[c] = "join"
  /\ Allocated(ctx[c])
  /\ thread[ctx[c]] = "done"
  /\ thread' = [thread EXCEPT ![ctx[c]] = "none"]
  /\ Goto(c, "delete")
  /\ UNCHANGED <<mctx, owner, running, mutex>>

(* current goes out of scope.                                              *)
DeleteCurrent(c) ==
  /\ pc[c] = "delete"
  /\ Delete(cur[c])
  /\ IF op[c] = "destroy"
     THEN /\ pc'  = [pc EXCEPT ![c] = "release"]
          /\ cur' = [cur EXCEPT ![c] = None]
          /\ ctx' = [ctx EXCEPT ![c] = None]
          /\ UNCHANGED <<op, tgt>>
     ELSE Return(c)
  /\ UNCHANGED <<mctx, mutex>>

(* The destructor ends with the deletion of m_context.                     *)
Release(c) ==
  /\ pc[c] = "release"
  /\ Delete(mctx[tgt[c]])
  /\ mctx' = [mctx EXCEPT ![tgt[c]] = None]
  /\ Return(c)
  /\ UNCHANGED mutex

-----------------------------------------------------------------------------
(* The task function.  It sleeps repeatedly, returns when sleep() returns  *)
(* false or when it reads the flag itself, or earlier if it is a one-shot. *)

(* Where the task function of a thread goes on.                            *)
Turn(x, s) ==
  /\ thread' = [thread EXCEPT ![x] = s]
  /\ UNCHANGED <<mctx, owner, running, pc, locals>>

(* A fault: block without a look at the flag.                              *)
SleepUnchecked(x) ==
  /\ thread[x] = "body" /\ mutex[Cond(x)] = None
  /\ mutex' = [mutex EXCEPT ![Cond(x)] = x] /\ Turn(x, "check")

(* nanosleep(): lock; return false if the flag is clear.                   *)
Sleep(x) ==
  /\ thread[x] = "body"
  /\ mutex[Cond(x)] = None
  /\ IF running[x]
     THEN mutex' = [mutex EXCEPT ![Cond(x)] = x] /\ Turn(x, "check")
     ELSE UNCHANGED mutex /\ Turn(x, "leaving")

(* wait() or wait_for() gives up the mutex and blocks in one step.         *)
Block(x) ==
  /\ thread[x] = "check"
  /\ mutex' = [mutex EXCEPT ![Cond(x)] = None]
  /\ Turn(x, "waiting")

(* The time is over, or the wakeup is spurious.                            *)
WakeUnnotified(x) ==
  /\ thread[x] = "waiting"
  /\ Turn(x, "woken")
  /\ UNCHANGED mutex

(* A fault: sleep() returns false whenever it was woken.                   *)
SleepReturnsFalse(x) ==
  /\ thread[x] = "woken" /\ mutex[Cond(x)] = None
  /\ Turn(x, "leaving") /\ UNCHANGED mutex

(* Lock again, and return the flag.                                        *)
SleepReturns(x) ==
  /\ thread[x] = "woken"
  /\ mutex[Cond(x)] = None
  /\ Turn(x, IF running[x] THEN "body" ELSE "leaving")
  /\ UNCHANGED mutex

(* The task function returns, and with it the thread.                      *)
Terminate(x) ==
  /\ \/ thread[x] = "leaving"
     \/ thread[x] = "body" /\ (~running[x] \/ owner[x] \in OneShot)
  /\ Turn(x, "done")
  /\ UNCHANGED mutex

-----------------------------------------------------------------------------
CallStep(c) ==
  \/ Start(c) \/ Stop(c) \/ Notify(c)
  \/ JoinLock(c) \/ JoinSwap(c) \/ Join(c) \/ DeleteCurrent(c) \/ Release(c)

ThreadStep(x) == Sleep(x) \/ Block(x) \/ SleepReturns(x) \/ Terminate(x)

Next ==
  \/ \E c \in Callers, t \in Tasklets :
       Create(c, t) \/ \E o \in Signals \union Joins : Call(c, o, t)
  \/ \E c \in Callers : CallStep(c)
  \/ \E x \in Contexts : ThreadStep(x) \/ WakeUnnotified(x)

Spec == Init /\ [][Next]_vars

(* The scheduler runs every thread that can run, and a thread that waits   *)
(* for a mutex which is free again and again gets it in the end.  Nothing  *)
(* makes a client call, and nothing makes a thread wake without a          *)
(* notification.                                                           *)
FairSpec ==
  /\ Spec
  /\ \A c \in Callers : SF_vars(CallStep(c))
  /\ \A x \in Contexts : SF_vars(ThreadStep(x))

-----------------------------------------------------------------------------
(* Properties.                                                             *)

(* No call touches a context that has been deleted: the unlocked read of   *)
(* m_context, the notification after the lock is released, and the join    *)
(* all rely on it.                                                         *)
NoDanglingContext ==
  \A c \in Callers :
    /\ pc[c] \in {"lock", "swap", "notify", "join"} => Allocated(ctx[c])
    /\ pc[c] = "delete" => Allocated(cur[c])

(* The context try_joining() joins is the one it deletes ("ctx and current *)
(* is the same"), and the tasklet no longer has it.                        *)
JoinsWhatItDeletes ==
  \A c \in Callers :
    pc[c] \in {"join", "delete"} => cur[c] = ctx[c] /\ cur[c] # mctx[tgt[c]]

(* A context is deleted only when its thread has been joined and its mutex *)
(* is free: otherwise ~thread() terminates the program, or a thread        *)
(* unlocks a mutex that is gone.                                           *)
DeletesQuietContexts ==
  [][\A x \in Contexts :
       Allocated(x) /\ owner'[x] = None
         => thread[x] = "none" /\ mutex[x] = None]_vars

(* No stop is lost: a thread that blocks on the condition although its     *)
(* flag is clear has a caller still on its way to notify it.  The lock in  *)
(* nanosleep() and stop() is there for this.                               *)
NoLostStop ==
  \A x \in Contexts :
    thread[x] = "waiting" /\ ~running[x]
      => \E c \in Callers : pc[c] \in {"swap", "notify"} /\ ctx[c] = x

(* At most one thread executes the task function of a tasklet: restarting  *)
(* it has to wait for the previous thread to be joined.                    *)
OneThreadPerTasklet ==
  \A x, y \in Contexts :
    Live(x) /\ Live(y) /\ owner[x] = owner[y] => x = y

(* stop() returns false, as opposed to going on to notify, only when no    *)
(* thread executes the task function.                                      *)
StopReportsTruth ==
  [][\A c \in Callers :
       pc[c] = "lock" /\ op[c] = "stop" /\ pc'[c] = "idle"
         => \A x \in Contexts : Live(x) => owner[x] # tgt[c]]_vars

(* A notification reaches the thread it is meant for, though other threads *)
(* sleep on the same condition and though it is sent without a lock: the   *)
(* tasklet's thread does not sleep on.  "Wakes the thread up from sleeping *)
(* on the condition variable."                                             *)
WakesSleeper ==
  [][\A c \in Callers :
       pc[c] = "notify" /\ pc'[c] # "notify"
         => \A x \in Contexts :
              thread[x] = "waiting" /\ owner[x] = tgt[c] => thread'[x] = "woken"]_vars

(* Once asked to stop, a thread terminates.                                *)
StopTerminates ==
  \A x \in Contexts : (Live(x) /\ ~running[x]) ~> ~Live(x)

(* The destructor returns, whatever state the tasklet was in, and so does  *)
(* a wait() for a thread that was asked to stop.                           *)
JoinsReturn ==
  \A c \in Callers :
    /\ (op[c] = "destroy") ~> (pc[c] = "idle")
    /\ (pc[c] = "join" /\ ~running[ctx[c]]) ~> (pc[c] = "idle")

-----------------------------------------------------------------------------
(* The tasklet implements a restartable thread: what its clients see       *)
(* depends on the one context of it that has a thread, which is m_context  *)
(* or a context being joined.                                              *)

Phase(t) ==
  IF mctx[t] = None THEN "absent"
  ELSE IF \A x \in Contexts : owner[x] = t => ~Joinable(x) THEN "idle"
  ELSE IF \A x \in Contexts : owner[x] = t => ~Live(x) THEN "finished"
  ELSE IF \E x \in Contexts : owner[x] = t /\ Live(x) /\ running[x]
       THEN "running"
  ELSE "stopping"

Promise ==
  INSTANCE RestartableThread WITH phase <- [t \in Tasklets |-> Phase(t)]

(* Every behaviour of the tasklets is one of restartable threads: calls    *)
(* start(), stop(), wait() and ~tasklet() take effect in one step each.    *)
KeepsPromise == Promise!Spec
=============================================================================
