--------------------------- MODULE TaskletProofs ---------------------------
(***************************************************************************)
(* Theorems about Tasklet, for any sets of tasklets, contexts and callers: *)
(* its safety, and that it implements RestartableThread.                   *)
(***************************************************************************)
EXTENDS Tasklet, TLAPS

(* A call has a tasklet, and a context until it has deleted it.            *)
CallsHaveObjects ==
  \A c \in Callers :
    /\ pc[c] # "idle" => tgt[c] \in Tasklets
    /\ pc[c] \in {"lock", "swap", "notify", "join", "delete"}
         => ctx[c] \in Contexts

(* Every step keeps the types, and gives a call what its next step uses.   *)
LEMMA TypeInductive ==
  ASSUME TypeOK, CallsHaveObjects, [Next]_vars
  PROVE  TypeOK' /\ CallsHaveObjects'
<1> USE TaskletAssumption
    DEF TypeOK, CallsHaveObjects, Conditions, ThreadStates, CallerStates
<1> USE DEF Return, Goto, Turn, Construct, Delete, InitialFlag,
            objects, locals, Ops, Signals, Joins
<1>1. ASSUME NEW c \in Callers, NEW t \in Tasklets, Create(c, t)
      PROVE  TypeOK' /\ CallsHaveObjects'
  BY <1>1 DEF Create, Fresh
<1>2. ASSUME NEW c \in Callers, NEW t \in Tasklets,
             NEW o \in Signals \union Joins, Call(c, o, t)
      PROVE  TypeOK' /\ CallsHaveObjects'
  BY <1>2 DEF Call
<1>3. ASSUME NEW c \in Callers, Start(c)
      PROVE  TypeOK' /\ CallsHaveObjects'
  <2>1. CASE Joinable(ctx[c])
    BY <1>3, <2>1 DEF Start
  <2>2. CASE ~Joinable(ctx[c])
    BY <1>3, <2>2 DEF Start
  <2> QED
    BY <2>1, <2>2
<1>4. ASSUME NEW c \in Callers, Stop(c)
      PROVE  TypeOK' /\ CallsHaveObjects'
  <2>1. CASE Joinable(ctx[c])
    <3>1. /\ pc[c] = "lock" /\ UNCHANGED <<mctx, owner, thread, mutex>>
          /\ running' = [running EXCEPT ![ctx[c]] = FALSE]
          /\ Goto(c, "notify")
      BY <1>4, <2>1 DEF Stop, CanLock
    <3>2. TypeOK'
      BY <3>1
    <3>3. CallsHaveObjects'
      BY <3>1
    <3> QED
      BY <3>2, <3>3
  <2>2. CASE ~Joinable(ctx[c])
    BY <1>4, <2>2 DEF Stop
  <2> QED
    BY <2>1, <2>2
<1>5. ASSUME NEW c \in Callers, Notify(c)
      PROVE  TypeOK' /\ CallsHaveObjects'
  <2>1. thread' \in [Contexts -> ThreadStates]
    BY <1>5 DEF Notify
  <2>2. CASE op[c] \in Joins
    BY <1>5, <2>1, <2>2 DEF Notify
  <2>3. CASE op[c] \notin Joins
    BY <1>5, <2>1, <2>3 DEF Notify
  <2> QED
    BY <2>2, <2>3
<1>6. ASSUME NEW c \in Callers, JoinLock(c)
      PROVE  TypeOK' /\ CallsHaveObjects'
  <2>1. running' \in [Contexts -> BOOLEAN] /\ UNCHANGED <<mctx, owner, thread>>
    BY <1>6 DEF JoinLock
  <2>2. CASE Joinable(ctx[c])
    <3>1. Goto(c, "swap") /\ pc[c] = "lock"
      BY <1>6, <2>2 DEF JoinLock, CanLock
    <3>2. mutex' = [mutex EXCEPT ![Cond(ctx[c])] = c]
      BY <1>6, <2>2 DEF JoinLock
    <3>3. mutex' \in [Conditions -> Contexts \union Callers \union {None}]
      BY <3>2
    <3> QED
      BY <2>1, <3>1, <3>3
  <2>3. CASE ~Joinable(ctx[c])
    BY <1>6, <2>1, <2>3 DEF JoinLock, CanLock
  <2> QED
    BY <2>2, <2>3
<1>7. ASSUME NEW c \in Callers, JoinSwap(c)
      PROVE  TypeOK' /\ CallsHaveObjects'
  <2>1. PICK x \in Fresh : Construct(x, owner[ctx[c]]) /\ Swap(c, x)
    BY <1>7 DEF JoinSwap
  <2>2. pc[c] = "swap" /\ ctx[c] \in Contexts /\ tgt[c] \in Tasklets
    BY <1>7 DEF JoinSwap
  <2>3. mutex' \in [Conditions -> Contexts \union Callers \union {None}]
    BY <1>7 DEF JoinSwap
  <2> QED
    BY <1>7, <2>1, <2>2, <2>3 DEF JoinSwap, Swap, Fresh
<1>8. ASSUME NEW c \in Callers, Join(c)
      PROVE  TypeOK' /\ CallsHaveObjects'
  BY <1>8 DEF Join
<1>9. ASSUME NEW c \in Callers, DeleteCurrent(c)
      PROVE  TypeOK' /\ CallsHaveObjects'
  <2>1. /\ owner' \in [Contexts -> Tasklets \union {None}]
        /\ running' \in [Contexts -> BOOLEAN]
        /\ thread' \in [Contexts -> ThreadStates]
    BY <1>9 DEF DeleteCurrent
  <2>2. pc[c] = "delete" /\ UNCHANGED <<mctx, mutex>>
    BY <1>9 DEF DeleteCurrent
  <2>3. CASE op[c] = "destroy"
    <3>1. /\ pc'  = [pc EXCEPT ![c] = "release"]
          /\ cur' = [cur EXCEPT ![c] = None]
          /\ ctx' = [ctx EXCEPT ![c] = None]
          /\ UNCHANGED <<op, tgt>>
      BY <1>9, <2>3 DEF DeleteCurrent
    <3> QED
      BY <2>1, <2>2, <3>1
  <2>4. CASE op[c] # "destroy"
    <3>1. Return(c)
      BY <1>9, <2>4 DEF DeleteCurrent
    <3> QED
      BY <2>1, <2>2, <3>1
  <2> QED
    BY <2>3, <2>4
<1>10. ASSUME NEW c \in Callers, Release(c)
       PROVE  TypeOK' /\ CallsHaveObjects'
  BY <1>10 DEF Release
<1>11. ASSUME NEW x \in Contexts, Sleep(x)
       PROVE  TypeOK' /\ CallsHaveObjects'
  BY <1>11 DEF Sleep
<1>12. ASSUME NEW x \in Contexts, Block(x)
       PROVE  TypeOK' /\ CallsHaveObjects'
  BY <1>12 DEF Block
<1>13. ASSUME NEW x \in Contexts, SleepReturns(x)
       PROVE  TypeOK' /\ CallsHaveObjects'
  BY <1>13 DEF SleepReturns
<1>14. ASSUME NEW x \in Contexts, Terminate(x)
       PROVE  TypeOK' /\ CallsHaveObjects'
  BY <1>14 DEF Terminate
<1>15. ASSUME NEW x \in Contexts, WakeUnnotified(x)
       PROVE  TypeOK' /\ CallsHaveObjects'
  BY <1>15 DEF WakeUnnotified
<1>16. CASE UNCHANGED vars
  BY <1>16 DEF vars
<1> QED
  BY <1>1, <1>2, <1>3, <1>4, <1>5, <1>6, <1>7, <1>8, <1>9, <1>10, <1>11,
     <1>12, <1>13, <1>14, <1>15, <1>16 DEF Next, CallStep, ThreadStep

(* Every variable has its type, whatever calls overlap.                    *)
THEOREM TypeCorrect == Spec => []TypeOK
<1>1. Init => TypeOK /\ CallsHaveObjects
  BY TaskletAssumption
     DEF Init, TypeOK, CallsHaveObjects, ThreadStates, CallerStates, Conditions
<1>2. TypeOK /\ CallsHaveObjects /\ [Next]_vars => TypeOK' /\ CallsHaveObjects'
  BY TypeInductive
<1> QED
  BY <1>1, <1>2, PTL DEF Spec
-----------------------------------------------------------------------------
(* A context that is not allocated has no thread.                          *)
NoThreadUnallocated == \A x \in Contexts : ~Allocated(x) => thread[x] = "none"

(* Between its look at the flag and the moment it blocks, a thread holds   *)
(* the mutex of its condition, and so the flag is still set.               *)
CheckUnderLock ==
  \A x \in Contexts :
    thread[x] = "check" => running[x] /\ mutex[Cond(x)] = x

(* So does try_joining() until it has replaced the context.                *)
SwapUnderLock ==
  \A c \in Callers :
    pc[c] = "swap" /\ Allocated(ctx[c]) => mutex[Cond(ctx[c])] = c

LockInv ==
  NoThreadUnallocated /\ CheckUnderLock /\ SwapUnderLock /\ NoLostStop

(* Who changes the flag or swaps has the mutex, so no test is overtaken.   *)
LEMMA LockInductive ==
  ASSUME TypeOK, CallsHaveObjects, LockInv, [Next]_vars
  PROVE  LockInv'
<1> USE TaskletAssumption
    DEF TypeOK, CallsHaveObjects, Conditions, LockInv, NoThreadUnallocated,
        CheckUnderLock, SwapUnderLock, NoLostStop, Allocated
<1> USE DEF Return, Goto, Turn, Construct, Delete, InitialFlag, Cond,
            objects, locals
<1>1. ASSUME NEW c \in Callers, NEW t \in Tasklets, Create(c, t)
      PROVE  LockInv'
  BY <1>1 DEF Create, Fresh
<1>2. ASSUME NEW c \in Callers, NEW t \in Tasklets,
             NEW o \in Signals \union Joins, Call(c, o, t)
      PROVE  LockInv'
  BY <1>2 DEF Call
<1>3. ASSUME NEW c \in Callers, Start(c)
      PROVE  LockInv'
  BY <1>3 DEF Start, CanLock, Joinable
<1>4. ASSUME NEW c \in Callers, Stop(c)
      PROVE  LockInv'
  BY <1>4 DEF Stop, CanLock, Joinable
<1>5. ASSUME NEW c \in Callers, Notify(c)
      PROVE  LockInv'
  BY <1>5 DEF Notify, Notified, Waiters
<1>6. ASSUME NEW c \in Callers, JoinLock(c)
      PROVE  LockInv'
  BY <1>6 DEF JoinLock, CanLock
<1>7. ASSUME NEW c \in Callers, JoinSwap(c)
      PROVE  LockInv'
  BY <1>7 DEF JoinSwap, Swap, Fresh
<1>8. ASSUME NEW c \in Callers, Join(c)
      PROVE  LockInv'
  BY <1>8 DEF Join
<1>9. ASSUME NEW c \in Callers, DeleteCurrent(c)
      PROVE  LockInv'
  BY <1>9 DEF DeleteCurrent
<1>10. ASSUME NEW c \in Callers, Release(c)
       PROVE  LockInv'
  BY <1>10 DEF Release
<1>11. ASSUME NEW x \in Contexts, Sleep(x)
       PROVE  LockInv'
  BY <1>11 DEF Sleep
<1>12. ASSUME NEW x \in Contexts, Block(x)
       PROVE  LockInv'
  BY <1>12 DEF Block
<1>13. ASSUME NEW x \in Contexts, SleepReturns(x)
       PROVE  LockInv'
  BY <1>13 DEF SleepReturns
<1>14. ASSUME NEW x \in Contexts, Terminate(x)
       PROVE  LockInv'
  BY <1>14 DEF Terminate
<1>15. ASSUME NEW x \in Contexts, WakeUnnotified(x)
       PROVE  LockInv'
  BY <1>15 DEF WakeUnnotified
<1>16. CASE UNCHANGED vars
  BY <1>16 DEF vars
<1> QED
  BY <1>1, <1>2, <1>3, <1>4, <1>5, <1>6, <1>7, <1>8, <1>9, <1>10, <1>11,
     <1>12, <1>13, <1>14, <1>15, <1>16 DEF Next, CallStep, ThreadStep

(* No stop is lost, whatever calls overlap: the lock protects the check of *)
(* the flag, and whoever clears the flag notifies afterwards.              *)
THEOREM NoStopIsLost == Spec => []NoLostStop
<1>1. Init => TypeOK /\ CallsHaveObjects /\ LockInv
  BY TaskletAssumption
     DEF Init, TypeOK, CallsHaveObjects, ThreadStates, CallerStates, Conditions,
         LockInv, NoThreadUnallocated, CheckUnderLock, SwapUnderLock, NoLostStop
<1>2. TypeOK /\ CallsHaveObjects /\ LockInv /\ [Next]_vars
        => TypeOK' /\ CallsHaveObjects' /\ LockInv'
  BY TypeInductive, LockInductive
<1>3. LockInv => NoLostStop
  BY DEF LockInv
<1> QED
  BY <1>1, <1>2, <1>3, PTL DEF Spec
-----------------------------------------------------------------------------
(* Clients that make no other call while one replaces or deletes the       *)
(* context.                                                                *)
JoinsAreExclusive == MayOverlap \subseteq Signals \X Signals

(* Where each call can be.                                                 *)
CallsInPlace ==
  \A c \in Callers :
    /\ pc[c] = "idle" => tgt[c] = None
    /\ pc[c] = "lock" => op[c] \in {"create", "start", "stop", "wait", "destroy"}
    /\ pc[c] \in {"swap", "join", "delete"} => op[c] \in Joins
    /\ pc[c] = "release" => op[c] = "destroy"
    /\ pc[c] = "notify" => op[c] \in {"stop", "wakeup"} \union Joins

CallsExclusive ==
  \A c, d \in Callers :
    c # d /\ tgt[c] = tgt[d] /\ tgt[c] # None
      => op[c] \in Signals /\ op[d] \in Signals

(* A tasklet has a context of its own, before and during every call.       *)
ContextsOwned ==
  /\ \A t \in Tasklets : mctx[t] # None => owner[mctx[t]] = t
  /\ \A c \in Callers : pc[c] # "idle" => mctx[tgt[c]] # None

(* A call that has taken the context out of the tasklet.                   *)
TookContext(c) ==
  \/ pc[c] \in {"join", "delete"}
  \/ pc[c] = "notify" /\ op[c] \in Joins

(* Any other call works on the context the tasklet has.                    *)
CallsShareContext ==
  \A c \in Callers :
    pc[c] \in {"lock", "swap", "notify"} /\ ~TookContext(c)
      => ctx[c] = mctx[tgt[c]]

(* A context taken out is the one the call joins and deletes.              *)
CallsOwnContext ==
  \A c \in Callers :
    /\ TookContext(c) => /\ ctx[c] = cur[c]
                         /\ owner[ctx[c]] = tgt[c]
                         /\ ctx[c] # mctx[tgt[c]]
    /\ TookContext(c) \/ pc[c] = "release" => thread[mctx[tgt[c]]] = "none"
    /\ pc[c] = "delete" => thread[ctx[c]] = "none"

(* A thread belongs to the context of a tasklet, or to one being joined.   *)
ThreadsHaveContext ==
  \A x \in Contexts :
    thread[x] # "none"
      => /\ owner[x] # None
         /\ \/ x = mctx[owner[x]]
            \/ \E c \in Callers : TookContext(c) /\ ctx[c] = x

ClientInv ==
  /\ CallsInPlace /\ CallsExclusive /\ ContextsOwned
  /\ CallsShareContext /\ CallsOwnContext /\ ThreadsHaveContext

(* Then calls that overlap are start(), stop() and wakeup().               *)
LEMMA OverlapSignals ==
  ASSUME JoinsAreExclusive, NEW a, NEW b, <<a, b>> \in MayOverlap
  PROVE  a \in Signals /\ b \in Signals
BY DEF JoinsAreExclusive

(* A step that leaves the calls and the contexts alone and neither creates *)
(* nor joins a thread keeps the invariant.                                 *)
LEMMA ClientFrame ==
  ASSUME ClientInv, UNCHANGED <<mctx, owner, pc, op, tgt, ctx, cur>>,
         \A x \in Contexts : thread'[x] = "none" <=> thread[x] = "none",
         TypeOK, CallsHaveObjects
  PROVE  ClientInv'
<1> USE DEF ClientInv
<1>1. CallsInPlace' /\ CallsExclusive' /\ ContextsOwned' /\ CallsShareContext'
  BY DEF CallsInPlace, CallsExclusive, ContextsOwned, CallsShareContext,
         TookContext
<1>2. ASSUME NEW c \in Callers, TookContext(c) \/ pc[c] = "release"
      PROVE  mctx[tgt[c]] \in Contexts
  BY <1>2 DEF TookContext, ContextsOwned, TypeOK, CallsHaveObjects
<1>3. CallsOwnContext'
  BY <1>2 DEF CallsOwnContext, TookContext, CallsHaveObjects
<1>4. ThreadsHaveContext'
  BY DEF ThreadsHaveContext, TookContext
<1> QED
  BY <1>1, <1>3, <1>4

(* Calls that have a context of a tasklet exclude the others that take one.*)
LEMMA ClientInductive ==
  ASSUME JoinsAreExclusive, TypeOK, CallsHaveObjects, ClientInv, [Next]_vars
  PROVE  ClientInv'
<1> USE TaskletAssumption
    DEF TypeOK, CallsHaveObjects, Conditions, ClientInv, CallsInPlace,
        CallsExclusive, ContextsOwned, CallsShareContext, TookContext,
        CallsOwnContext, ThreadsHaveContext, Allocated
<1> USE DEF Return, Goto, Turn, Construct, Delete, InitialFlag,
            objects, locals, Signals, Joins
<1>1. ASSUME NEW c \in Callers, NEW t \in Tasklets, Create(c, t)
      PROVE  ClientInv'
  <2>1. \A d \in Callers : tgt[d] # t
    BY <1>1 DEF Create, Exclusive, JoinsAreExclusive
  <2>2. PICK x \in Fresh, start_now \in BOOLEAN :
          /\ mctx' = [mctx EXCEPT ![t] = x]
          /\ Construct(x, t)
          /\ IF start_now
             THEN /\ pc'  = [pc EXCEPT ![c] = "lock"]
                  /\ op'  = [op EXCEPT ![c] = "create"]
                  /\ tgt' = [tgt EXCEPT ![c] = t]
                  /\ ctx' = [ctx EXCEPT ![c] = x]
                  /\ UNCHANGED cur
             ELSE UNCHANGED <<pc, locals>>
    BY <1>1 DEF Create
  <2>3. /\ x \in Contexts /\ owner[x] = None
        /\ \A d \in Callers : x # ctx[d] /\ x # cur[d]
        /\ mctx[t] = None /\ pc[c] = "idle" /\ UNCHANGED <<thread, mutex>>
    BY <1>1, <2>2 DEF Create, Fresh
  <2>4. CASE start_now
    <3>1. CallsInPlace'
      BY <2>1, <2>2, <2>3, <2>4
    <3>5. CallsExclusive'
      BY <2>1, <2>2, <2>3, <2>4
    <3>6. ContextsOwned'
      BY <2>1, <2>2, <2>3, <2>4
    <3>2. CallsShareContext'
      BY <2>1, <2>2, <2>3, <2>4
    <3>3. CallsOwnContext'
      BY <2>1, <2>2, <2>3, <2>4
    <3>7. \A d \in Callers : TookContext(d) => TookContext(d)' /\ ctx'[d] = ctx[d]
      BY <2>3, <2>4, <2>2
    <3>4. ThreadsHaveContext'
      BY <2>2, <2>3, <3>7
    <3> QED
      BY <3>1, <3>2, <3>3, <3>4, <3>5, <3>6
  <2>5. CASE ~start_now
    <3>1. CallsInPlace' /\ CallsExclusive'
      BY <2>1, <2>2, <2>3, <2>5
    <3>2. ContextsOwned' /\ CallsShareContext'
      BY <2>1, <2>2, <2>3, <2>5
    <3>3. CallsOwnContext' /\ ThreadsHaveContext'
      BY <2>1, <2>2, <2>3, <2>5
    <3> QED
      BY <3>1, <3>2, <3>3
  <2> QED
    BY <2>4, <2>5
<1>2. ASSUME NEW c \in Callers, NEW t \in Tasklets,
             NEW o \in Signals \union Joins, Call(c, o, t)
      PROVE  ClientInv'
  <2>1. \A d \in Callers \ {c} : tgt[d] = t => o \in Signals /\ op[d] \in Signals
    <3> SUFFICES ASSUME NEW d \in Callers \ {c}, tgt[d] = t
                 PROVE  o \in Signals /\ op[d] \in Signals
      OBVIOUS
    <3>1. <<o, op[d]>> \in MayOverlap
      BY <1>2 DEF Call, Exclusive
    <3> QED
      BY <3>1, OverlapSignals
  <2>2. /\ pc[c] = "idle" /\ mctx[t] # None
        /\ pc'  = [pc EXCEPT ![c] = IF o = "wakeup" THEN "notify" ELSE "lock"]
        /\ op'  = [op EXCEPT ![c] = o]
        /\ tgt' = [tgt EXCEPT ![c] = t]
        /\ ctx' = [ctx EXCEPT ![c] = mctx[t]]
        /\ UNCHANGED <<mctx, owner, thread, cur>>
    BY <1>2 DEF Call
  <2>3. CallsInPlace' /\ CallsExclusive' /\ ContextsOwned'
    BY <2>1, <2>2
  <2>4. CallsShareContext' /\ CallsOwnContext'
    BY <2>2
  <2>5. ThreadsHaveContext'
    BY <2>2
  <2> QED
    BY <2>3, <2>4, <2>5
<1>3. ASSUME NEW c \in Callers, Start(c)
      PROVE  ClientInv'
  <2>1. /\ pc[c] = "lock" /\ op[c] \in {"start", "create"}
        /\ owner[ctx[c]] # None /\ ctx[c] = mctx[tgt[c]]
        /\ Return(c) /\ UNCHANGED <<mctx, owner>>
    BY <1>3 DEF Start, CanLock
  <2>2. thread' \in [Contexts -> ThreadStates]
    BY <1>3, TypeInductive DEF Next, CallStep
  <2>3. \A x \in Contexts \ {ctx[c]} : thread'[x] = thread[x]
    BY <1>3 DEF Start
  <2>4. CallsInPlace' /\ CallsExclusive' /\ ContextsOwned' /\ CallsShareContext'
    BY <2>1
  <2>5. CallsOwnContext'
    <3> SUFFICES ASSUME NEW d \in Callers, d # c, pc[d] # "idle"
                 PROVE  (/\ TookContext(d) => /\ ctx[d] = cur[d]
                                              /\ owner[ctx[d]] = tgt[d]
                                              /\ ctx[d] # mctx[tgt[d]]
                         /\ TookContext(d) \/ pc[d] = "release"
                              => thread[mctx[tgt[d]]] = "none"
                         /\ pc[d] = "delete" => thread[ctx[d]] = "none")'
      BY <2>1
    <3>1. TookContext(d) \/ pc[d] = "release" => tgt[d] # tgt[c]
      BY <2>1
    <3>2. TookContext(d) \/ pc[d] = "release" => mctx[tgt[d]] # ctx[c]
      BY <2>1, <3>1
    <3>3. pc[d] = "delete" => ctx[d] # ctx[c]
      BY <2>1, <3>1
    <3> QED
      BY <2>1, <2>3, <3>2, <3>3
  <2>6. ThreadsHaveContext'
    BY <2>1, <2>2, <2>3
  <2> QED
    BY <2>4, <2>5, <2>6
<1>4. ASSUME NEW c \in Callers, Stop(c)
      PROVE  ClientInv'
  <2>1. /\ pc[c] = "lock" /\ op[c] = "stop"
        /\ UNCHANGED <<mctx, owner, thread>>
    BY <1>4 DEF Stop, CanLock
  <2>2. CASE Joinable(ctx[c])
    BY <1>4, <2>1, <2>2 DEF Stop
  <2>3. CASE ~Joinable(ctx[c])
    BY <1>4, <2>1, <2>3 DEF Stop
  <2> QED
    BY <2>2, <2>3
<1>5. ASSUME NEW c \in Callers, Notify(c)
      PROVE  ClientInv'
  <2>1. /\ pc[c] = "notify" /\ UNCHANGED <<mctx, owner, running, mutex>>
        /\ \A x \in Contexts : thread'[x] = "none" <=> thread[x] = "none"
    BY <1>5 DEF Notify, Notified, Waiters
  <2>2. CASE op[c] \in Joins
    <3>1. pc' = [pc EXCEPT ![c] = "join"] /\ UNCHANGED <<op, tgt, ctx, cur>>
      BY <1>5, <2>2 DEF Notify
    <3>2. CallsInPlace' /\ CallsExclusive' /\ ContextsOwned'
      BY <2>1, <2>2, <3>1
    <3>3. CallsShareContext'
      BY <2>1, <2>2, <3>1
    <3>5. ASSUME NEW d \in Callers, TookContext(d) \/ pc[d] = "release"
          PROVE  mctx[tgt[d]] \in Contexts
      BY <3>5
    <3>6. CallsOwnContext'
      BY <2>1, <2>2, <3>1, <3>5
    <3>4. ThreadsHaveContext'
      BY <2>1, <2>2, <3>1
    <3> QED
      BY <3>2, <3>3, <3>4, <3>6
  <2>3. CASE op[c] \notin Joins
    <3>1. Return(c)
      BY <1>5, <2>3 DEF Notify
    <3>2. CallsInPlace' /\ CallsExclusive' /\ ContextsOwned'
      BY <2>1, <2>3, <3>1
    <3>3. CallsShareContext'
      BY <2>1, <2>3, <3>1
    <3>5. ASSUME NEW d \in Callers, TookContext(d) \/ pc[d] = "release"
          PROVE  mctx[tgt[d]] \in Contexts
      BY <3>5
    <3>6. CallsOwnContext'
      BY <2>1, <2>3, <3>1, <3>5
    <3>4. ThreadsHaveContext'
      BY <2>1, <2>3, <3>1
    <3> QED
      BY <3>2, <3>3, <3>4, <3>6
  <2> QED
    BY <2>2, <2>3
<1>6. ASSUME NEW c \in Callers, JoinLock(c)
      PROVE  ClientInv'
  <2>1. /\ pc[c] = "lock" /\ op[c] \in Joins
        /\ UNCHANGED <<mctx, owner, thread>>
        /\ \/ Goto(c, "swap")
           \/ Goto(c, "release") /\ op[c] = "destroy" /\ ~Joinable(ctx[c])
           \/ Return(c)
    BY <1>6 DEF JoinLock, CanLock
  <2>2. CASE Goto(c, "swap")
    <3>1. CallsInPlace' /\ CallsExclusive' /\ ContextsOwned'
      BY <2>1, <2>2
    <3>2. CallsShareContext'
      BY <2>1, <2>2
    <3>3. CallsOwnContext'
      BY <2>1, <2>2
    <3>4. ThreadsHaveContext'
      BY <2>1, <2>2
    <3> QED
      BY <3>1, <3>2, <3>3, <3>4
  <2>3. CASE Goto(c, "release") /\ op[c] = "destroy" /\ ~Joinable(ctx[c])
    <3>1. CallsInPlace' /\ CallsExclusive' /\ ContextsOwned'
      BY <2>1, <2>3
    <3>2. CallsShareContext' /\ ThreadsHaveContext'
      BY <2>1, <2>3
    <3>3. CallsOwnContext'
      BY <2>1, <2>3 DEF Joinable
    <3> QED
      BY <3>1, <3>2, <3>3
  <2>4. CASE Return(c)
    <3>1. CallsInPlace' /\ CallsExclusive' /\ ContextsOwned'
      BY <2>1, <2>4
    <3>2. CallsShareContext' /\ ThreadsHaveContext'
      BY <2>1, <2>4
    <3>3. CallsOwnContext'
      BY <2>1, <2>4
    <3> QED
      BY <3>1, <3>2, <3>3
  <2> QED
    BY <2>1, <2>2, <2>3, <2>4
<1>7. ASSUME NEW c \in Callers, JoinSwap(c)
      PROVE  ClientInv'
  <2>1. PICK x \in Fresh : Construct(x, owner[ctx[c]]) /\ Swap(c, x)
    BY <1>7 DEF JoinSwap
  <2>2. /\ pc[c] = "swap" /\ pc' = [pc EXCEPT ![c] = "notify"]
        /\ ctx[c] = mctx[tgt[c]] /\ owner[ctx[c]] = tgt[c] /\ tgt[c] \in Tasklets
        /\ op[c] \in Joins /\ UNCHANGED <<thread, op, tgt, ctx>>
    BY <1>7 DEF JoinSwap
  <2>3. /\ x \in Contexts /\ owner[x] = None /\ thread[x] = "none"
        /\ \A d \in Callers : x # ctx[d] /\ x # cur[d]
        /\ owner' = [owner EXCEPT ![x] = tgt[c]]
        /\ mctx' = [mctx EXCEPT ![tgt[c]] = x]
        /\ cur' = [cur EXCEPT ![c] = ctx[c]]
    BY <2>1, <2>2 DEF Swap, Fresh
  <2>4. CallsInPlace' /\ CallsExclusive'
    BY <2>2, <2>3
  <2>5. ContextsOwned'
    BY <2>2, <2>3
  <2>6. \A d \in Callers : d # c /\ pc[d] # "idle" => tgt[d] # tgt[c]
    BY <2>2
  <2>7. CallsShareContext'
    BY <2>2, <2>3, <2>6
  <2>8. CallsOwnContext'
    BY <2>2, <2>3, <2>6
  <2>9. ThreadsHaveContext'
    BY <2>2, <2>3
  <2> QED
    BY <2>4, <2>5, <2>7, <2>8, <2>9
<1>8. ASSUME NEW c \in Callers, Join(c)
      PROVE  ClientInv'
  BY <1>8 DEF Join
<1>9. ASSUME NEW c \in Callers, DeleteCurrent(c)
      PROVE  ClientInv'
  <2>1. /\ pc[c] = "delete" /\ op[c] \in Joins /\ Delete(cur[c])
        /\ ctx[c] = cur[c] /\ owner[ctx[c]] = tgt[c] /\ UNCHANGED mctx
        /\ \A d \in Callers : d # c /\ pc[d] # "idle" => tgt[d] # tgt[c]
    BY <1>9 DEF DeleteCurrent
  <2>2. \A d \in Callers : d # c /\ TookContext(d) => ctx[d] # ctx[c]
    BY <2>1
  <2>3. \A t \in Tasklets : mctx[t] # ctx[c]
    BY <2>1
  <2>4. CASE op[c] = "destroy"
    <3>1. /\ pc'  = [pc EXCEPT ![c] = "release"]
          /\ cur' = [cur EXCEPT ![c] = None]
          /\ ctx' = [ctx EXCEPT ![c] = None]
          /\ UNCHANGED <<op, tgt>>
      BY <1>9, <2>4 DEF DeleteCurrent
    <3>2. CallsInPlace' /\ CallsExclusive' /\ ContextsOwned'
      BY <2>1, <2>3, <2>4, <3>1
    <3>3. CallsShareContext' /\ CallsOwnContext'
      BY <2>1, <2>2, <2>3, <3>1
    <3>4. ThreadsHaveContext'
      BY <2>1, <2>2, <3>1
    <3> QED
      BY <3>2, <3>3, <3>4
  <2>5. CASE op[c] # "destroy"
    <3>1. Return(c)
      BY <1>9, <2>5 DEF DeleteCurrent
    <3>2. CallsInPlace' /\ CallsExclusive' /\ ContextsOwned'
      BY <2>1, <2>3, <3>1
    <3>3. CallsShareContext' /\ CallsOwnContext'
      BY <2>1, <2>2, <2>3, <3>1
    <3>4. ThreadsHaveContext'
      BY <2>1, <2>2, <3>1
    <3> QED
      BY <3>2, <3>3, <3>4
  <2> QED
    BY <2>4, <2>5
<1>10. ASSUME NEW c \in Callers, Release(c)
       PROVE  ClientInv'
  BY <1>10 DEF Release
<1>11. ASSUME NEW x \in Contexts, Sleep(x)
       PROVE  ClientInv'
  <2>1. \A y \in Contexts : thread'[y] = "none" <=> thread[y] = "none"
    BY <1>11 DEF Sleep
  <2> QED
    BY <1>11, <2>1, ClientFrame DEF Sleep
<1>12. ASSUME NEW x \in Contexts, Block(x)
       PROVE  ClientInv'
  <2>1. \A y \in Contexts : thread'[y] = "none" <=> thread[y] = "none"
    BY <1>12 DEF Block
  <2> QED
    BY <1>12, <2>1, ClientFrame DEF Block
<1>13. ASSUME NEW x \in Contexts, SleepReturns(x)
       PROVE  ClientInv'
  <2>1. \A y \in Contexts : thread'[y] = "none" <=> thread[y] = "none"
    BY <1>13 DEF SleepReturns
  <2> QED
    BY <1>13, <2>1, ClientFrame DEF SleepReturns
<1>14. ASSUME NEW x \in Contexts, Terminate(x)
       PROVE  ClientInv'
  <2>1. \A y \in Contexts : thread'[y] = "none" <=> thread[y] = "none"
    BY <1>14 DEF Terminate
  <2> QED
    BY <1>14, <2>1, ClientFrame DEF Terminate
<1>15. ASSUME NEW x \in Contexts, WakeUnnotified(x)
       PROVE  ClientInv'
  <2>1. \A y \in Contexts : thread'[y] = "none" <=> thread[y] = "none"
    BY <1>15 DEF WakeUnnotified
  <2> QED
    BY <1>15, <2>1, ClientFrame DEF WakeUnnotified
<1>16. CASE UNCHANGED vars
  BY <1>16 DEF vars
<1> QED
  BY <1>1, <1>2, <1>3, <1>4, <1>5, <1>6, <1>7, <1>8, <1>9, <1>10, <1>11,
     <1>12, <1>13, <1>14, <1>15, <1>16 DEF Next, CallStep, ThreadStep

Inv == TypeOK /\ CallsHaveObjects /\ LockInv /\ ClientInv

(* The invariant holds of every state of such clients.                     *)
LEMMA Invariance ==
  ASSUME JoinsAreExclusive
  PROVE  Spec => []Inv
<1>1. Init => Inv
  <2> SUFFICES ASSUME Init PROVE Inv
    OBVIOUS
  <2> USE TaskletAssumption DEF Init
  <2>1. TypeOK /\ CallsHaveObjects
    BY DEF TypeOK, CallsHaveObjects, ThreadStates, CallerStates, Conditions
  <2>2. LockInv
    BY DEF LockInv, NoThreadUnallocated, CheckUnderLock, SwapUnderLock,
           NoLostStop
  <2>3. ClientInv
    BY DEF ClientInv, CallsInPlace, CallsExclusive, ContextsOwned,
           CallsShareContext, CallsOwnContext, TookContext, ThreadsHaveContext
  <2> QED
    BY <2>1, <2>2, <2>3 DEF Inv
<1>2. Inv /\ [Next]_vars => Inv'
  BY TypeInductive, LockInductive, ClientInductive DEF Inv
<1> QED
  BY <1>1, <1>2, PTL DEF Spec

(* When wait() and the destructor exclude other calls, no call goes        *)
(* through a deleted context.                                              *)
THEOREM ContextsAreAlive ==
  ASSUME JoinsAreExclusive
  PROVE  Spec => []NoDanglingContext
<1>1. Inv => NoDanglingContext
  <2> SUFFICES ASSUME Inv, NEW c \in Callers
               PROVE  /\ pc[c] \in {"lock", "swap", "notify", "join"}
                           => Allocated(ctx[c])
                      /\ pc[c] = "delete" => Allocated(cur[c])
    BY DEF NoDanglingContext
  <2> USE TaskletAssumption DEF Inv, ClientInv, TypeOK, Allocated
  <2>1. CASE TookContext(c)
    BY <2>1 DEF CallsOwnContext, CallsHaveObjects, TookContext
  <2>2. CASE pc[c] \in {"lock", "swap", "notify"} /\ ~TookContext(c)
    BY <2>2 DEF CallsShareContext, CallsHaveObjects, ContextsOwned
  <2> QED
    BY <2>1, <2>2 DEF TookContext
<1> QED
  BY <1>1, Invariance, PTL

(* When they do, try_joining() deletes what it joins, and never the        *)
(* context the tasklet has.                                                *)
THEOREM JoinsAreSound ==
  ASSUME JoinsAreExclusive
  PROVE  Spec => []JoinsWhatItDeletes
<1>1. Inv => JoinsWhatItDeletes
  BY DEF Inv, ClientInv, CallsOwnContext, TookContext, JoinsWhatItDeletes
<1> QED
  BY <1>1, Invariance, PTL

(* A tasklet's thread runs in a single context.                            *)
LEMMA OneThread ==
  ASSUME Inv, NEW x \in Contexts, NEW y \in Contexts,
         thread[x] # "none", thread[y] # "none", owner[x] = owner[y]
  PROVE  x = y
<1> USE DEF Inv, ClientInv
<1>1. PICK t \in Tasklets : owner[x] = t /\ owner[y] = t
  BY DEF ThreadsHaveContext, TypeOK
<1>2. ASSUME NEW c \in Callers, TookContext(c), tgt[c] = t
      PROVE  thread[mctx[t]] = "none"
  BY <1>2 DEF CallsOwnContext
<1>3. ASSUME NEW z \in Contexts, thread[z] # "none", owner[z] = t, z # mctx[t]
      PROVE  \E c \in Callers : TookContext(c) /\ ctx[c] = z /\ tgt[c] = t
  BY <1>3 DEF ThreadsHaveContext, CallsOwnContext
<1>4. CASE x = mctx[t] \/ y = mctx[t]
  BY <1>1, <1>2, <1>3, <1>4
<1>5. CASE x # mctx[t] /\ y # mctx[t]
  <2>1. PICK c \in Callers : TookContext(c) /\ ctx[c] = x /\ tgt[c] = t
    BY <1>1, <1>3, <1>5
  <2>2. PICK d \in Callers : TookContext(d) /\ ctx[d] = y /\ tgt[d] = t
    BY <1>1, <1>3, <1>5
  <2>3. op[c] \in Joins
    BY <2>1 DEF TookContext, CallsInPlace
  <2>4. c = d
    BY <2>1, <2>2, <2>3, TaskletAssumption
       DEF CallsExclusive, Joins, Signals
  <2> QED
    BY <2>1, <2>2, <2>4
<1> QED
  BY <1>4, <1>5

(* When they do, a tasklet has one thread at most.                         *)
THEOREM ThreadsAreUnique ==
  ASSUME JoinsAreExclusive
  PROVE  Spec => []OneThreadPerTasklet
<1>1. Inv => OneThreadPerTasklet
  BY OneThread DEF OneThreadPerTasklet, Live
<1> QED
  BY <1>1, Invariance, PTL

(* When they do, stop() returns false only when no thread is left to stop. *)
THEOREM StopIsTruthful ==
  ASSUME JoinsAreExclusive
  PROVE  Spec => StopReportsTruth
<1>1. ASSUME Inv, [Next]_vars, NEW c \in Callers,
             pc[c] = "lock", op[c] = "stop", pc'[c] = "idle",
             NEW x \in Contexts, Live(x)
      PROVE  owner[x] # tgt[c]
  <2>1. Stop(c)
    <3> USE <1>1 DEF Inv, TypeOK, CanLock, Joins, Return, Goto, locals
    <3>1. ASSUME NEW d \in Callers, NEW t \in Tasklets,
                 \/ Create(d, t)
                 \/ \E o \in Signals \union Joins : Call(d, o, t)
          PROVE  FALSE
      BY <3>1 DEF Create, Call
    <3>2. ASSUME NEW d \in Callers, CallStep(d) PROVE Stop(c)
      <4>1. CASE d = c
        BY <3>2, <4>1
           DEF CallStep, Start, Notify, JoinLock, JoinSwap, Join,
               DeleteCurrent, Release
      <4>2. CASE d # c
        BY <3>2, <4>2
           DEF CallStep, Start, Stop, Notify, JoinLock, JoinSwap, Join,
               DeleteCurrent, Release
      <4> QED
        BY <4>1, <4>2
    <3>3. ASSUME NEW y \in Contexts, ThreadStep(y) \/ WakeUnnotified(y)
          PROVE  FALSE
      BY <3>3 DEF ThreadStep, Sleep, Block, SleepReturns, Terminate,
                  WakeUnnotified, Turn
    <3> QED
      BY <3>1, <3>2, <3>3 DEF Next, vars
  <2>2. thread[ctx[c]] = "none"
    BY <1>1, <2>1 DEF Stop, Goto, Joinable, Inv, TypeOK
  <2>3. ctx[c] = mctx[tgt[c]]
    BY <1>1 DEF Inv, ClientInv, CallsShareContext, TookContext
  <2>4. \A d \in Callers : TookContext(d) => tgt[d] # tgt[c]
    BY <1>1, TaskletAssumption
       DEF Inv, ClientInv, CallsExclusive, CallsInPlace, TookContext,
           CallsHaveObjects, Signals, Joins
  <2> QED
    BY <1>1, <2>2, <2>3, <2>4
       DEF Inv, ClientInv, ThreadsHaveContext, CallsOwnContext, Live
<1>2. Inv /\ [Next]_vars
        => [\A c \in Callers :
              pc[c] = "lock" /\ op[c] = "stop" /\ pc'[c] = "idle"
                => \A x \in Contexts : Live(x) => owner[x] # tgt[c]]_vars
  BY <1>1
<1> QED
  BY <1>2, Invariance, PTL DEF Spec, StopReportsTruth

(* The thread a notification is meant for is the one of the context that   *)
(* the call works on, also while the context is being joined.              *)
LEMMA NotifiesOwnThread ==
  ASSUME Inv, NEW c \in Callers, pc[c] = "notify",
         NEW x \in Contexts, thread[x] # "none", owner[x] = tgt[c]
  PROVE  x = ctx[c]
<1> USE DEF Inv, ClientInv
<1>1. tgt[c] # None
  BY DEF ThreadsHaveContext
<1>2. ASSUME NEW d \in Callers, TookContext(d), ctx[d] = x
      PROVE  c = d
  <2>1. tgt[d] = tgt[c] /\ op[d] \in Joins
    BY <1>2 DEF CallsOwnContext, CallsInPlace, TookContext
  <2> QED
    BY <1>1, <2>1 DEF CallsExclusive, Joins, Signals
<1>3. CASE TookContext(c)
  BY <1>2, <1>3 DEF ThreadsHaveContext, CallsOwnContext
<1>4. CASE ~TookContext(c)
  BY <1>2, <1>4 DEF ThreadsHaveContext, CallsShareContext
<1> QED
  BY <1>3, <1>4

(* When they do, every notification wakes the thread it is meant for.      *)
THEOREM NotificationsArrive ==
  ASSUME JoinsAreExclusive
  PROVE  Spec => WakesSleeper
<1>1. ASSUME Inv, [Next]_vars, NEW c \in Callers,
             pc[c] = "notify", pc'[c] # "notify",
             NEW x \in Contexts, thread[x] = "waiting", owner[x] = tgt[c]
      PROVE  thread'[x] = "woken"
  <2>1. Notify(c)
    <3> USE <1>1 DEF Inv, TypeOK, CanLock, Joins, Return, Goto, locals
    <3>1. ASSUME NEW d \in Callers, NEW t \in Tasklets,
                 \/ Create(d, t)
                 \/ \E o \in Signals \union Joins : Call(d, o, t)
          PROVE  FALSE
      BY <3>1 DEF Create, Call
    <3>2. ASSUME NEW d \in Callers, CallStep(d) PROVE Notify(c)
      <4>1. CASE d = c
        BY <3>2, <4>1
           DEF CallStep, Start, Stop, JoinLock, JoinSwap, Join,
               DeleteCurrent, Release
      <4>2. CASE d # c
        BY <3>2, <4>2
           DEF CallStep, Start, Stop, Notify, JoinLock, JoinSwap, Join,
               DeleteCurrent, Release
      <4> QED
        BY <4>1, <4>2
    <3>3. ASSUME NEW y \in Contexts, ThreadStep(y) \/ WakeUnnotified(y)
          PROVE  FALSE
      BY <3>3 DEF ThreadStep, Sleep, Block, SleepReturns, Terminate,
                  WakeUnnotified, Turn
    <3> QED
      BY <3>1, <3>2, <3>3 DEF Next, vars
  <2>2. x = ctx[c]
    BY <1>1, NotifiesOwnThread
  <2>3. x \in Waiters(Cond(x))
    BY <1>1 DEF Waiters
  <2>4. ASSUME owner[x] \in Owned, NEW w \in Waiters(Cond(x)) PROVE w = x
    BY <2>4, TaskletAssumption DEF Waiters, Cond
  <2>5. \A W \in Notified(x) : x \in W
    BY <2>3, <2>4 DEF Notified
  <2> QED
    BY <2>1, <2>2, <2>5 DEF Notify
<1>2. Inv /\ [Next]_vars
        => [\A c \in Callers :
              pc[c] = "notify" /\ pc'[c] # "notify"
                => \A x \in Contexts :
                     thread[x] = "waiting" /\ owner[x] = tgt[c]
                       => thread'[x] = "woken"]_vars
  BY <1>1
<1> QED
  BY <1>2, Invariance, PTL DEF Spec, WakesSleeper

-----------------------------------------------------------------------------
(* Whoever holds the mutex of a condition is between its lock and its      *)
(* unlock: a call of try_joining(), or a thread about to block.            *)
MutexHeld ==
  \A m \in Conditions :
    mutex[m] # None
      => \/ \E c \in Callers :
              mutex[m] = c /\ pc[c] = "swap" /\ ctx[c] # None /\ Cond(ctx[c]) = m
         \/ \E x \in Contexts :
              mutex[m] = x /\ thread[x] = "check" /\ Cond(x) = m

(* A context that calls other than a deletion work on is not deleted.      *)
LEMMA DeletedAlone ==
  ASSUME Inv, NEW c \in Callers, NEW x \in Contexts,
         \/ pc[c] = "delete" /\ x = cur[c]
         \/ pc[c] = "release" /\ x = mctx[tgt[c]]
  PROVE  /\ thread[x] = "none"
         /\ \A d \in Callers : pc[d] = "swap" => ctx[d] # x
<1> USE TaskletAssumption DEF Inv, ClientInv, TypeOK
<1>1. thread[x] = "none" /\ owner[x] = tgt[c] /\ tgt[c] \in Tasklets
  BY DEF CallsOwnContext, TookContext, CallsHaveObjects, ContextsOwned
<1>2. op[c] \in Joins
  BY DEF CallsInPlace, Joins
<1>3. ASSUME NEW d \in Callers, pc[d] = "swap", ctx[d] = x
      PROVE  FALSE
  <2>1. tgt[d] = tgt[c] /\ d # c
    BY <1>1, <1>3
       DEF CallsShareContext, TookContext, CallsHaveObjects, ContextsOwned
  <2> QED
    BY <1>1, <1>2, <2>1 DEF CallsExclusive, Joins, Signals
<1> QED
  BY <1>1, <1>3

(* Mutexes are given back by who took them.                                *)
LEMMA HeldInductive ==
  ASSUME Inv, MutexHeld, [Next]_vars
  PROVE  MutexHeld'
<1> USE TaskletAssumption
    DEF Inv, TypeOK, CallsHaveObjects, Conditions, MutexHeld, Cond
<1> USE DEF Return, Goto, Turn, Construct, Delete, InitialFlag, Fresh,
            objects, locals, Allocated
<1>1. ASSUME NEW c \in Callers, NEW t \in Tasklets, Create(c, t)
      PROVE  MutexHeld'
  BY <1>1 DEF Create, LockInv, NoThreadUnallocated
<1>2. ASSUME NEW c \in Callers, NEW t \in Tasklets,
             NEW o \in Signals \union Joins, Call(c, o, t)
      PROVE  MutexHeld'
  BY <1>2 DEF Call
<1>3. ASSUME NEW c \in Callers, Start(c)
      PROVE  MutexHeld'
  BY <1>3 DEF Start, CanLock, Joinable
<1>4. ASSUME NEW c \in Callers, Stop(c)
      PROVE  MutexHeld'
  BY <1>4 DEF Stop, CanLock
<1>5. ASSUME NEW c \in Callers, Notify(c)
      PROVE  MutexHeld'
  BY <1>5 DEF Notify, Notified, Waiters
<1>6. ASSUME NEW c \in Callers, JoinLock(c)
      PROVE  MutexHeld'
  BY <1>6 DEF JoinLock, CanLock
<1>7. ASSUME NEW c \in Callers, JoinSwap(c)
      PROVE  MutexHeld'
  BY <1>7 DEF JoinSwap, Swap, LockInv, NoThreadUnallocated
<1>8. ASSUME NEW c \in Callers, Join(c)
      PROVE  MutexHeld'
  BY <1>8 DEF Join
<1>9. ASSUME NEW c \in Callers, DeleteCurrent(c)
      PROVE  MutexHeld'
  BY <1>9, DeletedAlone DEF DeleteCurrent
<1>10. ASSUME NEW c \in Callers, Release(c)
       PROVE  MutexHeld'
  BY <1>10, DeletedAlone DEF Release
<1>11. ASSUME NEW x \in Contexts, ThreadStep(x) \/ WakeUnnotified(x)
       PROVE  MutexHeld'
  BY <1>11 DEF ThreadStep, Sleep, Block, SleepReturns, Terminate,
               WakeUnnotified
<1>12. CASE UNCHANGED vars
  BY <1>12 DEF vars
<1> QED
  BY <1>1, <1>2, <1>3, <1>4, <1>5, <1>6, <1>7, <1>8, <1>9, <1>10, <1>11,
     <1>12 DEF Next, CallStep

(* When they do, a context is deleted after its thread was joined, and     *)
(* when nobody holds its mutex.                                            *)
THEOREM DeletionsAreQuiet ==
  ASSUME JoinsAreExclusive
  PROVE  Spec => DeletesQuietContexts
<1>1. Init => MutexHeld
  BY DEF Init, MutexHeld
<1>2. Inv /\ MutexHeld /\ [Next]_vars => MutexHeld'
  BY HeldInductive
<1>3. ASSUME Inv, MutexHeld, [Next]_vars, NEW x \in Contexts,
             Allocated(x), owner'[x] = None
      PROVE  thread[x] = "none" /\ mutex[x] = None
  <2>1. PICK c \in Callers :
          \/ pc[c] = "delete" /\ x = cur[c]
          \/ pc[c] = "release" /\ x = mctx[tgt[c]]
    <3> USE <1>3, TaskletAssumption DEF Inv, TypeOK, Allocated
    <3>1. ASSUME NEW c \in Callers, NEW t \in Tasklets,
                 \/ Create(c, t)
                 \/ \E o \in Signals \union Joins : Call(c, o, t)
          PROVE  FALSE
      BY <3>1 DEF Create, Call, Construct, objects
    <3>2. ASSUME NEW c \in Callers, CallStep(c)
          PROVE  \/ pc[c] = "delete" /\ x = cur[c]
                 \/ pc[c] = "release" /\ x = mctx[tgt[c]]
      <4>1. CASE JoinSwap(c)
        BY <4>1 DEF JoinSwap, Construct
      <4>2. CASE DeleteCurrent(c) \/ Release(c)
        BY <4>2 DEF DeleteCurrent, Release, Delete
      <4>3. CASE \/ Start(c) \/ Stop(c) \/ Notify(c)
                 \/ JoinLock(c) \/ Join(c)
        BY <4>3 DEF Start, Stop, Notify, JoinLock, Join
      <4> QED
        BY <3>2, <4>1, <4>2, <4>3 DEF CallStep
    <3>3. ASSUME NEW y \in Contexts, ThreadStep(y) \/ WakeUnnotified(y)
          PROVE  FALSE
      BY <3>3 DEF ThreadStep, Sleep, Block, SleepReturns, Terminate,
                  WakeUnnotified, Turn
    <3> QED
      BY <3>1, <3>2, <3>3 DEF Next, vars
  <2>2. /\ thread[x] = "none"
        /\ \A d \in Callers : pc[d] = "swap" => ctx[d] # x
    BY <1>3, <2>1, DeletedAlone
  <2> QED
    BY <1>3, <2>2, TaskletAssumption DEF MutexHeld, Conditions, Cond
<1>4. Inv /\ MutexHeld /\ [Next]_vars
        => [\A x \in Contexts :
              Allocated(x) /\ owner'[x] = None
                => thread[x] = "none" /\ mutex[x] = None]_vars
  BY <1>3
<1> QED
  BY <1>1, <1>2, <1>4, Invariance, PTL DEF Spec, DeletesQuietContexts

-----------------------------------------------------------------------------
(* Tasklet implements RestartableThread, for clients that make no other    *)
(* call while wait() or the destructor runs.                               *)

(* A task function that has seen sleep() return false was asked to stop.   *)
LeavingStopped == \A x \in Contexts : thread[x] = "leaving" => ~running[x]

(* The flag is not set again in a context whose thread is leaving.         *)
LEMMA LeavingInductive ==
  ASSUME TypeOK, CallsHaveObjects, LockInv, LeavingStopped, [Next]_vars
  PROVE  LeavingStopped'
<1> USE DEF LeavingStopped, TypeOK, CallsHaveObjects, ThreadStates
<1>1. ASSUME NEW c \in Callers, NEW t \in Tasklets,
             \/ Create(c, t)
             \/ \E o \in Signals \union Joins : Call(c, o, t)
      PROVE  LeavingStopped'
  BY <1>1 DEF Create, Construct, Fresh, InitialFlag, Call, objects
<1>2. ASSUME NEW c \in Callers, CallStep(c)
      PROVE  LeavingStopped'
  BY <1>2
     DEF CallStep, Start, CanLock, Joinable, Stop, Notify, JoinLock, JoinSwap,
         Construct, Fresh, InitialFlag, Join, DeleteCurrent, Release, Delete,
         Notified, Waiters
<1>3. ASSUME NEW x \in Contexts, ThreadStep(x) \/ WakeUnnotified(x)
      PROVE  LeavingStopped'
  BY <1>3 DEF ThreadStep, Sleep, Block, SleepReturns, Terminate,
              WakeUnnotified, Turn
<1>4. CASE UNCHANGED vars
  BY <1>4 DEF vars
<1> QED
  BY <1>1, <1>2, <1>3, <1>4 DEF Next

-----------------------------------------------------------------------------
(* The phase of a tasklet depends on which of its contexts have a thread,  *)
(* which threads live, and which of those may go on running.               *)
LEMMA PhaseFrame ==
  ASSUME NEW t \in Tasklets,
         mctx'[t] = None <=> mctx[t] = None,
         \A x \in Contexts :
           /\ (owner[x] = t /\ Joinable(x))' <=> owner[x] = t /\ Joinable(x)
           /\ (owner[x] = t /\ Live(x))' <=> owner[x] = t /\ Live(x)
           /\ (owner[x] = t /\ Live(x) /\ running[x])'
                <=> owner[x] = t /\ Live(x) /\ running[x]
  PROVE  Phase(t)' = Phase(t)
BY DEF Phase

phase == [t \in Tasklets |-> Phase(t)]

(* A step that moves the phase of one tasklet.                             *)
LEMMA PhaseMove ==
  ASSUME NEW t \in Tasklets, NEW a, NEW b, Phase(t) = a, Phase(t)' = b,
         \A u \in Tasklets \ {t} : Phase(u)' = Phase(u)
  PROVE  Promise!Move(t, {a}, b)
BY DEF Promise!Move

(* When no phase changes the abstract thread stutters.                     *)
LEMMA PhaseStutter ==
  ASSUME \A u \in Tasklets : Phase(u)' = Phase(u)
  PROVE  [Promise!Next]_phase
BY DEF phase

-----------------------------------------------------------------------------
(* While a call is under way, the tasklet has no other thread than that of *)
(* the context the call works on.                                          *)
LEMMA CallKnowsThread ==
  ASSUME Inv, NEW c \in Callers,
         pc[c] \in {"lock", "swap", "notify", "join", "delete"},
         NEW x \in Contexts, owner[x] = tgt[c], thread[x] # "none"
  PROVE  x = ctx[c]
<1> USE TaskletAssumption DEF Inv, ClientInv, Signals, Joins
<1>1. tgt[c] \in Tasklets
  BY DEF CallsHaveObjects
<1>2. ASSUME NEW d \in Callers, d # c, TookContext(d), tgt[d] = tgt[c]
      PROVE  FALSE
  BY <1>1, <1>2 DEF CallsExclusive, CallsInPlace, TookContext
<1>3. CASE x = mctx[tgt[c]]
  BY <1>3 DEF CallsOwnContext, CallsShareContext, TookContext
<1>4. CASE x # mctx[tgt[c]]
  <2>1. PICK d \in Callers : TookContext(d) /\ ctx[d] = x
    BY <1>4 DEF ThreadsHaveContext
  <2>2. tgt[d] = tgt[c]
    BY <2>1 DEF CallsOwnContext
  <2> QED
    BY <1>2, <2>1, <2>2
<1> QED
  BY <1>3, <1>4

(* The context of a call within its steps is one of its tasklet.           *)
LEMMA CallContext ==
  ASSUME Inv, NEW c \in Callers,
         pc[c] \in {"lock", "swap", "notify", "join", "delete"}
  PROVE  /\ tgt[c] \in Tasklets /\ ctx[c] \in Contexts
         /\ owner[ctx[c]] = tgt[c] /\ mctx[tgt[c]] # None
BY TaskletAssumption
   DEF Inv, ClientInv, CallsHaveObjects, CallsShareContext, CallsOwnContext,
       ContextsOwned, TookContext, TypeOK

-----------------------------------------------------------------------------
(* One lemma for each action.                                              *)

(* The constructor.                                                        *)
LEMMA CreateStep ==
  ASSUME Inv, NEW c \in Callers, NEW t \in Tasklets, Create(c, t),
         JoinsAreExclusive
  PROVE  Promise!Construct(t)
<1> USE DEF Inv, TypeOK
<1>1. PICK x \in Fresh :
        mctx' = [mctx EXCEPT ![t] = x] /\ Construct(x, t) /\ UNCHANGED thread
  BY DEF Create
<1>2. x \in Contexts /\ owner[x] = None /\ thread[x] = "none" /\ mctx[t] = None
  BY <1>1 DEF Fresh, Create, LockInv, NoThreadUnallocated, Allocated
<1>3. \A y \in Contexts : owner[y] = t => thread[y] = "none"
  BY <1>2, TaskletAssumption
     DEF ClientInv, ThreadsHaveContext, CallsOwnContext, TookContext,
         ContextsOwned
<1>4. Phase(t) = "absent"
  BY <1>2 DEF Phase
<1>5. Phase(t)' = "idle"
  <2>1. \A y \in Contexts : owner'[y] = t => thread'[y] = "none"
    BY <1>1, <1>2, <1>3 DEF Construct
  <2>2. mctx'[t] # None
    BY <1>1, <1>2, TaskletAssumption
  <2> QED
    BY <2>1, <2>2 DEF Phase, Joinable
<1>6. ASSUME NEW u \in Tasklets \ {t} PROVE Phase(u)' = Phase(u)
  <2>1. mctx'[u] = mctx[u]
    BY <1>1
  <2>2. \A y \in Contexts \ {x} : owner'[y] = owner[y] /\ running'[y] = running[y]
    BY <1>1 DEF Construct
  <2>3. thread'[x] = "none"
    BY <1>1, <1>2
  <2> QED
    BY <1>1, <1>2, <2>1, <2>2, <2>3, PhaseFrame DEF Joinable, Live
<1> QED
  BY <1>4, <1>5, <1>6, PhaseMove DEF Promise!Construct

(* start() creates a thread or changes nothing.                            *)
LEMMA StartStep ==
  ASSUME Inv, NEW c \in Callers, Start(c)
  PROVE  [Promise!Start(tgt[c])]_phase
<1> USE DEF Inv, TypeOK
<1>1. PICK t \in Tasklets, x \in Contexts :
        /\ t = tgt[c] /\ x = ctx[c] /\ owner[x] = t /\ mctx[t] # None
        /\ \A y \in Contexts : owner[y] = t /\ thread[y] # "none" => y = x
  BY CallContext, CallKnowsThread DEF Start, CanLock
<1>2. CASE Joinable(x)
  BY <1>1, <1>2 DEF Start, phase, Phase, Joinable, Live
<1>3. CASE ~Joinable(x)
  <2>1. /\ running' = [running EXCEPT ![x] = TRUE]
        /\ thread' = [thread EXCEPT ![x] = "body"]
        /\ UNCHANGED <<mctx, owner>>
    BY <1>1, <1>3 DEF Start
  <2>2. Phase(t) = "idle"
    BY <1>1, <1>3 DEF Phase, Joinable
  <2>3. Phase(t)' = "running"
    BY <1>1, <2>1 DEF Phase, Joinable, Live
  <2>4. ASSUME NEW u \in Tasklets \ {t} PROVE Phase(u)' = Phase(u)
    BY <1>1, <2>1, PhaseFrame DEF Joinable, Live
  <2> QED
    BY <1>1, <2>2, <2>3, <2>4, PhaseMove DEF Promise!Start
<1> QED
  BY <1>2, <1>3

(* stop() and the destructor clear the flag of the one thread.             *)
LEMMA ClearFlagStep ==
  ASSUME Inv, NEW c \in Callers, pc[c] = "lock", Joinable(ctx[c]),
         running' = [running EXCEPT ![ctx[c]] = FALSE],
         UNCHANGED <<mctx, owner, thread>>
  PROVE  [Promise!Stop(tgt[c])]_phase
<1> USE DEF Inv, TypeOK
<1>1. PICK t \in Tasklets, x \in Contexts :
        /\ t = tgt[c] /\ x = ctx[c] /\ owner[x] = t /\ mctx[t] # None
        /\ \A y \in Contexts : owner[y] = t /\ thread[y] # "none" => y = x
  BY CallContext, CallKnowsThread
<1>2. \A u \in Tasklets \ {t} : Phase(u)' = Phase(u)
  BY <1>1, PhaseFrame DEF Joinable, Live
<1>3. CASE Live(x) /\ running[x]
  <2>1. Phase(t) = "running"
    BY <1>1, <1>3 DEF Phase, Joinable
  <2>2. Phase(t)' = "stopping"
    BY <1>1, <1>3 DEF Phase, Joinable, Live
  <2> QED
    BY <1>1, <1>2, <2>1, <2>2, PhaseMove DEF Promise!Stop
<1>4. CASE ~(Live(x) /\ running[x])
  <2>1. \A y \in Contexts : owner[y] = t /\ Live(y) /\ running[y] => FALSE
    BY <1>1, <1>4 DEF Live
  <2>2. Phase(t)' = Phase(t)
    BY <1>1, <1>4, <2>1, PhaseFrame DEF Joinable, Live
  <2> QED
    BY <1>2, <2>2 DEF phase
<1> QED
  BY <1>3, <1>4

(* To swap contexts is not seen from outside: both are the tasklet's.      *)
LEMMA SwapStep ==
  ASSUME Inv, NEW c \in Callers, JoinSwap(c)
  PROVE  UNCHANGED phase
<1> USE DEF Inv, TypeOK
<1>1. /\ tgt[c] \in Tasklets /\ ctx[c] \in Contexts /\ mctx[tgt[c]] # None
  BY CallContext DEF JoinSwap
<1>2. PICK x \in Fresh : Construct(x, owner[ctx[c]]) /\ Swap(c, x)
  BY DEF JoinSwap
<1>3. /\ x \in Contexts /\ thread[x] = "none" /\ UNCHANGED thread
  BY <1>2 DEF JoinSwap, Fresh, LockInv, NoThreadUnallocated
<1>4. ASSUME NEW u \in Tasklets PROVE Phase(u)' = Phase(u)
  <2>1. mctx'[u] = None <=> mctx[u] = None
    BY <1>1, <1>2, <1>3, TaskletAssumption DEF Swap
  <2>2. \A y \in Contexts \ {x} : owner'[y] = owner[y] /\ running'[y] = running[y]
    BY <1>2 DEF Construct
  <2> QED
    BY <1>3, <2>1, <2>2, PhaseFrame DEF Joinable, Live
<1> QED
  BY <1>4 DEF phase

(* join() waits for the thread to be over.                                 *)
LEMMA JoinStep ==
  ASSUME Inv, NEW c \in Callers, Join(c)
  PROVE  Promise!Join(tgt[c])
<1> USE DEF Inv, TypeOK
<1>1. PICK t \in Tasklets, x \in Contexts :
        /\ t = tgt[c] /\ x = ctx[c] /\ owner[x] = t /\ mctx[t] # None
        /\ \A y \in Contexts : owner[y] = t /\ thread[y] # "none" => y = x
  BY CallContext, CallKnowsThread DEF Join
<1>2. /\ thread[x] = "done" /\ thread' = [thread EXCEPT ![x] = "none"]
      /\ UNCHANGED <<mctx, owner, running>>
  BY <1>1 DEF Join
<1>3. Phase(t) = "finished"
  BY <1>1, <1>2 DEF Phase, Joinable, Live
<1>4. Phase(t)' = "idle"
  BY <1>1, <1>2 DEF Phase, Joinable
<1>5. ASSUME NEW u \in Tasklets \ {t} PROVE Phase(u)' = Phase(u)
  BY <1>1, <1>2, PhaseFrame DEF Joinable, Live
<1> QED
  BY <1>1, <1>3, <1>4, <1>5, PhaseMove DEF Promise!Join

(* The context that is deleted has no thread.                              *)
LEMMA DeleteStep ==
  ASSUME Inv, NEW c \in Callers, DeleteCurrent(c)
  PROVE  UNCHANGED phase
<1> USE DEF Inv, TypeOK
<1>1. ctx[c] \in Contexts /\ cur[c] = ctx[c] /\ thread[ctx[c]] = "none"
  BY CallContext DEF DeleteCurrent, ClientInv, CallsOwnContext, TookContext
<1>2. Delete(ctx[c]) /\ UNCHANGED mctx
  BY <1>1 DEF DeleteCurrent
<1>3. \A u \in Tasklets : Phase(u)' = Phase(u)
  BY <1>1, <1>2, PhaseFrame DEF Delete, Joinable, Live
<1> QED
  BY <1>3 DEF phase

(* The end of the destructor.                                              *)
LEMMA ReleaseStep ==
  ASSUME Inv, NEW c \in Callers, Release(c)
  PROVE  Promise!Destroy(tgt[c])
<1> USE TaskletAssumption DEF Inv, TypeOK
<1>1. PICK t \in Tasklets, x \in Contexts :
        /\ t = tgt[c] /\ x = mctx[t] /\ owner[x] = t
        /\ pc[c] = "release" /\ op[c] = "destroy" /\ thread[x] = "none"
  BY DEF Release, ClientInv, CallsHaveObjects, ContextsOwned, CallsOwnContext,
         CallsInPlace
<1>2. \A d \in Callers : TookContext(d) => tgt[d] # t
  BY <1>1 DEF ClientInv, CallsExclusive, CallsInPlace, TookContext,
              Signals, Joins
<1>3. \A y \in Contexts : owner[y] = t => thread[y] = "none"
  BY <1>1, <1>2 DEF ClientInv, ThreadsHaveContext, CallsOwnContext
<1>4. Delete(x) /\ mctx' = [mctx EXCEPT ![t] = None]
  BY <1>1 DEF Release
<1>5. Phase(t) = "idle"
  BY <1>1, <1>3 DEF Phase, Joinable
<1>6. Phase(t)' = "absent"
  BY <1>1, <1>4 DEF Phase
<1>7. ASSUME NEW u \in Tasklets \ {t} PROVE Phase(u)' = Phase(u)
  BY <1>1, <1>4, PhaseFrame DEF Delete, Joinable, Live
<1> QED
  BY <1>1, <1>5, <1>6, <1>7, PhaseMove DEF Promise!Destroy

(* A step between the creation and the end of a thread.                    *)
LEMMA LiveStep ==
  ASSUME UNCHANGED <<mctx, owner, running>>,
         \A x \in Contexts : /\ Joinable(x)' <=> Joinable(x)
                             /\ Live(x)' <=> Live(x)
  PROVE  UNCHANGED phase
<1>1. \A u \in Tasklets : Phase(u)' = Phase(u)
  BY PhaseFrame
<1> QED
  BY <1>1 DEF phase

(* A thread terminates because it was stopped, or returns by itself.       *)
LEMMA TerminateStep ==
  ASSUME Inv, LeavingStopped, NEW x \in Contexts, Terminate(x)
  PROVE  \/ Promise!Terminate(owner[x])
         \/ Promise!Return(owner[x])
<1> USE TaskletAssumption DEF Inv, TypeOK
<1>1. /\ Live(x) /\ (running[x] => owner[x] \in OneShot)
      /\ thread' = [thread EXCEPT ![x] = "done"]
      /\ UNCHANGED <<mctx, owner, running>>
  BY DEF Terminate, Turn, Live, LeavingStopped
<1>2. PICK t \in Tasklets : t = owner[x] /\ mctx[t] # None
  BY <1>1 DEF Live, ClientInv, ThreadsHaveContext, CallsOwnContext,
              ContextsOwned, TookContext
<1>3. \A y \in Contexts : owner[y] = t /\ thread[y] # "none" => y = x
  BY <1>1, <1>2, OneThread DEF Live
<1>4. Phase(t) = IF running[x] THEN "running" ELSE "stopping"
  BY <1>1, <1>2, <1>3 DEF Phase, Joinable, Live
<1>5. Phase(t)' = "finished"
  BY <1>1, <1>2, <1>3 DEF Phase, Joinable, Live
<1>6. ASSUME NEW u \in Tasklets \ {t} PROVE Phase(u)' = Phase(u)
  <2>1. \A y \in Contexts : owner[y] = u => thread'[y] = thread[y]
    BY <1>1, <1>2
  <2> QED
    BY <1>1, <2>1, PhaseFrame DEF Joinable, Live
<1> QED
  BY <1>1, <1>2, <1>4, <1>5, <1>6, PhaseMove
     DEF Promise!Terminate, Promise!Return

-----------------------------------------------------------------------------
(* All actions together.                                                   *)
LEMMA StepSimulation ==
  ASSUME JoinsAreExclusive, Inv, LeavingStopped, [Next]_vars
  PROVE  [Promise!Next]_phase
<1>1. ASSUME NEW c \in Callers, NEW t \in Tasklets, Create(c, t)
      PROVE  [Promise!Next]_phase
  BY <1>1, CreateStep DEF Promise!Next
<1>2. ASSUME NEW c \in Callers, NEW t \in Tasklets,
             NEW o \in Signals \union Joins, Call(c, o, t)
      PROVE  [Promise!Next]_phase
  BY <1>2, LiveStep DEF Call, objects, Joinable, Live
<1>3. ASSUME NEW c \in Callers, CallStep(c)
      PROVE  [Promise!Next]_phase
  <2>1. tgt[c] \in Tasklets
    BY <1>3 DEF Inv, CallsHaveObjects, CallStep, Start, Stop, CanLock, Notify,
                JoinLock, JoinSwap, Join, DeleteCurrent, Release
  <2>2. CASE Start(c)
    BY <2>1, <2>2, StartStep DEF Promise!Next
  <2>3. CASE Stop(c) \/ JoinLock(c)
    <3>1. CASE Joinable(ctx[c]) /\ running' # running
      <4>1. /\ pc[c] = "lock" /\ UNCHANGED <<mctx, owner, thread>>
            /\ running' = [running EXCEPT ![ctx[c]] = FALSE]
        BY <2>3, <3>1 DEF Stop, JoinLock, CanLock
      <4> QED
        BY <2>1, <3>1, <4>1, ClearFlagStep DEF Promise!Next
    <3>2. CASE ~(Joinable(ctx[c]) /\ running' # running)
      <4>1. UNCHANGED <<mctx, owner, running, thread>>
        BY <2>3, <3>2 DEF Stop, JoinLock
      <4> QED
        BY <4>1, LiveStep DEF Joinable, Live
    <3> QED
      BY <3>1, <3>2
  <2>4. CASE Notify(c)
    <3>1. /\ UNCHANGED <<mctx, owner, running>>
          /\ \A x \in Contexts :
               /\ thread'[x] = "none" <=> thread[x] = "none"
               /\ thread'[x] = "done" <=> thread[x] = "done"
      BY <2>4 DEF Notify, Notified, Waiters
    <3> QED
      BY <3>1, LiveStep DEF Joinable, Live
  <2>5. CASE JoinSwap(c)
    BY <2>5, SwapStep
  <2>6. CASE Join(c)
    BY <2>1, <2>6, JoinStep DEF Promise!Next
  <2>7. CASE DeleteCurrent(c)
    BY <2>7, DeleteStep
  <2>8. CASE Release(c)
    BY <2>1, <2>8, ReleaseStep DEF Promise!Next
  <2> QED
    BY <1>3, <2>2, <2>3, <2>4, <2>5, <2>6, <2>7, <2>8 DEF CallStep
<1>4. ASSUME NEW x \in Contexts, ThreadStep(x) \/ WakeUnnotified(x)
      PROVE  [Promise!Next]_phase
  <2>1. CASE Terminate(x)
    <3>1. owner[x] \in Tasklets
      BY <2>1 DEF Inv, ClientInv, ThreadsHaveContext, TypeOK, Terminate
    <3> QED
      BY <2>1, <3>1, TerminateStep DEF Promise!Next
  <2>2. CASE ~Terminate(x)
    <3>1. /\ UNCHANGED <<mctx, owner, running>>
          /\ \A y \in Contexts :
               /\ thread'[y] = "none" <=> thread[y] = "none"
               /\ thread'[y] = "done" <=> thread[y] = "done"
      BY <1>4, <2>2 DEF ThreadStep, Sleep, Block, SleepReturns, WakeUnnotified,
                        Turn, Inv, TypeOK
    <3> QED
      BY <3>1, LiveStep DEF Joinable, Live
  <2> QED
    BY <2>1, <2>2
<1>5. CASE UNCHANGED vars
  BY <1>5, LiveStep DEF vars, Joinable, Live
<1> QED
  BY <1>1, <1>2, <1>3, <1>4, <1>5 DEF Next

(* For clients that keep wait() and the destructor exclusive, each tasklet *)
(* is a restartable thread: every step starts, stops, ends or joins its    *)
(* thread in the order the abstract specification allows, or changes       *)
(* nothing a client can see.                                               *)
THEOREM TaskletImplementsThread ==
  ASSUME JoinsAreExclusive
  PROVE  Spec => KeepsPromise
<1>1. Init => Promise!Init
  BY DEF Init, Promise!Init, Phase
<1>2. Init => LeavingStopped
  BY DEF Init, LeavingStopped
<1>3. Inv /\ LeavingStopped /\ [Next]_vars => LeavingStopped'
  BY LeavingInductive DEF Inv
<1>4. Inv /\ LeavingStopped /\ [Next]_vars => [Promise!Next]_phase
  BY StepSimulation
<1> QED
  BY <1>1, <1>2, <1>3, <1>4, Invariance, PTL
     DEF Spec, KeepsPromise, Promise!Spec, phase
=============================================================================
