-------------------------- MODULE LockPolicyProofs --------------------------
(***************************************************************************)
(* Mutual exclusion through mutex proxies, for any threads, proxies and    *)
(* mutexes.                                                                *)
(***************************************************************************)
EXTENDS LockPolicy, TLAPS

Within == {"inside", "unlocking"}

(* Which of the proxies a thread uses, and what that says of its mutex. As *)
(* no proxy changes while it is used, what a thread took is what the proxy *)
(* refers to all the time.                                                 *)
UsesInv ==
  \A t \in Threads :
    /\ pc[t] = "outside" <=> lock[t] = Null
    /\ pc[t] \in {"locking", "unlocking"} => proxied[lock[t]] # Null
    /\ pc[t] \in Within => took[t] = proxied[lock[t]]
    /\ pc[t] \notin Within => took[t] = Null

(* A mutex has the owner that took it.                                     *)
OwnsInv ==
  /\ \A t \in Threads : took[t] # Null => owner[took[t]] = t
  /\ \A m \in Mutexes : owner[m] # Null => took[owner[m]] = m

Inv == TypeOK /\ UsesInv /\ OwnsInv

-----------------------------------------------------------------------------
(* Nobody is in a scope, and no mutex is taken.                            *)
LEMMA Initially == Init => Inv
  BY LockPolicyAssumption DEF Init, Inv, TypeOK, UsesInv, OwnsInv, Within

(* A thread that is not outside has its lock on a proxy.                   *)
LEMMA LockIsProxy ==
  ASSUME Inv, NEW t \in Threads, pc[t] # "outside"
  PROVE  lock[t] \in Proxies
  BY DEF Inv, TypeOK, UsesInv

(* A scope begins without its mutex.                                       *)
LEMMA EnterKeeps ==
  ASSUME Inv, NEW t \in Threads, NEW p \in Proxies, Enter(t, p)
  PROVE  Inv'
<1>1. TypeOK'
  BY DEF Inv, TypeOK, Enter
<1>2. UsesInv'
  BY LockPolicyAssumption DEF Inv, TypeOK, UsesInv, Enter, Within
<1>3. OwnsInv'
  BY DEF Inv, OwnsInv, Enter
<1>. QED
  BY <1>1, <1>2, <1>3 DEF Inv

(* The test of the reference takes nothing.                                *)
LEMMA CheckLockKeeps ==
  ASSUME Inv, NEW t \in Threads, CheckLock(t)
  PROVE  Inv'
<1>1. TypeOK'
  BY DEF Inv, TypeOK, CheckLock
<1>2. UsesInv'
  BY DEF Inv, TypeOK, UsesInv, CheckLock, Within
<1>3. OwnsInv'
  BY DEF Inv, OwnsInv, CheckLock
<1>. QED
  BY <1>1, <1>2, <1>3 DEF Inv

(* The mutex that is taken was free, and becomes the thread's.             *)
LEMMA LockKeeps ==
  ASSUME Inv, NEW t \in Threads, Lock(t)
  PROVE  Inv'
<1>1. lock[t] \in Proxies
  BY LockIsProxy DEF Lock
<1>2. proxied[lock[t]] \in Mutexes
  BY <1>1 DEF Inv, TypeOK, Lock
<1>3. TypeOK'
  BY <1>2 DEF Inv, TypeOK, Lock
<1>4. UsesInv'
  BY <1>2 DEF Inv, TypeOK, UsesInv, Lock, Within
<1>5. took[t] = Null
  BY DEF Inv, UsesInv, Lock, Within
<1>6. OwnsInv'
  <2>1. ASSUME NEW u \in Threads, took'[u] # Null
        PROVE  owner'[took'[u]] = u
    BY <1>2, <2>1, LockPolicyAssumption DEF Inv, TypeOK, OwnsInv, Lock
  <2>2. ASSUME NEW m \in Mutexes, owner'[m] # Null
        PROVE  took'[owner'[m]] = m
    BY <1>2, <1>5, <2>2, LockPolicyAssumption DEF Inv, TypeOK, OwnsInv, Lock
  <2>. QED
    BY <2>1, <2>2 DEF OwnsInv
<1>. QED
  BY <1>3, <1>4, <1>6 DEF Inv

(* The test before unlock() gives nothing back.                            *)
LEMMA CheckUnlockKeeps ==
  ASSUME Inv, NEW t \in Threads, CheckUnlock(t)
  PROVE  Inv'
<1>1. TypeOK'
  BY DEF Inv, TypeOK, CheckUnlock
<1>2. UsesInv'
  BY DEF Inv, TypeOK, UsesInv, CheckUnlock, Within
<1>3. OwnsInv'
  BY DEF Inv, OwnsInv, CheckUnlock
<1>. QED
  BY <1>1, <1>2, <1>3 DEF Inv

(* The reference is still what was locked, so that is what is unlocked.    *)
LEMMA UnlockKeeps ==
  ASSUME Inv, NEW t \in Threads, Unlock(t)
  PROVE  Inv'
<1>1. /\ took[t] = proxied[lock[t]]
      /\ took[t] # Null
      /\ took[t] \in Mutexes
      /\ owner[took[t]] = t
  BY DEF Inv, TypeOK, UsesInv, OwnsInv, Unlock, Within
<1>2. TypeOK'
  BY <1>1 DEF Inv, TypeOK, Unlock
<1>3. UsesInv'
  BY LockPolicyAssumption DEF Inv, TypeOK, UsesInv, Unlock, Within
<1>4. OwnsInv'
  <2>1. ASSUME NEW u \in Threads, took'[u] # Null
        PROVE  owner'[took'[u]] = u
    BY <1>1, <2>1, LockPolicyAssumption DEF Inv, TypeOK, OwnsInv, Unlock
  <2>2. ASSUME NEW m \in Mutexes, owner'[m] # Null
        PROVE  took'[owner'[m]] = m
    BY <1>1, <2>2, LockPolicyAssumption DEF Inv, TypeOK, OwnsInv, Unlock
  <2>. QED
    BY <2>1, <2>2 DEF OwnsInv
<1>. QED
  BY <1>2, <1>3, <1>4 DEF Inv

(* No scope uses the proxy whose reference is replaced.                    *)
LEMMA SetProxiedKeeps ==
  ASSUME Inv, NEW p \in Proxies, NEW m \in Mutexes \union {Null}, SetProxied(p, m)
  PROVE  Inv'
<1>1. TypeOK'
  BY DEF Inv, TypeOK, SetProxied
<1>2. ASSUME NEW t \in Threads, pc[t] # "outside"
      PROVE  proxied'[lock[t]] = proxied[lock[t]]
  BY <1>2, LockIsProxy DEF Inv, TypeOK, SetProxied, Unused
<1>3. UsesInv'
  BY <1>2 DEF Inv, TypeOK, UsesInv, SetProxied, Within
<1>4. OwnsInv'
  BY DEF Inv, OwnsInv, SetProxied
<1>. QED
  BY <1>1, <1>3, <1>4 DEF Inv

(* A stuttering step keeps the invariant.                                  *)
LEMMA Unchanged == Inv /\ UNCHANGED vars => Inv'
  BY DEF Inv, TypeOK, UsesInv, OwnsInv, vars

-----------------------------------------------------------------------------
(* The invariant holds of every state.                                     *)
LEMMA InvHolds == Spec => []Inv
<1>1. Inv /\ [Next]_vars => Inv'
  <2> SUFFICES ASSUME Inv, [Next]_vars
               PROVE  Inv'
    OBVIOUS
  <2>1. ASSUME NEW t \in Threads, Step(t)
        PROVE  Inv'
    BY <2>1, EnterKeeps, CheckLockKeeps, LockKeeps, CheckUnlockKeeps, UnlockKeeps
       DEF Step
  <2>2. ASSUME NEW p \in Proxies, NEW m \in Mutexes \union {Null}, SetProxied(p, m)
        PROVE  Inv'
    BY <2>2, SetProxiedKeeps
  <2>3. CASE UNCHANGED vars
    BY <2>3, Unchanged
  <2>. QED
    BY <2>1, <2>2, <2>3 DEF Next
<1>. QED
  BY Initially, <1>1, PTL DEF Spec

(* The types of the variables, in every reachable state.                   *)
THEOREM LockPolicyTypeOK == Spec => []TypeOK
<1>1. Inv => TypeOK
  BY DEF Inv
<1>. QED
  BY InvHolds, <1>1, PTL

(* No two threads are within the scopes of locks that took one mutex,      *)
(* whatever proxies they used and however often these were set.            *)
THEOREM LockPolicyMutualExclusion == Spec => []MutualExclusion
<1>1. Inv => MutualExclusion
  BY DEF Inv, OwnsInv, MutualExclusion
<1>. QED
  BY InvHolds, <1>1, PTL

(* unlock() of a proxy is called on the mutex that lock() was called on,   *)
(* and a thread without a lock owns no mutex.                              *)
THEOREM LockPolicyUnlocks == Spec => []UnlocksWhatItLocked
<1>1. Inv => UnlocksWhatItLocked
  BY LockPolicyAssumption
     DEF Inv, TypeOK, UsesInv, OwnsInv, Within, UnlocksWhatItLocked
<1>. QED
  BY InvHolds, <1>1, PTL
=============================================================================
