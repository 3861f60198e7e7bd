----------------------------- MODULE LockPolicy -----------------------------
(***************************************************************************)
(* Scoped locks on mutex proxies.  A proxy refers to a mutex, or to none,  *)
(* and several proxies may refer to one.  It looks at its reference twice  *)
(* for each call, and nothing keeps it from being changed in between but   *)
(* the clients, who do so only while nobody has a lock on the proxy, or    *)
(* never, if the policy is one of references.                              *)
(***************************************************************************)
EXTENDS Naturals, FiniteSets

CONSTANTS
  Threads,  (* The threads with scoped locks.                               *)
  Proxies,  (* The mutexes of the policy.                                   *)
  Mutexes,  (* The mutexes they refer to.                                   *)
  Null,     (* No mutex, or no thread.                                      *)
  ByRef     (* Whether the policy is ref_ext_lock_policy.                   *)

ASSUME LockPolicyAssumption ==
  /\ Null \notin Threads \union Mutexes \union Proxies
  /\ ByRef \in BOOLEAN

VARIABLES
  proxied, (* m_proxied of each proxy.                                      *)
  owner,   (* The thread that has each mutex.                               *)
  pc,      (* Where each thread is,                                         *)
  lock,    (* the proxy its lock is on,                                     *)
  took     (* History: the mutex it has locked.                             *)

vars == <<proxied, owner, pc, lock, took>>

TypeOK ==
  /\ proxied \in [Proxies -> Mutexes \union (IF ByRef THEN {} ELSE {Null})]
  /\ owner \in [Mutexes -> Threads \union {Null}]
  /\ pc \in [Threads -> {"outside", "lock", "locking", "inside", "unlocking"}]
  /\ lock \in [Threads -> Proxies \union {Null}]
  /\ took \in [Threads -> Mutexes \union {Null}]

Init ==
  /\ proxied \in [Proxies -> Mutexes \union (IF ByRef THEN {} ELSE {Null})]
  /\ owner = [m \in Mutexes |-> Null]
  /\ pc = [t \in Threads |-> "outside"]
  /\ lock = [t \in Threads |-> Null]
  /\ took = [t \in Threads |-> Null]

-----------------------------------------------------------------------------
(* The constructor of a lock on a proxy.                                   *)
Enter(t, p) ==
  /\ pc[t] = "outside"
  /\ pc' = [pc EXCEPT ![t] = "lock"]
  /\ lock' = [lock EXCEPT ![t] = p]
  /\ UNCHANGED <<proxied, owner, took>>

(* lock() of a proxy: "if (m_proxied)".  Without a mutex it does nothing.  *)
CheckLock(t) ==
  /\ pc[t] = "lock"
  /\ pc' = [pc EXCEPT ![t] = IF proxied[lock[t]] = Null THEN "inside" ELSE "locking"]
  /\ UNCHANGED <<proxied, owner, lock, took>>

(* A fault: the mutex is not waited for.                                   *)
LockAtOnce(t) ==
  /\ pc[t] = "locking"
  /\ proxied[lock[t]] # Null
  /\ owner' = [owner EXCEPT ![proxied[lock[t]]] = t]
  /\ took' = [took EXCEPT ![t] = proxied[lock[t]]]
  /\ pc' = [pc EXCEPT ![t] = "inside"]
  /\ UNCHANGED <<proxied, lock>>

(* "m_proxied->lock()" waits until the mutex is free.                      *)
Lock(t) ==
  /\ pc[t] = "locking"
  /\ proxied[lock[t]] # Null
  /\ owner[proxied[lock[t]]] = Null
  /\ owner' = [owner EXCEPT ![proxied[lock[t]]] = t]
  /\ took' = [took EXCEPT ![t] = proxied[lock[t]]]
  /\ pc' = [pc EXCEPT ![t] = "inside"]
  /\ UNCHANGED <<proxied, lock>>

(* A fault: the destructor takes a proxy for one without a mutex.          *)
CheckUnlockNever(t) ==
  /\ pc[t] = "inside"
  /\ pc' = [pc EXCEPT ![t] = "outside"]
  /\ lock' = [lock EXCEPT ![t] = Null]
  /\ UNCHANGED <<proxied, owner, took>>

(* The destructor: unlock() of the proxy looks for its mutex again.        *)
CheckUnlock(t) ==
  /\ pc[t] = "inside"
  /\ IF proxied[lock[t]] = Null
     THEN pc' = [pc EXCEPT ![t] = "outside"] /\ lock' = [lock EXCEPT ![t] = Null]
     ELSE pc' = [pc EXCEPT ![t] = "unlocking"] /\ UNCHANGED lock
  /\ UNCHANGED <<proxied, owner, took>>

(* "m_proxied->unlock()"                                                   *)
Unlock(t) ==
  /\ pc[t] = "unlocking"
  /\ proxied[lock[t]] # Null
  /\ owner' = [owner EXCEPT ![proxied[lock[t]]] = Null]
  /\ took' = [took EXCEPT ![t] = Null]
  /\ pc' = [pc EXCEPT ![t] = "outside"]
  /\ lock' = [lock EXCEPT ![t] = Null]
  /\ UNCHANGED proxied

Unused(p) == \A t \in Threads : lock[t] # p

(* A fault: a proxy is changed while it is in use.                         *)
SetProxiedInUse(p, m) ==
  /\ ~ByRef
  /\ proxied' = [proxied EXCEPT ![p] = m]
  /\ UNCHANGED <<owner, pc, lock, took>>

(* set_proxied(), and clear_proxied() if m is Null.                        *)
SetProxied(p, m) ==
  /\ ~ByRef
  /\ Unused(p)
  /\ proxied' = [proxied EXCEPT ![p] = m]
  /\ UNCHANGED <<owner, pc, lock, took>>

Step(t) ==
  \/ \E p \in Proxies : Enter(t, p)
  \/ CheckLock(t)
  \/ Lock(t)
  \/ CheckUnlock(t)
  \/ Unlock(t)

Next ==
  \/ \E t \in Threads : Step(t)
  \/ \E p \in Proxies, m \in Mutexes \union {Null} : SetProxied(p, m)

(* A mutex that becomes free again and again is obtained by each waiting   *)
(* thread at last, and a thread within its scope leaves it.                *)
Fairness ==
  \A t \in Threads :
    /\ WF_vars(CheckLock(t)) /\ SF_vars(Lock(t))
    /\ WF_vars(CheckUnlock(t)) /\ WF_vars(Unlock(t))

Spec     == Init /\ [][Next]_vars
FairSpec == Spec /\ Fairness

-----------------------------------------------------------------------------
(* Properties.                                                             *)

(* Two threads are never both within scopes whose locks have taken the     *)
(* same mutex, through whatever proxies.                                   *)
MutualExclusion ==
  \A t, u \in Threads :
    t # u /\ pc[t] \in {"inside", "unlocking"} /\ pc[u] \in {"inside", "unlocking"}
      => took[t] # took[u] \/ took[t] = Null

(* A thread unlocks the mutex it has locked, and leaves none locked.       *)
UnlocksWhatItLocked ==
  \A t \in Threads :
    /\ pc[t] = "unlocking" => proxied[lock[t]] = took[t] /\ took[t] # Null
    /\ pc[t] \in {"outside", "lock", "locking"} => t \notin {owner[m] : m \in Mutexes}

(* Whoever wants a lock gets it, and whoever has one gives it back.        *)
LocksAndUnlocks ==
  \A t \in Threads :
    /\ pc[t] \in {"lock", "locking"} ~> pc[t] = "inside"
    /\ pc[t] = "inside" ~> pc[t] = "outside"
=============================================================================
