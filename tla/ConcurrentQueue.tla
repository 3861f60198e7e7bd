-------------------------- MODULE ConcurrentQueue --------------------------
(***************************************************************************)
(* The concurrent_queue of liberate::concurrency: a linked list with a     *)
(* dummy node in front, one spinlock for the producers at its end and one  *)
(* for the consumers at its front.  Producers and consumers meet only in   *)
(* the m_next pointer of the last node.                                    *)
(*                                                                         *)
(* A step is one access to state the other side can see; accesses that     *)
(* only the holder of the same lock could observe are part of the step     *)
(* they lead to.                                                           *)
(***************************************************************************)
EXTENDS Naturals, Sequences, FiniteSets

CONSTANTS
  Threads, (* The threads that use the queue.                               *)
  Nodes,   (* The addresses of list nodes; new reuses deleted ones.         *)
  Values,  (* The values pushed.                                            *)
  None     (* nullptr, a free lock, no value.                               *)

(* The operations that take the consumer lock, and all of them.            *)
Consuming == {"pop", "size", "empty"}
Ops == {"push"} \union Consuming

ASSUME QueueAssumption ==
  /\ None \notin Threads \union Nodes \union Values \union Nat \union Ops
  /\ Nodes # {}

VARIABLES
  allocated,     (* The nodes that have been created and not yet deleted.   *)
  m_value,       (* Of each node: the value it carries.                     *)
  m_next,        (* Of each node: the next one.                             *)
  m_first, m_last,
  producer_lock, consumer_lock, (* The thread that set the flag, or None.   *)
  pc, op,        (* Of each thread: its place, and the operation.           *)
  node,          (* Its local tmp (push), first (pop), or cur (size).       *)
  data,          (* The value it pushes or has popped, its count, or ret.   *)
  chain          (* History: the nodes from m_first on.                     *)

list   == <<allocated, m_value, m_next, m_first, m_last, chain>>
locks  == <<producer_lock, consumer_lock>>
locals == <<pc, op, node, data>>
vars   == <<list, locks, locals>>

TypeOK ==
  /\ allocated \subseteq Nodes
  /\ m_value \in [Nodes -> Values \union {None}]
  /\ m_next  \in [Nodes -> Nodes \union {None}]
  /\ m_first \in Nodes
  /\ m_last  \in Nodes
  /\ producer_lock \in Threads \union {None}
  /\ consumer_lock \in Threads \union {None}
  /\ pc   \in [Threads ->
       {"idle", "spin", "link", "last", "read", "walk", "free", "return"}]
  /\ op   \in [Threads -> Ops \union {None}]
  /\ node \in [Threads -> Nodes \union {None}]
  /\ data \in [Threads -> Values \union Nat \union {None}]
  /\ chain \in Seq(Nodes)

(* The constructor leaves one node without a value.                        *)
Construct(n) ==
  /\ allocated = {n}
  /\ m_value = [m \in Nodes |-> None]
  /\ m_next  = [m \in Nodes |-> None]
  /\ m_first = n /\ m_last = n
  /\ producer_lock = None /\ consumer_lock = None
  /\ chain = <<n>>

Init ==
  /\ \E n \in Nodes : Construct(n)
  /\ pc   = [t \in Threads |-> "idle"]
  /\ op   = [t \in Threads |-> None]
  /\ node = [t \in Threads |-> None]
  /\ data = [t \in Threads |-> None]

-----------------------------------------------------------------------------
Goto(t, from, to) ==
  /\ pc[t] = from
  /\ pc' = [pc EXCEPT ![t] = to]

(* The operation of t returns.                                             *)
Return(t) ==
  /\ Goto(t, "return", "idle")
  /\ op'   = [op EXCEPT ![t] = None]
  /\ node' = [node EXCEPT ![t] = None]
  /\ data' = [data EXCEPT ![t] = None]
  /\ UNCHANGED <<list, locks>>

(* Faults: the old value of the flag is not looked at; producers and       *)
(* consumers share one lock.                                               *)
NoTest(lock, t) == TRUE
OneLock(lock, t) == producer_lock = None /\ consumer_lock = None

(* while (lock.exchange(true)) {}                                          *)
Spin(lock, t) == lock = None

-----------------------------------------------------------------------------
(* push(value); push_range() is one push() after the other.                *)

PushAlloc(t, v) ==
  /\ Goto(t, "idle", "spin")
  /\ op' = [op EXCEPT ![t] = "push"]
  /\ \E n \in Nodes \ allocated :
       /\ allocated' = allocated \union {n}
       /\ m_value'   = [m_value EXCEPT ![n] = v]
       /\ m_next'    = [m_next EXCEPT ![n] = None]
       /\ node'      = [node EXCEPT ![t] = n]
  /\ data' = [data EXCEPT ![t] = v]
  /\ UNCHANGED <<m_first, m_last, chain, locks>>

PushLock(t) ==
  /\ op[t] = "push"
  /\ Goto(t, "spin", "link")
  /\ Spin(producer_lock, t)
  /\ producer_lock' = t
  /\ UNCHANGED <<list, consumer_lock, op, node, data>>

(* m_last->m_next = tmp publishes the node.                                *)
PushLink(t) ==
  /\ Goto(t, "link", "last")
  /\ m_next' = [m_next EXCEPT ![m_last] = node[t]]
  /\ chain'  = Append(chain, node[t])
  /\ UNCHANGED <<allocated, m_value, m_first, m_last, locks, op, node, data>>

(* Fault: m_last = tmp->m_next.                                            *)
PushLastNext(t) ==
  /\ Goto(t, "last", "return")
  /\ m_last' = m_next[node[t]]
  /\ producer_lock' = None
  /\ UNCHANGED <<allocated, m_value, m_next, m_first, chain, consumer_lock>>
  /\ UNCHANGED <<op, node, data>>

PushLast(t) ==
  /\ Goto(t, "last", "return")
  /\ m_last' = node[t]
  /\ producer_lock' = None
  /\ UNCHANGED <<allocated, m_value, m_next, m_first, chain, consumer_lock>>
  /\ UNCHANGED <<op, node, data>>

-----------------------------------------------------------------------------
(* pop(), size() and empty() take the consumer lock.                       *)

ConsumerCall(t, o) ==
  /\ Goto(t, "idle", "spin")
  /\ op' = [op EXCEPT ![t] = o]
  /\ UNCHANGED <<list, locks, node, data>>

ConsumerLock(t) ==
  /\ op[t] # "push"
  /\ Goto(t, "spin", "read")
  /\ Spin(consumer_lock, t)
  /\ consumer_lock' = t
  /\ UNCHANGED <<list, producer_lock, op, node, data>>

Unlock(t) == consumer_lock' = None /\ UNCHANGED producer_lock

(* There is no next node: release the lock and return false.               *)
PopNothing(t) ==
  /\ op[t] = "pop"
  /\ m_next[m_first] = None
  /\ Goto(t, "read", "return")
  /\ Unlock(t)
  /\ UNCHANGED <<list, op, node, data>>

(* Fault: next->m_value keeps the pointer to the value popped.             *)
PopKeepsValue(t) ==
  /\ op[t] = "pop"
  /\ m_next[m_first] # None
  /\ Goto(t, "read", "free")
  /\ data' = [data EXCEPT ![t] = m_value[m_next[m_first]]]
  /\ m_first' = m_next[m_first]
  /\ node'  = [node EXCEPT ![t] = m_first]
  /\ chain' = Tail(chain)
  /\ Unlock(t)
  /\ UNCHANGED <<allocated, m_value, m_next, m_last, op>>

(* The next node becomes the dummy; its value is taken out, the lock       *)
(* released, and the old dummy is left to this thread.                     *)
PopUnlink(t) ==
  /\ op[t] = "pop"
  /\ m_next[m_first] # None
  /\ Goto(t, "read", "free")
  /\ LET next == m_next[m_first]
     IN  /\ data'    = [data EXCEPT ![t] = m_value[next]]
         /\ m_value' = [m_value EXCEPT ![next] = None]
         /\ m_first' = next
  /\ node'  = [node EXCEPT ![t] = m_first]
  /\ chain' = Tail(chain)
  /\ Unlock(t)
  /\ UNCHANGED <<allocated, m_next, m_last, op>>

(* Fault: the old dummy is not deleted.                                    *)
PopLeaks(t) ==
  /\ Goto(t, "free", "return")
  /\ UNCHANGED <<list, locks, op, node, data>>

(* Copy the value, delete it, and delete the old dummy.                    *)
PopFree(t) ==
  /\ Goto(t, "free", "return")
  /\ allocated' = allocated \ {node[t]}
  /\ UNCHANGED <<m_value, m_next, m_first, m_last, chain, locks>>
  /\ UNCHANGED <<op, node, data>>

(* Fault: empty() compares m_first with m_last.                            *)
EmptyByLast(t) ==
  /\ op[t] = "empty"
  /\ Goto(t, "read", "return")
  /\ data' = [data EXCEPT ![t] = IF m_first = m_last THEN 1 ELSE 0]
  /\ Unlock(t)
  /\ UNCHANGED <<list, op, node>>

(* The result is 1 for true and 0 for false.                               *)
Empty(t) ==
  /\ op[t] = "empty"
  /\ Goto(t, "read", "return")
  /\ data' = [data EXCEPT ![t] = IF m_next[m_first] = None THEN 1 ELSE 0]
  /\ Unlock(t)
  /\ UNCHANGED <<list, op, node>>

(* Fault: size() releases the lock before it walks.                        *)
SizeUnlocked(t) ==
  /\ op[t] = "size"
  /\ Goto(t, "read", "walk")
  /\ node' = [node EXCEPT ![t] = m_next[m_first]]
  /\ data' = [data EXCEPT ![t] = 0]
  /\ Unlock(t)
  /\ UNCHANGED <<list, op>>

SizeStart(t) ==
  /\ op[t] = "size"
  /\ Goto(t, "read", "walk")
  /\ node' = [node EXCEPT ![t] = m_next[m_first]]
  /\ data' = [data EXCEPT ![t] = 0]
  /\ UNCHANGED <<list, locks, op>>

SizeWalk(t) ==
  /\ pc[t] = "walk"
  /\ node[t] # None
  /\ node' = [node EXCEPT ![t] = m_next[node[t]]]
  /\ data' = [data EXCEPT ![t] = @ + 1]
  /\ UNCHANGED <<list, locks, pc, op>>

SizeEnd(t) ==
  /\ Goto(t, "walk", "return")
  /\ node[t] = None
  /\ Unlock(t)
  /\ UNCHANGED <<list, op, node, data>>

-----------------------------------------------------------------------------
(* The nodes a walk along m_next from m_first meets.                       *)
Reachable ==
  {n \in Nodes :
     \A S \in SUBSET Nodes :
       m_first \in S /\ (\A m \in S : m_next[m] \in S \union {None}) => n \in S}

(* The destructor takes both locks and deletes the list.  No operation may *)
(* be on its way to a lock then, but a pop() may still have its old dummy  *)
(* to delete.  The queue is then constructed again.                        *)
Destroy ==
  /\ \A t \in Threads : pc[t] \in {"idle", "free", "return"}
  /\ LET left == allocated \ Reachable
     IN  \E n \in Nodes \ left :
           /\ allocated' = left \union {n}
           /\ m_value'   = [m_value EXCEPT ![n] = None]
           /\ m_next'    = [m_next EXCEPT ![n] = None]
           /\ m_first' = n /\ m_last' = n
           /\ chain' = <<n>>
  /\ UNCHANGED <<locks, locals>>

-----------------------------------------------------------------------------
ProducerStep(t) == PushLock(t) \/ PushLink(t) \/ PushLast(t)

ConsumerStep(t) ==
  \/ ConsumerLock(t) \/ PopNothing(t) \/ PopUnlink(t) \/ PopFree(t)
  \/ Empty(t) \/ SizeStart(t) \/ SizeWalk(t) \/ SizeEnd(t)

Call(t) ==
  \/ \E v \in Values : PushAlloc(t, v)
  \/ \E o \in Consuming : ConsumerCall(t, o)

Next ==
  \/ Destroy
  \/ \E t \in Threads :
       Call(t) \/ ProducerStep(t) \/ ConsumerStep(t) \/ Return(t)

Spec == Init /\ [][Next]_vars

(* A thread in the middle of push() runs on, and gets the lock in the end  *)
(* when it is free again and again; nothing is said of a thread in pop(),  *)
(* size() or empty().  Then the same for those, and nothing about push().  *)
FairProducers == \A t \in Threads : SF_vars(ProducerStep(t))
FairConsumers == \A t \in Threads : SF_vars(ConsumerStep(t))

-----------------------------------------------------------------------------
(* Properties.                                                             *)

Last == chain[Len(chain)]

Elements == {chain[i] : i \in 1 .. Len(chain)}

(* The pointers form a list of distinct nodes that ends in nullptr; the    *)
(* first carries no value and every other one does.                        *)
ListIsIntact ==
  /\ chain # <<>> /\ m_first = chain[1]
  /\ \A i, j \in 1 .. Len(chain) : chain[i] = chain[j] => i = j
  /\ \A i \in 1 .. Len(chain) - 1 : m_next[chain[i]] = chain[i + 1]
  /\ m_next[Last] = None
  /\ \A i \in 1 .. Len(chain) : m_value[chain[i]] = None <=> i = 1

(* m_last is the end of the list except between the two stores of the      *)
(* push() that holds the lock, when it is the node before the end or, if   *)
(* that was popped meanwhile, one already deleted.                         *)
LastIsEnd ==
  \/ m_last = Last
  \/ \E t \in Threads : producer_lock = t /\ pc[t] = "last" /\ node[t] = Last

(* No thread reads or writes a node after it was deleted.                  *)
NoUseAfterFree ==
  \A t \in Threads :
    /\ pc[t] = "link" => {m_last, node[t]} \subseteq allocated
    /\ pc[t] = "read" => m_first \in allocated
    /\ pc[t] = "walk" => node[t] \in allocated \union {None}

(* The nodes allocated are those of the list, those a push() has not yet   *)
(* linked, and the old dummies a pop() has not yet deleted; each is one of *)
(* these only once.  So nothing leaks, and nothing is deleted twice.       *)
Private(t) == pc[t] = "free" \/ (op[t] = "push" /\ pc[t] \in {"spin", "link"})

NodesAccountedFor ==
  /\ allocated = Elements \union {node[t] : t \in {u \in Threads : Private(u)}}
  /\ \A t \in Threads : Private(t) =>
       /\ node[t] \notin Elements
       /\ \A u \in Threads : Private(u) /\ node[u] = node[t] => u = t

(* push() needs no consumer to go on: a thread stuck inside pop(), size()  *)
(* or empty() does not hold up the producers.                              *)
PushCompletes ==
  FairProducers => \A t \in Threads :
    (op[t] = "push" /\ pc[t] # "return") ~> (pc[t] \in {"return", "idle"})

(* And pop(), size() and empty() need no producer to go on.                *)
ConsumersComplete ==
  FairConsumers => \A t \in Threads :
    (op[t] \in Consuming) ~> (pc[t] \in {"return", "idle"})

-----------------------------------------------------------------------------
(* The queue is linearizable: push() takes effect when it links its node,  *)
(* pop() when it reads m_next of the dummy, size() when it reads the       *)
(* nullptr at the end, empty() when it reads m_next of the dummy.          *)

items == [i \in 1 .. Len(chain) - 1 |-> m_value[chain[i + 1]]]

TookEffect(t) ==
  \/ pc[t] \in {"last", "free", "return"}
  \/ pc[t] = "walk" /\ node[t] = None

call ==
  [t \in Threads |->
     [op    |-> op[t],
      stage |-> IF pc[t] = "idle" THEN "idle"
                ELSE IF TookEffect(t) THEN "done" ELSE "called",
      data  |-> IF op[t] = "push" <=> TookEffect(t) THEN None ELSE data[t]]]

Fifo == INSTANCE FifoQueue

(* Every behaviour of the linked list is one of the atomic queue.          *)
Linearizable == Fifo!Spec
=============================================================================
