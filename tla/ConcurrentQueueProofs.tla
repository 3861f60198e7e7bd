----------------------- MODULE ConcurrentQueueProofs -----------------------
(***************************************************************************)
(* Theorems about ConcurrentQueue, for any threads, nodes and values: the  *)
(* list stays intact, no node is lost, used after its deletion or deleted  *)
(* twice, and the queue implements FifoQueue.                              *)
(***************************************************************************)
EXTENDS ConcurrentQueue, SequenceTheorems, WellFoundedInduction,
        NaturalsInduction, TLAPS

(* Where a thread is tells which lock it holds and what it executes.       *)
LocksHeld ==
  \A t \in Threads :
    /\ pc[t] \in {"link", "last"} => producer_lock = t /\ op[t] = "push"
    /\ pc[t] \in {"read", "walk"} => consumer_lock = t /\ op[t] # "push"
    /\ pc[t] = "walk" => op[t] = "size"
    /\ pc[t] = "free" => op[t] = "pop"
    /\ pc[t] = "idle" <=> op[t] = None

(* m_last lags behind only for the thread between its two stores.          *)
LastFollows ==
  /\ (\A t \in Threads : pc[t] # "last") => m_last = Last
  /\ \A t \in Threads : pc[t] = "last" => node[t] = Last

(* A node not yet linked carries its value and ends a list.                *)
Unlinked(t) == op[t] = "push" /\ pc[t] \in {"spin", "link"}

UnlinkedNodes ==
  \A t \in Threads : Unlinked(t) =>
    /\ node[t] \in Nodes /\ m_next[node[t]] = None
    /\ m_value[node[t]] = data[t] /\ data[t] \in Values

FreedNodes == \A t \in Threads : pc[t] = "free" => node[t] \in Nodes

(* size() has counted the nodes before the one it is at.                   *)
WalkCounts ==
  \A t \in Threads : pc[t] = "walk" /\ node[t] # None =>
    \E i \in 2 .. Len(chain) : node[t] = chain[i] /\ data[t] = i - 2

WalkType == \A t \in Threads : pc[t] = "walk" => data[t] \in Nat

Inv ==
  /\ TypeOK /\ LocksHeld /\ ListIsIntact /\ LastFollows
  /\ NodesAccountedFor /\ UnlinkedNodes /\ FreedNodes
  /\ WalkCounts /\ WalkType

-----------------------------------------------------------------------------
(* The list.                                                               *)

(* Both its ends are nodes of it, and m_next of the dummy is the second.   *)
LEMMA ChainFacts ==
  ASSUME TypeOK, ListIsIntact
  PROVE  /\ Len(chain) \in Nat /\ Len(chain) >= 1
         /\ DOMAIN chain = 1 .. Len(chain)
         /\ \A i \in 1 .. Len(chain) : chain[i] \in Nodes /\ chain[i] \in Elements
         /\ Last \in Nodes /\ Last \in Elements
         /\ m_first \in Nodes /\ m_first \in Elements
         /\ m_next[m_first] = None <=> Len(chain) = 1
         /\ m_next[m_first] # None =>
              2 \in 2 .. Len(chain) /\ m_next[m_first] = chain[2]
<1> USE QueueAssumption DEF TypeOK, ListIsIntact, Last
<1>1. /\ Len(chain) \in Nat /\ Len(chain) >= 1
      /\ DOMAIN chain = 1 .. Len(chain)
  BY EmptySeq, LenProperties
<1>2. \A i \in 1 .. Len(chain) : chain[i] \in Nodes /\ chain[i] \in Elements
  BY <1>1, ElementOfSeq DEF Elements
<1>3. /\ Len(chain) > 1 => m_next[m_first] = chain[2] /\ chain[2] \in Nodes
      /\ Len(chain) = 1 => m_next[m_first] = None
  BY <1>1, <1>2
<1>4. Len(chain) # 1 => 2 \in 2 .. Len(chain)
  BY <1>1
<1> QED
  BY <1>1, <1>2, <1>3, <1>4

(* The pointers of the nodes in the list do not change.                    *)
LEMMA ListUnchanged ==
  ASSUME TypeOK, ListIsIntact, UNCHANGED <<m_first, chain>>,
         \A n \in Elements : m_next'[n] = m_next[n] /\ m_value'[n] = m_value[n]
  PROVE  ListIsIntact' /\ Elements' = Elements /\ Last' = Last
<1>1. Elements' = Elements /\ Last' = Last
  BY DEF Elements, Last
<1>2. /\ \A i \in 1 .. Len(chain) : chain[i] \in Elements
      /\ Len(chain) \in Nat /\ Last \in Elements
  BY ChainFacts
<1> QED
  BY <1>1, <1>2 DEF ListIsIntact

(* A node whose m_next is null can be linked behind the last one.          *)
LEMMA ListAppended ==
  ASSUME TypeOK, ListIsIntact, NEW n \in Nodes, n \notin Elements,
         m_next[n] = None, m_value[n] # None,
         chain' = Append(chain, n), m_next' = [m_next EXCEPT ![Last] = n],
         UNCHANGED <<m_first, m_value>>
  PROVE  /\ ListIsIntact' /\ Elements' = Elements \union {n} /\ Last' = n
         /\ chain' \in Seq(Nodes) /\ Len(chain') = Len(chain) + 1
         /\ \A i \in 1 .. Len(chain) : chain'[i] = chain[i]
<1>1. /\ Len(chain) \in Nat /\ Len(chain) >= 1
      /\ Last \in Nodes /\ Last = chain[Len(chain)] /\ chain \in Seq(Nodes)
      /\ \A i \in 1 .. Len(chain) : chain[i] \in Nodes /\ chain[i] \in Elements
  BY ChainFacts DEF Last, TypeOK
<1>2. /\ chain' \in Seq(Nodes) /\ Len(chain') = Len(chain) + 1
      /\ \A i \in 1 .. Len(chain) : chain'[i] = chain[i]
      /\ chain'[Len(chain) + 1] = n
  BY <1>1
<1>3. Last' = n
  BY <1>2 DEF Last
<1>4. Elements' = Elements \union {n}
  BY <1>1, <1>2 DEF Elements
<1>5. \A i, j \in 1 .. Len(chain') : chain'[i] = chain'[j] => i = j
  BY <1>1, <1>2 DEF ListIsIntact
<1>6. \A i \in 1 .. Len(chain') - 1 : m_next'[chain'[i]] = chain'[i + 1]
  <2> SUFFICES ASSUME NEW i \in 1 .. Len(chain)
               PROVE  m_next'[chain[i]] = chain'[i + 1]
    BY <1>1, <1>2
  <2>1. CASE i = Len(chain)
    BY <1>1, <1>2, <2>1 DEF TypeOK
  <2>2. CASE i # Len(chain)
    <3>1. i \in 1 .. Len(chain) - 1 /\ i + 1 \in 1 .. Len(chain)
      BY <1>1, <2>2
    <3>2. chain[i] # Last /\ m_next[chain[i]] = chain[i + 1]
      BY <1>1, <2>2, <3>1 DEF ListIsIntact
    <3> QED
      BY <1>1, <1>2, <3>1, <3>2 DEF TypeOK
  <2> QED
    BY <2>1, <2>2
<1>7. m_next'[Last'] = None
  BY <1>1, <1>3 DEF TypeOK
<1>8. \A i \in 1 .. Len(chain') : m_value'[chain'[i]] = None <=> i = 1
  BY <1>1, <1>2 DEF ListIsIntact
<1>9. chain' # <<>> /\ m_first' = chain'[1]
  BY <1>1, <1>2, EmptySeq DEF ListIsIntact
<1> QED
  BY <1>2, <1>3, <1>4, <1>5, <1>6, <1>7, <1>8, <1>9 DEF ListIsIntact

(* The node behind the dummy can become the dummy.                         *)
LEMMA ListShortened ==
  ASSUME TypeOK, ListIsIntact, m_next[m_first] # None,
         m_first' = m_next[m_first], chain' = Tail(chain),
         m_value' = [m_value EXCEPT ![m_next[m_first]] = None],
         UNCHANGED m_next
  PROVE  /\ ListIsIntact' /\ Elements' = Elements \ {m_first} /\ Last' = Last
         /\ m_first \in Elements
         /\ chain' \in Seq(Nodes) /\ Len(chain') = Len(chain) - 1
         /\ \A i \in 1 .. Len(chain') : chain'[i] = chain[i + 1]
<1>1. /\ Len(chain) \in Nat /\ Len(chain) >= 2
      /\ Last = chain[Len(chain)] /\ chain \in Seq(Nodes) /\ chain # <<>>
      /\ \A i \in 1 .. Len(chain) : chain[i] \in Nodes /\ chain[i] \in Elements
      /\ m_first = chain[1] /\ m_next[m_first] = chain[2]
  BY ChainFacts DEF Last, TypeOK, ListIsIntact
<1>2. /\ chain' \in Seq(Nodes) /\ Len(chain') = Len(chain) - 1
      /\ \A i \in 1 .. Len(chain') : chain'[i] = chain[i + 1]
  BY <1>1, HeadTailProperties
<1>3. Last' = Last
  BY <1>1, <1>2 DEF Last
<1>4. Elements' = Elements \ {m_first}
  <2>1. \A i \in 2 .. Len(chain) : chain[i] # m_first
    BY <1>1 DEF ListIsIntact
  <2>2. \A i \in 2 .. Len(chain) : i - 1 \in 1 .. Len(chain') /\ chain[i] = chain'[i - 1]
    BY <1>1, <1>2
  <2>3. ASSUME NEW n \in Elements, n # m_first PROVE n \in Elements'
    <3>1. PICK i \in 1 .. Len(chain) : n = chain[i]
      BY DEF Elements
    <3>2. i \in 2 .. Len(chain)
      BY <1>1, <2>3, <3>1
    <3> QED
      BY <2>2, <3>1, <3>2 DEF Elements
  <2>4. \A n \in Elements' : n \in Elements \ {m_first}
    BY <1>1, <1>2, <2>1 DEF Elements
  <2> QED
    BY <2>3, <2>4
<1>5. \A i, j \in 1 .. Len(chain') : chain'[i] = chain'[j] => i = j
  BY <1>1, <1>2 DEF ListIsIntact
<1>6. \A i \in 1 .. Len(chain') - 1 : m_next'[chain'[i]] = chain'[i + 1]
  BY <1>1, <1>2 DEF ListIsIntact
<1>7. m_next'[Last'] = None
  BY <1>3 DEF ListIsIntact
<1>8. \A i \in 1 .. Len(chain') : m_value'[chain'[i]] = None <=> i = 1
  BY <1>1, <1>2 DEF ListIsIntact, TypeOK
<1>9. chain' # <<>> /\ m_first' = chain'[1]
  <2>1. Len(chain') # 0 /\ Len(<<>>) = 0
    BY <1>1, <1>2
  <2>2. 1 \in 1 .. Len(chain') /\ chain'[1] = chain[2]
    BY <1>1, <1>2
  <2> QED
    BY <1>1, <2>1, <2>2
<1> QED
  BY <1>1, <1>2, <1>3, <1>4, <1>5, <1>6, <1>7, <1>8, <1>9 DEF ListIsIntact

(* The destructor's walk meets every node of the list and no other.        *)
LEMMA ReachableElements ==
  ASSUME TypeOK, ListIsIntact
  PROVE  Reachable = Elements
<1>1. /\ Len(chain) \in Nat /\ Len(chain) >= 1
      /\ \A i \in 1 .. Len(chain) : chain[i] \in Nodes /\ chain[i] \in Elements
      /\ m_first = chain[1]
  BY ChainFacts DEF ListIsIntact
<1>2. ASSUME NEW n \in Reachable PROVE n \in Elements
  <2>1. Elements \in SUBSET Nodes /\ m_first \in Elements
    BY <1>1 DEF Elements
  <2>2. ASSUME NEW m \in Elements PROVE m_next[m] \in Elements \union {None}
    <3>1. PICK i \in 1 .. Len(chain) : m = chain[i]
      BY DEF Elements
    <3>2. CASE i = Len(chain)
      BY <3>1, <3>2 DEF ListIsIntact, Last
    <3>3. CASE i # Len(chain)
      BY <1>1, <3>1, <3>3 DEF ListIsIntact
    <3> QED
      BY <3>2, <3>3
  <2> QED
    BY <2>1, <2>2 DEF Reachable
<1>3. ASSUME NEW k \in 1 .. Len(chain), NEW S \in SUBSET Nodes, m_first \in S,
             \A m \in S : m_next[m] \in S \union {None}, chain[k] \notin S
      PROVE  FALSE
  <2> DEFINE T == {i \in Nat : i \in 1 .. Len(chain) /\ chain[i] \notin S}
             R == OpToRel(<, Nat)
  <2>1. IsWellFoundedOn(R, Nat)
    BY NatLessThanWellFounded
  <2>2. T \subseteq Nat /\ T # {}
    BY <1>1, <1>3
  <2>3. PICK i \in T : \A j \in T : ~(<<j, i>> \in R)
    <3> HIDE DEF R, T
    <3> QED
      BY <2>1, <2>2, WFMin
  <2>4. \A j \in T : ~(j < i)
    BY <2>2, <2>3 DEF OpToRel
  <2>5. i > 1 /\ i - 1 \in 1 .. Len(chain) - 1 /\ chain[i - 1] \in S
    BY <1>1, <1>3, <2>4
  <2>6. m_next[chain[i - 1]] = chain[i] /\ chain[i] \in Nodes
    BY <1>1, <2>5 DEF ListIsIntact
  <2> QED
    BY <1>3, <2>5, <2>6, QueueAssumption
<1>4. ASSUME NEW n \in Elements PROVE n \in Reachable
  <2>1. PICK k \in 1 .. Len(chain) : n = chain[k]
    BY DEF Elements
  <2> QED
    BY <1>1, <1>3, <2>1 DEF Reachable
<1> QED
  BY <1>2, <1>4
-----------------------------------------------------------------------------
(* One lemma per action.                                                   *)

(* A step that leaves the list alone and moves no thread to or from a      *)
(* place where it has a node of its own.                                   *)
LEMMA QuietStep ==
  ASSUME Inv, TypeOK', LocksHeld', UNCHANGED list,
         NEW t \in Threads, ~Private(t), ~Private(t)',
         pc[t] # "last", pc'[t] # "last",
         \A u \in Threads \ {t} :
           pc'[u] = pc[u] /\ op'[u] = op[u] /\ node'[u] = node[u]
           /\ data'[u] = data[u],
         pc'[t] = "walk" => data'[t] \in Nat,
         pc'[t] = "walk" /\ node'[t] # None =>
           \E i \in 2 .. Len(chain) : node'[t] = chain[i] /\ data'[t] = i - 2
  PROVE  Inv'
<1> USE DEF Inv, list
<1>1. ListIsIntact' /\ Elements' = Elements /\ Last' = Last
  BY ListUnchanged
<1>2. \A u \in Threads :
        /\ Private(u)' <=> Private(u)
        /\ Private(u) => node'[u] = node[u]
        /\ Unlinked(u)' <=> Unlinked(u)
        /\ Unlinked(u) => Private(u) /\ data'[u] = data[u]
        /\ pc'[u] = "free" <=> pc[u] = "free"
        /\ pc[u] = "free" => Private(u)
        /\ pc'[u] = "last" <=> pc[u] = "last"
        /\ pc[u] = "last" => node'[u] = node[u]
  BY DEF Private, Unlinked
<1>3. NodesAccountedFor'
  BY <1>1, <1>2 DEF NodesAccountedFor
<1>4. UnlinkedNodes' /\ FreedNodes' /\ LastFollows'
  BY <1>1, <1>2 DEF UnlinkedNodes, FreedNodes, LastFollows
<1>5. WalkCounts' /\ WalkType'
  BY DEF WalkCounts, WalkType
<1> QED
  BY <1>1, <1>3, <1>4, <1>5

(* A node that is allocated was in no list and in no other call.           *)
LEMMA PushAllocStep ==
  ASSUME Inv, NEW t \in Threads, NEW v \in Values, PushAlloc(t, v)
  PROVE  Inv'
<1> USE QueueAssumption DEF Inv, Ops
<1>1. PICK n \in Nodes \ allocated :
        /\ allocated' = allocated \union {n}
        /\ m_value'   = [m_value EXCEPT ![n] = v]
        /\ m_next'    = [m_next EXCEPT ![n] = None]
        /\ node'      = [node EXCEPT ![t] = n]
  BY DEF PushAlloc
<1>2. /\ pc[t] = "idle" /\ pc' = [pc EXCEPT ![t] = "spin"]
      /\ op' = [op EXCEPT ![t] = "push"] /\ data' = [data EXCEPT ![t] = v]
      /\ UNCHANGED <<m_first, m_last, chain, locks>>
  BY DEF PushAlloc, Goto
<1>3. TypeOK'
  BY <1>1, <1>2 DEF TypeOK, locks
<1>4. LocksHeld'
  BY <1>2 DEF LocksHeld, TypeOK, locks
<1>5. n \notin Elements /\ Elements \subseteq allocated
  BY <1>1 DEF NodesAccountedFor
<1>6. ListIsIntact' /\ Elements' = Elements /\ Last' = Last
  BY <1>1, <1>2, <1>5, ListUnchanged DEF TypeOK
<1>7. /\ ~Private(t) /\ Private(t)' /\ node'[t] = n
      /\ \A u \in Threads \ {t} :
           /\ Private(u)' <=> Private(u)
           /\ Unlinked(u)' <=> Unlinked(u)
           /\ node'[u] = node[u] /\ data'[u] = data[u] /\ pc'[u] = pc[u]
      /\ pc[t] # "last" /\ pc'[t] = "spin" /\ data'[t] = v
  BY <1>1, <1>2 DEF Private, Unlinked, TypeOK, LocksHeld
<1>8. \A u \in Threads : Private(u) => node[u] \in allocated
  BY DEF NodesAccountedFor
<1>9. NodesAccountedFor'
  <2>1. allocated' = Elements' \union {node'[u] : u \in {w \in Threads : Private(w)'}}
    BY <1>1, <1>6, <1>7 DEF NodesAccountedFor
  <2>2. \A u \in Threads : Private(u)' =>
          /\ node'[u] \notin Elements'
          /\ \A w \in Threads : Private(w)' /\ node'[w] = node'[u] => w = u
    BY <1>1, <1>5, <1>6, <1>7, <1>8 DEF NodesAccountedFor
  <2> QED
    BY <2>1, <2>2 DEF NodesAccountedFor
<1>10. UnlinkedNodes'
  <2>1. \A u \in Threads : Unlinked(u) => node[u] # n
    BY <1>1, <1>8 DEF Unlinked, Private
  <2>2. m_next'[n] = None /\ m_value'[n] = v
    BY <1>1 DEF TypeOK
  <2> QED
    BY <1>1, <1>7, <2>1, <2>2 DEF UnlinkedNodes, TypeOK
<1>11. FreedNodes' /\ LastFollows'
  BY <1>2, <1>6, <1>7 DEF FreedNodes, LastFollows
<1>12. WalkCounts' /\ WalkType'
  BY <1>2, <1>7 DEF WalkCounts, WalkType
<1> QED
  BY <1>3, <1>4, <1>6, <1>9, <1>10, <1>11, <1>12

(* The spinlock of the producers is free when it is taken.                 *)
LEMMA PushLockStep ==
  ASSUME Inv, NEW t \in Threads, PushLock(t)
  PROVE  Inv'
<1> USE QueueAssumption DEF Inv, Ops, list
<1>1. /\ op[t] = "push" /\ pc[t] = "spin" /\ pc' = [pc EXCEPT ![t] = "link"]
      /\ producer_lock = None /\ producer_lock' = t
      /\ UNCHANGED <<list, consumer_lock, op, node, data>>
  BY DEF PushLock, Goto, Spin
<1>2. TypeOK'
  BY <1>1 DEF TypeOK
<1>3. LocksHeld'
  BY <1>1 DEF LocksHeld, TypeOK
<1>4. ListIsIntact' /\ Elements' = Elements /\ Last' = Last
  BY <1>1, ListUnchanged
<1>5. \A u \in Threads :
        /\ Private(u)' <=> Private(u)
        /\ Unlinked(u)' <=> Unlinked(u)
        /\ pc'[u] = "free" <=> pc[u] = "free"
        /\ pc'[u] = "walk" <=> pc[u] = "walk"
        /\ pc'[u] = "last" <=> pc[u] = "last"
  BY <1>1 DEF Private, Unlinked, TypeOK
<1>6. NodesAccountedFor'
  BY <1>1, <1>4, <1>5 DEF NodesAccountedFor
<1> QED
  BY <1>1, <1>2, <1>3, <1>4, <1>5, <1>6
     DEF UnlinkedNodes, FreedNodes, LastFollows, WalkCounts, WalkType

(* The store to m_next appends the node; m_last lags behind by one.        *)
LEMMA PushLinkStep ==
  ASSUME Inv, NEW t \in Threads, PushLink(t)
  PROVE  /\ Inv' /\ chain' = Append(chain, node[t]) /\ Len(chain') = Len(chain) + 1
         /\ \A i \in 1 .. Len(chain) : chain'[i] = chain[i]
<1> USE QueueAssumption DEF Inv, Ops
<1>1. /\ pc[t] = "link" /\ pc' = [pc EXCEPT ![t] = "last"]
      /\ m_next' = [m_next EXCEPT ![m_last] = node[t]]
      /\ chain' = Append(chain, node[t])
      /\ UNCHANGED <<allocated, m_value, m_first, m_last, locks, op, node, data>>
  BY DEF PushLink, Goto
<1>2. /\ op[t] = "push" /\ producer_lock = t
      /\ \A u \in Threads \ {t} : pc[u] \notin {"link", "last"}
  BY <1>1 DEF LocksHeld
<1>3. m_last = Last
  BY <1>1, <1>2 DEF LastFollows
<1>4. /\ Unlinked(t) /\ Private(t) /\ node[t] \in Nodes /\ m_next[node[t]] = None
      /\ m_value[node[t]] # None /\ node[t] \notin Elements
  BY <1>1, <1>2 DEF UnlinkedNodes, Unlinked, Private, NodesAccountedFor
<1>5. /\ ListIsIntact' /\ Elements' = Elements \union {node[t]}
      /\ Last' = node[t] /\ chain' \in Seq(Nodes)
      /\ Len(chain') = Len(chain) + 1
      /\ \A i \in 1 .. Len(chain) : chain'[i] = chain[i]
  BY <1>1, <1>3, <1>4, ListAppended
<1>6. TypeOK'
  BY <1>1, <1>4, <1>5 DEF TypeOK, locks
<1>7. LocksHeld'
  BY <1>1, <1>2 DEF LocksHeld, TypeOK, locks
<1>8. /\ ~Private(t)' /\ ~Unlinked(t)' /\ pc'[t] = "last"
      /\ \A u \in Threads \ {t} :
           /\ Private(u)' <=> Private(u)
           /\ Unlinked(u)' <=> Unlinked(u)
           /\ pc'[u] = pc[u] /\ pc[u] # "last"
  BY <1>1, <1>2 DEF Private, Unlinked, TypeOK
<1>9. NodesAccountedFor'
  BY <1>1, <1>4, <1>5, <1>8 DEF NodesAccountedFor
<1>10. UnlinkedNodes'
  <2>1. ASSUME NEW u \in Threads, Unlinked(u)' PROVE node[u] # Last
    <3>1. Private(u)
      BY <1>8, <2>1 DEF Private, Unlinked
    <3> QED
      BY <3>1, ChainFacts DEF NodesAccountedFor
  <2> QED
    BY <1>1, <1>3, <1>8, <2>1 DEF UnlinkedNodes, TypeOK
<1>11. FreedNodes' /\ LastFollows'
  BY <1>1, <1>5, <1>8 DEF FreedNodes, LastFollows
<1>12. WalkCounts' /\ WalkType'
  BY <1>1, <1>5, <1>8, ChainFacts DEF WalkCounts, WalkType
<1> QED
  BY <1>1, <1>5, <1>6, <1>7, <1>9, <1>10, <1>11, <1>12

(* The store to m_last makes it the end of the list again.                 *)
LEMMA PushLastStep ==
  ASSUME Inv, NEW t \in Threads, PushLast(t)
  PROVE  Inv'
<1> USE QueueAssumption DEF Inv, Ops
<1>1. /\ pc[t] = "last" /\ pc' = [pc EXCEPT ![t] = "return"]
      /\ m_last' = node[t] /\ producer_lock' = None
      /\ UNCHANGED <<allocated, m_value, m_next, m_first, chain, consumer_lock>>
      /\ UNCHANGED <<op, node, data>>
  BY DEF PushLast, Goto
<1>2. \A u \in Threads \ {t} : pc[u] \notin {"link", "last"}
  BY <1>1 DEF LocksHeld
<1>3. node[t] = Last /\ Last \in Nodes
  BY <1>1, ChainFacts DEF LastFollows
<1>4. TypeOK'
  BY <1>1, <1>3 DEF TypeOK
<1>5. LocksHeld'
  BY <1>1, <1>2 DEF LocksHeld, TypeOK
<1>6. ListIsIntact' /\ Elements' = Elements /\ Last' = Last
  BY <1>1, ListUnchanged
<1>7. \A u \in Threads :
        /\ Private(u)' <=> Private(u)
        /\ Unlinked(u)' <=> Unlinked(u)
        /\ pc'[u] = "free" <=> pc[u] = "free"
        /\ pc'[u] = "walk" <=> pc[u] = "walk"
        /\ pc'[u] # "last"
  BY <1>1, <1>2 DEF Private, Unlinked, TypeOK
<1>8. NodesAccountedFor'
  BY <1>1, <1>6, <1>7 DEF NodesAccountedFor
<1> QED
  BY <1>1, <1>3, <1>4, <1>5, <1>6, <1>7, <1>8
     DEF UnlinkedNodes, FreedNodes, LastFollows, WalkCounts, WalkType

(* The old dummy leaves the list and is the call's alone.                  *)
LEMMA PopUnlinkStep ==
  ASSUME Inv, NEW t \in Threads, PopUnlink(t)
  PROVE  /\ Inv' /\ Len(chain') = Len(chain) - 1
         /\ \A i \in 1 .. Len(chain') : chain'[i] = chain[i + 1]
<1> USE QueueAssumption DEF Inv, Ops
<1>1. /\ op[t] = "pop" /\ m_next[m_first] # None
      /\ pc[t] = "read" /\ pc' = [pc EXCEPT ![t] = "free"]
      /\ data' = [data EXCEPT ![t] = m_value[m_next[m_first]]]
      /\ m_value' = [m_value EXCEPT ![m_next[m_first]] = None]
      /\ m_first' = m_next[m_first]
      /\ node' = [node EXCEPT ![t] = m_first]
      /\ chain' = Tail(chain)
      /\ consumer_lock' = None
      /\ UNCHANGED <<allocated, m_next, m_last, op, producer_lock>>
  BY DEF PopUnlink, Goto, Unlock
<1>2. \A u \in Threads \ {t} : pc[u] \notin {"read", "walk"}
  BY <1>1 DEF LocksHeld
<1>3. /\ ListIsIntact' /\ Elements' = Elements \ {m_first} /\ Last' = Last
      /\ m_first \in Elements
      /\ chain' \in Seq(Nodes) /\ Len(chain') = Len(chain) - 1
      /\ \A i \in 1 .. Len(chain') : chain'[i] = chain[i + 1]
  BY <1>1, ListShortened
<1>4. m_next[m_first] \in Nodes /\ m_next[m_first] \in Elements
  BY <1>1, ChainFacts
<1>5. TypeOK'
  BY <1>1, <1>3, <1>4 DEF TypeOK
<1>6. LocksHeld'
  BY <1>1, <1>2 DEF LocksHeld, TypeOK
<1>7. /\ ~Private(t) /\ Private(t)' /\ node'[t] = m_first /\ ~Unlinked(t)'
      /\ pc'[t] = "free"
      /\ \A u \in Threads \ {t} :
           /\ Private(u)' <=> Private(u)
           /\ Unlinked(u)' <=> Unlinked(u)
           /\ Unlinked(u) => Private(u)
           /\ node'[u] = node[u] /\ data'[u] = data[u] /\ pc'[u] = pc[u]
           /\ pc[u] # "walk"
  BY <1>1, <1>2 DEF Private, Unlinked, TypeOK
<1>8. NodesAccountedFor'
  <2>1. allocated' = Elements' \union {node'[u] : u \in {w \in Threads : Private(w)'}}
    BY <1>1, <1>3, <1>7 DEF NodesAccountedFor
  <2>2. \A u \in Threads : Private(u)' =>
          /\ node'[u] \notin Elements'
          /\ \A w \in Threads : Private(w)' /\ node'[w] = node'[u] => w = u
    BY <1>3, <1>7 DEF NodesAccountedFor
  <2> QED
    BY <2>1, <2>2 DEF NodesAccountedFor
<1>9. UnlinkedNodes'
  BY <1>1, <1>4, <1>7 DEF UnlinkedNodes, NodesAccountedFor, TypeOK
<1>10. FreedNodes' /\ LastFollows'
  BY <1>1, <1>3, <1>7 DEF FreedNodes, LastFollows, TypeOK
<1>11. WalkCounts' /\ WalkType'
  BY <1>7 DEF WalkCounts, WalkType
<1> QED
  BY <1>3, <1>5, <1>6, <1>8, <1>9, <1>10, <1>11

(* The node that is freed is in no list and in no other call.              *)
LEMMA PopFreeStep ==
  ASSUME Inv, NEW t \in Threads, PopFree(t)
  PROVE  Inv'
<1> USE QueueAssumption DEF Inv, Ops
<1>1. /\ pc[t] = "free" /\ pc' = [pc EXCEPT ![t] = "return"]
      /\ allocated' = allocated \ {node[t]}
      /\ UNCHANGED <<m_value, m_next, m_first, m_last, chain, locks>>
      /\ UNCHANGED <<op, node, data>>
  BY DEF PopFree, Goto
<1>2. TypeOK'
  BY <1>1 DEF TypeOK, locks
<1>3. LocksHeld'
  BY <1>1 DEF LocksHeld, TypeOK, locks
<1>4. ListIsIntact' /\ Elements' = Elements /\ Last' = Last
  BY <1>1, ListUnchanged
<1>5. /\ Private(t) /\ ~Private(t)'
      /\ \A u \in Threads :
           /\ u # t => (Private(u)' <=> Private(u))
           /\ Unlinked(u)' <=> Unlinked(u)
           /\ pc'[u] = "free" => pc[u] = "free"
           /\ pc'[u] = "walk" <=> pc[u] = "walk"
           /\ pc'[u] = "last" <=> pc[u] = "last"
  BY <1>1 DEF Private, Unlinked, TypeOK, LocksHeld
<1>6. NodesAccountedFor'
  BY <1>1, <1>4, <1>5 DEF NodesAccountedFor
<1> QED
  BY <1>1, <1>2, <1>3, <1>4, <1>5, <1>6
     DEF UnlinkedNodes, FreedNodes, LastFollows, WalkCounts, WalkType

(* size() has counted the nodes that it has passed; at the end all.        *)
LEMMA SizeWalkStep ==
  ASSUME Inv, NEW t \in Threads, SizeWalk(t)
  PROVE  /\ Inv'
         /\ node'[t] = None => data'[t] = Len(chain) - 1
<1> USE QueueAssumption DEF Inv
<1>1. /\ pc[t] = "walk" /\ node[t] # None
      /\ node' = [node EXCEPT ![t] = m_next[node[t]]]
      /\ data' = [data EXCEPT ![t] = data[t] + 1]
      /\ UNCHANGED <<list, locks, pc, op>>
  BY DEF SizeWalk
<1>2. PICK i \in 2 .. Len(chain) : node[t] = chain[i] /\ data[t] = i - 2
  BY <1>1 DEF WalkCounts
<1>3. /\ Len(chain) \in Nat /\ i \in 1 .. Len(chain)
      /\ \A j \in 1 .. Len(chain) : chain[j] \in Nodes
  BY <1>2, ChainFacts
<1>4. data'[t] = i - 1 /\ data'[t] \in Nat
  BY <1>1, <1>2, <1>3 DEF TypeOK
<1>5. \/ i = Len(chain) /\ node'[t] = None
      \/ i < Len(chain) /\ node'[t] = chain[i + 1] /\ node'[t] \in Nodes
  <2>1. node'[t] = m_next[chain[i]]
    BY <1>1, <1>2 DEF TypeOK
  <2>2. CASE i = Len(chain)
    BY <2>1, <2>2 DEF ListIsIntact, Last
  <2>3. CASE i < Len(chain)
    BY <1>3, <2>1, <2>3 DEF ListIsIntact
  <2> QED
    BY <1>3, <2>2, <2>3
<1>6. TypeOK'
  BY <1>1, <1>4, <1>5 DEF TypeOK, list, locks
<1>7. LocksHeld'
  BY <1>1 DEF LocksHeld, locks
<1>8. ~Private(t) /\ ~Private(t)'
  BY <1>1 DEF Private
<1>9. node'[t] # None =>
        \E j \in 2 .. Len(chain) : node'[t] = chain[j] /\ data'[t] = j - 2
  <2> SUFFICES ASSUME node'[t] # None
               PROVE  \E j \in 2 .. Len(chain) :
                        node'[t] = chain[j] /\ data'[t] = j - 2
    OBVIOUS
  <2>1. i + 1 \in 2 .. Len(chain) /\ node'[t] = chain[i + 1]
        /\ data'[t] = (i + 1) - 2
    BY <1>3, <1>4, <1>5
  <2> QED
    BY <2>1
<1>10. Inv'
  BY <1>1, <1>4, <1>6, <1>7, <1>8, <1>9, QuietStep DEF TypeOK
<1> QED
  BY <1>3, <1>4, <1>5, <1>10

(* It starts at the dummy, having counted none.                            *)
LEMMA SizeStartStep ==
  ASSUME Inv, NEW t \in Threads, SizeStart(t)
  PROVE  Inv'
<1> USE QueueAssumption DEF Inv
<1>1. /\ op[t] = "size" /\ pc[t] = "read" /\ pc' = [pc EXCEPT ![t] = "walk"]
      /\ node' = [node EXCEPT ![t] = m_next[m_first]]
      /\ data' = [data EXCEPT ![t] = 0]
      /\ UNCHANGED <<list, locks, op>>
  BY DEF SizeStart, Goto
<1>2. TypeOK'
  BY <1>1 DEF TypeOK, list, locks
<1>3. LocksHeld'
  BY <1>1 DEF LocksHeld, TypeOK, locks
<1>4. ~Private(t) /\ ~Private(t)'
  BY <1>1 DEF Private, TypeOK
<1>5. node'[t] # None => 2 \in 2 .. Len(chain) /\ node'[t] = chain[2]
  <2>1. node'[t] = m_next[m_first]
    BY <1>1 DEF TypeOK
  <2> QED
    BY <2>1, ChainFacts
<1>6. node'[t] # None =>
        \E i \in 2 .. Len(chain) : node'[t] = chain[i] /\ data'[t] = i - 2
  <2>1. data'[t] = 2 - 2
    BY <1>1 DEF TypeOK
  <2> QED
    BY <1>5, <2>1
<1> QED
  BY <1>1, <1>2, <1>3, <1>4, <1>6, QuietStep DEF TypeOK

(* The other steps of a thread only move it, lock, unlock or return.       *)
LEMMA MoveStep ==
  ASSUME Inv, NEW t \in Threads,
         \/ \E o \in Consuming : ConsumerCall(t, o)
         \/ ConsumerLock(t) \/ PopNothing(t) \/ Empty(t) \/ SizeEnd(t)
         \/ Return(t)
  PROVE  Inv' /\ UNCHANGED list
<1> USE QueueAssumption DEF Inv, Ops, Consuming, Goto, Unlock
<1>1. /\ UNCHANGED list
      /\ pc[t] \in {"idle", "spin", "read", "walk", "return"}
      /\ pc[t] = "spin" => op[t] # "push"
      /\ \/ pc'[t] = "spin" /\ op'[t] # "push"
         \/ pc'[t] \in {"idle", "read", "return"}
      /\ \A u \in Threads \ {t} :
           pc'[u] = pc[u] /\ op'[u] = op[u] /\ node'[u] = node[u]
           /\ data'[u] = data[u]
  BY DEF ConsumerCall, ConsumerLock, Spin, PopNothing, Empty, SizeEnd, Return,
         TypeOK
<1>2. TypeOK'
  <2>1. UNCHANGED list => /\ m_value' = m_value /\ m_next' = m_next
                          /\ m_first' = m_first /\ m_last' = m_last
                          /\ allocated' = allocated /\ chain' = chain
    BY DEF list
  <2>2. /\ producer_lock' \in Threads \union {None}
        /\ consumer_lock' \in Threads \union {None}
    BY DEF ConsumerCall, ConsumerLock, PopNothing, Empty, SizeEnd, Return,
           TypeOK, locks
  <2>3. /\ pc' \in [Threads ->
              {"idle", "spin", "link", "last", "read", "walk", "free", "return"}]
        /\ op' \in [Threads -> Ops \union {None}]
        /\ node' \in [Threads -> Nodes \union {None}]
    BY DEF ConsumerCall, ConsumerLock, PopNothing, Empty, SizeEnd, Return, TypeOK
  <2>4. data' \in [Threads -> Values \union Nat \union {None}]
    BY DEF ConsumerCall, ConsumerLock, PopNothing, Empty, SizeEnd, Return, TypeOK
  <2> QED
    BY <1>1, <2>1, <2>2, <2>3, <2>4 DEF TypeOK
<1>3. LocksHeld'
  <2>1. CASE \E o \in Consuming : ConsumerCall(t, o)
    BY <2>1 DEF ConsumerCall, LocksHeld, TypeOK, locks
  <2>2. CASE ConsumerLock(t)
    BY <2>2 DEF ConsumerLock, Spin, LocksHeld, TypeOK
  <2>3. CASE PopNothing(t) \/ Empty(t) \/ SizeEnd(t)
    BY <2>3 DEF PopNothing, Empty, SizeEnd, LocksHeld, TypeOK
  <2>4. CASE Return(t)
    BY <2>4 DEF Return, LocksHeld, TypeOK, locks
  <2> QED
    BY <2>1, <2>2, <2>3, <2>4
<1>4. ~Private(t) /\ ~Private(t)' /\ pc[t] # "last" /\ pc'[t] # "last"
      /\ pc'[t] # "walk"
  BY <1>1 DEF Private
<1> QED
  BY <1>1, <1>2, <1>3, <1>4, QuietStep

(* The destructor leaves what the constructor makes.                       *)
LEMMA DestroyStep ==
  ASSUME Inv, Destroy
  PROVE  Inv' /\ chain' \in Seq(Nodes) /\ Len(chain') = 1 /\ UNCHANGED locals
<1> USE QueueAssumption DEF Inv
<1>1. PICK n \in Nodes \ (allocated \ Elements) :
        /\ allocated' = (allocated \ Elements) \union {n}
        /\ m_value'   = [m_value EXCEPT ![n] = None]
        /\ m_next'    = [m_next EXCEPT ![n] = None]
        /\ m_first' = n /\ m_last' = n
        /\ chain' = <<n>>
  BY ReachableElements DEF Destroy
<1>2. /\ \A t \in Threads : pc[t] \in {"idle", "free", "return"}
      /\ UNCHANGED <<locks, locals>>
      /\ pc' = pc /\ op' = op /\ node' = node /\ data' = data
  BY DEF Destroy, locals
<1>3. /\ chain' \in Seq(Nodes) /\ Len(chain') = 1 /\ chain'[1] = n
      /\ chain' # <<>>
  BY <1>1
<1>4. TypeOK'
  BY <1>1, <1>2, <1>3 DEF TypeOK, locks
<1>5. LocksHeld'
  BY <1>2 DEF LocksHeld, locks
<1>6. Elements' = {n} /\ Last' = n
  BY <1>3 DEF Elements, Last
<1>7. ListIsIntact'
  BY <1>1, <1>3, <1>6 DEF ListIsIntact, TypeOK
<1>8. \A t \in Threads :
        /\ Private(t)' <=> Private(t)
        /\ Private(t) => node[t] \notin Elements
        /\ ~Unlinked(t)' /\ pc'[t] # "walk" /\ pc'[t] # "last"
  BY <1>2 DEF Private, Unlinked, NodesAccountedFor
<1>9. NodesAccountedFor'
  <2>1. \A t \in Threads : Private(t) => node[t] # n
    BY <1>1, <1>8 DEF NodesAccountedFor
  <2> QED
    BY <1>1, <1>2, <1>6, <1>8, <2>1 DEF NodesAccountedFor
<1>10. UnlinkedNodes' /\ FreedNodes' /\ LastFollows' /\ WalkCounts' /\ WalkType'
  BY <1>1, <1>2, <1>6, <1>8
     DEF UnlinkedNodes, FreedNodes, LastFollows, WalkCounts, WalkType
<1> QED
  BY <1>2, <1>3, <1>4, <1>5, <1>7, <1>9, <1>10

(* The constructor makes a list of the dummy alone.                        *)
LEMMA InitInv ==
  ASSUME Init
  PROVE  Inv
<1> USE QueueAssumption
<1>1. PICK n \in Nodes : Construct(n)
  BY DEF Init
<1>2. /\ chain \in Seq(Nodes) /\ Len(chain) = 1 /\ chain[1] = n /\ chain # <<>>
  BY <1>1 DEF Construct
<1>3. \A t \in Threads : pc[t] = "idle" /\ op[t] = None
  BY DEF Init
<1>4. TypeOK
  BY <1>1, <1>2 DEF Init, Construct, TypeOK
<1>5. Elements = {n} /\ Last = n
  BY <1>2 DEF Elements, Last
<1>6. ListIsIntact
  BY <1>1, <1>2, <1>5 DEF Construct, ListIsIntact
<1>7. LocksHeld /\ UnlinkedNodes /\ FreedNodes /\ WalkCounts /\ WalkType
  BY <1>3 DEF LocksHeld, UnlinkedNodes, Unlinked, FreedNodes, WalkCounts, WalkType
<1>8. NodesAccountedFor /\ LastFollows
  BY <1>1, <1>3, <1>5 DEF NodesAccountedFor, LastFollows, Private, Construct
<1> QED
  BY <1>4, <1>6, <1>7, <1>8 DEF Inv

(* One lemma for each action, put together.                                *)
LEMMA NextInv ==
  ASSUME Inv, [Next]_vars
  PROVE  Inv'
<1>1. CASE Destroy
  BY <1>1, DestroyStep
<1>2. ASSUME NEW t \in Threads, Call(t) PROVE Inv'
  BY <1>2, PushAllocStep, MoveStep DEF Call
<1>3. ASSUME NEW t \in Threads, ProducerStep(t) PROVE Inv'
  BY <1>3, PushLockStep, PushLinkStep, PushLastStep DEF ProducerStep
<1>4. ASSUME NEW t \in Threads, ConsumerStep(t) PROVE Inv'
  BY <1>4, MoveStep, PopUnlinkStep, PopFreeStep, SizeStartStep, SizeWalkStep
     DEF ConsumerStep
<1>5. ASSUME NEW t \in Threads, Return(t) PROVE Inv'
  BY <1>5, MoveStep
<1>6. CASE UNCHANGED vars
  BY <1>6 DEF vars, list, locks, locals, Inv, TypeOK, LocksHeld, ListIsIntact,
     LastFollows, NodesAccountedFor, UnlinkedNodes, Unlinked, FreedNodes,
     WalkCounts, WalkType, Private, Last, Elements
<1> QED
  BY <1>1, <1>2, <1>3, <1>4, <1>5, <1>6 DEF Next

(* So the invariant holds of every state.                                  *)
LEMMA InvHolds == Spec => []Inv
<1>1. Init => Inv
  BY InitInv
<1>2. Inv /\ [Next]_vars => Inv'
  BY NextInv
<1> QED
  BY <1>1, <1>2, PTL DEF Spec

-----------------------------------------------------------------------------
(* Every variable has its type.                                            *)
THEOREM TypeCorrect == Spec => []TypeOK
<1>1. Inv => TypeOK
  BY DEF Inv
<1> QED
  BY <1>1, InvHolds, PTL

(* However pushes and pops interleave, the pointers form one list that     *)
(* ends in nullptr, and only the dummy carries no value.                   *)
THEOREM ListStaysIntact == Spec => []ListIsIntact
<1>1. Inv => ListIsIntact
  BY DEF Inv
<1> QED
  BY <1>1, InvHolds, PTL

(* m_last is stale only between the two stores of the push() that holds    *)
(* the producer lock.                                                      *)
THEOREM LastStaysAtEnd == Spec => []LastIsEnd
<1>1. Inv => LastIsEnd
  BY DEF Inv, LastFollows, LastIsEnd, LocksHeld
<1> QED
  BY <1>1, InvHolds, PTL

(* Every node allocated is in the list, not yet linked or about to be      *)
(* deleted by the one pop() that unlinked it: no leak, no double delete.   *)
THEOREM NodesStayAccountedFor == Spec => []NodesAccountedFor
<1>1. Inv => NodesAccountedFor
  BY DEF Inv
<1> QED
  BY <1>1, InvHolds, PTL

(* push() never writes through a deleted m_last, and pop(), empty() and    *)
(* the walk of size() never read a deleted node.                           *)
THEOREM NoNodeUsedAfterFree == Spec => []NoUseAfterFree
<1>1. ASSUME Inv PROVE NoUseAfterFree
  <2>1. ASSUME NEW t \in Threads, pc[t] = "link"
        PROVE  {m_last, node[t]} \subseteq allocated
    <3>1. m_last = Last
      BY <1>1, <2>1 DEF Inv, LocksHeld, LastFollows
    <3>2. Private(t)
      BY <1>1, <2>1 DEF Inv, LocksHeld, Private
    <3> QED
      BY <1>1, <3>1, <3>2, ChainFacts DEF Inv, NodesAccountedFor
  <2>2. m_first \in allocated
    BY <1>1, ChainFacts DEF Inv, NodesAccountedFor
  <2>3. ASSUME NEW t \in Threads, pc[t] = "walk"
        PROVE  node[t] \in allocated \union {None}
    BY <1>1, <2>3, ChainFacts DEF Inv, WalkCounts, NodesAccountedFor
  <2> QED
    BY <2>1, <2>2, <2>3 DEF NoUseAfterFree
<1> QED
  BY <1>1, InvHolds, PTL

-----------------------------------------------------------------------------
(* ConcurrentQueue implements FifoQueue: whatever the threads, nodes and   *)
(* values, the queue is linearizable.                                      *)

(* A thread that has not read anything yet has no result.                  *)
NoResultYet ==
  \A t \in Threads :
    (pc[t] = "idle" \/ (pc[t] \in {"spin", "read"} /\ op[t] # "push"))
      => data[t] = None

(* Calls have no result before they took effect.                           *)
LEMMA NoResultStep ==
  ASSUME Inv, NoResultYet, [Next]_vars
  PROVE  NoResultYet'
<1> USE QueueAssumption DEF NoResultYet, Inv, TypeOK, Goto
<1>1. CASE Destroy
  BY <1>1 DEF Destroy, locals
<1>2. ASSUME NEW t \in Threads, Call(t) PROVE NoResultYet'
  BY <1>2 DEF Call, PushAlloc, ConsumerCall
<1>3. ASSUME NEW t \in Threads, ProducerStep(t) PROVE NoResultYet'
  BY <1>3 DEF ProducerStep, PushLock, PushLink, PushLast
<1>4. ASSUME NEW t \in Threads, ConsumerStep(t) PROVE NoResultYet'
  <2>1. CASE ConsumerLock(t)
    BY <2>1 DEF ConsumerLock
  <2>2. CASE PopNothing(t) \/ PopUnlink(t) \/ PopFree(t)
    BY <2>2 DEF PopNothing, PopUnlink, PopFree
  <2>3. CASE Empty(t)
    BY <2>3 DEF Empty
  <2>4. CASE SizeStart(t) \/ SizeWalk(t) \/ SizeEnd(t)
    BY <2>4 DEF SizeStart, SizeWalk, SizeEnd
  <2> QED
    BY <1>4, <2>1, <2>2, <2>3, <2>4 DEF ConsumerStep
<1>5. ASSUME NEW t \in Threads, Return(t) PROVE NoResultYet'
  BY <1>5 DEF Return
<1>6. CASE UNCHANGED vars
  BY <1>6 DEF vars, locals
<1> QED
  BY <1>1, <1>2, <1>3, <1>4, <1>5, <1>6 DEF Next

-----------------------------------------------------------------------------
(* The abstract state.                                                     *)

(* The values behind the dummy are those of its list.                      *)
LEMMA ItemsFacts ==
  ASSUME TypeOK, ListIsIntact
  PROVE  /\ items \in Seq(Values \union {None}) /\ Len(items) = Len(chain) - 1
         /\ \A i \in 1 .. Len(items) : items[i] = m_value[chain[i + 1]]
         /\ items = <<>> <=> m_next[m_first] = None
<1>1. /\ Len(chain) \in Nat /\ Len(chain) >= 1
      /\ \A i \in 1 .. Len(chain) : chain[i] \in Nodes
      /\ m_next[m_first] = None <=> Len(chain) = 1
  BY ChainFacts
<1>2. /\ items \in [1 .. Len(chain) - 1 -> Values \union {None}]
      /\ Len(chain) - 1 \in Nat
  BY <1>1 DEF items, TypeOK
<1>3. items \in Seq(Values \union {None}) /\ Len(items) = Len(chain) - 1
  BY <1>2
<1>4. items = <<>> <=> Len(items) = 0
  BY <1>3
<1> QED
  BY <1>1, <1>3, <1>4 DEF items

(* The queue as a sequence does not change with its nodes' pointers alone. *)
LEMMA ItemsUnchanged ==
  ASSUME TypeOK, ListIsIntact, chain' = chain,
         \A n \in Elements : m_value'[n] = m_value[n]
  PROVE  items' = items
<1>1. \A i \in 1 .. Len(chain) : chain[i] \in Elements
  BY ChainFacts
<1>2. Len(chain) \in Nat
  BY ChainFacts
<1>3. \A i \in 1 .. Len(chain) - 1 : m_value'[chain[i + 1]] = m_value[chain[i + 1]]
  BY <1>1, <1>2
<1> QED
  BY <1>3 DEF items

(* Only the call of the thread that steps changes.                         *)
LEMMA CallMove ==
  ASSUME NEW t \in Threads,
         \A u \in Threads \ {t} :
           pc'[u] = pc[u] /\ op'[u] = op[u] /\ node'[u] = node[u]
           /\ data'[u] = data[u]
  PROVE  call' = [call EXCEPT ![t] = call'[t]]
<1>1. \A u \in Threads \ {t} : call'[u] = call[u]
  BY DEF call, TookEffect
<1>2. /\ call = [u \in Threads |-> call[u]]
      /\ call' = [u \in Threads |-> call'[u]]
  BY DEF call
<1> QED
  BY <1>1, <1>2

(* What a thread's call is, by what the thread is at.                      *)
CallShape ==
  \A t \in Threads :
    /\ pc[t] = "idle" => call[t] = Fifo!Idle
    /\ Unlinked(t) =>
         call[t] = [op |-> "push", stage |-> "called", data |-> data[t]]
    /\ pc[t] \in {"spin", "read"} /\ op[t] # "push" =>
         call[t] = [op |-> op[t], stage |-> "called", data |-> None]
    /\ pc[t] = "walk" /\ node[t] # None =>
         call[t] = [op |-> "size", stage |-> "called", data |-> None]
    /\ pc[t] = "walk" /\ node[t] = None =>
         call[t] = [op |-> "size", stage |-> "done", data |-> data[t]]
    /\ pc[t] \in {"last", "return"} /\ op[t] = "push" =>
         call[t] = [op |-> "push", stage |-> "done", data |-> None]
    /\ pc[t] \in {"free", "return"} /\ op[t] # "push" =>
         call[t] = [op |-> op[t], stage |-> "done", data |-> data[t]]

(* The stage of an abstract call follows from the place in the code.       *)
LEMMA CallIs ==
  ASSUME LocksHeld, NoResultYet
  PROVE  CallShape
<1> SUFFICES ASSUME NEW t \in Threads
             PROVE  CallShape!(t)
  BY DEF CallShape
<1>1. call[t] =
        [op    |-> op[t],
         stage |-> IF pc[t] = "idle" THEN "idle"
                   ELSE IF TookEffect(t) THEN "done" ELSE "called",
         data  |-> IF op[t] = "push" <=> TookEffect(t) THEN None ELSE data[t]]
  BY DEF call
<1> USE QueueAssumption DEF LocksHeld, Ops
<1>2. pc[t] = "idle" => call[t] = Fifo!Idle
  BY <1>1 DEF Fifo!Idle, TookEffect
<1>3. Unlinked(t) =>
        call[t] = [op |-> "push", stage |-> "called", data |-> data[t]]
  BY <1>1 DEF Unlinked, TookEffect
<1>4. pc[t] \in {"spin", "read"} /\ op[t] # "push" =>
        call[t] = [op |-> op[t], stage |-> "called", data |-> None]
  BY <1>1 DEF TookEffect, NoResultYet
<1>5. pc[t] = "walk" /\ node[t] # None =>
        call[t] = [op |-> "size", stage |-> "called", data |-> None]
  BY <1>1 DEF TookEffect
<1>6. pc[t] = "walk" /\ node[t] = None =>
        call[t] = [op |-> "size", stage |-> "done", data |-> data[t]]
  BY <1>1 DEF TookEffect
<1>7. pc[t] \in {"last", "return"} /\ op[t] = "push" =>
        call[t] = [op |-> "push", stage |-> "done", data |-> None]
  BY <1>1 DEF TookEffect
<1>8. pc[t] \in {"free", "return"} /\ op[t] # "push" =>
        call[t] = [op |-> op[t], stage |-> "done", data |-> data[t]]
  BY <1>1 DEF TookEffect
<1> QED
  BY <1>2, <1>3, <1>4, <1>5, <1>6, <1>7, <1>8 DEF CallShape
(* A call about to return, or only to delete its node, has taken effect.   *)
LEMMA DoneCall ==
  ASSUME CallShape, LocksHeld, NEW t \in Threads, pc[t] \in {"free", "return"}
  PROVE  call[t].stage = "done"
<1>1. CASE op[t] = "push"
  <2>1. call[t] = [op |-> "push", stage |-> "done", data |-> None]
    BY <1>1 DEF CallShape, LocksHeld
  <2> QED
    BY <2>1
<1>2. CASE op[t] # "push"
  <2>1. call[t] = [op |-> op[t], stage |-> "done", data |-> data[t]]
    BY <1>2 DEF CallShape
  <2> QED
    BY <2>1
<1> QED
  BY <1>1, <1>2

-----------------------------------------------------------------------------
(* One lemma per action: a step of the linked list is a step of the        *)
(* atomic queue or leaves it alone.                                        *)

(* A push() begins without an effect.                                      *)
LEMMA PushAllocAbs ==
  ASSUME Inv, CallShape, CallShape',
         NEW t \in Threads, NEW v \in Values, PushAlloc(t, v)
  PROVE  Fifo!Invoke(t)
<1> USE DEF Inv
<1>1. /\ pc[t] = "idle" /\ pc'[t] = "spin" /\ op'[t] = "push" /\ data'[t] = v
      /\ \A u \in Threads \ {t} :
           pc'[u] = pc[u] /\ op'[u] = op[u] /\ node'[u] = node[u]
           /\ data'[u] = data[u]
  BY DEF PushAlloc, Goto, TypeOK
<1>2. call[t] = Fifo!Idle
  BY <1>1 DEF CallShape
<1>3. call'[t] = [op |-> "push", stage |-> "called", data |-> v]
  BY <1>1 DEF CallShape, Unlinked
<1>4. items' = items
  <2>1. chain' = chain /\ \A n \in Elements : m_value'[n] = m_value[n]
    BY DEF PushAlloc, NodesAccountedFor, TypeOK
  <2> QED
    BY <2>1, ItemsUnchanged
<1> QED
  BY <1>1, <1>2, <1>3, <1>4, CallMove DEF Fifo!Invoke

(* push() takes effect when it links its node.                             *)
LEMMA PushLinkAbs ==
  ASSUME Inv, Inv', CallShape, CallShape', NEW t \in Threads, PushLink(t)
  PROVE  Fifo!Push(t)
<1> USE DEF Inv
<1>1. /\ pc[t] = "link" /\ pc'[t] = "last" /\ op[t] = "push" /\ op'[t] = "push"
      /\ m_value' = m_value
      /\ \A u \in Threads \ {t} :
           pc'[u] = pc[u] /\ op'[u] = op[u] /\ node'[u] = node[u]
           /\ data'[u] = data[u]
  BY DEF PushLink, Goto, TypeOK, LocksHeld
<1>2. /\ call[t] = [op |-> "push", stage |-> "called", data |-> data[t]]
      /\ data[t] = m_value[node[t]] /\ node[t] \in Nodes /\ data[t] \in Values
  BY <1>1 DEF CallShape, Unlinked, UnlinkedNodes
<1>3. call'[t] = [op |-> "push", stage |-> "done", data |-> None]
  BY <1>1 DEF CallShape
<1>4. items' = Append(items, call[t].data)
  <2>1. /\ Len(chain') = Len(chain) + 1
        /\ \A i \in 1 .. Len(chain) : chain'[i] = chain[i]
        /\ chain' = Append(chain, node[t])
    BY PushLinkStep
  <2>end. chain'[Len(chain) + 1] = node[t]
    <3>1. chain \in Seq(Nodes)
      BY DEF TypeOK
    <3> QED
      BY <1>2, <2>1, <3>1
  <2>2. /\ items \in Seq(Values \union {None}) /\ Len(items) = Len(chain) - 1
        /\ \A i \in 1 .. Len(items) : items[i] = m_value[chain[i + 1]]
        /\ Len(chain) \in Nat /\ Len(chain) >= 1
    BY ItemsFacts, ChainFacts
  <2>3. items' = [i \in 1 .. Len(chain) |-> m_value[chain'[i + 1]]]
    BY <1>1, <2>1, <2>2 DEF items
  <2>4. ASSUME NEW i \in 1 .. Len(chain)
        PROVE  m_value[chain'[i + 1]] = Append(items, call[t].data)[i]
    <3>1. CASE i = Len(chain)
      BY <1>2, <2>1, <2>end, <2>2, <3>1
    <3>2. CASE i # Len(chain)
      <4>1. i \in 1 .. Len(items) /\ i + 1 \in 1 .. Len(chain)
        BY <2>2, <3>2
      <4> QED
        BY <1>2, <2>1, <2>2, <4>1
    <3> QED
      BY <3>1, <3>2
  <2>5. /\ Append(items, call[t].data) \in Seq(Values \union {None})
        /\ Len(Append(items, call[t].data)) = Len(chain)
    BY <1>2, <2>2
  <2>6. Append(items, call[t].data)
          = [i \in 1 .. Len(chain) |-> Append(items, call[t].data)[i]]
    BY <2>5, LenProperties
  <2> QED
    BY <2>3, <2>4, <2>6
<1> QED
  BY <1>1, <1>2, <1>3, <1>4, CallMove DEF Fifo!Push, Fifo!Effect

(* pop() takes effect when it unlinks the first node.                      *)
LEMMA PopUnlinkAbs ==
  ASSUME Inv, Inv', CallShape, CallShape', NEW t \in Threads, PopUnlink(t)
  PROVE  Fifo!Pop(t)
<1> USE DEF Inv
<1>1. /\ pc[t] = "read" /\ pc'[t] = "free" /\ op[t] = "pop" /\ op'[t] = "pop"
      /\ m_next[m_first] # None /\ data'[t] = m_value[m_next[m_first]]
      /\ m_value' = [m_value EXCEPT ![m_next[m_first]] = None]
      /\ \A u \in Threads \ {t} :
           pc'[u] = pc[u] /\ op'[u] = op[u] /\ node'[u] = node[u]
           /\ data'[u] = data[u]
  BY DEF PopUnlink, Goto, TypeOK
<1>2. /\ items \in Seq(Values \union {None}) /\ Len(items) = Len(chain) - 1
      /\ \A i \in 1 .. Len(items) : items[i] = m_value[chain[i + 1]]
      /\ items # <<>>
      /\ Len(chain) \in Nat /\ 2 \in 2 .. Len(chain)
      /\ m_next[m_first] = chain[2]
  BY <1>1, ItemsFacts, ChainFacts
<1>3. data'[t] = Head(items)
  BY <1>1, <1>2
<1>4. call[t] = [op |-> "pop", stage |-> "called", data |-> None]
  BY <1>1 DEF CallShape
<1>5. call'[t] = [op |-> "pop", stage |-> "done", data |-> data'[t]]
  BY <1>1 DEF CallShape
<1>6. items' = Tail(items)
  <2>1. /\ Len(chain') = Len(chain) - 1
        /\ \A i \in 1 .. Len(chain') : chain'[i] = chain[i + 1]
    BY PopUnlinkStep
  <2>2. /\ Tail(items) \in Seq(Values \union {None})
        /\ Len(Tail(items)) = Len(chain) - 2
        /\ \A i \in 1 .. Len(chain) - 2 : Tail(items)[i] = items[i + 1]
    BY <1>2, HeadTailProperties
  <2>3. items' = [i \in 1 .. Len(chain) - 2 |-> m_value'[chain'[i + 1]]]
    BY <1>2, <2>1 DEF items
  <2>4. ASSUME NEW i \in 1 .. Len(chain) - 2
        PROVE  m_value'[chain'[i + 1]] = Tail(items)[i]
    <3>1. /\ i + 1 \in 1 .. Len(chain') /\ i + 1 \in 1 .. Len(items)
          /\ i + 2 \in 1 .. Len(chain)
      BY <1>2, <2>1
    <3>2. chain'[i + 1] = chain[i + 2] /\ chain[i + 2] # chain[2]
      BY <1>2, <2>1, <3>1 DEF ListIsIntact
    <3>3. m_value'[chain'[i + 1]] = m_value[chain[i + 2]]
      BY <1>1, <1>2, <3>1, <3>2, ChainFacts DEF TypeOK
    <3> QED
      BY <1>2, <2>2, <3>1, <3>3
  <2>5. Tail(items) = [i \in 1 .. Len(chain) - 2 |-> Tail(items)[i]]
    BY <2>2, LenProperties
  <2> QED
    BY <2>3, <2>4, <2>5
<1> QED
  BY <1>1, <1>2, <1>3, <1>4, <1>5, <1>6, CallMove DEF Fifo!Pop, Fifo!Effect

(* The other steps of a consumer leave the values alone.                   *)
LEMMA ConsumerAbs ==
  ASSUME Inv, Inv', NoResultYet, CallShape, CallShape', NEW t \in Threads,
         ConsumerStep(t), ~PopUnlink(t)
  PROVE  [Fifo!Next]_(Fifo!vars)
<1> USE QueueAssumption DEF Inv
<1>1. items' = items
  BY ItemsUnchanged
     DEF ConsumerStep, ConsumerLock, PopNothing, PopFree, Empty, SizeStart,
         SizeWalk, SizeEnd, list
<1>2. call' = [call EXCEPT ![t] = call'[t]]
  <2>1. \A u \in Threads \ {t} :
           pc'[u] = pc[u] /\ op'[u] = op[u] /\ node'[u] = node[u]
           /\ data'[u] = data[u]
    BY DEF ConsumerStep, ConsumerLock, PopNothing, PopFree, Empty, SizeStart,
         SizeWalk, SizeEnd, TypeOK, Goto
  <2> QED
    BY <2>1, CallMove
<1>3. /\ Len(items) = Len(chain) - 1
      /\ items = <<>> <=> m_next[m_first] = None
      /\ items = <<>> => Len(items) = 0
  BY ItemsFacts
<1>4. ASSUME call'[t] = call[t] PROVE UNCHANGED Fifo!vars
  <2>1. call' = call
    BY <1>2, <1>4 DEF call
  <2> QED
    BY <1>1, <2>1 DEF Fifo!vars
<1>5. CASE ConsumerLock(t)
  <2>1. /\ pc[t] = "spin" /\ pc'[t] = "read" /\ op'[t] = op[t] /\ op[t] # "push"
    BY <1>5 DEF ConsumerLock, Goto, TypeOK
  <2> QED
    BY <1>4, <2>1 DEF CallShape
<1>6. CASE PopNothing(t)
  <2>1. /\ pc[t] = "read" /\ pc'[t] = "return" /\ op[t] = "pop" /\ op'[t] = "pop"
        /\ data'[t] = data[t] /\ m_next[m_first] = None
    BY <1>6 DEF PopNothing, Goto, TypeOK
  <2>2. /\ call[t] = [op |-> "pop", stage |-> "called", data |-> None]
        /\ call'[t] = [op |-> "pop", stage |-> "done", data |-> None]
    BY <2>1 DEF CallShape, NoResultYet
  <2>3. Fifo!PopNothing(t)
    BY <1>1, <1>2, <1>3, <2>1, <2>2 DEF Fifo!PopNothing, Fifo!Effect
  <2> QED
    BY <2>3 DEF Fifo!Next
<1>7. CASE PopFree(t)
  <2>1. /\ pc[t] = "free" /\ pc'[t] = "return" /\ op'[t] = op[t] /\ op[t] # "push"
        /\ data'[t] = data[t]
    BY <1>7 DEF PopFree, Goto, TypeOK, LocksHeld
  <2> QED
    BY <1>4, <2>1 DEF CallShape
<1>8. CASE Empty(t)
  <2>1. /\ pc[t] = "read" /\ pc'[t] = "return"
        /\ op[t] = "empty" /\ op'[t] = "empty"
        /\ data'[t] = IF items = <<>> THEN 1 ELSE 0
    BY <1>3, <1>8 DEF Empty, Goto, TypeOK
  <2>2. /\ call[t] = [op |-> "empty", stage |-> "called", data |-> None]
        /\ call'[t] = [op |-> "empty", stage |-> "done", data |-> data'[t]]
    BY <2>1 DEF CallShape
  <2>3. Fifo!Empty(t)
    BY <1>1, <1>2, <2>1, <2>2 DEF Fifo!Empty, Fifo!Effect
  <2> QED
    BY <2>3 DEF Fifo!Next
<1>9. CASE SizeStart(t)
  <2>1. /\ pc[t] = "read" /\ pc'[t] = "walk"
        /\ op[t] = "size" /\ op'[t] = "size"
        /\ data'[t] = 0 /\ node'[t] = m_next[m_first]
    BY <1>9 DEF SizeStart, Goto, TypeOK
  <2>2. call[t] = [op |-> "size", stage |-> "called", data |-> None]
    BY <2>1 DEF CallShape
  <2>3. CASE node'[t] # None
    BY <1>4, <2>1, <2>2, <2>3 DEF CallShape
  <2>4. CASE node'[t] = None
    <3>1. call'[t] = [op |-> "size", stage |-> "done", data |-> Len(items)]
      BY <1>3, <2>1, <2>4 DEF CallShape
    <3>2. Fifo!Size(t)
      BY <1>1, <1>2, <2>2, <3>1 DEF Fifo!Size, Fifo!Effect
    <3> QED
      BY <3>2 DEF Fifo!Next
  <2> QED
    BY <2>3, <2>4
<1>10. CASE SizeWalk(t)
  <2>1. /\ pc[t] = "walk" /\ pc'[t] = "walk" /\ node[t] # None
    BY <1>10 DEF SizeWalk
  <2>2. call[t] = [op |-> "size", stage |-> "called", data |-> None]
    BY <2>1 DEF CallShape
  <2>3. CASE node'[t] # None
    BY <1>4, <2>1, <2>2, <2>3 DEF CallShape
  <2>4. CASE node'[t] = None
    <3>1. data'[t] = Len(items)
      BY <1>3, <1>10, <2>4, SizeWalkStep
    <3>2. call'[t] = [op |-> "size", stage |-> "done", data |-> Len(items)]
      BY <2>1, <2>4, <3>1 DEF CallShape
    <3>3. Fifo!Size(t)
      BY <1>1, <1>2, <2>2, <3>2 DEF Fifo!Size, Fifo!Effect
    <3> QED
      BY <3>3 DEF Fifo!Next
  <2> QED
    BY <2>3, <2>4
<1>11. CASE SizeEnd(t)
  <2>1. /\ pc[t] = "walk" /\ pc'[t] = "return" /\ node[t] = None
        /\ op'[t] = "size" /\ data'[t] = data[t]
    BY <1>11 DEF SizeEnd, Goto, TypeOK, LocksHeld
  <2>2. call[t] = [op |-> "size", stage |-> "done", data |-> data[t]]
    BY <2>1 DEF CallShape
  <2>3. call'[t] = [op |-> "size", stage |-> "done", data |-> data'[t]]
    BY <2>1 DEF CallShape
  <2> QED
    BY <1>4, <2>1, <2>2, <2>3
<1> QED
  BY <1>5, <1>6, <1>7, <1>8, <1>9, <1>10, <1>11 DEF ConsumerStep

(* The other steps: locking, the second store of push(), calls of          *)
(* consumers, and returns.                                                 *)
LEMMA OtherAbs ==
  ASSUME Inv, Inv', CallShape, CallShape', NEW t \in Threads,
         \/ \E o \in Consuming : ConsumerCall(t, o)
         \/ PushLock(t) \/ PushLast(t) \/ Return(t)
  PROVE  [Fifo!Next]_(Fifo!vars)
<1> USE QueueAssumption DEF Inv
<1>1. items' = items
  BY ItemsUnchanged DEF ConsumerCall, PushLock, PushLast, Return, list
<1>2. call' = [call EXCEPT ![t] = call'[t]]
  <2>1. \A u \in Threads \ {t} :
           pc'[u] = pc[u] /\ op'[u] = op[u] /\ node'[u] = node[u]
           /\ data'[u] = data[u]
    BY DEF ConsumerCall, PushLock, PushLast, Return, TypeOK, Goto
  <2> QED
    BY <2>1, CallMove
<1>3. ASSUME call'[t] = call[t] PROVE UNCHANGED Fifo!vars
  <2>1. call' = call
    BY <1>2, <1>3 DEF call
  <2> QED
    BY <1>1, <2>1 DEF Fifo!vars
<1>4. CASE PushLock(t)
  <2>1. Unlinked(t) /\ Unlinked(t)' /\ data'[t] = data[t]
    BY <1>4 DEF PushLock, Goto, TypeOK, Unlinked
  <2> QED
    BY <1>3, <2>1 DEF CallShape
<1>5. CASE PushLast(t)
  <2>1. pc[t] = "last" /\ pc'[t] = "return" /\ op[t] = "push" /\ op'[t] = "push"
    BY <1>5 DEF PushLast, Goto, TypeOK, LocksHeld
  <2> QED
    BY <1>3, <2>1 DEF CallShape
<1>6. CASE Return(t)
  <2>1. pc[t] = "return" /\ pc'[t] = "idle"
    BY <1>6 DEF Return, Goto, TypeOK
  <2>2. call[t].stage = "done"
    BY <2>1, DoneCall
  <2>3. call'[t] = Fifo!Idle
    BY <2>1 DEF CallShape
  <2>4. Fifo!Return(t)
    BY <1>1, <1>2, <2>2, <2>3 DEF Fifo!Return
  <2> QED
    BY <2>4 DEF Fifo!Next
<1>7. ASSUME NEW o \in Consuming, ConsumerCall(t, o)
      PROVE  [Fifo!Next]_(Fifo!vars)
  <2>1. pc[t] = "idle" /\ pc'[t] = "spin" /\ op'[t] = o /\ o # "push"
    BY <1>7 DEF ConsumerCall, Goto, TypeOK, Consuming
  <2>2. /\ call[t] = Fifo!Idle
        /\ call'[t] = [op |-> o, stage |-> "called", data |-> None]
    BY <2>1 DEF CallShape
  <2>3. Fifo!Invoke(t)
    BY <1>1, <1>2, <2>2 DEF Fifo!Invoke, Consuming
  <2> QED
    BY <2>3 DEF Fifo!Next
<1> QED
  BY <1>4, <1>5, <1>6, <1>7

(* The destructor empties the abstract queue while no call runs.           *)
LEMMA DestroyAbs ==
  ASSUME Inv, Inv', CallShape, Destroy
  PROVE  Fifo!Destroy
<1> USE DEF Inv
<1>1. ASSUME NEW t \in Threads PROVE call[t].stage # "called"
  <2>1. pc[t] \in {"idle", "free", "return"} /\ (pc[t] = "free" => op[t] # "push")
    BY DEF Destroy, LocksHeld
  <2>2. CASE pc[t] = "idle"
    <3>1. call[t] = [op |-> None, stage |-> "idle", data |-> None]
      BY <2>2 DEF CallShape, Fifo!Idle
    <3> QED
      BY <3>1
  <2>3. CASE pc[t] # "idle"
    BY <2>1, <2>3, DoneCall
  <2> QED
    BY <2>2, <2>3
<1>2. call' = call
  <2>1. UNCHANGED <<pc, op, node, data>>
    BY DestroyStep DEF locals
  <2> QED
    BY <2>1 DEF call, TookEffect
<1>3. items' = <<>>
  <2>1. Len(chain') = 1
    BY DestroyStep
  <2>2. items' = [i \in 1 .. 0 |-> m_value'[chain'[i + 1]]]
    BY <2>1 DEF items
  <2> QED
    BY <2>2
<1> QED
  BY <1>1, <1>2, <1>3 DEF Fifo!Destroy

(* Every step is one of the abstract queue or leaves it alone.             *)
LEMMA StepAbs ==
  ASSUME Inv, Inv', NoResultYet, CallShape, CallShape', [Next]_vars
  PROVE  [Fifo!Next]_(Fifo!vars)
<1>1. CASE Destroy
  BY <1>1, DestroyAbs DEF Fifo!Next
<1>2. ASSUME NEW t \in Threads, Call(t) PROVE [Fifo!Next]_(Fifo!vars)
  BY <1>2, PushAllocAbs, OtherAbs DEF Call, Fifo!Next
<1>3. ASSUME NEW t \in Threads, ProducerStep(t) PROVE [Fifo!Next]_(Fifo!vars)
  BY <1>3, PushLinkAbs, OtherAbs DEF ProducerStep, Fifo!Next
<1>4. ASSUME NEW t \in Threads, ConsumerStep(t) PROVE [Fifo!Next]_(Fifo!vars)
  BY <1>4, PopUnlinkAbs, ConsumerAbs DEF Fifo!Next
<1>5. ASSUME NEW t \in Threads, Return(t) PROVE [Fifo!Next]_(Fifo!vars)
  BY <1>5, OtherAbs
<1>6. CASE UNCHANGED vars
  BY <1>6 DEF vars, list, locks, locals, Fifo!vars, items, call, TookEffect
<1> QED
  BY <1>1, <1>2, <1>3, <1>4, <1>5, <1>6 DEF Next

(* A constructed queue is an empty abstract one.                           *)
LEMMA InitAbs ==
  ASSUME Init
  PROVE  Fifo!Init /\ NoResultYet
<1>1. \A t \in Threads : pc[t] = "idle" /\ op[t] = None /\ data[t] = None
  BY DEF Init
<1>2. NoResultYet
  BY <1>1 DEF NoResultYet
<1>3. call = [t \in Threads |-> Fifo!Idle]
  <2>1. ASSUME NEW t \in Threads PROVE call[t] = Fifo!Idle
    BY <1>1, <1>2, InitInv, CallIs DEF Inv, CallShape
  <2> QED
    BY <2>1 DEF call
<1>4. items = <<>>
  <2>1. Len(chain) = 1
    BY DEF Init, Construct
  <2>2. items = [i \in 1 .. 0 |-> m_value[chain[i + 1]]]
    BY <2>1 DEF items
  <2> QED
    BY <2>2
<1> QED
  BY <1>2, <1>3, <1>4 DEF Fifo!Init

(* The queue is linearizable: every push() appends its value, every pop()  *)
(* takes the oldest or finds the queue empty, size() and empty() tell the  *)
(* truth, each at one moment between its call and its return.              *)
THEOREM QueueIsLinearizable == Spec => Linearizable
<1>1. Init => Fifo!Init /\ NoResultYet
  BY InitAbs
<1>2. Inv /\ NoResultYet /\ [Next]_vars => NoResultYet'
  BY NoResultStep
<1>3. Inv /\ NoResultYet => CallShape
  BY CallIs DEF Inv
<1>4. Inv /\ Inv' /\ NoResultYet /\ CallShape /\ CallShape' /\ [Next]_vars
        => [Fifo!Next]_(Fifo!vars)
  BY StepAbs
<1> QED
  BY <1>1, <1>2, <1>3, <1>4, InvHolds, PTL DEF Spec, Linearizable, Fifo!Spec
=============================================================================
