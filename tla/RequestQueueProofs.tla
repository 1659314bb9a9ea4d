-------------------------- MODULE RequestQueueProofs --------------------------
(***************************************************************************)
(* Proofs about the queue of M9Lab/M9/queue.c: QueueInv is inductive, so   *)
(* it and what follows from it hold for any set of threads, any heap and   *)
(* any items; one lemma per action, or per group of actions of one shape.  *)
(***************************************************************************)
EXTENDS RequestQueue, SequenceTheorems, TLAPS

\* What is left of a non-empty sequence without its first element.
LEMMA TailFacts ==
  ASSUME NEW S, NEW s \in Seq(S), s # <<>>
  PROVE  /\ Len(s) \in Nat /\ Len(s) >= 1
         /\ s[1] \in S
         /\ Tail(s) \in Seq(S)
         /\ Len(Tail(s)) = Len(s) - 1
         /\ \A i \in 1..(Len(s) - 1) : Tail(s)[i] = s[i + 1]
         /\ Tail(s) = <<>> <=> Len(s) = 1
<1>1. Len(s) \in Nat /\ Len(s) >= 1
  BY EmptySeq
<1>2. s[1] \in S
  BY <1>1, ElementOfSeq
<1>3. /\ Tail(s) \in Seq(S)
      /\ Len(Tail(s)) = Len(s) - 1
      /\ \A i \in 1..(Len(s) - 1) : Tail(s)[i] = s[i + 1]
  BY HeadTailProperties
<1>4. Tail(s) = <<>> <=> Len(Tail(s)) = 0
  BY <1>3, EmptySeq
<1>5. Len(Tail(s)) = 0 <=> Len(s) = 1
  BY <1>1, <1>3
<1> QED
  BY <1>1, <1>2, <1>3, <1>4, <1>5

\* Positions of a list before its last one.
LEMMA InnerPosition ==
  ASSUME NEW k \in Nat, NEW i \in 1..(k + 1), i < k + 1, i # k
  PROVE  i \in 1..k /\ i < k /\ i + 1 \in 1..k
OBVIOUS

\* The linked cells are nodes, so the null pointer is not among them.
LEMMA NullNotLinked == QueueTypeOK => NULL \notin Linked
  BY QueueConstants, ElementOfSeq, LenProperties DEF QueueTypeOK, Linked

\* The empty queue that queue_init builds satisfies the invariant.
LEMMA InitInv == QueueInit => QueueInv
<1> SUFFICES ASSUME QueueInit PROVE QueueInv
  OBVIOUS
<1> USE QueueConstants DEF QueueInit
<1>1. QueueTypeOK
  <2>1. /\ next \in [Cell -> Node \cup {NULL}]
        /\ data \in [Node -> Item]
        /\ item \in [Thread -> Item]
        /\ node \in [Thread -> Node \cup {NULL}]
    BY DEF Item
  <2>2. op \in [Thread -> Op]
    BY DEF Op
  <2>3. tail \in Cell /\ size \in Nat /\ live \in SUBSET Node
        /\ mutex \in Thread \cup {NoThread} /\ chain \in Seq(Node)
    BY DEF Cell
  <2>4. isclosed \in BOOLEAN
    OBVIOUS
  <2> QED
    BY <2>1, <2>2, <2>3, <2>4 DEF QueueTypeOK
<1>2. MutualExclusion /\ Ownership /\ AllDie
  BY DEF MutualExclusion, Ownership, AllDie, Critical, Owning
<1>3. NodesAccounted
  BY DEF NodesAccounted, Linked
<1>4. Links /\ Counted
  BY DEF Links, Counted, LastCell
<1> QED
  BY <1>1, <1>2, <1>3, <1>4 DEF QueueInv

\* Acquiring the mutex: nobody else is in a critical section.
LEMMA LockInv ==
  ASSUME QueueInv, NEW t \in Thread,
         NEW from \in Op, NEW to \in Op, Lock(t, from, to),
         <<from, to>> \in {<<"enq_lock", "enq_link">>, <<"deq_lock", "deq_check">>, <<"cls_lock", "cls_set">>}
  PROVE  QueueInv'
<1> USE DEF QueueInv, Lock, Goto
<1>1. QueueTypeOK'
  BY DEF QueueTypeOK
<1>2. MutualExclusion'
  BY QueueConstants DEF MutualExclusion, QueueTypeOK
<1>3. Ownership' /\ AllDie'
  BY DEF Ownership, AllDie, Owning, QueueTypeOK
<1>4. NodesAccounted'
  BY DEF NodesAccounted, Linked
<1>5. (Alive => Links /\ Counted)'
  BY DEF Alive, Links, Counted, LastCell, QueueTypeOK
<1> QED
  BY <1>1, <1>2, <1>3, <1>4, <1>5

\* queue_enqueue links its node behind the last one; the self-loop it writes
\* is on the new last node, whose next field no list position describes.
LEMMA LinkInv ==
  ASSUME QueueInv, NEW t \in Thread, EnqueueLink(t)
  PROVE  QueueInv'
<1> DEFINE n == node[t]
<1> USE DEF QueueInv, EnqueueLink, Goto
<1>0. /\ n \in Node
      /\ n \in live
      /\ n \notin Linked
      /\ Alive
      /\ \A u \in Thread \ {t} : op[u] \notin Critical
      /\ size = Len(chain) /\ tail = LastCell
  <2>1. /\ n \in Node /\ n \in live /\ n \notin Linked /\ Alive
        /\ \A u \in Thread \ {t} : op[u] \notin Critical
    BY QueueConstants DEF Ownership, Owning, QueueTypeOK, NodesAccounted, Alive, AllDie, MutualExclusion, Critical
  <2> QED
    BY <2>1 DEF Counted, Critical
<1>1. QueueTypeOK'
  BY <1>0 DEF QueueTypeOK, Cell, Op, Critical
<1>2. MutualExclusion'
  BY DEF MutualExclusion, QueueTypeOK, Critical
<1>3. Ownership' /\ AllDie'
  BY <1>0 DEF Ownership, AllDie, Owning, QueueTypeOK
<1>4. /\ chain \in Seq(Node) /\ Len(chain) \in Nat /\ DOMAIN chain = 1..Len(chain)
      /\ chain' \in Seq(Node) /\ Len(chain') = Len(chain) + 1
      /\ DOMAIN chain' = 1..(Len(chain) + 1)
      /\ chain'[Len(chain) + 1] = n
      /\ \A i \in 1..Len(chain) : chain'[i] = chain[i]
      /\ chain' # <<>>
  BY <1>0, AppendProperties, LenProperties DEF QueueTypeOK
<1>5. Linked' = Linked \cup {n}
  BY <1>4 DEF Linked
<1>6. NodesAccounted'
  <2>1. node' = [node EXCEPT ![t] = NULL] /\ node \in [Thread -> Node \cup {NULL}] /\ live' = live
    BY DEF QueueTypeOK
  <2>2. live' = Linked' \cup ({node'[u] : u \in Thread} \ {NULL})
    BY <1>0, <1>5, <2>1 DEF NodesAccounted
  <2>3. \A u \in Thread : node'[u] \notin Linked'
    BY <1>0, <1>1, <1>5, <2>1, QueueConstants DEF NodesAccounted, QueueTypeOK, Linked
  <2>4. \A u, v \in Thread : u # v /\ node'[u] = node'[v] => node'[u] = NULL
    BY <2>1 DEF NodesAccounted
  <2>5. \A i, j \in DOMAIN chain' : i # j => chain'[i] # chain'[j]
    BY <1>0, <1>4 DEF NodesAccounted, Linked
  <2> QED
    BY <2>2, <2>3, <2>4, <2>5 DEF NodesAccounted
<1>7. Links'
  <2>1. /\ next \in [Cell -> Node \cup {NULL}] /\ n \in Cell /\ n # Header
        /\ next' = [next EXCEPT ![tail] = n, ![IF size = 0 THEN Header ELSE n] = n]
        /\ tail \in Cell
        /\ Header \in Cell
    BY <1>0, QueueConstants DEF QueueTypeOK, Cell
  <2>2. CASE Len(chain) = 0
    <3>1. chain = <<>> /\ tail = Header
      BY <1>0, <1>4, <2>2, EmptySeq DEF LastCell
    <3>2. next'[Header] = n /\ chain'[1] = n /\ Len(chain') = 1
      BY <1>0, <1>4, <2>1, <2>2, <3>1
    <3> QED
      BY <3>2 DEF Links
  <2>3. CASE Len(chain) # 0
    <3>1. /\ chain # <<>> /\ tail = chain[Len(chain)] /\ tail \in Node
          /\ tail # Header /\ n # tail
      BY <1>0, <1>4, <2>3, ElementOfSeq, QueueConstants DEF LastCell, Linked
    <3>2. next'[Header] = next[Header] /\ next'[tail] = n
      BY <1>0, <2>1, <2>3, <3>1
    <3>3. next[Header] = chain[1] /\ chain'[1] = chain[1]
      BY <1>0, <1>4, <2>3, <3>1 DEF Links
    <3>4. ASSUME NEW i \in 1..Len(chain), i < Len(chain)
          PROVE  next'[chain[i]] = chain[i + 1]
      <4>1. /\ chain[i] \in Node /\ chain[i] # n /\ chain[i] # tail
            /\ next[chain[i]] = chain[i + 1]
        BY <1>0, <1>4, <3>1, <3>4, ElementOfSeq DEF NodesAccounted, Linked, Links
      <4> QED
        BY <1>0, <2>1, <2>3, <4>1, QueueConstants DEF Cell
    <3>5. ASSUME NEW i \in 1..(Len(chain) + 1), i < Len(chain) + 1
          PROVE  next'[chain'[i]] = chain'[i + 1]
      <4>1. CASE i = Len(chain)
        BY <1>4, <2>3, <3>1, <3>2, <4>1
      <4>2. CASE i # Len(chain)
        <5>1. i \in 1..Len(chain) /\ i < Len(chain) /\ i + 1 \in 1..Len(chain)
          BY <1>4, <3>5, <4>2, InnerPosition
        <5> QED
          BY <1>4, <3>4, <5>1
      <4> QED
        BY <4>1, <4>2
    <3> QED
      BY <1>4, <3>2, <3>3, <3>5 DEF Links
  <2> QED
    BY <2>2, <2>3
<1>8. Counted'
  BY <1>0, <1>4, QueueConstants DEF Counted, LastCell, QueueTypeOK, Critical
<1> QED
  BY <1>1, <1>2, <1>3, <1>6, <1>7, <1>8

\* queue_dequeue takes the first node of a non-empty list; header->next is
\* right again unless that node was the last one.
LEMMA UnlinkInv ==
  ASSUME QueueInv, NEW t \in Thread, DequeueUnlink(t)
  PROVE  QueueInv'
<1> DEFINE n == chain[1]
<1> USE DEF QueueInv, DequeueUnlink, Goto
<1>0. /\ Alive
      /\ \A u \in Thread \ {t} : op[u] \notin Critical
      /\ chain # <<>>
      /\ next[Header] = n
      /\ node[t] = NULL
      /\ size = Len(chain) /\ tail = LastCell
  <2>1. /\ Alive /\ chain # <<>> /\ next[Header] = n /\ node[t] = NULL
        /\ \A u \in Thread \ {t} : op[u] \notin Critical
    BY QueueConstants DEF Ownership, Owning, QueueTypeOK, Alive, AllDie, MutualExclusion, Critical, Links, Counted
  <2> QED
    BY <2>1 DEF Counted, Critical
<1>1. /\ chain \in Seq(Node) /\ Len(chain) \in Nat /\ Len(chain) >= 1
      /\ DOMAIN chain = 1..Len(chain)
      /\ n \in Node
      /\ chain' \in Seq(Node) /\ Len(chain') = Len(chain) - 1
      /\ DOMAIN chain' = 1..(Len(chain) - 1)
      /\ \A i \in 1..(Len(chain) - 1) : chain'[i] = chain[i + 1]
      /\ chain' = <<>> <=> Len(chain) = 1
  BY <1>0, TailFacts, LenProperties DEF QueueTypeOK
<1>2. QueueTypeOK'
  BY <1>0, <1>1 DEF QueueTypeOK, Cell, Op, Critical
<1>3. MutualExclusion'
  BY DEF MutualExclusion, QueueTypeOK, Critical
<1>4. Ownership' /\ AllDie'
  BY <1>0, <1>1, QueueConstants DEF Ownership, AllDie, Owning, QueueTypeOK
<1>5. Linked' = Linked \ {n}
  <2>1. ASSUME NEW i \in 1..(Len(chain) - 1) PROVE chain'[i] \in Linked \ {n}
    BY <1>1, SMTT(20) DEF Linked, NodesAccounted
  <2>2. ASSUME NEW x \in Linked \ {n} PROVE \E i \in 1..(Len(chain) - 1) : chain'[i] = x
    <3>1. PICK j \in 1..Len(chain) : chain[j] = x
      BY <1>1 DEF Linked
    <3>2. j - 1 \in 1..(Len(chain) - 1) /\ chain'[j - 1] = chain[j]
      BY <1>1, <3>1
    <3> QED
      BY <3>1, <3>2
  <2>3. Linked' = {chain'[i] : i \in 1..(Len(chain) - 1)}
    BY <1>1 DEF Linked
  <2> QED
    BY <2>1, <2>2, <2>3
<1>6. NodesAccounted'
  <2>1. /\ node' = [node EXCEPT ![t] = n]
        /\ node \in [Thread -> Node \cup {NULL}]
        /\ live' = live
        /\ n \in Linked
    BY <1>0, <1>1, SMTT(20) DEF QueueTypeOK, Linked
  <2>2. live' = Linked' \cup ({node'[u] : u \in Thread} \ {NULL})
    BY <1>0, <1>1, <1>5, <2>1, QueueConstants DEF NodesAccounted
  <2>3. \A u \in Thread : node'[u] \notin Linked'
    BY <1>5, <2>1 DEF NodesAccounted
  <2>4. \A u, v \in Thread : u # v /\ node'[u] = node'[v] => node'[u] = NULL
    BY <2>1 DEF NodesAccounted
  <2>5. \A i, j \in DOMAIN chain' : i # j => chain'[i] # chain'[j]
    BY <1>1 DEF NodesAccounted
  <2> QED
    BY <2>2, <2>3, <2>4, <2>5 DEF NodesAccounted
<1>7. Links'
  BY <1>0, <1>1, QueueConstants DEF Links, QueueTypeOK, Cell
<1>8. Counted'
  BY <1>0, <1>1, QueueConstants DEF Counted, LastCell, QueueTypeOK, Critical
<1> QED
  BY <1>2, <1>3, <1>4, <1>6, <1>7, <1>8

\* Releasing the mutex at the end of a critical section: the list is whole.
LEMMA UnlockInv ==
  ASSUME QueueInv, NEW t \in Thread,
         NEW from \in {"enq_unlock", "deq_unlock", "deq_null", "cls_unlock"},
         NEW to \in {"enq_bcast", "idle", "cls_bcast"},
         Unlock(t, from, to)
  PROVE  QueueInv'
<1> USE DEF QueueInv, Unlock, Goto
<1>1. QueueTypeOK'
  BY DEF QueueTypeOK, Op, Critical
<1>2. MutualExclusion'
  BY DEF MutualExclusion, QueueTypeOK, Critical
<1>3. Ownership' /\ AllDie'
  BY DEF Ownership, AllDie, Owning, QueueTypeOK
<1>4. NodesAccounted'
  BY DEF NodesAccounted, Linked
<1>5. (Alive => Links /\ Counted)'
  BY DEF Alive, Links, Counted, LastCell, QueueTypeOK
<1> QED
  BY <1>1, <1>2, <1>3, <1>4, <1>5

\* A broadcast sends every waiter to acquire the mutex and touches no list.
LEMMA BroadcastInv ==
  ASSUME QueueInv, NEW t \in Thread,
         NEW from \in {"enq_bcast", "deq_bcast", "cls_bcast"},
         NEW to \in {"idle", "deq_null"},
         to = "deq_null" => from = "deq_bcast",
         Broadcast(t, from, to)
  PROVE  QueueInv'
<1> USE DEF QueueInv, Broadcast
<1>1. QueueTypeOK'
  <2>1. op' \in [Thread -> Op]
    BY DEF QueueTypeOK, Op, Critical
  <2> QED
    BY <2>1 DEF QueueTypeOK
<1>2. MutualExclusion'
  BY DEF MutualExclusion, QueueTypeOK, Critical
<1>3. Ownership' /\ AllDie'
  BY DEF Ownership, AllDie, Owning, QueueTypeOK
<1>4. NodesAccounted'
  BY DEF NodesAccounted, Linked
<1>5. (Alive => Links /\ Counted)'
  BY DEF Alive, AllDie, Links, Counted, LastCell, QueueTypeOK
<1> QED
  BY <1>1, <1>2, <1>3, <1>4, <1>5

\* The steps that move one thread and change neither the list nor the mutex:
\* calls, a spurious wakeup, the loop condition of a dequeue, queue_close.
LEMMA MoveInv ==
  ASSUME QueueInv, NEW t \in Thread,
         \/ \E d \in Item : queue_enqueue(t, d)
         \/ queue_dequeue(t) \/ queue_close(t) \/ SpuriousWakeup(t)
         \/ DequeueNonempty(t) \/ DequeueClosed(t) \/ CloseSet(t)
  PROVE  QueueInv'
<1> USE DEF QueueInv
<1>0. /\ UNCHANGED <<next, data, tail, size, live, mutex, node, chain>>
      /\ op \in [Thread -> Op]
  BY DEF queue_enqueue, queue_dequeue, queue_close, SpuriousWakeup,
         DequeueNonempty, DequeueClosed, CloseSet, QueueTypeOK
<1>1. PICK to \in Op :
         /\ op' = [op EXCEPT ![t] = to]
         /\ to \in Critical => op[t] \in Critical
         /\ to \notin Owning \cup {"dead", "enq_count", "deq_count"}
         /\ op[t] \notin Owning \cup {"dead", "enq_count", "deq_count"}
         /\ to = "deq_unlink" => size # 0
  BY DEF queue_enqueue, queue_dequeue, queue_close, SpuriousWakeup,
         DequeueNonempty, DequeueClosed, CloseSet, Goto, Critical, Owning, Op
<1>2. QueueTypeOK'
  <2>1. isclosed' \in BOOLEAN
    BY Zenon DEF queue_enqueue, queue_dequeue, queue_close, SpuriousWakeup,
           DequeueNonempty, DequeueClosed, CloseSet, QueueTypeOK
  <2>2. item' \in [Thread -> Item]
    BY DEF queue_enqueue, queue_dequeue, queue_close, SpuriousWakeup,
           DequeueNonempty, DequeueClosed, CloseSet, QueueTypeOK, Item
  <2>3. op' \in [Thread -> Op]
    BY <1>0, <1>1
  <2> QED
    BY <1>0, <2>1, <2>2, <2>3 DEF QueueTypeOK
<1>3. MutualExclusion'
  BY <1>0, <1>1 DEF MutualExclusion
<1>4. Ownership' /\ AllDie'
  BY <1>0, <1>1 DEF Ownership, AllDie
<1>5. NodesAccounted'
  BY <1>0 DEF NodesAccounted, Linked
<1>6. Alive
  BY <1>1 DEF AllDie, Alive
<1>7. Links'
  BY <1>0, <1>6 DEF Links
<1>8. Counted'
  <2>1. to = "deq_unlink" => chain # <<>>
    <3> SUFFICES ASSUME to = "deq_unlink" PROVE chain # <<>>
      OBVIOUS
    <3>1. op[t] \in Critical
      BY <1>1 DEF Critical
    <3>2. \A u \in Thread : op[u] \notin {"enq_count", "deq_count"}
      BY <1>1, <3>1 DEF MutualExclusion, Critical
    <3>3. size = Len(chain) /\ size # 0
      BY <1>1, <1>6, <3>2 DEF Counted
    <3> QED
      BY <3>3
  <2> QED
    BY <1>0, <1>1, <1>6, <2>1 DEF Counted, LastCell
<1> QED
  BY <1>2, <1>3, <1>4, <1>5, <1>7, <1>8

\* pthread_cond_wait gives the mutex back with the list whole.
LEMMA WaitInv ==
  ASSUME QueueInv, NEW t \in Thread, DequeueWait(t)
  PROVE  QueueInv'
<1> USE DEF QueueInv, DequeueWait, Goto
<1>1. QueueTypeOK'
  BY DEF QueueTypeOK, Op, Critical
<1>2. MutualExclusion'
  BY DEF MutualExclusion, QueueTypeOK, Critical
<1>3. Ownership' /\ AllDie'
  BY DEF Ownership, AllDie, Owning, QueueTypeOK
<1>4. NodesAccounted'
  BY DEF NodesAccounted, Linked
<1>5. (Alive => Links /\ Counted)'
  BY DEF Alive, Links, Counted, LastCell, QueueTypeOK
<1> QED
  BY <1>1, <1>2, <1>3, <1>4, <1>5

\* A fresh node belongs to the enqueuing thread alone and is not linked.
LEMMA AllocInv ==
  ASSUME QueueInv, NEW t \in Thread, EnqueueAlloc(t)
  PROVE  QueueInv'
<1> USE DEF QueueInv, Goto
<1>1. PICK n \in Node \ live :
         /\ live' = live \cup {n}
         /\ data' = [data EXCEPT ![n] = item[t]]
         /\ next' = [next EXCEPT ![n] = NULL]
         /\ node' = [node EXCEPT ![t] = n]
  BY DEF EnqueueAlloc
<1>2. /\ op[t] = "enq_alloc" /\ op' = [op EXCEPT ![t] = "enq_lock"]
      /\ item' = [item EXCEPT ![t] = NULL]
      /\ UNCHANGED <<tail, size, isclosed, mutex, chain>>
  BY DEF EnqueueAlloc
<1>3. Alive /\ node[t] = NULL
  BY <1>2 DEF Alive, AllDie, Ownership, Owning
<1>4. QueueTypeOK'
  <2>1. item' \in [Thread -> Item] /\ data' \in [Node -> Item]
    BY <1>1, <1>2 DEF QueueTypeOK, Item
  <2>2. isclosed' \in BOOLEAN
    BY <1>2, Zenon DEF QueueTypeOK
  <2> QED
    BY <1>1, <1>2, <2>1, <2>2 DEF QueueTypeOK, Cell, Op
<1>5. MutualExclusion'
  BY <1>2 DEF MutualExclusion, QueueTypeOK, Critical
<1>6. Ownership' /\ AllDie'
  BY <1>1, <1>2, QueueConstants DEF Ownership, AllDie, Owning, QueueTypeOK
<1>7. Linked' = Linked /\ n \notin Linked /\ n # NULL
  BY <1>1, <1>2, QueueConstants DEF Linked, NodesAccounted
<1>8. NodesAccounted'
  <2>1. node \in [Thread -> Node \cup {NULL}]
    BY DEF QueueTypeOK
  <2>2. live' = Linked' \cup ({node'[u] : u \in Thread} \ {NULL})
    BY <1>1, <1>3, <1>7, <2>1 DEF NodesAccounted
  <2>3. \A u \in Thread : node'[u] \notin Linked'
    BY <1>1, <1>7, <2>1 DEF NodesAccounted
  <2>4. \A u \in Thread : node[u] # n
    BY <1>1, <1>7 DEF NodesAccounted
  <2>5. \A u, v \in Thread : u # v /\ node'[u] = node'[v] => node'[u] = NULL
    BY <1>1, <2>1, <2>4 DEF NodesAccounted
  <2>6. \A i, j \in DOMAIN chain' : i # j => chain'[i] # chain'[j]
    BY <1>2 DEF NodesAccounted
  <2> QED
    BY <2>2, <2>3, <2>5, <2>6 DEF NodesAccounted
<1>9. Links'
  <2>1. /\ next \in [Cell -> Node \cup {NULL}] /\ n # Header
        /\ Header \in Cell /\ chain \in Seq(Node)
    BY <1>1, QueueConstants DEF QueueTypeOK, Cell
  <2>2. \A i \in 1..Len(chain) : chain[i] \in Cell /\ chain[i] # n
    BY <1>7, <2>1, ElementOfSeq, LenProperties DEF Linked, Cell
  <2> QED
    BY <1>1, <1>2, <1>3, <2>1, <2>2 DEF Links
<1>10. Counted'
  BY <1>1, <1>2, <1>3 DEF Counted, LastCell, QueueTypeOK
<1> QED
  BY <1>4, <1>5, <1>6, <1>8, <1>9, <1>10

\* After a failed malloc no thread takes another step.
LEMMA AllocFailsInv ==
  ASSUME QueueInv, NEW t \in Thread, EnqueueAllocFails(t)
  PROVE  QueueInv'
<1> USE DEF QueueInv, EnqueueAllocFails
<1>1. QueueTypeOK'
  BY DEF QueueTypeOK, Op
<1>2. MutualExclusion'
  BY DEF MutualExclusion, Critical
<1>3. Ownership' /\ AllDie' /\ ~Alive'
  BY DEF Ownership, AllDie, Owning, Alive
<1>4. NodesAccounted'
  BY DEF NodesAccounted, Linked
<1> QED
  BY <1>1, <1>2, <1>3, <1>4

\* size and, after the last removal, tail catch up with the list.
LEMMA CountInv ==
  ASSUME QueueInv, NEW t \in Thread, EnqueueCount(t) \/ DequeueCount(t)
  PROVE  QueueInv'
<1> USE DEF QueueInv, EnqueueCount, DequeueCount, Goto
<1>0. /\ Alive
      /\ \A u \in Thread \ {t} : op[u] \notin Critical
      /\ chain \in Seq(Node) /\ Len(chain) \in Nat
  BY LenProperties DEF Alive, AllDie, MutualExclusion, Critical, QueueTypeOK
<1>1. (size = Len(chain) /\ tail = LastCell)'
  <2>1. CASE EnqueueCount(t)
    BY <1>0, <2>1 DEF Counted, LastCell
  <2>2. CASE DequeueCount(t)
    <3>1. size = Len(chain) + 1 /\ tail = IF chain = <<>> THEN node[t] ELSE LastCell
      BY <1>0, <2>2 DEF Counted
    <3>2. size' = Len(chain)
      BY <1>0, <2>2, <3>1
    <3>3. tail' = LastCell
      BY <1>0, <2>2, <3>1, EmptySeq DEF LastCell
    <3> QED
      BY <2>2, <3>2, <3>3 DEF LastCell
  <2> QED
    BY <2>1, <2>2
<1>2. QueueTypeOK'
  <2>1. tail' \in Cell
    BY <1>0 DEF QueueTypeOK, Cell
  <2>2. size' \in Nat
    BY <1>0, <1>1
  <2>3. isclosed' \in BOOLEAN
    BY Zenon DEF QueueTypeOK
  <2> QED
    BY <2>1, <2>2, <2>3 DEF QueueTypeOK, Op, Critical
<1>3. MutualExclusion'
  BY DEF MutualExclusion, QueueTypeOK, Critical
<1>4. Ownership' /\ AllDie'
  BY DEF Ownership, AllDie, Owning, QueueTypeOK
<1>5. NodesAccounted'
  BY DEF NodesAccounted, Linked
<1>6. Links'
  BY <1>0 DEF Links
<1>7. Counted'
  BY <1>0, <1>1 DEF Counted, Critical, QueueTypeOK
<1> QED
  BY <1>2, <1>3, <1>4, <1>5, <1>6, <1>7

\* free(node) takes away a node that only this thread could reach.
LEMMA FreeInv ==
  ASSUME QueueInv, NEW t \in Thread, DequeueFree(t)
  PROVE  QueueInv'
<1> DEFINE n == node[t]
<1> USE DEF QueueInv, DequeueFree, Goto
<1>0. /\ Alive
      /\ n \in Node /\ n # NULL /\ n \in live /\ n \notin Linked
      /\ \A u \in Thread \ {t} : node[u] # n
  BY QueueConstants DEF Alive, AllDie, Ownership, Owning, QueueTypeOK, NodesAccounted
<1>1. QueueTypeOK'
  <2>1. item' \in [Thread -> Item]
    BY <1>0 DEF QueueTypeOK
  <2>2. isclosed' \in BOOLEAN
    BY Zenon DEF QueueTypeOK
  <2> QED
    BY <2>1, <2>2 DEF QueueTypeOK, Op, Critical
<1>2. MutualExclusion'
  BY DEF MutualExclusion, QueueTypeOK, Critical
<1>3. Ownership' /\ AllDie'
  BY DEF Ownership, AllDie, Owning, QueueTypeOK
<1>4. NodesAccounted'
  <2>1. /\ node' = [node EXCEPT ![t] = NULL]
        /\ node \in [Thread -> Node \cup {NULL}]
        /\ live' = live \ {n}
        /\ Linked' = Linked
        /\ \A u \in Thread : node[u] \notin Linked
    BY DEF QueueTypeOK, Linked, NodesAccounted
  <2>2. live' = Linked' \cup ({node'[u] : u \in Thread} \ {NULL})
    BY <1>0, <2>1 DEF NodesAccounted
  <2>3. \A u \in Thread : node'[u] \notin Linked'
    BY <2>1, QueueConstants, NullNotLinked
  <2>4. \A u, v \in Thread : u # v /\ node'[u] = node'[v] => node'[u] = NULL
    BY <2>1 DEF NodesAccounted
  <2>5. \A i, j \in DOMAIN chain' : i # j => chain'[i] # chain'[j]
    BY DEF NodesAccounted
  <2> QED
    BY <2>2, <2>3, <2>4, <2>5 DEF NodesAccounted
<1>5. Links' /\ Counted'
  BY <1>0 DEF Links, Counted, LastCell, QueueTypeOK
<1> QED
  BY <1>1, <1>2, <1>3, <1>4, <1>5

\* Every step of every thread, and stuttering, preserves the invariant.
LEMMA StepInv == QueueInv /\ [QueueNext]_queueVars => QueueInv'
<1> SUFFICES ASSUME QueueInv, [QueueNext]_queueVars PROVE QueueInv'
  OBVIOUS
<1>1. CASE UNCHANGED queueVars
  BY <1>1 DEF queueVars, QueueInv, QueueTypeOK, MutualExclusion, Ownership,
              NodesAccounted, AllDie, Alive, Links, Counted, Linked, LastCell
<1>2. ASSUME NEW t \in Thread, Call(t) \/ Step(t) \/ SpuriousWakeup(t)
      PROVE  QueueInv'
  <2>1. CASE Call(t) \/ SpuriousWakeup(t)
    BY <2>1, MoveInv DEF Call
  <2>2. CASE EnqueueStep(t)
    <3>1. CASE EnqueueLock(t)
      BY <3>1, LockInv DEF EnqueueLock, Op, Critical
    <3>2. CASE EnqueueUnlock(t)
      BY <3>2, UnlockInv DEF EnqueueUnlock
    <3>3. CASE EnqueueBroadcast(t)
      BY <3>3, BroadcastInv DEF EnqueueBroadcast
    <3> QED
      BY <2>2, <3>1, <3>2, <3>3, AllocInv, AllocFailsInv, LinkInv, CountInv
         DEF EnqueueStep
  <2>3. CASE DequeueStep(t)
    <3>1. CASE DequeueLock(t)
      BY <3>1, LockInv DEF DequeueLock, Op, Critical
    <3>2. CASE DequeueUnlock(t)
      BY <3>2, UnlockInv DEF DequeueUnlock
    <3>3. CASE DequeueReturnNull(t)
      BY <3>3, UnlockInv DEF DequeueReturnNull
    <3>4. CASE DequeueBroadcast(t)
      BY <3>4, BroadcastInv DEF DequeueBroadcast
    <3> QED
      BY <2>3, <3>1, <3>2, <3>3, <3>4, MoveInv, WaitInv, UnlinkInv, CountInv,
         FreeInv DEF DequeueStep
  <2>4. CASE CloseStep(t)
    <3>1. CASE CloseLock(t)
      BY <3>1, LockInv DEF CloseLock, Op, Critical
    <3>2. CASE CloseUnlock(t)
      BY <3>2, UnlockInv DEF CloseUnlock
    <3>3. CASE CloseBroadcast(t)
      BY <3>3, BroadcastInv DEF CloseBroadcast
    <3> QED
      BY <2>4, <3>1, <3>2, <3>3, MoveInv DEF CloseStep
  <2> QED
    BY <1>2, <2>1, <2>2, <2>3, <2>4 DEF Step
<1> QED
  BY <1>1, <1>2 DEF QueueNext

\* The invariant makes every access of queue.c an access to an allocated node.
LEMMA InvSafe == QueueInv => MemorySafe
<1> SUFFICES ASSUME QueueInv, NEW t \in Thread
             PROVE  /\ op[t] = "enq_link" => node[t] \in live /\ tail \in live \cup {Header}
                    /\ op[t] = "deq_unlink" => next[Header] \in live
                    /\ op[t] = "deq_free" => node[t] \in live
  BY DEF MemorySafe
<1> USE DEF QueueInv
<1>1. op[t] \in {"enq_link", "deq_free"} => node[t] \in live
  BY DEF Ownership, Owning, NodesAccounted
<1>2. chain \in Seq(Node) /\ Len(chain) \in Nat /\ DOMAIN chain = 1..Len(chain)
  BY LenProperties DEF QueueTypeOK
<1>3. \A i \in 1..Len(chain) : chain[i] \in live
  BY <1>2 DEF NodesAccounted, Linked
<1>4. op[t] = "enq_link" => tail \in live \cup {Header}
  <2> SUFFICES ASSUME op[t] = "enq_link" PROVE tail \in live \cup {Header}
    OBVIOUS
  <2>1. Alive /\ \A u \in Thread : op[u] \notin {"enq_count", "deq_count"}
    BY DEF Alive, AllDie, MutualExclusion, Critical
  <2>2. tail = LastCell
    BY <2>1 DEF Counted
  <2>3. chain # <<>> => chain[Len(chain)] \in live
    BY <1>2, <1>3, EmptySeq
  <2> QED
    BY <2>2, <2>3 DEF LastCell
<1>5. op[t] = "deq_unlink" => next[Header] \in live
  <2> SUFFICES ASSUME op[t] = "deq_unlink" PROVE next[Header] \in live
    OBVIOUS
  <2>1. chain # <<>> /\ next[Header] = chain[1]
    BY DEF Alive, AllDie, Counted, Links
  <2> QED
    BY <1>2, <1>3, <2>1, EmptySeq
<1> QED
  BY <1>1, <1>4, <1>5

\* queue.c keeps its list, its counters, its locking and its ownership of
\* nodes consistent, for any number of threads, nodes and items.
THEOREM QueueInvariant == QueueSpec => []QueueInv
  BY InitInv, StepInv, PTL DEF QueueSpec

\* The fields and locals of queue.c always hold values of their types.
THEOREM QueueTypeCorrect == QueueSpec => []QueueTypeOK
<1>1. QueueInv => QueueTypeOK
  BY DEF QueueInv
<1> QED
  BY <1>1, QueueInvariant, PTL

\* No operation of queue.c touches a freed node, in spite of the dangling
\* header->next and of the self-loop of the last node.
THEOREM QueueMemorySafe == QueueSpec => []MemorySafe
  BY InvSafe, QueueInvariant, PTL

\* No node leaks, is freed twice or is handed to two threads.
THEOREM QueueNodesAccounted == QueueSpec => []NodesAccounted
<1>1. QueueInv => NodesAccounted
  BY DEF QueueInv
<1> QED
  BY <1>1, QueueInvariant, PTL

\* A step that leaves a waiter with something to wake up for leaves a thread
\* on its way to the broadcast.
LEMMA WakeupStep ==
  ASSUME QueueTypeOK, NoLostWakeup, [QueueNext]_queueVars
  PROVE  NoLostWakeup'
<1> USE DEF QueueTypeOK, NoLostWakeup, Waker
<1>1. CASE UNCHANGED queueVars
  BY <1>1 DEF queueVars
<1>2. ASSUME NEW t \in Thread, Call(t) \/ Step(t) \/ SpuriousWakeup(t)
      PROVE  NoLostWakeup'
  <2>1. CASE Call(t) \/ SpuriousWakeup(t)
    BY <2>1 DEF Call, queue_enqueue, queue_dequeue, queue_close, SpuriousWakeup, Goto
  <2>2. CASE EnqueueStep(t)
    <3>1. CASE EnqueueAlloc(t) \/ EnqueueAllocFails(t) \/ EnqueueLock(t) \/ EnqueueLink(t)
      BY <3>1 DEF EnqueueAlloc, EnqueueAllocFails, EnqueueLock, EnqueueLink, Lock, Goto
    <3>2. CASE EnqueueCount(t) \/ EnqueueUnlock(t) \/ EnqueueBroadcast(t)
      BY <3>2 DEF EnqueueCount, EnqueueUnlock, EnqueueBroadcast, Unlock, Broadcast, Goto
    <3> QED
      BY <2>2, <3>1, <3>2 DEF EnqueueStep
  <2>3. CASE DequeueStep(t)
    <3>1. CASE DequeueLock(t) \/ DequeueNonempty(t) \/ DequeueClosed(t) \/ DequeueWait(t)
      BY <3>1 DEF DequeueLock, DequeueNonempty, DequeueClosed, DequeueWait, Lock, Goto
    <3>2. CASE DequeueBroadcast(t) \/ DequeueReturnNull(t) \/ DequeueUnlock(t)
      BY <3>2 DEF DequeueBroadcast, DequeueReturnNull, DequeueUnlock, Unlock, Broadcast, Goto
    <3>3. CASE DequeueUnlink(t) \/ DequeueCount(t) \/ DequeueFree(t)
      BY <3>3 DEF DequeueUnlink, DequeueCount, DequeueFree, Goto
    <3> QED
      BY <2>3, <3>1, <3>2, <3>3 DEF DequeueStep
  <2>4. CASE CloseStep(t)
    BY <2>4 DEF CloseStep, CloseLock, CloseSet, CloseUnlock, CloseBroadcast,
                Lock, Unlock, Broadcast, Goto
  <2> QED
    BY <1>2, <2>1, <2>2, <2>3, <2>4 DEF Step
<1> QED
  BY <1>1, <1>2 DEF QueueNext

\* No wakeup is lost although queue_enqueue and queue_close broadcast after
\* they have released the mutex.
THEOREM QueueNoLostWakeup == QueueSpec => []NoLostWakeup
<1>1. QueueInit => NoLostWakeup
  BY DEF QueueInit, NoLostWakeup
<1>2. QueueTypeOK /\ NoLostWakeup /\ [QueueNext]_queueVars => NoLostWakeup'
  BY WakeupStep
<1> QED
  BY <1>1, <1>2, QueueTypeCorrect, PTL DEF QueueSpec

-----------------------------------------------------------------------------
(* The linked-list queue of queue.c implements the closeable FIFO: every   *)
(* step of every thread is a step of FifoQueue or leaves it unchanged.     *)

\* The items of the FIFO, read off the linked nodes, and each thread's item.
Items == [i \in DOMAIN chain |-> data[chain[i]]]
Val == [t \in Thread |-> IF node[t] # NULL THEN data[node[t]] ELSE item[t]]
PhaseMap == [t \in Thread |-> PhaseOf(op[t])]

\* Once the data pointer is in the node, the enqueuing thread's copy is gone.
ArgumentMoved ==
    \A t \in Thread : op[t] \in {"enq_lock", "enq_link"} => item[t] = NULL

\* Moving one thread moves its phase and nobody else's.
LEMMA PhaseStep ==
  ASSUME QueueTypeOK, NEW t \in Thread, NEW to, op' = [op EXCEPT ![t] = to]
  PROVE  PhaseMap' = [PhaseMap EXCEPT ![t] = PhaseOf(to)]
<1>1. \A u \in Thread : op'[u] = IF u = t THEN to ELSE op[u]
  BY DEF QueueTypeOK
<1> QED
  BY <1>1, ZenonT(20) DEF PhaseMap, PhaseOf

\* Steps that leave the nodes, their data and the locals alone leave the
\* items of the FIFO and the items of the threads alone.
LEMMA SameData ==
  ASSUME UNCHANGED <<data, chain, node, item>>
  PROVE  Items' = Items /\ Val' = Val
BY DEF Items, Val

\* The phases of all groups of statements.
LEMMA Phases ==
  /\ PhaseOf("idle") = "idle" /\ PhaseOf("dead") = "dead"
  /\ \A o \in {"enq_alloc", "enq_lock", "enq_link"} : PhaseOf(o) = "put"
  /\ \A o \in {"deq_lock", "deq_check", "deq_wait", "deq_unlink"} : PhaseOf(o) = "take"
  /\ \A o \in {"cls_lock", "cls_set"} : PhaseOf(o) = "close"
  /\ \A o \in {"enq_count", "enq_unlock", "enq_bcast", "deq_count", "deq_free",
               "deq_unlock", "deq_bcast", "deq_null", "cls_unlock", "cls_bcast"} :
        PhaseOf(o) = "done"
BY DEF PhaseOf

\* Calling an operation is an Invoke of the FIFO.
LEMMA CallRefines ==
  ASSUME QueueInv, NEW t \in Thread, Call(t)
  PROVE  Fifo!Invoke(t)
<1> USE DEF QueueInv
<1>1. /\ UNCHANGED <<data, chain, node, isclosed>>
      /\ op[t] = "idle"
      /\ node[t] = NULL
  BY DEF Call, queue_enqueue, queue_dequeue, queue_close, Goto, Ownership, Owning
<1>2. \/ \E d \in Item : /\ op' = [op EXCEPT ![t] = "enq_alloc"]
                         /\ item' = [item EXCEPT ![t] = d]
      \/ \E o \in {"deq_lock", "cls_lock"} : /\ op' = [op EXCEPT ![t] = o]
                                             /\ item' = [item EXCEPT ![t] = NULL]
  BY DEF Call, queue_enqueue, queue_dequeue, queue_close, Goto
<1>3. PhaseMap[t] = "idle" /\ Items' = Items
  BY <1>1, Phases DEF PhaseMap, Items
<1>4. ASSUME NEW d, item' = [item EXCEPT ![t] = d]
      PROVE  Val' = [Val EXCEPT ![t] = d]
  BY <1>1, <1>4 DEF Val, QueueTypeOK
<1>5. ASSUME NEW d \in Item, op' = [op EXCEPT ![t] = "enq_alloc"],
             item' = [item EXCEPT ![t] = d]
      PROVE  Fifo!Invoke(t)
  <2>0. PhaseMap' = [PhaseMap EXCEPT ![t] = PhaseOf("enq_alloc")]
    BY <1>5, PhaseStep
  <2>1. PhaseMap' = [PhaseMap EXCEPT ![t] = "put"]
    BY <2>0, Phases
  <2>2. Val' = [Val EXCEPT ![t] = d]
    BY <1>4, <1>5
  <2> QED
    BY <1>1, <1>3, <2>1, <2>2 DEF Fifo!Invoke, Items, Val, PhaseMap
<1>6. ASSUME NEW o \in {"deq_lock", "cls_lock"}, op' = [op EXCEPT ![t] = o],
             item' = [item EXCEPT ![t] = NULL]
      PROVE  Fifo!Invoke(t)
  <2>1. PhaseOf(o) \in {"take", "close"}
    BY Phases
  <2>2. PhaseMap' = [PhaseMap EXCEPT ![t] = PhaseOf(o)]
    BY <1>6, PhaseStep
  <2>3. Val' = [Val EXCEPT ![t] = NULL]
    BY <1>4, <1>6
  <2> QED
    BY <1>1, <1>3, <2>1, <2>2, <2>3 DEF Fifo!Invoke, Items, Val, PhaseMap
<1> QED
  BY <1>2, <1>5, <1>6

\* Locking, the loop condition, waiting and waking up, counting, freeing and
\* filling in a fresh node are invisible.
LEMMA SilentMove ==
  ASSUME QueueInv, NEW t \in Thread,
         \/ EnqueueLock(t) \/ EnqueueCount(t) \/ EnqueueUnlock(t)
         \/ DequeueLock(t) \/ DequeueNonempty(t) \/ DequeueWait(t)
         \/ SpuriousWakeup(t) \/ DequeueCount(t)
         \/ CloseLock(t) \/ CloseUnlock(t)
  PROVE  UNCHANGED Fifo!vars
<1> USE DEF QueueInv
<1>1. /\ UNCHANGED <<data, chain, node, item, isclosed>>
      /\ \E to \in Op : /\ op' = [op EXCEPT ![t] = to]
                        /\ PhaseOf(to) = PhaseOf(op[t])
  BY Phases DEF EnqueueLock, EnqueueCount, EnqueueUnlock, DequeueLock, DequeueNonempty,
       DequeueWait, SpuriousWakeup, DequeueCount, CloseLock, CloseUnlock, Lock, Unlock,
       Goto, Op, Critical
<1>2. PhaseMap' = PhaseMap
  BY <1>1, PhaseStep DEF PhaseMap
<1> QED
  BY <1>1, <1>2, SameData DEF Fifo!vars, Items, Val, PhaseMap

\* malloc hands out a node that is not linked, so the items stay what they
\* are; the data pointer moves from the argument into the node.
LEMMA AllocRefines ==
  ASSUME QueueInv, NEW t \in Thread, EnqueueAlloc(t)
  PROVE  UNCHANGED Fifo!vars
<1> USE DEF QueueInv
<1>1. PICK n \in Node \ live :
         /\ data' = [data EXCEPT ![n] = item[t]]
         /\ node' = [node EXCEPT ![t] = n]
  BY DEF EnqueueAlloc
<1>2. /\ op[t] = "enq_alloc" /\ op' = [op EXCEPT ![t] = "enq_lock"]
      /\ item' = [item EXCEPT ![t] = NULL]
      /\ UNCHANGED <<isclosed, chain>>
      /\ node[t] = NULL
  BY DEF EnqueueAlloc, Goto, Ownership, Owning
<1>3. PhaseMap' = PhaseMap
  BY <1>2, PhaseStep, Phases DEF PhaseMap
<1>4. Items' = Items
  <2>1. \A i \in DOMAIN chain : chain[i] \in Node /\ chain[i] # n
    BY <1>1, ElementOfSeq, LenProperties DEF QueueTypeOK, NodesAccounted, Linked
  <2> QED
    BY <1>1, <1>2, <2>1 DEF Items, QueueTypeOK
<1>5. Val' = Val
  <2>1. \A u \in Thread : node[u] # n
    BY <1>1, QueueConstants DEF NodesAccounted
  <2>2. ASSUME NEW u \in Thread PROVE Val'[u] = Val[u]
    BY <1>1, <1>2, <2>1, QueueConstants DEF Val, QueueTypeOK
  <2> QED
    BY <2>2 DEF Val
<1> QED
  BY <1>2, <1>3, <1>4, <1>5 DEF Fifo!vars, Items, Val, PhaseMap

\* Freeing keeps the data pointer of the node as the result of the dequeue.
LEMMA FreeRefines ==
  ASSUME QueueInv, NEW t \in Thread, DequeueFree(t)
  PROVE  UNCHANGED Fifo!vars
<1> USE DEF QueueInv
<1>1. PhaseMap' = PhaseMap
  BY PhaseStep, Phases DEF DequeueFree, Goto, PhaseMap
<1>2. Items' = Items
  BY DEF DequeueFree, Items
<1>3. Val' = Val
  <2>1. node[t] # NULL
    BY DEF Ownership, Owning, DequeueFree, Goto
  <2>2. ASSUME NEW u \in Thread PROVE Val'[u] = Val[u]
    BY <2>1 DEF DequeueFree, Val, QueueTypeOK
  <2> QED
    BY <2>2 DEF Val
<1> QED
  BY <1>1, <1>2, <1>3 DEF Fifo!vars, Items, Val, PhaseMap, DequeueFree

\* Broadcasts are invisible, except that the last one of an enqueue or of a
\* close is its return.
LEMMA BroadcastRefines ==
  ASSUME QueueInv, NEW t \in Thread, NEW from \in Op, NEW to \in Op,
         Broadcast(t, from, to), PhaseOf(from) = "done"
  PROVE  /\ PhaseMap' = [PhaseMap EXCEPT ![t] = PhaseOf(to)]
         /\ PhaseMap[t] = "done"
         /\ Items' = Items /\ Val' = Val /\ isclosed' = isclosed
<1> USE DEF QueueInv
<1>1. Items' = Items /\ Val' = Val /\ isclosed' = isclosed
  BY SameData DEF Broadcast
<1>2. \A u \in Thread : PhaseOf(op'[u]) = IF u = t THEN PhaseOf(to) ELSE PhaseOf(op[u])
  BY Phases DEF Broadcast
<1>3. PhaseMap' = [PhaseMap EXCEPT ![t] = PhaseOf(to)]
  BY <1>2 DEF PhaseMap, PhaseOf
<1>4. PhaseMap[t] = "done"
  BY DEF Broadcast, PhaseMap
<1> QED
  BY <1>1, <1>3, <1>4

\* The last step of an operation is a Return of the FIFO.
LEMMA ReturnRefines ==
  ASSUME QueueInv, NEW t \in Thread,
         \/ EnqueueBroadcast(t) \/ CloseBroadcast(t)
         \/ DequeueReturnNull(t) \/ DequeueUnlock(t)
  PROVE  Fifo!Return(t)
<1>1. /\ PhaseMap' = [PhaseMap EXCEPT ![t] = "idle"]
      /\ PhaseMap[t] = "done"
      /\ Items' = Items /\ Val' = Val /\ isclosed' = isclosed
  <2>1. CASE EnqueueBroadcast(t) \/ CloseBroadcast(t)
    <3>1. PICK from \in {"enq_bcast", "cls_bcast"} : Broadcast(t, from, "idle")
      BY <2>1 DEF EnqueueBroadcast, CloseBroadcast
    <3>2. from \in Op /\ "idle" \in Op /\ PhaseOf(from) = "done" /\ PhaseOf("idle") = "idle"
      BY Phases DEF Op
    <3> QED
      BY <3>1, <3>2, BroadcastRefines
  <2>2. CASE DequeueReturnNull(t) \/ DequeueUnlock(t)
    <3>1. /\ op[t] \in {"deq_null", "deq_unlock"} /\ op' = [op EXCEPT ![t] = "idle"]
          /\ UNCHANGED <<data, chain, node, item, isclosed>>
      BY <2>2 DEF DequeueReturnNull, DequeueUnlock, Unlock, Goto
    <3>2. PhaseMap' = [PhaseMap EXCEPT ![t] = PhaseOf("idle")]
      BY <3>1, PhaseStep DEF QueueInv
    <3>3. PhaseMap[t] = "done" /\ PhaseOf("idle") = "idle"
      BY <3>1, Phases DEF PhaseMap
    <3> QED
      BY <3>1, <3>2, <3>3, SameData
  <2> QED
    BY <2>1, <2>2
<1> QED
  BY <1>1 DEF Fifo!Return, Items, Val, PhaseMap

\* The broadcast of a closed queue before it answers NULL is invisible.
LEMMA LastWakeupRefines ==
  ASSUME QueueInv, NEW t \in Thread, DequeueBroadcast(t)
  PROVE  UNCHANGED Fifo!vars
<1>1. "deq_bcast" \in Op /\ "deq_null" \in Op
  BY DEF Op, Critical
<1>2. /\ PhaseMap' = [PhaseMap EXCEPT ![t] = "done"]
      /\ PhaseMap[t] = "done"
      /\ Items' = Items /\ Val' = Val /\ isclosed' = isclosed
  BY <1>1, BroadcastRefines, Phases DEF DequeueBroadcast
<1> QED
  BY <1>2 DEF Fifo!vars, Items, Val, PhaseMap

\* queue_close takes effect where the flag is set.
LEMMA CloseRefines ==
  ASSUME QueueInv, NEW t \in Thread, CloseSet(t)
  PROVE  Fifo!Close(t)
<1>0. PhaseMap' = [PhaseMap EXCEPT ![t] = PhaseOf("cls_unlock")]
  BY PhaseStep DEF CloseSet, Goto, QueueInv
<1>1. PhaseMap[t] = "close" /\ PhaseOf("cls_unlock") = "done"
  BY Phases DEF CloseSet, Goto, PhaseMap
<1>2. Items' = Items /\ Val' = Val /\ isclosed' = TRUE
  BY SameData DEF CloseSet
<1> QED
  BY <1>0, <1>1, <1>2 DEF Fifo!Close, Items, Val, PhaseMap

\* A failed malloc is a Crash of the FIFO.
LEMMA CrashRefines ==
  ASSUME NEW t \in Thread, EnqueueAllocFails(t)
  PROVE  Fifo!Crash
<1>1. \A u \in Thread : op'[u] = "dead"
  BY DEF EnqueueAllocFails
<1>2. PhaseMap' = [u \in Thread |-> "dead"]
  BY <1>1, Phases DEF PhaseMap, PhaseOf
<1>3. Items' = Items /\ Val' = Val /\ isclosed' = isclosed
  BY SameData DEF EnqueueAllocFails
<1> QED
  BY <1>2, <1>3 DEF Fifo!Crash, Items, Val, PhaseMap

\* Finding the queue closed and empty is the FIFO's TakeNothing.
LEMMA ClosedRefines ==
  ASSUME QueueInv, NEW t \in Thread, DequeueClosed(t)
  PROVE  Fifo!TakeNothing(t)
<1>0. PhaseMap' = [PhaseMap EXCEPT ![t] = PhaseOf("deq_bcast")]
  BY PhaseStep DEF DequeueClosed, Goto, QueueInv
<1>1. PhaseMap[t] = "take" /\ PhaseOf("deq_bcast") = "done"
  BY Phases DEF DequeueClosed, Goto, PhaseMap
<1>2. Items' = Items /\ Val' = Val /\ isclosed' = isclosed /\ isclosed
  BY SameData DEF DequeueClosed
<1>3. Items = <<>>
  <2>1. Alive /\ \A u \in Thread : op[u] \notin {"enq_count", "deq_count"}
    BY DEF QueueInv, DequeueClosed, Goto, Alive, AllDie, MutualExclusion, Critical
  <2>2. Len(chain) = 0 /\ chain \in Seq(Node)
    BY <2>1 DEF QueueInv, Counted, DequeueClosed, QueueTypeOK
  <2>3. chain = <<>>
    BY <2>2, EmptySeq
  <2> QED
    BY <2>3 DEF Items
<1> QED
  BY <1>0, <1>1, <1>2, <1>3 DEF Fifo!TakeNothing, Items, Val, PhaseMap

\* The items of a list of nodes form a sequence as long as the list.
LEMMA ItemsSeq ==
  ASSUME NEW c \in Seq(Node), NEW f \in [Node -> Item]
  PROVE  /\ [i \in DOMAIN c |-> f[c[i]]] \in Seq(Item)
         /\ Len([i \in DOMAIN c |-> f[c[i]]]) = Len(c)
         /\ Len(c) \in Nat
         /\ \A j \in 1..Len(c) : [i \in DOMAIN c |-> f[c[i]]][j] = f[c[j]]
<1>1. Len(c) \in Nat /\ DOMAIN c = 1..Len(c)
  BY LenProperties
<1>2. \A i \in 1..Len(c) : f[c[i]] \in Item
  BY <1>1, ElementOfSeq
<1> QED
  BY <1>1, <1>2

\* Linking the node is the FIFO's Put.
LEMMA LinkRefines ==
  ASSUME QueueInv, ArgumentMoved, NEW t \in Thread, EnqueueLink(t)
  PROVE  Fifo!Put(t)
<1> DEFINE n == node[t]
<1>0. PhaseMap' = [PhaseMap EXCEPT ![t] = PhaseOf("enq_count")]
  BY PhaseStep DEF EnqueueLink, Goto, QueueInv
<1>1. PhaseMap[t] = "put" /\ PhaseOf("enq_count") = "done"
  BY Phases DEF EnqueueLink, Goto, PhaseMap
<1>2. /\ chain' = Append(chain, n) /\ chain \in Seq(Node) /\ n \in Node
      /\ n # NULL /\ Val[t] = data[n] /\ data[n] \in Item
      /\ UNCHANGED <<data, item, isclosed>>
  BY QueueConstants DEF EnqueueLink, Goto, QueueInv, QueueTypeOK, Ownership, Owning, Val
<1>3. Val' = [Val EXCEPT ![t] = NULL]
  BY <1>2 DEF EnqueueLink, Goto, QueueInv, QueueTypeOK, Val, ArgumentMoved
<1>4. QueueTypeOK /\ QueueTypeOK'
  BY LinkInv DEF QueueInv
<1>5. Items' = Append(Items, Val[t])
  <2>1. /\ Items' \in Seq(Item) /\ Len(Items') = Len(chain')
        /\ \A i \in 1..Len(chain') : Items'[i] = data'[chain'[i]]
    BY <1>4, ItemsSeq DEF QueueTypeOK, Items
  <2>2. /\ Items \in Seq(Item) /\ Len(Items) = Len(chain) /\ Len(chain) \in Nat
        /\ \A i \in 1..Len(chain) : Items[i] = data[chain[i]]
    BY <1>4, ItemsSeq DEF QueueTypeOK, Items
  <2>3. /\ Len(chain') = Len(chain) + 1 /\ chain'[Len(chain) + 1] = n
        /\ \A i \in 1..Len(chain) : chain'[i] = chain[i]
    BY <1>2, AppendProperties
  <2>4. /\ Append(Items, data[n]) \in Seq(Item)
        /\ Len(Append(Items, data[n])) = Len(chain) + 1
        /\ Append(Items, data[n])[Len(chain) + 1] = data[n]
        /\ \A i \in 1..Len(chain) : Append(Items, data[n])[i] = Items[i]
    BY <1>2, <2>2, AppendProperties
  <2>5. ASSUME NEW i \in 1..(Len(chain) + 1)
        PROVE  Items'[i] = Append(Items, data[n])[i]
    <3>1. CASE i = Len(chain) + 1
      BY <1>2, <2>1, <2>3, <2>4, <3>1
    <3>2. CASE i \in 1..Len(chain)
      BY <1>2, <2>1, <2>2, <2>3, <2>4, <3>2
    <3> QED
      BY <2>2, <3>1, <3>2
  <2> QED
    BY <1>2, <2>1, <2>3, <2>4, <2>5, SeqEqual
<1> QED
  BY <1>0, <1>1, <1>2, <1>3, <1>5 DEF Fifo!Put, Items, Val, PhaseMap

\* Unlinking the first node is the FIFO's Take.
LEMMA UnlinkRefines ==
  ASSUME QueueInv, NEW t \in Thread, DequeueUnlink(t)
  PROVE  Fifo!Take(t)
<1> DEFINE n == chain[1]
<1>0. PhaseMap' = [PhaseMap EXCEPT ![t] = PhaseOf("deq_count")]
  BY PhaseStep DEF DequeueUnlink, Goto, QueueInv
<1>1. PhaseMap[t] = "take" /\ PhaseOf("deq_count") = "done"
  BY Phases DEF DequeueUnlink, Goto, PhaseMap
<1>2. chain # <<>> /\ next[Header] = n
  BY DEF DequeueUnlink, Goto, QueueInv, AllDie, Alive, Counted, Links
<1>3. /\ chain \in Seq(Node) /\ Len(chain) \in Nat /\ Len(chain) >= 1
      /\ n \in Node /\ n # NULL
      /\ chain' \in Seq(Node) /\ Len(chain') = Len(chain) - 1
      /\ \A i \in 1..(Len(chain) - 1) : chain'[i] = chain[i + 1]
      /\ data \in [Node -> Item]
      /\ UNCHANGED <<data, item, isclosed>>
  BY <1>2, TailFacts, QueueConstants DEF DequeueUnlink, QueueInv, QueueTypeOK
<1>4. Val' = [Val EXCEPT ![t] = data[n]]
  BY <1>2, <1>3 DEF DequeueUnlink, QueueInv, QueueTypeOK, Val
<1>5. /\ Items \in Seq(Item) /\ Len(Items) = Len(chain)
      /\ \A i \in 1..Len(chain) : Items[i] = data[chain[i]]
  BY <1>3, ItemsSeq DEF Items
<1>6. /\ Items' \in Seq(Item) /\ Len(Items') = Len(chain')
      /\ \A i \in 1..Len(chain') : Items'[i] = data[chain'[i]]
  BY <1>3, ItemsSeq DEF Items
<1>7. Items # <<>> /\ Head(Items) = data[n]
  BY <1>3, <1>5
<1>8. Items' = Tail(Items)
  <2>1. /\ Tail(Items) \in Seq(Item) /\ Len(Tail(Items)) = Len(chain) - 1
        /\ \A i \in 1..(Len(chain) - 1) : Tail(Items)[i] = Items[i + 1]
    BY <1>5, <1>7, TailFacts
  <2>2. ASSUME NEW i \in 1..(Len(chain) - 1) PROVE Items'[i] = Tail(Items)[i]
    <3>1. i + 1 \in 1..Len(chain)
      BY <1>3
    <3> QED
      BY <1>3, <1>5, <1>6, <2>1, <3>1
  <2>3. Len(Items') = Len(Tail(Items)) /\ Len(Items') = Len(chain) - 1
    BY <1>3, <1>6, <2>1
  <2>4. \A i \in 1..Len(Items') : Items'[i] = Tail(Items)[i]
    BY <2>2, <2>3
  <2> QED
    BY <1>6, <2>1, <2>3, <2>4, SeqEqual
<1> QED
  BY <1>0, <1>1, <1>3, <1>4, <1>7, <1>8 DEF Fifo!Take, Items, Val, PhaseMap

\* Every step of a thread inside an operation is a step of the FIFO by that
\* thread, the death of the process, or invisible.
LEMMA ThreadStepRefines ==
  ASSUME QueueInv, ArgumentMoved, NEW t \in Thread, Step(t) \/ SpuriousWakeup(t)
  PROVE  \/ Fifo!Put(t) \/ Fifo!Take(t) \/ Fifo!TakeNothing(t)
         \/ Fifo!Close(t) \/ Fifo!Return(t)
         \/ Fifo!Crash \/ UNCHANGED Fifo!vars
<1>1. CASE SpuriousWakeup(t)
  BY <1>1, SilentMove
<1>2. CASE EnqueueStep(t)
  BY <1>2, AllocRefines, CrashRefines, SilentMove, LinkRefines, ReturnRefines
     DEF EnqueueStep
<1>3. CASE DequeueStep(t)
  BY <1>3, SilentMove, ClosedRefines, LastWakeupRefines, ReturnRefines,
     UnlinkRefines, FreeRefines DEF DequeueStep
<1>4. CASE CloseStep(t)
  BY <1>4, SilentMove, CloseRefines, ReturnRefines DEF CloseStep
<1> QED
  BY <1>1, <1>2, <1>3, <1>4 DEF Step

\* Every step of the queue is a step of the FIFO or invisible.
LEMMA StepRefines ==
  ASSUME QueueInv, ArgumentMoved, [QueueNext]_queueVars
  PROVE  [Fifo!Next]_(Fifo!vars)
<1>1. CASE UNCHANGED queueVars
  <2>1. Items' = Items /\ Val' = Val /\ PhaseMap' = PhaseMap
    BY <1>1 DEF queueVars, Items, Val, PhaseMap, PhaseOf
  <2> QED
    BY <1>1, <2>1 DEF queueVars, Fifo!vars, Items, Val, PhaseMap
<1>2. ASSUME NEW t \in Thread, Call(t) \/ Step(t) \/ SpuriousWakeup(t)
      PROVE  \/ Fifo!Invoke(t) \/ Fifo!Put(t) \/ Fifo!Take(t) \/ Fifo!TakeNothing(t)
             \/ Fifo!Close(t) \/ Fifo!Return(t)
             \/ Fifo!Crash \/ UNCHANGED Fifo!vars
  BY <1>2, CallRefines, ThreadStepRefines
<1> QED
  BY <1>1, <1>2 DEF QueueNext, Fifo!Next

\* A thread on its way into the critical section of queue_enqueue keeps no
\* second copy of the data pointer.
LEMMA ArgumentStep ==
  ASSUME QueueTypeOK, ArgumentMoved, [QueueNext]_queueVars
  PROVE  ArgumentMoved'
<1> USE DEF QueueTypeOK, ArgumentMoved
<1>1. CASE UNCHANGED queueVars
  BY <1>1 DEF queueVars
<1>2. ASSUME NEW t \in Thread, Call(t) \/ Step(t) \/ SpuriousWakeup(t)
      PROVE  ArgumentMoved'
  <2>1. CASE Call(t) \/ SpuriousWakeup(t)
    BY <2>1 DEF Call, queue_enqueue, queue_dequeue, queue_close, SpuriousWakeup, Goto
  <2>2. CASE EnqueueStep(t)
    BY <2>2 DEF EnqueueStep, EnqueueAlloc, EnqueueAllocFails, EnqueueLock, EnqueueLink,
                EnqueueCount, EnqueueUnlock, EnqueueBroadcast, Lock, Unlock, Broadcast, Goto
  <2>3. CASE DequeueStep(t)
    BY <2>3 DEF DequeueStep, DequeueLock, DequeueNonempty, DequeueClosed, DequeueWait,
                DequeueBroadcast, DequeueReturnNull, DequeueUnlink, DequeueCount,
                DequeueFree, DequeueUnlock, Lock, Unlock, Broadcast, Goto
  <2>4. CASE CloseStep(t)
    BY <2>4 DEF CloseStep, CloseLock, CloseSet, CloseUnlock, CloseBroadcast,
                Lock, Unlock, Broadcast, Goto
  <2> QED
    BY <1>2, <2>1, <2>2, <2>3, <2>4 DEF Step
<1> QED
  BY <1>1, <1>2 DEF QueueNext

\* queue.c is a closeable FIFO for any number of threads: items come out once,
\* in the order in which their nodes were linked, and a dequeue answers NULL
\* for want of items only when the queue is closed and drained.
THEOREM QueueImplementsFifo == QueueSpec => ImplementsFifo
<1>1. QueueInit => Fifo!Init
  <2> SUFFICES ASSUME QueueInit PROVE Fifo!Init
    OBVIOUS
  <2>1. Items = <<>> /\ Val = [t \in Thread |-> NULL] /\ PhaseMap = [t \in Thread |-> "idle"]
    BY Phases DEF QueueInit, Items, Val, PhaseMap
  <2> QED
    BY <2>1 DEF QueueInit, Fifo!Init, Items, Val, PhaseMap
<1>2. QueueInit => ArgumentMoved
  BY DEF QueueInit, ArgumentMoved
<1>3. QueueTypeOK /\ ArgumentMoved /\ [QueueNext]_queueVars => ArgumentMoved'
  BY ArgumentStep
<1>4. QueueInv /\ ArgumentMoved /\ [QueueNext]_queueVars => [Fifo!Next]_(Fifo!vars)
  BY StepRefines
<1>5. QueueSpec => []ArgumentMoved
  BY <1>2, <1>3, QueueTypeCorrect, PTL DEF QueueSpec
<1> QED
  BY <1>1, <1>4, <1>5, QueueInvariant, PTL DEF QueueSpec, ImplementsFifo, Fifo!Spec
==============================================================================
