----------------------------- MODULE RequestQueue -----------------------------
(***************************************************************************)
(* The queue of M9Lab/M9/queue.c: a linked list behind a sentinel node     *)
(* (que->header), a size, a closed flag, one mutex and one condition       *)
(* variable, used by any number of threads.  Every thread runs the         *)
(* statements of the operation it called one group at a time; op[t] names  *)
(* the group it executes next.  Statements that touch only the thread's    *)
(* own node, or that always run together under the mutex, form one group.  *)
(***************************************************************************)
EXTENDS Naturals, Sequences

CONSTANTS
    Thread,      \* threads that use the queue
    Node,        \* addresses malloc can return for a queue_node_t
    Data,        \* non-null data pointers callers enqueue
    Header,      \* the address of the sentinel que->header
    NULL,        \* the null pointer
    NoThread,    \* "nobody", as owner of the mutex
    AllocFails   \* may malloc return NULL?

ASSUME QueueConstants ==
    /\ Header \notin Node
    /\ NULL \notin Node \cup Data \cup {Header}
    /\ NoThread \notin Thread
    /\ AllocFails \in BOOLEAN

Item == Data \cup {NULL}
Cell == Node \cup {Header}

VARIABLES
    next,      \* the next field of every node and of the sentinel
    data,      \* the data field of every node
    tail,      \* que->tail
    size,      \* que->size
    isclosed,  \* que->isclosed
    live,      \* nodes malloc'ed and not yet freed
    mutex,     \* owner of que->mutex, or NoThread
    op,        \* the group of statements each thread executes next
    node,      \* each thread's local node pointer
    item,      \* each thread's data argument, or the result of its dequeue
    chain      \* history: the linked nodes, oldest first, read by no action

queueVars ==
    <<next, data, tail, size, isclosed, live, mutex, op, node, item, chain>>

\* The groups of statements executed with que->mutex held.
Critical ==
    {"enq_link", "enq_count", "enq_unlock",
     "deq_check", "deq_unlink", "deq_count", "deq_free", "deq_unlock",
     "deq_bcast", "deq_null", "cls_set", "cls_unlock"}

\* The groups in which node[t] points to a node that only thread t can reach.
Owning == {"enq_lock", "enq_link", "deq_count", "deq_free"}

Op == Critical \cup {"idle", "dead", "enq_alloc", "enq_lock", "enq_bcast",
                     "deq_lock", "deq_wait", "cls_lock", "cls_bcast"}

QueueInit ==
    /\ next = [c \in Cell |-> NULL]
    /\ data = [n \in Node |-> NULL]
    /\ tail = Header
    /\ size = 0
    /\ isclosed = FALSE
    /\ live = {}
    /\ mutex = NoThread
    /\ op = [t \in Thread |-> "idle"]
    /\ node = [t \in Thread |-> NULL]
    /\ item = [t \in Thread |-> NULL]
    /\ chain = <<>>

------------------------------------------------------------------------------
(* Moving between groups, and the pthread primitives                       *)

Goto(t, from, to) == op[t] = from /\ op' = [op EXCEPT ![t] = to]

Lock(t, from, to) ==
    /\ Goto(t, from, to)
    /\ mutex = NoThread
    /\ mutex' = t
    /\ UNCHANGED <<next, data, tail, size, isclosed, live, node, item, chain>>

Unlock(t, from, to) ==
    /\ Goto(t, from, to)
    /\ mutex' = NoThread
    /\ UNCHANGED <<next, data, tail, size, isclosed, live, node, item, chain>>

\* pthread_cond_broadcast: every waiter goes back to acquire the mutex.
Broadcast(t, from, to) ==
    /\ op[t] = from
    /\ op' = [u \in Thread |-> IF u = t THEN to
                               ELSE IF op[u] = "deq_wait" THEN "deq_lock"
                               ELSE op[u]]
    /\ UNCHANGED <<next, data, tail, size, isclosed, live, mutex, node, item,
                   chain>>

------------------------------------------------------------------------------
(* queue_enqueue(que, d)                                                   *)

queue_enqueue(t, d) ==
    /\ Goto(t, "idle", "enq_alloc")
    /\ item' = [item EXCEPT ![t] = d]
    /\ UNCHANGED <<next, data, tail, size, isclosed, live, mutex, node, chain>>

EnqueueAlloc(t) ==
    /\ Goto(t, "enq_alloc", "enq_lock")
    /\ \E n \in Node \ live :
          /\ live' = live \cup {n}
          /\ data' = [data EXCEPT ![n] = item[t]]
          /\ next' = [next EXCEPT ![n] = NULL]
          /\ node' = [node EXCEPT ![t] = n]
    /\ item' = [item EXCEPT ![t] = NULL]
    /\ UNCHANGED <<tail, size, isclosed, mutex, chain>>

\* malloc's result is used unchecked: a NULL node kills the process.
EnqueueAllocFails(t) ==
    /\ AllocFails
    /\ op[t] = "enq_alloc"
    /\ op' = [u \in Thread |-> "dead"]
    /\ UNCHANGED <<next, data, tail, size, isclosed, live, mutex, node, item,
                   chain>>

EnqueueLock(t) == Lock(t, "enq_lock", "enq_link")

\* Mutant: the old tail is not linked to the new node.
EnqueueLinkNewTailOnly(t) ==
    /\ Goto(t, "enq_link", "enq_count")
    /\ LET n == node[t]
       IN  /\ next' = [next EXCEPT ![IF size = 0 THEN Header ELSE n] = n]
           /\ tail' = n
           /\ chain' = Append(chain, n)
    /\ node' = [node EXCEPT ![t] = NULL]
    /\ UNCHANGED <<data, size, isclosed, live, mutex, item>>

\* The node is linked behind the old tail and becomes the tail; then the
\* branch on size writes header->next or, when the queue is not empty, the
\* next field of the NEW tail: the node then points to itself.
EnqueueLink(t) ==
    /\ Goto(t, "enq_link", "enq_count")
    /\ LET n == node[t]
       IN  /\ next' = [next EXCEPT ![tail] = n,
                                   ![IF size = 0 THEN Header ELSE n] = n]
           /\ tail' = n
           /\ chain' = Append(chain, n)
    /\ node' = [node EXCEPT ![t] = NULL]
    /\ UNCHANGED <<data, size, isclosed, live, mutex, item>>

EnqueueCount(t) ==
    /\ Goto(t, "enq_count", "enq_unlock")
    /\ size' = size + 1
    /\ UNCHANGED <<next, data, tail, isclosed, live, mutex, node, item, chain>>

\* Mutant: queue_enqueue without its broadcast.
EnqueueUnlockSilently(t) == Unlock(t, "enq_unlock", "idle")

EnqueueUnlock(t) == Unlock(t, "enq_unlock", "enq_bcast")

EnqueueBroadcast(t) == Broadcast(t, "enq_bcast", "idle")

------------------------------------------------------------------------------
(* queue_dequeue(que)                                                      *)

queue_dequeue(t) ==
    /\ Goto(t, "idle", "deq_lock")
    /\ item' = [item EXCEPT ![t] = NULL]
    /\ UNCHANGED <<next, data, tail, size, isclosed, live, mutex, node, chain>>

\* The first acquisition, and the one inside pthread_cond_wait.
DequeueLock(t) == Lock(t, "deq_lock", "deq_check")

\* The loop condition, with queue_isclose inlined.
DequeueNonempty(t) ==
    /\ Goto(t, "deq_check", "deq_unlink")
    /\ size # 0
    /\ UNCHANGED <<next, data, tail, size, isclosed, live, mutex, node, item,
                   chain>>

\* Mutant: the size is decremented before the queue is found empty.
DequeueClosedCounts(t) ==
    /\ Goto(t, "deq_check", "deq_bcast")
    /\ size = 0
    /\ isclosed
    /\ size' = size - 1
    /\ UNCHANGED <<next, data, tail, isclosed, live, mutex, node, item, chain>>

\* Mutant: a closed queue answers NULL although it still has items.
DequeueClosedFirst(t) ==
    /\ Goto(t, "deq_check", "deq_bcast")
    /\ isclosed
    /\ UNCHANGED <<next, data, tail, size, isclosed, live, mutex, node, item,
                   chain>>

DequeueClosed(t) ==
    /\ Goto(t, "deq_check", "deq_bcast")
    /\ size = 0
    /\ isclosed
    /\ UNCHANGED <<next, data, tail, size, isclosed, live, mutex, node, item,
                   chain>>

\* pthread_cond_wait releases the mutex and blocks in one step.
DequeueWait(t) ==
    /\ Goto(t, "deq_check", "deq_wait")
    /\ size = 0
    /\ ~isclosed
    /\ mutex' = NoThread
    /\ UNCHANGED <<next, data, tail, size, isclosed, live, node, item, chain>>

\* pthread_cond_wait may return although nobody signalled.
SpuriousWakeup(t) ==
    /\ Goto(t, "deq_wait", "deq_lock")
    /\ UNCHANGED <<next, data, tail, size, isclosed, live, mutex, node, item,
                   chain>>

DequeueBroadcast(t) == Broadcast(t, "deq_bcast", "deq_null")

DequeueReturnNull(t) == Unlock(t, "deq_null", "idle")

DequeueUnlink(t) ==
    /\ Goto(t, "deq_unlink", "deq_count")
    /\ LET n == next[Header]
       IN  /\ node' = [node EXCEPT ![t] = n]
           /\ next' = [next EXCEPT ![Header] = next[n]]
    /\ chain' = Tail(chain)
    /\ UNCHANGED <<data, tail, size, isclosed, live, mutex, item>>

\* Mutant: tail is not reset when the last node is removed.
DequeueCountKeepsTail(t) ==
    /\ Goto(t, "deq_count", "deq_free")
    /\ size' = size - 1
    /\ UNCHANGED <<next, data, tail, isclosed, live, mutex, node, item, chain>>

DequeueCount(t) ==
    /\ Goto(t, "deq_count", "deq_free")
    /\ size' = size - 1
    /\ tail' = IF size = 1 THEN Header ELSE tail
    /\ UNCHANGED <<next, data, isclosed, live, mutex, node, item, chain>>

\* Mutant: the removed node is not freed.
DequeueFreeLeaks(t) ==
    /\ Goto(t, "deq_free", "deq_unlock")
    /\ item' = [item EXCEPT ![t] = data[node[t]]]
    /\ node' = [node EXCEPT ![t] = NULL]
    /\ UNCHANGED <<next, data, tail, size, isclosed, live, mutex, chain>>

DequeueFree(t) ==
    /\ Goto(t, "deq_free", "deq_unlock")
    /\ item' = [item EXCEPT ![t] = data[node[t]]]
    /\ live' = live \ {node[t]}
    /\ node' = [node EXCEPT ![t] = NULL]
    /\ UNCHANGED <<next, data, tail, size, isclosed, mutex, chain>>

DequeueUnlock(t) == Unlock(t, "deq_unlock", "idle")

------------------------------------------------------------------------------
(* queue_close(que)                                                        *)

queue_close(t) ==
    /\ Goto(t, "idle", "cls_lock")
    /\ item' = [item EXCEPT ![t] = NULL]
    /\ UNCHANGED <<next, data, tail, size, isclosed, live, mutex, node, chain>>

CloseLock(t) == Lock(t, "cls_lock", "cls_set")

CloseSet(t) ==
    /\ Goto(t, "cls_set", "cls_unlock")
    /\ isclosed' = TRUE
    /\ UNCHANGED <<next, data, tail, size, live, mutex, node, item, chain>>

\* Mutant: queue_close without its broadcast.
CloseUnlockSilently(t) == Unlock(t, "cls_unlock", "idle")

CloseUnlock(t) == Unlock(t, "cls_unlock", "cls_bcast")

CloseBroadcast(t) == Broadcast(t, "cls_bcast", "idle")

------------------------------------------------------------------------------
(* One step of a thread inside an operation, and the whole system          *)

EnqueueStep(t) ==
    \/ EnqueueAlloc(t) \/ EnqueueAllocFails(t) \/ EnqueueLock(t)
    \/ EnqueueLink(t) \/ EnqueueCount(t) \/ EnqueueUnlock(t)
    \/ EnqueueBroadcast(t)

DequeueStep(t) ==
    \/ DequeueLock(t) \/ DequeueNonempty(t) \/ DequeueClosed(t)
    \/ DequeueWait(t) \/ DequeueBroadcast(t) \/ DequeueReturnNull(t)
    \/ DequeueUnlink(t) \/ DequeueCount(t) \/ DequeueFree(t)
    \/ DequeueUnlock(t)

CloseStep(t) ==
    CloseLock(t) \/ CloseSet(t) \/ CloseUnlock(t) \/ CloseBroadcast(t)

Step(t) == EnqueueStep(t) \/ DequeueStep(t) \/ CloseStep(t)

Call(t) ==
    \/ \E d \in Item : queue_enqueue(t, d)
    \/ queue_dequeue(t)
    \/ queue_close(t)

QueueNext == \E t \in Thread : Call(t) \/ Step(t) \/ SpuriousWakeup(t)

QueueSpec == QueueInit /\ [][QueueNext]_queueVars

------------------------------------------------------------------------------
(* Properties                                                              *)

\* Every field and local of queue.c holds a value of its type.
QueueTypeOK ==
    /\ next \in [Cell -> Node \cup {NULL}]
    /\ data \in [Node -> Item]
    /\ tail \in Cell
    /\ size \in Nat
    /\ isclosed \in BOOLEAN
    /\ live \in SUBSET Node
    /\ mutex \in Thread \cup {NoThread}
    /\ op \in [Thread -> Op]
    /\ node \in [Thread -> Node \cup {NULL}]
    /\ item \in [Thread -> Item]
    /\ chain \in Seq(Node)

Linked == {chain[i] : i \in DOMAIN chain}

\* No statement of queue_enqueue or queue_dequeue reads, writes or frees a
\* node that has been freed, although the last node of a list points to
\* itself and header->next still holds the address of a freed node whenever
\* such a list has been emptied.
MemorySafe ==
    \A t \in Thread :
        /\ op[t] = "enq_link" =>
              /\ node[t] \in live
              /\ tail \in live \cup {Header}
        /\ op[t] = "deq_unlink" => next[Header] \in live
        /\ op[t] = "deq_free" => node[t] \in live

\* Every allocated node is linked in the list or in the hands of exactly one
\* thread, and of no thread if it is linked: nothing leaks, nothing is freed
\* twice, and no node is handed to two dequeuers.
NodesAccounted ==
    /\ live = Linked \cup ({node[t] : t \in Thread} \ {NULL})
    /\ \A t \in Thread : node[t] \notin Linked
    /\ \A t, u \in Thread : t # u /\ node[t] = node[u] => node[t] = NULL
    /\ \A i, j \in DOMAIN chain : i # j => chain[i] # chain[j]

\* The inductive invariant behind the two properties above.  The mutex
\* protects its critical sections; a thread owns a node exactly in the groups
\* Owning; the links, tail and size describe the list, up to the one change
\* that the thread between two groups of a critical section still has to make.
MutualExclusion == \A t \in Thread : op[t] \in Critical => mutex = t

Ownership ==
    \A t \in Thread :
        /\ op[t] \in Owning => node[t] # NULL
        /\ op[t] \notin Owning \cup {"dead"} => node[t] = NULL

LastCell == IF chain = <<>> THEN Header ELSE chain[Len(chain)]

Links ==
    /\ \A i \in 1..Len(chain) : i < Len(chain) => next[chain[i]] = chain[i + 1]
    /\ chain # <<>> => next[Header] = chain[1]

Counted ==
    /\ \A t \in Thread : op[t] = "deq_unlink" => chain # <<>>
    /\ \A t \in Thread : op[t] = "enq_count" =>
          size + 1 = Len(chain) /\ tail = LastCell
    /\ \A t \in Thread : op[t] = "deq_count" =>
          size = Len(chain) + 1 /\ tail = IF chain = <<>> THEN node[t] ELSE LastCell
    /\ (\A t \in Thread : op[t] \notin {"enq_count", "deq_count"}) =>
          size = Len(chain) /\ tail = LastCell

Alive == \A t \in Thread : op[t] # "dead"

AllDie == (\E t \in Thread : op[t] = "dead") => \A t \in Thread : op[t] = "dead"

QueueInv ==
    /\ QueueTypeOK
    /\ MutualExclusion
    /\ Ownership
    /\ NodesAccounted
    /\ AllDie
    /\ Alive => Links /\ Counted

\* A consumer blocked in pthread_cond_wait although there is an item or the
\* queue is closed will be woken: a thread is between its change of the queue
\* and its broadcast, which queue.c makes after releasing the mutex.
Waker == {"enq_unlock", "enq_bcast", "cls_unlock", "cls_bcast"}

NoLostWakeup ==
    (\E t \in Thread : op[t] = "deq_wait") /\ (size > 0 \/ isclosed)
        => \E u \in Thread : op[u] \in Waker

\* The concrete queue implements the closeable FIFO: an enqueue takes effect
\* where the node is linked, a dequeue where it is unlinked or where the
\* queue is found closed and empty, queue_close where the flag is set.
PhaseOf(o) ==
    CASE o \in {"enq_alloc", "enq_lock", "enq_link"} -> "put"
      [] o \in {"deq_lock", "deq_check", "deq_wait", "deq_unlink"} -> "take"
      [] o \in {"cls_lock", "cls_set"} -> "close"
      [] o \in {"idle", "dead"} -> o
      [] OTHER -> "done"

Fifo == INSTANCE FifoQueue WITH
    items  <- [i \in DOMAIN chain |-> data[chain[i]]],
    closed <- isclosed,
    phase  <- [t \in Thread |-> PhaseOf(op[t])],
    val    <- [t \in Thread |-> IF node[t] # NULL THEN data[node[t]]
                                ELSE item[t]]

ImplementsFifo == Fifo!Spec
==============================================================================
