------------------------------ MODULE FifoQueue ------------------------------
(***************************************************************************)
(* What the request queue of M9Lab/M9 promises its callers: a FIFO of      *)
(* items that can be closed, each operation taking effect at one instant   *)
(* between its call and its return.  A take on an empty queue blocks until *)
(* an item or the closing arrives; NULL is the answer of a closed and      *)
(* drained queue.                                                          *)
(***************************************************************************)
EXTENDS Sequences

CONSTANTS
    Thread,   \* the threads that call the queue
    Item,     \* what can be enqueued, NULL included
    NULL      \* the null pointer

VARIABLES
    items,    \* the items in the queue, oldest first
    closed,   \* has the queue been closed?
    phase,    \* how far each thread is with the operation it called
    val       \* argument of a put still to take effect, result of a take

vars == <<items, closed, phase, val>>

Phase == {"idle", "put", "take", "close", "done", "dead"}

Init ==
    /\ items = <<>>
    /\ closed = FALSE
    /\ phase = [t \in Thread |-> "idle"]
    /\ val = [t \in Thread |-> NULL]

Invoke(t) ==
    /\ phase[t] = "idle"
    /\ \/ \E d \in Item : /\ phase' = [phase EXCEPT ![t] = "put"]
                          /\ val' = [val EXCEPT ![t] = d]
       \/ \E p \in {"take", "close"} : /\ phase' = [phase EXCEPT ![t] = p]
                                       /\ val' = [val EXCEPT ![t] = NULL]
    /\ UNCHANGED <<items, closed>>

Put(t) ==
    /\ phase[t] = "put"
    /\ items' = Append(items, val[t])
    /\ val' = [val EXCEPT ![t] = NULL]
    /\ phase' = [phase EXCEPT ![t] = "done"]
    /\ UNCHANGED closed

Take(t) ==
    /\ phase[t] = "take"
    /\ items # <<>>
    /\ items' = Tail(items)
    /\ val' = [val EXCEPT ![t] = Head(items)]
    /\ phase' = [phase EXCEPT ![t] = "done"]
    /\ UNCHANGED closed

\* The only way to learn that there is nothing more to take.
TakeNothing(t) ==
    /\ phase[t] = "take"
    /\ items = <<>>
    /\ closed
    /\ phase' = [phase EXCEPT ![t] = "done"]
    /\ UNCHANGED <<items, closed, val>>

Close(t) ==
    /\ phase[t] = "close"
    /\ closed' = TRUE
    /\ phase' = [phase EXCEPT ![t] = "done"]
    /\ UNCHANGED <<items, val>>

Return(t) ==
    /\ phase[t] = "done"
    /\ phase' = [phase EXCEPT ![t] = "idle"]
    /\ UNCHANGED <<items, closed, val>>

\* The process may die; then nothing happens any more.
Crash ==
    /\ phase' = [t \in Thread |-> "dead"]
    /\ UNCHANGED <<items, closed, val>>

Next ==
    \/ \E t \in Thread : \/ Invoke(t) \/ Put(t) \/ Take(t) \/ TakeNothing(t)
                         \/ Close(t) \/ Return(t)
    \/ Crash

Spec == Init /\ [][Next]_vars
==============================================================================
