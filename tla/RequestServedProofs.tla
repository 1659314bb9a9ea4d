------------------------- MODULE RequestServedProofs -------------------------
(***************************************************************************)
(* What becomes of the requests of M9Lab/M9: each is in one place at a     *)
(* time, runs once, and is freed before the queue is, for any number of    *)
(* workers, requests and nodes.  The queue is used through what            *)
(* RequestQueueProofs proves of it: its steps are those of the FIFO,       *)
(* so the arguments here are about Items, Val and PhaseMap and never about *)
(* links, locks or nodes.                                                  *)
(***************************************************************************)
EXTENDS RequestServerProofs, FiniteSetTheorems

\* What is known of the queue inside the server.
BaseInv == ServerInv /\ ArgumentMoved

\* What main and the workers are doing with the queue.  Main puts until it
\* closes, and holds a request only on its way into the queue; a worker only
\* takes, and holds nothing while it waits for an answer.
Roles ==
    /\ PhaseMap[Main] \in {"idle", "put", "close", "done", "dead"}
    /\ PhaseMap[Main] = "put" => mpc = "submit"
    /\ PhaseMap[Main] = "close" => mpc = "join"
    /\ PhaseMap[Main] = "dead" => mpc \in {"spawn", "submit"}
    /\ isclosed => mpc \in {"join", "destroy", "done"}
    /\ PhaseMap[Main] \notin {"put", "dead"} => Val[Main] = NULL
    /\ mpc \in {"join", "destroy", "done"} => count = NumRequests + 1
    /\ mpc \in {"destroy", "done"} => PhaseMap[Main] = "idle"
    /\ \A w \in Worker :
          /\ PhaseMap[w] \in {"idle", "take", "done", "dead"}
          /\ PhaseMap[w] = "take" \/ wpc[w] \in {"unborn", "exited"} => Val[w] = NULL

\* Thread t has request r in hand; a worker that is back at the top of its
\* loop has freed the request its variable still points to.
Holds(t, r) == Val[t] = r /\ (t \in Worker => wpc[t] # "loop")

InList(r) == \E i \in 1..Len(Items) : Items[i] = r

\* No request is in two places.
Apart ==
    /\ \A t, u \in Thread, r \in Request : Holds(t, r) /\ Holds(u, r) => t = u
    /\ \A i, j \in 1..Len(Items) : Items[i] = Items[j] /\ Items[i] # NULL => i = j
    /\ \A t \in Thread, r \in Request : Holds(t, r) => ~InList(r)

\* Where request r is tells how far it has been served.
Kept(r) ==
    /\ rstate[r] \in {"live", "used"} => InList(r) \/ \E t \in Thread : Holds(t, r)
    /\ InList(r) \/ Holds(Main, r) => rstate[r] = "live" /\ runs[r] = 0
    /\ \A w \in Worker : Holds(w, r) =>
          \/ wpc[w] = "called" /\ rstate[r] = "live" /\ runs[r] = 0
          \/ wpc[w] \in {"task", "logging", "logged"} /\ rstate[r] = "live" /\ runs[r] = 1
          \/ wpc[w] = "ran" /\ rstate[r] = "used" /\ runs[r] = 1
    /\ rstate[r] = "freed" => runs[r] = 1
    /\ rstate[r] \in {"unborn", "failed"} => runs[r] = 0
    /\ rstate[r] = "unborn" <=> r >= count

PlaceInv == Roles /\ Apart /\ \A r \in Request : Kept(r)

------------------------------------------------------------------------------
(* The steps of the server as steps of a FIFO                              *)

\* The FIFO's actions, in terms of Items, Val and PhaseMap.
Still == Items' = Items /\ Val' = Val /\ PhaseMap' = PhaseMap /\ isclosed' = isclosed

Calls(t, p, d) ==
    /\ PhaseMap[t] = "idle"
    /\ PhaseMap' = [PhaseMap EXCEPT ![t] = p]
    /\ Val' = [Val EXCEPT ![t] = d]
    /\ Items' = Items /\ isclosed' = isclosed

Puts(t) ==
    /\ PhaseMap[t] = "put"
    /\ PhaseMap' = [PhaseMap EXCEPT ![t] = "done"]
    /\ Items' = Append(Items, Val[t])
    /\ Val' = [Val EXCEPT ![t] = NULL]
    /\ isclosed' = isclosed

Takes(t) ==
    /\ PhaseMap[t] = "take"
    /\ PhaseMap' = [PhaseMap EXCEPT ![t] = "done"]
    /\ Items # <<>>
    /\ Items' = Tail(Items)
    /\ Val' = [Val EXCEPT ![t] = Head(Items)]
    /\ isclosed' = isclosed

TakesNothing(t) ==
    /\ PhaseMap[t] = "take"
    /\ PhaseMap' = [PhaseMap EXCEPT ![t] = "done"]
    /\ Items = <<>> /\ isclosed
    /\ Items' = Items /\ Val' = Val /\ isclosed' = isclosed

Closes(t) ==
    /\ PhaseMap[t] = "close"
    /\ PhaseMap' = [PhaseMap EXCEPT ![t] = "done"]
    /\ Items' = Items /\ Val' = Val /\ isclosed' = TRUE

Returns(t) ==
    /\ PhaseMap[t] = "done"
    /\ PhaseMap' = [PhaseMap EXCEPT ![t] = "idle"]
    /\ Items' = Items /\ Val' = Val /\ isclosed' = isclosed

AllDead ==
    /\ PhaseMap' = [t \in Thread |-> "dead"]
    /\ Items' = Items /\ Val' = Val /\ isclosed' = isclosed

Moves(t) ==
    \/ Still \/ Puts(t) \/ Takes(t) \/ TakesNothing(t) \/ Closes(t) \/ Returns(t) \/ AllDead

\* A thread inside an operation takes a step of the FIFO.
LEMMA StepMoves ==
  ASSUME BaseInv, NEW t \in Thread, Step(t) \/ SpuriousWakeup(t)
  PROVE  Moves(t)
<1>1. \/ Fifo!Put(t) \/ Fifo!Take(t) \/ Fifo!TakeNothing(t) \/ Fifo!Close(t)
      \/ Fifo!Return(t) \/ Fifo!Crash \/ UNCHANGED Fifo!vars
  BY ThreadStepRefines DEF BaseInv, ServerInv
<1>2. CASE Fifo!Put(t)
  BY <1>2 DEF Fifo!Put, Moves, Puts, Items, Val, PhaseMap
<1>3. CASE Fifo!Take(t)
  BY <1>3 DEF Fifo!Take, Moves, Takes, Items, Val, PhaseMap
<1>4. CASE Fifo!TakeNothing(t)
  BY <1>4 DEF Fifo!TakeNothing, Moves, TakesNothing, Items, Val, PhaseMap
<1>5. CASE Fifo!Close(t)
  BY <1>5 DEF Fifo!Close, Moves, Closes, Items, Val, PhaseMap
<1>6. CASE Fifo!Return(t)
  BY <1>6 DEF Fifo!Return, Moves, Returns, Items, Val, PhaseMap
<1>7. CASE Fifo!Crash
  BY <1>7 DEF Fifo!Crash, Moves, AllDead, Items, Val, PhaseMap
<1>8. CASE UNCHANGED Fifo!vars
  BY <1>8 DEF Fifo!vars, Moves, Still, Items, Val, PhaseMap
<1> QED
  BY <1>1, <1>2, <1>3, <1>4, <1>5, <1>6, <1>7, <1>8

\* The types of the FIFO's view, and what it shows of an idle thread.
LEMMA ViewTypes ==
  ASSUME BaseInv
  PROVE  /\ Items \in Seq(Request \cup {NULL}) /\ Len(Items) \in Nat
         /\ \A i \in 1..Len(Items) : Items[i] \in Request \cup {NULL}
         /\ Val \in [Thread -> Request \cup {NULL}]
         /\ PhaseMap \in [Thread -> {"idle", "put", "take", "close", "done", "dead"}]
         /\ NULL \notin Request
<1>1. QueueTypeOK /\ Item = Request \cup {NULL} /\ NULL \notin Request
  BY Threads, QueueConstants DEF BaseInv, ServerInv, QueueInv, Item
<1>2. Items \in Seq(Request \cup {NULL}) /\ Len(Items) \in Nat
  BY <1>1, ItemsSeq DEF QueueTypeOK, Items
<1>3. \A i \in 1..Len(Items) : Items[i] \in Request \cup {NULL}
  BY <1>2, ElementOfSeq
<1>4. Val \in [Thread -> Request \cup {NULL}]
  BY <1>1 DEF QueueTypeOK, Val
<1>5. \A o \in Op : PhaseOf(o) \in {"idle", "put", "take", "close", "done", "dead"}
  BY Phases DEF Op, Critical
<1>6. PhaseMap \in [Thread -> {"idle", "put", "take", "close", "done", "dead"}]
  BY <1>1, <1>5 DEF QueueTypeOK, PhaseMap
<1> QED
  BY <1>1, <1>2, <1>3, <1>4, <1>6

\* A thread outside the queue's code shows the FIFO what it last took.
LEMMA IdleView ==
  ASSUME BaseInv, NEW t \in Thread, op[t] = "idle"
  PROVE  PhaseMap[t] = "idle" /\ Val[t] = item[t]
<1>1. node[t] = NULL
  BY DEF BaseInv, ServerInv, QueueInv, Ownership, Owning
<1> QED
  BY <1>1, Phases DEF PhaseMap, Val

\* Only a thread inside an operation is in one of the FIFO's phases.
LEMMA BusyView ==
  ASSUME BaseInv, NEW t \in Thread
  PROVE  PhaseMap[t] \in {"put", "take", "close", "done"} <=> op[t] \notin {"idle", "dead"}
<1>1. op[t] \in Op
  BY DEF BaseInv, ServerInv, QueueInv, QueueTypeOK
<1>2. PhaseOf(op[t]) \in {"put", "take", "close", "done"} <=> op[t] \notin {"idle", "dead"}
  BY <1>1, Phases DEF Op, Critical
<1> QED
  BY <1>2 DEF PhaseMap

\* The calls that main and the workers make.
LEMMA CallMoves ==
  ASSUME BaseInv, NEW t \in Thread
  PROVE  /\ \A d : queue_enqueue(t, d) => Calls(t, "put", d)
         /\ queue_dequeue(t) => Calls(t, "take", NULL)
         /\ queue_close(t) => Calls(t, "close", NULL)
<1>1. ASSUME NEW o \in {"enq_alloc", "deq_lock", "cls_lock"}, NEW d,
             op[t] = "idle", op' = [op EXCEPT ![t] = o], item' = [item EXCEPT ![t] = d],
             UNCHANGED <<data, chain, node, isclosed>>
      PROVE  Calls(t, PhaseOf(o), d)
  <2>1. PhaseMap[t] = "idle" /\ PhaseMap' = [PhaseMap EXCEPT ![t] = PhaseOf(o)]
    BY <1>1, IdleView, PhaseStep DEF BaseInv, ServerInv, QueueInv
  <2>2. node[t] = NULL
    BY <1>1 DEF BaseInv, ServerInv, QueueInv, Ownership, Owning
  <2>3. Val' = [Val EXCEPT ![t] = d]
    BY <1>1, <2>2 DEF Val, BaseInv, ServerInv, QueueInv, QueueTypeOK
  <2>4. Items' = Items
    BY <1>1 DEF Items
  <2> QED
    BY <1>1, <2>1, <2>3, <2>4 DEF Calls
<1>2. ASSUME NEW d, queue_enqueue(t, d) PROVE Calls(t, "put", d)
  BY <1>1, <1>2, Phases DEF queue_enqueue, Goto
<1>3. ASSUME queue_dequeue(t) PROVE Calls(t, "take", NULL)
  BY <1>1, <1>3, Phases DEF queue_dequeue, Goto
<1>4. ASSUME queue_close(t) PROVE Calls(t, "close", NULL)
  BY <1>1, <1>4, Phases DEF queue_close, Goto
<1> QED
  BY <1>2, <1>3, <1>4

\* Steps that leave the queue alone leave the FIFO alone; the death of the
\* process leaves its contents alone.
LEMMA QuietMoves ==
  /\ UNCHANGED queueVars => Still
  /\ SpawnFails => AllDead
<1>1. ASSUME UNCHANGED queueVars PROVE Still
  BY <1>1 DEF queueVars, Still, Items, Val, PhaseMap, PhaseOf
<1>2. ASSUME SpawnFails PROVE AllDead
  <2>1. Items' = Items /\ Val' = Val /\ isclosed' = isclosed
    BY <1>2 DEF SpawnFails, Items, Val
  <2>2. PhaseMap' = [t \in Thread |-> "dead"]
    BY <1>2, Phases DEF SpawnFails, Die, PhaseMap, PhaseOf
  <2> QED
    BY <2>1, <2>2 DEF AllDead
<1> QED
  BY <1>1, <1>2

\* The process dies inside the queue only when queue_enqueue has no node.
LEMMA DeathByAlloc ==
  ASSUME BaseInv, NEW t \in Thread, Step(t) \/ SpuriousWakeup(t), PhaseMap'[t] = "dead"
  PROVE  PhaseMap[t] = "put"
<1>0. op \in [Thread -> Op]
  BY DEF BaseInv, ServerInv, QueueInv, QueueTypeOK
<1>1. PhaseOf(op'[t]) = "dead" /\ PhaseMap[t] = PhaseOf(op[t])
  BY DEF PhaseMap, PhaseOf
<1>2. CASE EnqueueAllocFails(t)
  BY <1>1, <1>2, Phases DEF EnqueueAllocFails
<1>3. CASE ~EnqueueAllocFails(t)
  <2>1. CASE EnqueueStep(t)
    BY <1>0, <1>1, <1>3, <2>1, Phases
       DEF EnqueueStep, EnqueueAlloc, EnqueueLock, EnqueueLink, EnqueueCount,
           EnqueueUnlock, EnqueueBroadcast, Lock, Unlock, Broadcast, Goto
  <2>2. CASE DequeueStep(t) \/ SpuriousWakeup(t)
    BY <1>0, <1>1, <2>2, Phases
       DEF DequeueStep, DequeueLock, DequeueNonempty, DequeueClosed, DequeueWait,
           DequeueBroadcast, DequeueReturnNull, DequeueUnlink, DequeueCount,
           DequeueFree, DequeueUnlock, SpuriousWakeup, Lock, Unlock, Broadcast, Goto
  <2>3. CASE CloseStep(t)
    BY <1>0, <1>1, <2>3, Phases
       DEF CloseStep, CloseLock, CloseSet, CloseUnlock, CloseBroadcast,
           Lock, Unlock, Broadcast, Goto
  <2> QED
    BY <2>1, <2>2, <2>3 DEF Step
<1> QED
  BY <1>2, <1>3

\* The variables of the server that a step inside the queue leaves alone.
Elsewhere == UNCHANGED <<mpc, num_threads, spawned, count, joined, wpc, rstate, runs,
                         logMutex, log, freed>>

\* What main and a worker may do inside the queue, given their roles.
MainMoves ==
    \/ Still \/ Puts(Main) \/ Closes(Main) \/ Returns(Main)
    \/ PhaseMap[Main] = "put" /\ AllDead

WorkerMoves(w) ==
    Still \/ Takes(w) \/ TakesNothing(w) \/ Returns(w)

\* What main's steps inside the queue's code do to the FIFO view: main never
\* dequeues, and a failed malloc that ends the program happens while it enqueues.
LEMMA MainInQueue ==
  ASSUME BaseInv, Roles, Step(Main) /\ UNCHANGED serverVars
  PROVE  MainMoves /\ Elsewhere
<1>1. Moves(Main)
  BY StepMoves, Threads
<1>2. ~Takes(Main) /\ ~TakesNothing(Main)
  BY DEF Roles, Takes, TakesNothing
<1>3. AllDead => PhaseMap[Main] = "put"
  BY DeathByAlloc, Threads DEF AllDead
<1>4. Elsewhere
  BY DEF serverVars, Elsewhere
<1> QED
  BY <1>1, <1>2, <1>3, <1>4 DEF Moves, MainMoves

\* What a worker's steps inside the queue's code do to the FIFO view: a worker
\* never enqueues a request and never closes the queue.
LEMMA WorkerInQueue ==
  ASSUME BaseInv, Roles, NEW w \in Worker,
         (Step(w) /\ UNCHANGED serverVars) \/ Spurious(w)
  PROVE  WorkerMoves(w) /\ Elsewhere /\ wpc[w] = "called"
<1>0. w \in Thread /\ QueueTypeOK
  BY Threads DEF BaseInv, ServerInv, QueueInv
<1>1. Step(w) \/ SpuriousWakeup(w)
  BY DEF Spurious
<1>2. Moves(w)
  BY <1>0, <1>1, StepMoves
<1>3. PhaseMap[w] \in {"idle", "take", "done", "dead"}
  BY DEF Roles
<1>4. ~Puts(w) /\ ~Closes(w)
  BY <1>3 DEF Puts, Closes
<1>5. ~AllDead
  BY <1>0, <1>1, <1>3, DeathByAlloc DEF AllDead
<1>6. Elsewhere
  BY DEF serverVars, Elsewhere, Spurious
<1>7. wpc[w] = "called"
  BY <1>0, <1>1, StepEffect DEF BaseInv, ServerInv, PoolInv
<1> QED
  BY <1>2, <1>4, <1>5, <1>6, <1>7 DEF Moves, WorkerMoves

\* The queue and the pool keep what is known of them.
LEMMA BaseStep ==
  ASSUME BaseInv, [Next]_vars
  PROVE  BaseInv'
<1>1. ServerInv'
  BY ServerKeepsQueueInv, PoolTypeStep, PoolStep DEF BaseInv, ServerInv
<1>2. ArgumentMoved'
  <2>1. CASE [QueueNext]_queueVars
    BY <2>1, ArgumentStep DEF BaseInv, ServerInv, QueueInv
  <2>2. CASE QueueDies
    BY <2>2 DEF QueueDies, Die, ArgumentMoved
  <2> QED
    BY <2>1, <2>2, ServerStepIsQueueStep DEF BaseInv, ServerInv
<1> QED
  BY <1>1, <1>2 DEF BaseInv

------------------------------------------------------------------------------
(* Roles                                                                   *)

\* Every step keeps each thread to its role, and with it the phases it can be in.
LEMMA RolesStep ==
  ASSUME BaseInv, Roles, [Next]_vars
  PROVE  Roles'
<1> USE Threads, ViewTypes DEF Roles
<1>1. CASE UNCHANGED vars \/ Terminated
  <2>1. Still /\ Elsewhere
    BY <1>1, QuietMoves DEF vars, serverVars, Terminated, Elsewhere
  <2> QED
    BY <2>1 DEF Still, Elsewhere
<1>2. CASE MainStep
  <2>1. CASE \/ \E n \in ThreadArgs : ParseArgs(n)
             \/ PoolReady \/ JoinWorker \/ PoolDestroyed \/ queue_destroy
    <3>1. Still /\ UNCHANGED <<wpc, count>> /\ PhaseMap[Main] = "idle"
      BY <2>1, QuietMoves, IdleView
         DEF ParseArgs, PoolReady, JoinWorker, PoolDestroyed, queue_destroy, MainAt, Outside
    <3> QED
      BY <2>1, <3>1 DEF Still, ParseArgs, PoolReady, JoinWorker, PoolDestroyed,
                        queue_destroy, MainAt
  <2>2. CASE SpawnWorker
    <3>1. Still /\ UNCHANGED <<mpc, count>>
      BY <2>2, QuietMoves DEF SpawnWorker
    <3>2. \A w \in Worker : wpc'[w] \in {"unborn", "exited"} => wpc[w] \in {"unborn", "exited"}
      BY <2>2 DEF SpawnWorker, WorkerGoto, BaseInv, ServerInv, PoolTypeOK
    <3> QED
      BY <3>1, <3>2 DEF Still
  <2>3. CASE SpawnFails
    <3>1. AllDead /\ UNCHANGED <<mpc, wpc, count>> /\ mpc = "spawn"
      BY <2>3, QuietMoves DEF SpawnFails, serverVars, MainAt
    <3> QED
      BY <3>1 DEF AllDead
  <2>4. CASE SubmitRequest
    <3>1. PICK d \in Request \cup {NULL} : Calls(Main, "put", d)
      BY <2>4, SubmitIsEnqueue, CallMoves DEF BaseInv, ServerInv, Item
    <3>2. UNCHANGED <<mpc, wpc>> /\ mpc = "submit"
      BY <2>4 DEF SubmitRequest, MainAt
    <3> QED
      BY <3>1, <3>2 DEF Calls
  <2>5. CASE CloseQueue
    <3>1. Calls(Main, "close", NULL) /\ UNCHANGED <<wpc, count>>
      BY <2>5, CallMoves DEF CloseQueue
    <3>2. mpc' = "join" /\ count' = NumRequests + 1
      BY <2>5 DEF CloseQueue, BaseInv, ServerInv, PoolTypeOK
    <3> QED
      BY <3>1, <3>2 DEF Calls
  <2>6. CASE Step(Main) /\ UNCHANGED serverVars
    <3>1. MainMoves /\ UNCHANGED <<mpc, wpc, count>>
      BY <2>6, MainInQueue DEF Elsewhere
    <3> QED
      BY <3>1 DEF MainMoves, Still, Puts, Closes, Returns, AllDead
  <2> QED
    BY <1>2, <2>1, <2>2, <2>3, <2>4, <2>5, <2>6 DEF MainStep
<1>3. ASSUME NEW w \in Worker, WorkerStep(w) \/ Spurious(w)
      PROVE  Roles'
  <2>1. CASE WorkerDequeue(w)
    <3>1. Calls(w, "take", NULL) /\ UNCHANGED <<mpc, count>>
      BY <2>1, CallMoves DEF WorkerDequeue
    <3>2. wpc' = [wpc EXCEPT ![w] = "called"]
      BY <2>1 DEF WorkerDequeue, WorkerGoto
    <3> QED
      BY <3>1, <3>2 DEF Calls, BaseInv, ServerInv, PoolTypeOK
  <2>2. CASE WorkerExit(w)
    <3>1. Still /\ UNCHANGED <<mpc, count>> /\ Val[w] = NULL
      BY <2>2, QuietMoves, IdleView DEF WorkerExit, WorkerAt, Outside
    <3>2. wpc' = [wpc EXCEPT ![w] = "exited"]
      BY <2>2 DEF WorkerExit, WorkerGoto
    <3> QED
      BY <3>1, <3>2 DEF Still, BaseInv, ServerInv, PoolTypeOK
  <2>3. CASE WorkerRun(w) \/ LogLock(w) \/ LogWrite(w) \/ LogUnlock(w) \/ WorkerFree(w)
    <3>1. Still /\ UNCHANGED <<mpc, count>>
      BY <2>3, QuietMoves DEF WorkerRun, LogLock, LogWrite, LogUnlock, WorkerFree
    <3>2. \A u \in Worker : wpc'[u] \in {"unborn", "exited"} => wpc[u] \in {"unborn", "exited"}
      BY <2>3 DEF WorkerRun, LogLock, LogWrite, LogUnlock, WorkerFree, WorkerGoto,
                  BaseInv, ServerInv, PoolTypeOK
    <3> QED
      BY <3>1, <3>2 DEF Still
  <2>4. CASE (Step(w) /\ UNCHANGED serverVars) \/ Spurious(w)
    <3>1. WorkerMoves(w) /\ UNCHANGED <<mpc, wpc, count>> /\ wpc[w] = "called"
      BY <2>4, WorkerInQueue DEF Elsewhere
    <3> QED
      BY <3>1 DEF WorkerMoves, Still, Takes, TakesNothing, Returns
  <2> QED
    BY <1>3, <2>1, <2>2, <2>3, <2>4 DEF WorkerStep
<1> QED
  BY <1>1, <1>2, <1>3 DEF Next

------------------------------------------------------------------------------
(* Every request is in one place                                           *)

\* Steps that change neither the list, nor who holds what, nor how far the
\* requests have been served.
LEMMA PlaceFrame ==
  ASSUME Apart, \A r \in Request : Kept(r),
         Items' = Items, UNCHANGED <<rstate, runs, count>>,
         \A t \in Thread, r \in Request : Holds(t, r)' <=> Holds(t, r),
         \A w \in Worker, r \in Request : Holds(w, r) =>
            wpc'[w] = wpc[w] \/ {wpc[w], wpc'[w]} \subseteq {"task", "logging", "logged"}
  PROVE  Apart' /\ \A r \in Request : Kept(r)'
<1>1. \A r \in Request : InList(r)' <=> InList(r)
  BY DEF InList
<1>2. Apart'
  BY <1>1, Zenon DEF Apart
<1>3. ASSUME NEW r \in Request PROVE Kept(r)'
  <2>1. /\ rstate'[r] = rstate[r] /\ runs'[r] = runs[r] /\ Kept(r)
        /\ Holds(Main, r)' <=> Holds(Main, r)
    BY Threads
  <2>2. rstate[r] \in {"live", "used"} => InList(r)' \/ \E t \in Thread : Holds(t, r)'
    BY <1>1, <2>1 DEF Kept
  <2>3. \A w \in Worker : Holds(w, r)' => Holds(w, r)
    BY Threads
  <2> QED
    BY <1>1, <2>1, <2>2, <2>3 DEF Kept
<1> QED
  BY <1>2, <1>3

\* The special case of steps that do not even change what a thread does.
LEMMA PlaceStill ==
  ASSUME Apart, \A r \in Request : Kept(r),
         Items' = Items, Val' = Val, UNCHANGED <<wpc, rstate, runs, count>>
  PROVE  Apart' /\ \A r \in Request : Kept(r)'
<1>1. \A t \in Thread, r \in Request : Holds(t, r)' <=> Holds(t, r)
  BY DEF Holds
<1>2. \A w \in Worker, r \in Request : wpc'[w] = wpc[w]
  OBVIOUS
<1> QED
  BY <1>1, <1>2, PlaceFrame

\* create_request succeeded: the request is new and only main has it.
LEMMA SubmitPlace ==
  ASSUME BaseInv, Roles, Apart, \A r \in Request : Kept(r),
         count \in Request, Calls(Main, "put", count), count' = count + 1,
         rstate' = [rstate EXCEPT ![count] = "live"], UNCHANGED <<wpc, runs>>
  PROVE  Apart' /\ \A r \in Request : Kept(r)'
<1> USE Threads, ViewTypes
<1>0. Items' = Items /\ Val' = [Val EXCEPT ![Main] = count] /\ Val[Main] = NULL
  BY DEF Calls, Roles
<1>1. \A r \in Request : InList(r)' <=> InList(r)
  BY <1>0 DEF InList
<1>2. \A w \in Worker, r \in Request : Holds(w, r)' <=> Holds(w, r)
  BY <1>0 DEF Holds
<1>3. \A r \in Request : (Holds(Main, r)' <=> r = count) /\ ~Holds(Main, r)
  BY <1>0 DEF Holds
<1>4. rstate[count] = "unborn" /\ runs[count] = 0
  BY DEF Kept, Request
<1>5. ~InList(count) /\ \A w \in Worker : ~Holds(w, count)
  BY <1>4 DEF Kept
<1>6. Thread = Worker \cup {Main}
  BY ServerConstants
<1>7. Apart'
  <2>1. \A t, u \in Thread, r \in Request : Holds(t, r)' /\ Holds(u, r)' => t = u
    BY <1>2, <1>3, <1>5, <1>6 DEF Apart
  <2>2. \A i, j \in 1..Len(Items') : Items'[i] = Items'[j] /\ Items'[i] # NULL => i = j
    BY <1>0 DEF Apart
  <2>3. \A t \in Thread, r \in Request : Holds(t, r)' => ~InList(r)'
    BY <1>1, <1>2, <1>3, <1>5, <1>6 DEF Apart
  <2> QED
    BY <2>1, <2>2, <2>3, Zenon DEF Apart
<1>8. ASSUME NEW r \in Request PROVE Kept(r)'
  <2>0. rstate \in [Request -> {"unborn", "live", "failed", "used", "freed"}]
    BY DEF BaseInv, ServerInv, PoolTypeOK
  <2>1. CASE r = count
    <3>1. rstate'[r] = "live" /\ runs'[r] = 0 /\ Holds(Main, r)' /\ r < count'
      BY <1>3, <1>4, <2>0, <2>1 DEF Request
    <3>2. ~InList(r)' /\ \A w \in Worker : ~Holds(w, r)'
      BY <1>1, <1>2, <1>5, <2>1
    <3> QED
      BY <3>1, <3>2 DEF Kept, Request
  <2>2. CASE r # count
    <3>1. /\ rstate'[r] = rstate[r] /\ runs'[r] = runs[r] /\ Kept(r)
          /\ r >= count' <=> r >= count
      BY <2>0, <2>2 DEF Request
    <3>2. rstate[r] \in {"live", "used"} => InList(r)' \/ \E t \in Thread : Holds(t, r)'
      BY <1>1, <1>2, <1>3, <1>6, <3>1 DEF Kept
    <3> QED
      BY <1>1, <1>2, <1>3, <2>2, <3>1, <3>2 DEF Kept
  <2> QED
    BY <2>1, <2>2
<1> QED
  BY <1>7, <1>8

\* create_request failed: main enqueues NULL, and the request never existed.
LEMMA SubmitNothingPlace ==
  ASSUME BaseInv, Roles, Apart, \A r \in Request : Kept(r),
         count \in Request, Calls(Main, "put", NULL), count' = count + 1,
         rstate' = [rstate EXCEPT ![count] = "failed"], UNCHANGED <<wpc, runs>>
  PROVE  Apart' /\ \A r \in Request : Kept(r)'
<1> USE Threads, ViewTypes
<1>0. Items' = Items /\ Val' = [Val EXCEPT ![Main] = NULL] /\ Val[Main] = NULL
  BY DEF Calls, Roles
<1>1. \A r \in Request : InList(r)' <=> InList(r)
  BY <1>0 DEF InList
<1>2. \A t \in Thread, r \in Request : Holds(t, r)' <=> Holds(t, r)
  BY <1>0 DEF Holds
<1>3. rstate[count] = "unborn" /\ runs[count] = 0
  BY DEF Kept, Request
<1>4. ~InList(count) /\ (\A w \in Worker : ~Holds(w, count)) /\ ~Holds(Main, count)
  BY <1>3 DEF Kept
<1>5. Apart'
  BY <1>0, <1>1, <1>2, Zenon DEF Apart
<1>6. ASSUME NEW r \in Request PROVE Kept(r)'
  <2>0. rstate \in [Request -> {"unborn", "live", "failed", "used", "freed"}]
    BY DEF BaseInv, ServerInv, PoolTypeOK
  <2>1. CASE r = count
    <3>1. rstate'[r] = "failed" /\ runs'[r] = 0 /\ r < count'
      BY <1>3, <2>0, <2>1 DEF Request
    <3>2. ~InList(r)' /\ (\A w \in Worker : ~Holds(w, r)') /\ ~Holds(Main, r)'
      BY <1>1, <1>2, <1>4, <2>1
    <3> QED
      BY <3>1, <3>2 DEF Kept, Request
  <2>2. CASE r # count
    <3>1. /\ rstate'[r] = rstate[r] /\ runs'[r] = runs[r] /\ Kept(r)
          /\ r >= count' <=> r >= count
      BY <2>0, <2>2 DEF Request
    <3>2. rstate[r] \in {"live", "used"} => InList(r)' \/ \E t \in Thread : Holds(t, r)'
      BY <1>1, <1>2, <3>1 DEF Kept
    <3> QED
      BY <1>1, <1>2, <3>1, <3>2 DEF Kept
  <2> QED
    BY <2>1, <2>2
<1> QED
  BY <1>5, <1>6

\* Linking the node moves the request from main's hand to the end of the list.
LEMMA PutPlace ==
  ASSUME BaseInv, Roles, Apart, \A r \in Request : Kept(r),
         Puts(Main), UNCHANGED <<wpc, rstate, runs, count>>
  PROVE  Apart' /\ \A r \in Request : Kept(r)'
<1> USE Threads, ViewTypes
<1> DEFINE d == Val[Main]
           k == Len(Items)
<1>0. Val' = [Val EXCEPT ![Main] = NULL] /\ Items' = Append(Items, d) /\ k \in Nat
  BY DEF Puts
<1>1. /\ Len(Items') = k + 1 /\ Items'[k + 1] = d
      /\ \A i \in 1..k : Items'[i] = Items[i]
  BY <1>0, AppendProperties
<1>2. \A r \in Request : InList(r)' <=> InList(r) \/ r = d
  <2>1. ASSUME NEW r \in Request, InList(r) PROVE InList(r)'
    <3>1. PICK i \in 1..k : Items[i] = r
      BY <2>1 DEF InList
    <3>2. i \in 1..Len(Items') /\ Items'[i] = r
      BY <1>0, <1>1, <3>1
    <3> QED
      BY <3>2 DEF InList
  <2>2. ASSUME NEW r \in Request, r = d PROVE InList(r)'
    BY <1>0, <1>1, <2>2 DEF InList
  <2>3. ASSUME NEW r \in Request, InList(r)', r # d PROVE InList(r)
    <3>1. PICK i \in 1..Len(Items') : Items'[i] = r
      BY <2>3 DEF InList
    <3>2. i \in 1..k
      BY <1>0, <1>1, <2>3, <3>1
    <3> QED
      BY <1>1, <3>1, <3>2 DEF InList
  <2> QED
    BY <2>1, <2>2, <2>3
<1>3. \A w \in Worker, r \in Request : Holds(w, r)' <=> Holds(w, r)
  BY <1>0 DEF Holds
<1>4. \A r \in Request : ~Holds(Main, r)' /\ (Holds(Main, r) <=> r = d)
  BY <1>0 DEF Holds
<1>5. Thread = Worker \cup {Main}
  BY ServerConstants
<1>6. Apart'
  <2>1. \A t, u \in Thread, r \in Request : Holds(t, r)' /\ Holds(u, r)' => t = u
    BY <1>3, <1>4, <1>5 DEF Apart
  <2>2. ASSUME NEW i \in 1..Len(Items'), NEW j \in 1..Len(Items'),
               Items'[i] = Items'[j], Items'[i] # NULL
        PROVE  i = j
    <3>1. d \in Request => \A m \in 1..k : Items[m] # d
      BY <1>4 DEF Apart, InList
    <3>2. i \in 1..k \/ i = k + 1
      BY <1>0, <1>1
    <3>3. j \in 1..k \/ j = k + 1
      BY <1>0, <1>1
    <3>4. \A m \in 1..k : Items[m] = d => d = NULL
      BY <3>1
    <3> QED
      BY <1>1, <2>2, <3>2, <3>3, <3>4 DEF Apart
  <2>3. \A t \in Thread, r \in Request : Holds(t, r)' => ~InList(r)'
    BY <1>2, <1>3, <1>4, <1>5 DEF Apart
  <2> QED
    BY <2>1, <2>2, <2>3, Zenon DEF Apart
<1>7. ASSUME NEW r \in Request PROVE Kept(r)'
  <2>1. rstate'[r] = rstate[r] /\ runs'[r] = runs[r] /\ Kept(r)
    OBVIOUS
  <2>2. rstate[r] \in {"live", "used"} => InList(r)' \/ \E t \in Thread : Holds(t, r)'
    BY <1>2, <1>3, <1>4, <1>5, <2>1 DEF Kept
  <2> QED
    BY <1>2, <1>3, <1>4, <2>1, <2>2 DEF Kept
<1> QED
  BY <1>6, <1>7

\* Unlinking the first node moves its request to the hand of the worker.
LEMMA TakePlace ==
  ASSUME BaseInv, Roles, Apart, \A r \in Request : Kept(r),
         NEW w \in Worker, wpc[w] = "called",
         Takes(w), UNCHANGED <<wpc, rstate, runs, count>>
  PROVE  Apart' /\ \A r \in Request : Kept(r)'
<1> USE Threads, ViewTypes
<1> DEFINE d == Items[1]
           k == Len(Items)
<1>0. /\ Items \in Seq(Request \cup {NULL}) /\ Items # <<>>
      /\ Items' = Tail(Items) /\ Val[w] = NULL
  BY DEF Takes, Roles
<1>1. /\ k \in Nat /\ k >= 1 /\ Len(Items') = k - 1
      /\ \A i \in 1..(k - 1) : i + 1 \in 1..k /\ Items'[i] = Items[i + 1]
      /\ Head(Items) = d
  BY <1>0, TailFacts
<1>2. Val' = [Val EXCEPT ![w] = d]
  BY <1>1 DEF Takes
<1>3. \A r \in Request : InList(r)' <=> InList(r) /\ r # d
  <2>1. ASSUME NEW r \in Request, InList(r)' PROVE InList(r) /\ r # d
    <3>1. PICK i \in 1..(k - 1) : Items'[i] = r
      BY <1>1, <2>1 DEF InList
    <3>2. i + 1 \in 1..k /\ Items[i + 1] = r /\ 1 \in 1..k /\ i + 1 # 1
      BY <1>1, <3>1
    <3>3. Items[1] # Items[i + 1]
      BY <3>2 DEF Apart
    <3> QED
      BY <3>2, <3>3 DEF InList
  <2>2. ASSUME NEW r \in Request, InList(r), r # d PROVE InList(r)'
    <3>1. PICK i \in 1..k : Items[i] = r
      BY <2>2 DEF InList
    <3>2. i # 1 /\ i - 1 \in 1..(k - 1) /\ (i - 1) + 1 = i
      BY <1>1, <2>2, <3>1
    <3>3. Items'[i - 1] = r
      BY <1>1, <3>1, <3>2
    <3> QED
      BY <1>1, <3>2, <3>3 DEF InList
  <2> QED
    BY <2>1, <2>2
<1>4. \A t \in Thread \ {w}, r \in Request : Holds(t, r)' <=> Holds(t, r)
  BY <1>2 DEF Holds
<1>5. \A r \in Request : (Holds(w, r)' <=> r = d) /\ ~Holds(w, r)
  BY <1>0, <1>2 DEF Holds
<1>6. d \in Request => InList(d) /\ \A t \in Thread : ~Holds(t, d)
  <2>1. d \in Request => InList(d)
    BY <1>1 DEF InList
  <2> QED
    BY <2>1, Zenon DEF Apart
<1>7. Apart'
  <2>1. \A t, u \in Thread, r \in Request : Holds(t, r)' /\ Holds(u, r)' => t = u
    BY <1>4, <1>5, <1>6 DEF Apart
  <2>2. ASSUME NEW i \in 1..Len(Items'), NEW j \in 1..Len(Items'),
               Items'[i] = Items'[j], Items'[i] # NULL
        PROVE  i = j
    <3>1. /\ i + 1 \in 1..k /\ j + 1 \in 1..k
          /\ Items[i + 1] = Items[j + 1] /\ Items[i + 1] # NULL
      BY <1>1, <2>2
    <3>2. i + 1 = j + 1
      BY <3>1 DEF Apart
    <3> QED
      BY <3>2
  <2>3. \A t \in Thread, r \in Request : Holds(t, r)' => ~InList(r)'
    BY <1>3, <1>4, <1>5 DEF Apart
  <2> QED
    BY <2>1, <2>2, <2>3, Zenon DEF Apart
<1>8. ASSUME NEW r \in Request PROVE Kept(r)'
  <2>1. rstate'[r] = rstate[r] /\ runs'[r] = runs[r] /\ Kept(r) /\ wpc'[w] = "called"
    OBVIOUS
  <2>2. rstate[r] \in {"live", "used"} => InList(r)' \/ \E t \in Thread : Holds(t, r)'
    BY <1>3, <1>4, <1>5, <2>1 DEF Kept
  <2>3. Holds(Main, r)' <=> Holds(Main, r)
    BY <1>4
  <2> QED
    BY <1>3, <1>4, <1>5, <1>6, <2>1, <2>2, <2>3 DEF Kept
<1> QED
  BY <1>7, <1>8

\* A worker serves the request it holds: it calls work_fn, the task frees its
\* argument, the worker frees the request and forgets it.
LEMMA ServePlace ==
  ASSUME BaseInv, Roles, Apart, \A r \in Request : Kept(r),
         NEW w \in Worker, WorkerRun(w) \/ LogUnlock(w) \/ WorkerFree(w)
  PROVE  Apart' /\ \A r \in Request : Kept(r)'
<1> USE Threads, ViewTypes
<1> DEFINE d == item[w]
<1>0. Still /\ d = Val[w] /\ UNCHANGED count
  BY QuietMoves, IdleView DEF WorkerRun, LogUnlock, WorkerFree, WorkerAt, Outside
<1>1. wpc[w] \in {"called", "logged", "ran"} /\ d \in Request
  BY <1>0 DEF WorkerRun, LogUnlock, WorkerFree, WorkerAt, BaseInv, ServerInv, PoolInv, Serving
<1>2. /\ wpc \in [Worker -> {"unborn", "loop", "called", "exited"} \cup Serving]
      /\ rstate \in [Request -> {"unborn", "live", "failed", "used", "freed"}]
      /\ runs \in [Request -> Nat]
  BY DEF BaseInv, ServerInv, PoolTypeOK
<1>3. Holds(w, d) /\ \A t \in Thread \ {w} : ~Holds(t, d)
  <2>1. Holds(w, d)
    BY <1>0, <1>1 DEF Holds
  <2> QED
    BY <1>1, <2>1 DEF Apart
<1>4. ~InList(d) /\ ~Holds(Main, d)
  BY <1>1, <1>3 DEF Apart
<1>5. \A r \in Request : InList(r)' <=> InList(r)
  BY <1>0 DEF Still, InList
<1>6. /\ \A t \in Thread \ {w}, r \in Request : Holds(t, r)' <=> Holds(t, r)
      /\ \A r \in Request : Holds(w, r)' <=> r = d /\ ~WorkerFree(w)
  <2>1. CASE WorkerFree(w)
    BY <1>0, <1>2, <2>1 DEF Still, Holds, WorkerFree, WorkerGoto
  <2>2. CASE WorkerRun(w) \/ LogUnlock(w)
    <3>1. /\ \A u \in Worker \ {w} : wpc'[u] = wpc[u]
          /\ wpc'[w] \in {"task", "ran"} /\ wpc[w] # "ran"
      BY <1>2, <2>2 DEF WorkerRun, LogUnlock, WorkerGoto, WorkerAt
    <3>2. ~WorkerFree(w)
      BY <3>1 DEF WorkerFree, WorkerAt
    <3> QED
      BY <1>0, <3>1, <3>2 DEF Still, Holds
  <2> QED
    BY <2>1, <2>2
<1>7. \A r \in Request : Holds(w, r) <=> r = d
  BY <1>0, <1>1 DEF Holds
<1>8. Apart'
  <2>1. \A t \in Thread, r \in Request : Holds(t, r)' => Holds(t, r)
    BY <1>6, <1>7
  <2>2. Items' = Items
    BY <1>0 DEF Still
  <2> QED
    BY <1>5, <2>1, <2>2, Zenon DEF Apart
<1>9. ASSUME NEW r \in Request PROVE Kept(r)'
  <2>1. CASE r # d
    <3>1. /\ rstate'[r] = rstate[r] /\ runs'[r] = runs[r] /\ Kept(r)
          /\ \A u \in Worker \ {w} : wpc'[u] = wpc[u]
      BY <1>2, <2>1 DEF WorkerRun, LogUnlock, WorkerFree, WorkerGoto
    <3>2. rstate[r] \in {"live", "used"} => InList(r)' \/ \E t \in Thread : Holds(t, r)'
      BY <1>5, <1>6, <1>7, <2>1, <3>1 DEF Kept
    <3> QED
      BY <1>0, <1>5, <1>6, <1>7, <2>1, <3>1, <3>2 DEF Kept
  <2>2. CASE r = d
    <3>1. /\ ~InList(r)' /\ ~Holds(Main, r)'
          /\ \A u \in Worker \ {w} : ~Holds(u, r)'
          /\ Kept(r) /\ Holds(w, r)
      BY <1>1, <1>3, <1>4, <1>5, <1>6, <2>2
    <3>2. r < count
      BY <1>2, <3>1 DEF Kept, Request, BaseInv, ServerInv, PoolTypeOK
    <3>3. CASE WorkerRun(w)
      <4>1. /\ wpc[w] = "called" /\ wpc'[w] = "task"
            /\ rstate'[r] = rstate[r] /\ runs'[r] = runs[r] + 1
        BY <1>2, <2>2, <3>3 DEF WorkerRun, WorkerAt, WorkerGoto
      <4>2. Holds(w, r)'
        BY <1>6, <2>2, <3>3, <4>1 DEF WorkerFree, WorkerAt
      <4> QED
        BY <1>0, <1>2, <3>1, <3>2, <4>1, <4>2 DEF Kept
    <3>4. CASE LogUnlock(w)
      <4>1. /\ wpc[w] = "logged" /\ wpc'[w] = "ran"
            /\ rstate'[r] = "used" /\ runs'[r] = runs[r]
        BY <1>2, <2>2, <3>4 DEF LogUnlock, WorkerAt, WorkerGoto
      <4>2. Holds(w, r)'
        BY <1>6, <2>2, <3>4, <4>1 DEF WorkerFree, WorkerAt
      <4> QED
        BY <1>0, <1>2, <3>1, <3>2, <4>1, <4>2 DEF Kept, Request, BaseInv, ServerInv, PoolTypeOK
    <3>5. CASE WorkerFree(w)
      <4>1. /\ wpc[w] = "ran" /\ rstate'[r] = "freed" /\ runs'[r] = runs[r]
        BY <1>2, <2>2, <3>5 DEF WorkerFree, WorkerAt
      <4>2. \A t \in Worker : ~Holds(t, r)'
        BY <1>6, <2>2, <3>1, <3>5
      <4> QED
        BY <1>0, <1>2, <3>1, <3>2, <4>1, <4>2 DEF Kept, Request, BaseInv, ServerInv, PoolTypeOK
    <3> QED
      BY <3>3, <3>4, <3>5
  <2> QED
    BY <2>1, <2>2
<1> QED
  BY <1>8, <1>9

\* Every step of the server keeps every request in its one place.
LEMMA PlaceStep ==
  ASSUME BaseInv, PlaceInv, [Next]_vars
  PROVE  PlaceInv'
<1> SUFFICES Apart' /\ \A r \in Request : Kept(r)'
  BY RolesStep DEF PlaceInv
<1> USE Threads, ViewTypes DEF PlaceInv
<1>0. wpc \in [Worker -> {"unborn", "loop", "called", "exited"} \cup Serving]
  BY DEF BaseInv, ServerInv, PoolTypeOK
<1>1. CASE UNCHANGED vars \/ Terminated
  BY <1>1, QuietMoves, PlaceStill DEF vars, serverVars, Terminated, Still
<1>2. CASE MainStep
  <2>1. CASE \/ \E n \in ThreadArgs : ParseArgs(n)
             \/ PoolReady \/ JoinWorker \/ PoolDestroyed \/ queue_destroy
    <3>1. Still /\ UNCHANGED <<wpc, rstate, runs, count>>
      BY <2>1, QuietMoves DEF ParseArgs, PoolReady, JoinWorker, PoolDestroyed, queue_destroy
    <3> QED
      BY <3>1, PlaceStill DEF Still
  <2>2. CASE SpawnWorker
    <3>1. Still /\ UNCHANGED <<rstate, runs, count>>
      BY <2>2, QuietMoves DEF SpawnWorker
    <3>2. \A w \in Worker : wpc'[w] = wpc[w] \/ (wpc[w] = "unborn" /\ wpc'[w] = "loop")
      BY <1>0, <2>2 DEF SpawnWorker, WorkerGoto, BaseInv, ServerInv, PoolInv, PoolTypeOK
    <3>3. \A w \in Worker, r \in Request : Holds(w, r) => wpc'[w] = wpc[w]
      BY <3>2 DEF Holds, Roles
    <3>4. \A t \in Thread, r \in Request : Holds(t, r)' <=> Holds(t, r)
      BY <3>1, <3>2 DEF Holds, Roles, Still
    <3> QED
      BY <3>1, <3>3, <3>4, PlaceFrame DEF Still
  <2>3. CASE SpawnFails
    <3>1. AllDead /\ UNCHANGED <<wpc, rstate, runs, count>>
      BY <2>3, QuietMoves DEF SpawnFails, serverVars
    <3> QED
      BY <3>1, PlaceStill DEF AllDead
  <2>4. CASE SubmitRequest
    <3>1. count \in Request /\ count' = count + 1 /\ UNCHANGED <<wpc, runs>>
      BY <2>4 DEF SubmitRequest, BaseInv, ServerInv, PoolTypeOK, Request
    <3>2. \/ Calls(Main, "put", count) /\ rstate' = [rstate EXCEPT ![count] = "live"]
          \/ Calls(Main, "put", NULL) /\ rstate' = [rstate EXCEPT ![count] = "failed"]
      BY <2>4, CallMoves DEF SubmitRequest
    <3> QED
      BY <3>1, <3>2, SubmitPlace, SubmitNothingPlace
  <2>5. CASE CloseQueue
    <3>1. Calls(Main, "close", NULL) /\ UNCHANGED <<wpc, rstate, runs, count>>
      BY <2>5, CallMoves DEF CloseQueue
    <3>2. \A t \in Thread, r \in Request : Holds(t, r)' <=> Holds(t, r)
      BY <3>1 DEF Calls, Holds, Roles
    <3> QED
      BY <3>1, <3>2, PlaceFrame DEF Calls
  <2>6. CASE Step(Main) /\ UNCHANGED serverVars
    <3>1. MainMoves /\ UNCHANGED <<wpc, rstate, runs, count>>
      BY <2>6, MainInQueue DEF Elsewhere
    <3>2. CASE Puts(Main)
      BY <3>1, <3>2, PutPlace
    <3>3. CASE ~Puts(Main)
      <4>1. Items' = Items /\ Val' = Val
        BY <3>1, <3>3 DEF MainMoves, Still, Closes, Returns, AllDead
      <4> QED
        BY <3>1, <4>1, PlaceStill
    <3> QED
      BY <3>2, <3>3
  <2> QED
    BY <1>2, <2>1, <2>2, <2>3, <2>4, <2>5, <2>6 DEF MainStep
<1>3. ASSUME NEW w \in Worker, WorkerStep(w) \/ Spurious(w)
      PROVE  Apart' /\ \A r \in Request : Kept(r)'
  <2>1. CASE WorkerDequeue(w)
    <3>1. /\ Calls(w, "take", NULL) /\ UNCHANGED <<rstate, runs, count>>
          /\ wpc' = [wpc EXCEPT ![w] = "called"] /\ wpc[w] = "loop"
      BY <2>1, CallMoves DEF WorkerDequeue, WorkerAt, WorkerGoto
    <3>2. \A t \in Thread, r \in Request : Holds(t, r)' <=> Holds(t, r)
      BY <1>0, <3>1 DEF Calls, Holds
    <3>3. \A u \in Worker, r \in Request : Holds(u, r) => wpc'[u] = wpc[u]
      BY <1>0, <3>1 DEF Holds
    <3> QED
      BY <3>1, <3>2, <3>3, PlaceFrame DEF Calls
  <2>2. CASE WorkerExit(w)
    <3>1. /\ Still /\ Val[w] = NULL /\ UNCHANGED <<rstate, runs, count>>
          /\ wpc' = [wpc EXCEPT ![w] = "exited"]
      BY <2>2, QuietMoves, IdleView DEF WorkerExit, WorkerAt, Outside, WorkerGoto
    <3>2. \A t \in Thread, r \in Request : Holds(t, r)' <=> Holds(t, r)
      BY <1>0, <3>1 DEF Still, Holds
    <3>3. \A u \in Worker, r \in Request : Holds(u, r) => wpc'[u] = wpc[u]
      BY <1>0, <3>1 DEF Holds
    <3> QED
      BY <3>1, <3>2, <3>3, PlaceFrame DEF Still
  <2>3. CASE LogLock(w) \/ LogWrite(w)
    <3>1. /\ Still /\ UNCHANGED <<rstate, runs, count>>
          /\ wpc[w] \in {"task", "logging"}
          /\ \E p \in {"logging", "logged"} : wpc' = [wpc EXCEPT ![w] = p]
      BY <2>3, QuietMoves DEF LogLock, LogWrite, WorkerAt, WorkerGoto
    <3>2. \A t \in Thread, r \in Request : Holds(t, r)' <=> Holds(t, r)
      BY <1>0, <3>1 DEF Still, Holds
    <3>3. \A u \in Worker, r \in Request : Holds(u, r) =>
             wpc'[u] = wpc[u] \/ {wpc[u], wpc'[u]} \subseteq {"task", "logging", "logged"}
      BY <1>0, <3>1 DEF Holds
    <3> QED
      BY <3>1, <3>2, <3>3, PlaceFrame DEF Still
  <2>4. CASE WorkerRun(w) \/ LogUnlock(w) \/ WorkerFree(w)
    BY <2>4, ServePlace
  <2>5. CASE (Step(w) /\ UNCHANGED serverVars) \/ Spurious(w)
    <3>1. /\ WorkerMoves(w) /\ wpc[w] = "called"
          /\ UNCHANGED <<wpc, rstate, runs, count>>
      BY <2>5, WorkerInQueue DEF Elsewhere
    <3>2. CASE Takes(w)
      BY <3>1, <3>2, TakePlace
    <3>3. CASE ~Takes(w)
      <4>1. Items' = Items /\ Val' = Val
        BY <3>1, <3>3 DEF WorkerMoves, Still, TakesNothing, Returns
      <4> QED
        BY <3>1, <4>1, PlaceStill
    <3> QED
      BY <3>2, <3>3
  <2> QED
    BY <1>3, <2>1, <2>2, <2>3, <2>4, <2>5 DEF WorkerStep
<1> QED
  BY <1>1, <1>2, <1>3 DEF Next

\* Before main starts, nothing is anywhere.
LEMMA PlaceInit ==
  ASSUME ServerInit
  PROVE  PlaceInv
<1> USE Threads DEF ServerInit, QueueInit
<1>1. /\ Items = <<>> /\ Val = [t \in Thread |-> NULL]
      /\ PhaseMap = [t \in Thread |-> "idle"]
  BY Phases DEF Items, Val, PhaseMap
<1>2. NULL \notin Request /\ Len(Items) = 0
  BY <1>1, QueueConstants
<1>3. Roles
  BY <1>1 DEF Roles
<1>4. \A r \in Request : ~InList(r) /\ \A t \in Thread : ~Holds(t, r)
  BY <1>1, <1>2 DEF InList, Holds
<1>5. Apart
  BY <1>2, <1>4 DEF Apart
<1>6. \A r \in Request : Kept(r)
  BY <1>4 DEF Kept, Request
<1> QED
  BY <1>3, <1>5, <1>6 DEF PlaceInv

\* The invariant about where the requests are, together with what it needs of
\* the queue and of the pool.
THEOREM ServerPlaceInvariant == Spec => [](BaseInv /\ PlaceInv)
<1>1. ServerInit => ArgumentMoved
  BY DEF ServerInit, QueueInit, ArgumentMoved
<1>2. Spec => []ServerInv
  BY ServerInvariant
<1>3. ServerInit => PlaceInv
  BY PlaceInit
<1>4. BaseInv /\ PlaceInv /\ [Next]_vars => BaseInv' /\ PlaceInv'
  BY BaseStep, PlaceStep
<1>5. ServerInv /\ ArgumentMoved <=> BaseInv
  BY DEF BaseInv
<1> QED
  BY <1>1, <1>2, <1>3, <1>4, <1>5, PTL DEF Spec

\* Every request created and not freed is in exactly one place, the list or
\* the hand of one thread; a freed one is nowhere and has run exactly once.
THEOREM ServerRequestsInOnePlace == Spec => []EveryRequestInOnePlace
<1>1. BaseInv /\ PlaceInv => EveryRequestInOnePlace
  <2> SUFFICES ASSUME BaseInv, PlaceInv, NEW r \in Request
               PROVE  /\ Places(r) # {} <=> rstate[r] \in {"live", "used"}
                      /\ \A p, q \in Places(r) : p = q
                      /\ runs[r] <= 1
                      /\ rstate[r] = "freed" => runs[r] = 1
    BY DEF EveryRequestInOnePlace
  <2> USE Threads, ViewTypes DEF PlaceInv
  <2>0. /\ rstate \in [Request -> {"unborn", "live", "failed", "used", "freed"}]
        /\ Thread = Worker \cup {Main} /\ Kept(r) /\ Apart
    BY ServerConstants DEF BaseInv, ServerInv, PoolTypeOK
  <2>1. \A t \in Thread : Holds(t, r) <=> InHand(t) = r /\ ~(t \in Worker /\ wpc[t] = "loop")
    BY DEF Holds, InHand, Val
  <2>2. /\ DOMAIN chain = 1..Len(Items)
        /\ \A i \in DOMAIN chain : Items[i] = data[chain[i]]
    BY ItemsSeq, LenProperties DEF BaseInv, ServerInv, QueueInv, QueueTypeOK, Items
  <2>3. Places(r) = {<<"thread", t>> : t \in {u \in Thread : Holds(u, r)}}
                      \cup {<<"queue", i>> : i \in {j \in 1..Len(Items) : Items[j] = r}}
    BY <2>1, <2>2 DEF Places
  <2>4. Places(r) # {} <=> InList(r) \/ \E t \in Thread : Holds(t, r)
    <3>1. ASSUME NEW t \in Thread, Holds(t, r) PROVE <<"thread", t>> \in Places(r)
      BY <2>3, <3>1
    <3>2. ASSUME NEW i \in 1..Len(Items), Items[i] = r PROVE <<"queue", i>> \in Places(r)
      BY <2>3, <3>2
    <3>3. ASSUME NEW p \in Places(r) PROVE InList(r) \/ \E t \in Thread : Holds(t, r)
      BY <2>3, <3>3 DEF InList
    <3> QED
      BY <3>1, <3>2, <3>3, Zenon DEF InList
  <2>5. Places(r) # {} <=> rstate[r] \in {"live", "used"}
    BY <2>0, <2>4 DEF Kept
  <2>6. ASSUME NEW p \in Places(r), NEW q \in Places(r) PROVE p = q
    <3>1. CASE InList(r)
      <4>1. \A t \in Thread : ~Holds(t, r)
        BY <2>0, <3>1, Zenon DEF Apart
      <4>2. PICK i \in 1..Len(Items) : Items[i] = r /\ p = <<"queue", i>>
        BY <2>3, <2>6, <4>1
      <4>3. PICK j \in 1..Len(Items) : Items[j] = r /\ q = <<"queue", j>>
        BY <2>3, <2>6, <4>1
      <4>4. i = j
        BY <2>0, <4>2, <4>3 DEF Apart
      <4> QED
        BY <4>2, <4>3, <4>4
    <3>2. CASE ~InList(r)
      <4>1. PICK t \in Thread : Holds(t, r) /\ p = <<"thread", t>>
        BY <2>3, <2>6, <3>2 DEF InList
      <4>2. PICK u \in Thread : Holds(u, r) /\ q = <<"thread", u>>
        BY <2>3, <2>6, <3>2 DEF InList
      <4>3. t = u
        BY <2>0, <4>1, <4>2, Zenon DEF Apart
      <4> QED
        BY <4>1, <4>2, <4>3
    <3> QED
      BY <3>1, <3>2
  <2>7. runs[r] <= 1 /\ (rstate[r] = "freed" => runs[r] = 1)
    BY <2>0 DEF Kept
  <2> QED
    BY <2>5, <2>6, <2>7
<1> QED
  BY <1>1, ServerPlaceInvariant, PTL

------------------------------------------------------------------------------
(* Every request is served before the queue is destroyed                   *)

\* The NULLs that a failed create_request left in the list and in main's
\* hand, and the workers that have an answer NULL and end.
Blank == {i \in 1..Len(Items) : Items[i] = NULL}

OnItsWay == IF PhaseMap[Main] = "put" /\ Val[Main] = NULL THEN 1 ELSE 0

Spent ==
    {w \in Worker : \/ wpc[w] = "exited"
                    \/ wpc[w] = "called" /\ PhaseMap[w] \in {"idle", "done"} /\ Val[w] = NULL}

\* Until a worker has found the queue closed and drained, every worker that
\* ends has used up one NULL of its own.
SpareInv ==
    \/ isclosed /\ Items = <<>>
    \/ Cardinality(Spent) + Cardinality(Blank) + OnItsWay <= Cardinality(Failed)

\* The sets that are counted are finite.
LEMMA SpareFinite ==
  ASSUME BaseInv
  PROVE  /\ IsFiniteSet(Spent) /\ IsFiniteSet(Blank) /\ IsFiniteSet(Failed)
         /\ Cardinality(Spent) \in Nat /\ Cardinality(Blank) \in Nat
         /\ Cardinality(Failed) \in Nat /\ OnItsWay \in {0, 1}
<1>1. IsFiniteSet(Worker) /\ IsFiniteSet(Request) /\ IsFiniteSet(1..Len(Items))
  BY Threads, ViewTypes, FS_Interval DEF Worker, Request
<1>2. IsFiniteSet(Spent) /\ IsFiniteSet(Blank) /\ IsFiniteSet(Failed)
  BY <1>1, FS_Subset DEF Spent, Blank, Failed
<1> QED
  BY <1>2, FS_CardinalityType DEF OnItsWay

\* Steps that neither change the list nor end a worker.
LEMMA SpareFrame ==
  ASSUME BaseInv, SpareInv,
         Items' = Items, isclosed => isclosed',
         Spent' \subseteq Spent, OnItsWay' <= OnItsWay, Failed \subseteq Failed'
  PROVE  SpareInv'
<1>1. Blank' = Blank
  BY DEF Blank
<1>2. /\ IsFiniteSet(Spent') /\ Cardinality(Spent') <= Cardinality(Spent)
      /\ IsFiniteSet(Failed') /\ Cardinality(Failed) <= Cardinality(Failed')
  <2>1. IsFiniteSet(Request) /\ Failed' \subseteq Request
    BY Threads, FS_Interval DEF Request, Failed
  <2>2. IsFiniteSet(Failed')
    BY <2>1, FS_Subset
  <2> QED
    BY <2>2, SpareFinite, FS_Subset
<1>3. /\ Cardinality(Spent) \in Nat /\ Cardinality(Blank) \in Nat
      /\ Cardinality(Failed) \in Nat /\ OnItsWay \in {0, 1}
  BY SpareFinite
<1>4. /\ Cardinality(Spent') \in Nat /\ Cardinality(Failed') \in Nat /\ OnItsWay' \in {0, 1}
  BY <1>2, FS_CardinalityType DEF OnItsWay
<1>5. CASE isclosed /\ Items = <<>>
  BY <1>5 DEF SpareInv
<1>6. CASE Cardinality(Spent) + Cardinality(Blank) + OnItsWay <= Cardinality(Failed)
  BY <1>1, <1>2, <1>3, <1>4, <1>6 DEF SpareInv
<1> QED
  BY <1>5, <1>6 DEF SpareInv

\* A failed create_request pays for the NULL that main enqueues.
LEMMA SubmitSpare ==
  ASSUME BaseInv, PlaceInv, SpareInv, SubmitRequest
  PROVE  SpareInv'
<1> USE Threads, ViewTypes
<1>0. /\ rstate \in [Request -> {"unborn", "live", "failed", "used", "freed"}]
      /\ count \in Request /\ wpc' = wpc
  BY DEF SubmitRequest, BaseInv, ServerInv, PoolTypeOK, Request
<1>1. rstate[count] = "unborn"
  BY <1>0 DEF PlaceInv, Kept, Request
<1>2. PICK d \in {NULL, count} :
         /\ Calls(Main, "put", d)
         /\ rstate' = [rstate EXCEPT ![count] = IF d = NULL THEN "failed" ELSE "live"]
  <2>1. count # NULL
    BY <1>0
  <2>2. \/ Calls(Main, "put", count) /\ rstate' = [rstate EXCEPT ![count] = "live"]
        \/ Calls(Main, "put", NULL) /\ rstate' = [rstate EXCEPT ![count] = "failed"]
    BY CallMoves DEF SubmitRequest
  <2> QED
    BY <2>1, <2>2
<1>3. Spent' = Spent
  BY <1>0, <1>2 DEF Calls, Spent
<1>4. OnItsWay = 0 /\ Items' = Items /\ isclosed' = isclosed
  BY <1>2 DEF Calls, OnItsWay
<1>5. OnItsWay' = IF d = NULL THEN 1 ELSE 0
  BY <1>2 DEF Calls, OnItsWay
<1>6. CASE d # NULL
  <2>1. Failed' = Failed
    BY <1>0, <1>1, <1>2, <1>6 DEF Failed
  <2> QED
    BY <1>3, <1>4, <1>5, <1>6, <2>1, SpareFrame
<1>7. CASE d = NULL
  <2>1. Failed' = Failed \cup {count} /\ count \notin Failed
    BY <1>0, <1>1, <1>2, <1>7 DEF Failed
  <2>2. Cardinality(Failed') = Cardinality(Failed) + 1
    BY <2>1, SpareFinite, FS_AddElement
  <2>3. Blank' = Blank
    BY <1>4 DEF Blank
  <2>4. /\ Cardinality(Spent) \in Nat /\ Cardinality(Blank) \in Nat
        /\ Cardinality(Failed) \in Nat
    BY SpareFinite
  <2> QED
    BY <1>3, <1>4, <1>5, <1>7, <2>2, <2>3, <2>4 DEF SpareInv
<1> QED
  BY <1>6, <1>7

\* Linking moves a NULL from main's hand into the list.
LEMMA PutSpare ==
  ASSUME BaseInv, PlaceInv, SpareInv, Puts(Main), UNCHANGED <<wpc, rstate>>
  PROVE  SpareInv'
<1> USE Threads, ViewTypes
<1> DEFINE d == Val[Main]
           k == Len(Items)
<1>0. Val' = [Val EXCEPT ![Main] = NULL] /\ Items' = Append(Items, d) /\ k \in Nat
  BY DEF Puts
<1>1. /\ Len(Items') = k + 1 /\ Items'[k + 1] = d
      /\ \A i \in 1..k : Items'[i] = Items[i]
  BY <1>0, AppendProperties
<1>2. Spent' = Spent /\ Failed' = Failed
  BY DEF Puts, Spent, Failed
<1>3. OnItsWay' = 0 /\ OnItsWay = IF d = NULL THEN 1 ELSE 0
  BY DEF Puts, OnItsWay
<1>4. Blank' = Blank \cup (IF d = NULL THEN {k + 1} ELSE {}) /\ k + 1 \notin Blank
  <2>1. \A i : i \in 1..Len(Items') <=> i \in 1..k \/ i = k + 1
    BY <1>0, <1>1
  <2>2. k + 1 \notin Blank
    BY <1>0 DEF Blank
  <2>3. \A i : i \in Blank' <=> i \in 1..Len(Items') /\ Items'[i] = NULL
    BY DEF Blank
  <2>4. \A i : i \in Blank <=> i \in 1..k /\ Items[i] = NULL
    BY DEF Blank
  <2> QED
    BY <1>1, <2>1, <2>2, <2>3, <2>4
<1>5. Cardinality(Blank') = Cardinality(Blank) + (IF d = NULL THEN 1 ELSE 0)
  <2>1. CASE d = NULL
    BY <1>4, <2>1, SpareFinite, FS_AddElement
  <2>2. CASE d # NULL
    <3>1. Blank' = Blank
      BY <1>4, <2>2
    <3> QED
      BY <2>2, <3>1, SpareFinite
  <2> QED
    BY <2>1, <2>2
<1>6. ~isclosed
  BY DEF PlaceInv, Roles, Puts
<1> QED
  BY <1>2, <1>3, <1>5, <1>6, SpareFinite DEF SpareInv

\* Unlinking a NULL pays for the worker that gets it.
LEMMA TakeSpare ==
  ASSUME BaseInv, PlaceInv, SpareInv, NEW w \in Worker, wpc[w] = "called",
         Takes(w), UNCHANGED <<wpc, rstate>>
  PROVE  SpareInv'
<1> USE Threads, ViewTypes
<1> DEFINE d == Items[1]
           k == Len(Items)
           paid == IF d = NULL THEN 1 ELSE 0
<1>0. Items \in Seq(Request \cup {NULL}) /\ Items # <<>> /\ Items' = Tail(Items)
  BY DEF Takes
<1>1. /\ k \in Nat /\ k >= 1 /\ Len(Items') = k - 1
      /\ \A i \in 1..(k - 1) : i + 1 \in 1..k /\ Items'[i] = Items[i + 1]
      /\ Head(Items) = d
  BY <1>0, TailFacts
<1>2. Failed' = Failed /\ OnItsWay' = OnItsWay
  BY DEF Takes, Failed, OnItsWay
<1>3. Spent' = Spent \cup (IF d = NULL THEN {w} ELSE {}) /\ w \notin Spent
  <2>1. \A u \in Worker \ {w} : PhaseMap'[u] = PhaseMap[u] /\ Val'[u] = Val[u]
    BY DEF Takes
  <2>2. PhaseMap[w] = "take" /\ PhaseMap'[w] = "done" /\ Val'[w] = d
    BY <1>1 DEF Takes
  <2>3. w \notin Spent /\ (w \in Spent' <=> d = NULL)
    BY <2>2 DEF Spent
  <2>4. \A u \in Worker \ {w} : u \in Spent' <=> u \in Spent
    BY <2>1 DEF Spent
  <2>5. Spent \subseteq Worker /\ Spent' \subseteq Worker
    BY DEF Spent
  <2> QED
    BY <2>3, <2>4, <2>5
<1>4. Cardinality(Spent') = Cardinality(Spent) + paid
  <2>1. CASE d = NULL
    BY <1>3, <2>1, SpareFinite, FS_AddElement
  <2>2. CASE d # NULL
    <3>1. Spent' = Spent
      BY <1>3, <2>2
    <3> QED
      BY <2>2, <3>1, SpareFinite
  <2> QED
    BY <2>1, <2>2
<1>5. Cardinality(Blank') \in Nat /\ Cardinality(Blank') <= Cardinality(Blank) - paid
  <2> DEFINE rest == Blank \ {1}
             back == [i \in rest |-> i - 1]
  <2>1. 1 \in Blank <=> d = NULL
    BY <1>1 DEF Blank
  <2>2. IsFiniteSet(rest) /\ Cardinality(rest) = Cardinality(Blank) - paid
    BY <2>1, SpareFinite, FS_RemoveElement
  <2>3. ASSUME NEW i \in rest PROVE i - 1 \in Blank'
    <3>1. i \in 1..k /\ i # 1 /\ Items[i] = NULL
      BY DEF Blank
    <3>2. i - 1 \in 1..(k - 1) /\ (i - 1) + 1 = i
      BY <1>1, <3>1
    <3>3. Items'[i - 1] = NULL
      BY <1>1, <3>1, <3>2
    <3> QED
      BY <1>1, <3>2, <3>3 DEF Blank
  <2>4. ASSUME NEW j \in Blank' PROVE \E i \in rest : back[i] = j
    <3>1. j \in 1..(k - 1) /\ Items'[j] = NULL
      BY <1>1 DEF Blank
    <3>2. j + 1 \in 1..k /\ Items[j + 1] = NULL /\ j + 1 # 1 /\ (j + 1) - 1 = j
      BY <1>1, <3>1
    <3>3. j + 1 \in rest
      BY <3>2 DEF Blank
    <3> QED
      BY <3>2, <3>3
  <2>5. back \in Surjection(rest, Blank')
    BY <2>3, <2>4 DEF Surjection
  <2> QED
    BY <2>2, <2>5, FS_Surjection, FS_CardinalityType
<1>6. Cardinality(Spent) + Cardinality(Blank) + OnItsWay <= Cardinality(Failed)
  BY <1>0 DEF SpareInv
<1>7. /\ Cardinality(Spent) \in Nat /\ Cardinality(Blank) \in Nat
      /\ Cardinality(Failed) \in Nat /\ OnItsWay \in {0, 1}
  BY SpareFinite
<1>8. Cardinality(Spent') + Cardinality(Blank') + OnItsWay' <= Cardinality(Failed')
  BY <1>2, <1>4, <1>5, <1>6, <1>7
<1> QED
  BY <1>8 DEF SpareInv

\* Every step of the server keeps the account of NULLs.
LEMMA SpareStep ==
  ASSUME BaseInv, PlaceInv, SpareInv, [Next]_vars
  PROVE  SpareInv'
<1> USE Threads, ViewTypes
<1>0. /\ wpc \in [Worker -> {"unborn", "loop", "called", "exited"} \cup Serving]
      /\ rstate \in [Request -> {"unborn", "live", "failed", "used", "freed"}]
      /\ OnItsWay \in {0, 1}
  BY DEF BaseInv, ServerInv, PoolTypeOK, OnItsWay
<1>1. CASE UNCHANGED vars \/ Terminated
  <2>1. Still /\ UNCHANGED <<wpc, rstate>>
    BY <1>1, QuietMoves DEF vars, serverVars, Terminated
  <2> QED
    BY <1>0, <2>1, SpareFrame DEF Still, Spent, OnItsWay, Failed
<1>2. CASE MainStep
  <2>1. CASE \/ \E n \in ThreadArgs : ParseArgs(n)
             \/ PoolReady \/ JoinWorker \/ PoolDestroyed \/ queue_destroy
    <3>1. Still /\ UNCHANGED <<wpc, rstate>>
      BY <2>1, QuietMoves DEF ParseArgs, PoolReady, JoinWorker, PoolDestroyed, queue_destroy
    <3> QED
      BY <1>0, <3>1, SpareFrame DEF Still, Spent, OnItsWay, Failed
  <2>2. CASE SpawnWorker
    <3>1. Still /\ UNCHANGED rstate
      BY <2>2, QuietMoves DEF SpawnWorker
    <3>2. \A w \in Worker : wpc'[w] \in {wpc[w], "loop"}
      BY <1>0, <2>2 DEF SpawnWorker, WorkerGoto
    <3>3. Spent' \subseteq Spent
      BY <3>1, <3>2 DEF Still, Spent
    <3> QED
      BY <1>0, <3>1, <3>3, SpareFrame DEF Still, OnItsWay, Failed
  <2>3. CASE SpawnFails
    <3>1. AllDead /\ UNCHANGED <<wpc, rstate>>
      BY <2>3, QuietMoves DEF SpawnFails, serverVars
    <3>2. Spent' \subseteq Spent /\ OnItsWay' = 0
      BY <3>1 DEF AllDead, Spent, OnItsWay
    <3> QED
      BY <1>0, <3>1, <3>2, SpareFrame DEF AllDead, Failed
  <2>4. CASE SubmitRequest
    BY <2>4, SubmitSpare
  <2>5. CASE CloseQueue
    <3>1. Calls(Main, "close", NULL) /\ UNCHANGED <<wpc, rstate>>
      BY <2>5, CallMoves DEF CloseQueue
    <3>2. Spent' \subseteq Spent /\ OnItsWay' = 0
      BY <3>1 DEF Calls, Spent, OnItsWay
    <3> QED
      BY <1>0, <3>1, <3>2, SpareFrame DEF Calls, Failed
  <2>6. CASE Step(Main) /\ UNCHANGED serverVars
    <3>1. MainMoves /\ UNCHANGED <<wpc, rstate>>
      BY <2>6, MainInQueue DEF Elsewhere, PlaceInv
    <3>2. CASE Puts(Main)
      BY <3>1, <3>2, PutSpare
    <3>3. CASE ~Puts(Main)
      <4>1. Items' = Items /\ Val' = Val
        BY <3>1, <3>3 DEF MainMoves, Still, Closes, Returns, AllDead
      <4>2. isclosed => isclosed'
        BY <3>1, <3>3 DEF MainMoves, Still, Closes, Returns, AllDead
      <4>3. Spent' \subseteq Spent /\ OnItsWay' \in {0, OnItsWay}
        BY <3>1, <3>3, <4>1 DEF MainMoves, Still, Closes, Returns, AllDead, Spent, OnItsWay
      <4> QED
        BY <1>0, <3>1, <4>1, <4>2, <4>3, SpareFrame DEF Failed
    <3> QED
      BY <3>2, <3>3
  <2> QED
    BY <1>2, <2>1, <2>2, <2>3, <2>4, <2>5, <2>6 DEF MainStep
<1>3. ASSUME NEW w \in Worker, WorkerStep(w) \/ Spurious(w)
      PROVE  SpareInv'
  <2>1. CASE WorkerDequeue(w)
    <3>1. /\ Calls(w, "take", NULL) /\ UNCHANGED rstate
          /\ wpc' = [wpc EXCEPT ![w] = "called"]
      BY <2>1, CallMoves DEF WorkerDequeue, WorkerGoto
    <3>2. Spent' \subseteq Spent /\ OnItsWay' = OnItsWay
      BY <1>0, <3>1 DEF Calls, Spent, OnItsWay
    <3> QED
      BY <1>0, <3>1, <3>2, SpareFrame DEF Calls, Failed
  <2>2. CASE WorkerExit(w)
    <3>1. /\ Still /\ Val[w] = NULL /\ PhaseMap[w] = "idle" /\ wpc[w] = "called"
          /\ UNCHANGED rstate /\ wpc' = [wpc EXCEPT ![w] = "exited"]
      BY <2>2, QuietMoves, IdleView DEF WorkerExit, WorkerAt, Outside, WorkerGoto
    <3>2. Spent' \subseteq Spent
      BY <1>0, <3>1 DEF Still, Spent
    <3> QED
      BY <1>0, <3>1, <3>2, SpareFrame DEF Still, OnItsWay, Failed
  <2>3. CASE WorkerRun(w) \/ LogLock(w) \/ LogWrite(w) \/ LogUnlock(w) \/ WorkerFree(w)
    <3>1. Still
      BY <2>3, QuietMoves DEF WorkerRun, LogLock, LogWrite, LogUnlock, WorkerFree
    <3>2. Spent' \subseteq Spent
      <4>1. \A u \in Worker : wpc'[u] \in {wpc[u], "loop", "task", "logging", "logged", "ran"}
        BY <1>0, <2>3 DEF WorkerRun, LogLock, LogWrite, LogUnlock, WorkerFree, WorkerGoto
      <4> QED
        BY <3>1, <4>1 DEF Still, Spent
    <3>3. Failed \subseteq Failed'
      <4>1. CASE WorkerRun(w) \/ LogLock(w) \/ LogWrite(w)
        BY <4>1 DEF WorkerRun, LogLock, LogWrite, Failed
      <4>2. CASE LogUnlock(w) \/ WorkerFree(w)
        <5>1. item[w] = Val[w] /\ wpc[w] \in {"logged", "ran"}
          BY <4>2, IdleView DEF LogUnlock, WorkerFree, WorkerAt, Outside
        <5>2. item[w] \in Request => Holds(w, item[w])
          BY <5>1 DEF Holds
        <5>3. item[w] \notin Failed
          BY <5>2 DEF PlaceInv, Kept, Failed
        <5>4. \A r \in Request \ {item[w]} : rstate'[r] = rstate[r]
          BY <1>0, <4>2 DEF LogUnlock, WorkerFree
        <5> QED
          BY <5>3, <5>4 DEF Failed
      <4> QED
        BY <2>3, <4>1, <4>2
    <3> QED
      BY <1>0, <3>1, <3>2, <3>3, SpareFrame DEF Still, OnItsWay
  <2>4. CASE (Step(w) /\ UNCHANGED serverVars) \/ Spurious(w)
    <3>1. WorkerMoves(w) /\ wpc[w] = "called" /\ UNCHANGED <<wpc, rstate>>
      BY <2>4, WorkerInQueue DEF Elsewhere, PlaceInv
    <3>2. CASE Takes(w)
      BY <3>1, <3>2, TakeSpare
    <3>3. CASE TakesNothing(w)
      BY <3>3 DEF TakesNothing, SpareInv
    <3>4. CASE Still \/ Returns(w)
      <4>1. Spent' \subseteq Spent /\ OnItsWay' = OnItsWay
        BY <3>1, <3>4 DEF Still, Returns, Spent, OnItsWay
      <4> QED
        BY <1>0, <3>1, <3>4, <4>1, SpareFrame DEF Still, Returns, Failed
    <3> QED
      BY <3>1, <3>2, <3>3, <3>4 DEF WorkerMoves
  <2> QED
    BY <1>3, <2>1, <2>2, <2>3, <2>4 DEF WorkerStep
<1> QED
  BY <1>1, <1>2, <1>3 DEF Next

\* The account of NULLs is balanced at the start, when there are none.
LEMMA SpareInit ==
  ASSUME ServerInit
  PROVE  SpareInv
<1>1. /\ Items = <<>> /\ PhaseMap = [t \in Thread |-> "idle"]
  BY Phases DEF ServerInit, QueueInit, Items, PhaseMap
<1>2. Spent = {} /\ Failed = {} /\ OnItsWay = 0
  BY <1>1, Threads DEF ServerInit, Spent, Failed, OnItsWay
<1>3. Blank = {}
  BY <1>1 DEF Blank
<1> QED
  BY <1>2, <1>3, FS_EmptySet DEF SpareInv

\* Once all workers have been joined, one of them found the queue closed and
\* drained, unless each of them was given a NULL of its own.
LEMMA JoinedMeansServed ==
  ASSUME BaseInv, PlaceInv, SpareInv
  PROVE  AllServed
<1> SUFFICES ASSUME mpc \in {"destroy", "done"}, Cardinality(Failed) < num_threads
             PROVE  (\A r \in Request \ Failed : rstate[r] = "freed") /\ live = {}
  BY DEF AllServed
<1> USE Threads, ViewTypes
<1>0. /\ rstate \in [Request -> {"unborn", "live", "failed", "used", "freed"}]
      /\ num_threads \in Int /\ joined >= num_threads /\ joined \in 0..MaxWorkers
      /\ \A w \in Worker : w <= joined => wpc[w] = "exited"
      /\ PhaseMap[Main] = "idle" /\ Val[Main] = NULL
      /\ count = NumRequests + 1 /\ Cardinality(Failed) \in Nat
  BY SpareFinite DEF BaseInv, ServerInv, PoolTypeOK, PoolInv, PlaceInv, Roles
<1>1. \A w \in Worker : wpc[w] \in {"unborn", "exited"} /\ op[w] \in {"idle", "dead"}
  <2>1. \A w \in Worker : wpc[w] \in {"unborn", "exited"}
    BY <1>0 DEF BaseInv, ServerInv, PoolInv, PoolTypeOK, Worker
  <2> QED
    BY <2>1 DEF BaseInv, ServerInv, PoolInv
<1>2. isclosed /\ Items = <<>>
  <2>1. 1..num_threads \subseteq Spent
    BY <1>0 DEF Spent, Worker
  <2>2. Cardinality(1..num_threads) = num_threads
    BY <1>0, FS_Interval
  <2>3. num_threads <= Cardinality(Spent)
    <3>1. IsFiniteSet(Spent) /\ 1..num_threads \in SUBSET Spent
      BY <2>1, SpareFinite
    <3>2. Cardinality(1..num_threads) <= Cardinality(Spent)
      BY <3>1, FS_Subset, Zenon
    <3> QED
      BY <2>2, <3>2
  <2>4. ~(Cardinality(Spent) + Cardinality(Blank) + OnItsWay <= Cardinality(Failed))
    BY <1>0, <2>3, SpareFinite
  <2> QED
    BY <2>4, Zenon DEF SpareInv
<1>3. ASSUME NEW r \in Request \ Failed PROVE rstate[r] = "freed"
  <2>1. ~InList(r)
    BY <1>2 DEF InList
  <2>2. Thread = Worker \cup {Main}
    BY ServerConstants
  <2>3. \A t \in Thread : ~Holds(t, r)
    BY <1>0, <1>1, <2>2 DEF Holds, PlaceInv, Roles
  <2>4. rstate[r] # "unborn"
    BY <1>0 DEF PlaceInv, Kept, Request
  <2>5. rstate[r] \notin {"live", "used"}
    BY <2>1, <2>3 DEF PlaceInv, Kept
  <2> QED
    BY <1>0, <2>4, <2>5 DEF Failed
<1>4. live = {}
  <2>1. chain = <<>>
    <3>1. chain \in Seq(Node) /\ Len(Items) = Len(chain)
      BY ItemsSeq DEF BaseInv, ServerInv, QueueInv, QueueTypeOK, Items
    <3>2. Len(chain) = 0
      BY <1>2, <3>1
    <3> QED
      BY <3>1, <3>2, EmptySeq
  <2>2. op[Main] = "idle"
    <3>1. op[Main] \in {"idle", "dead"}
      BY <1>0, BusyView
    <3>2. op[Main] # "dead"
      BY <1>0, Phases DEF PhaseMap
    <3> QED
      BY <3>1, <3>2
  <2>3. \A t \in Thread : op[t] = "idle"
    BY <1>1, <2>2, ServerConstants DEF BaseInv, ServerInv, QueueInv, AllDie
  <2>4. \A t \in Thread : node[t] = NULL
    BY <2>3 DEF BaseInv, ServerInv, QueueInv, Ownership, Owning
  <2>5. Linked = {}
    BY <2>1 DEF Linked
  <2> QED
    BY <2>4, <2>5 DEF BaseInv, ServerInv, QueueInv, NodesAccounted
<1> QED
  BY <1>3, <1>4

\* When the pool has been joined, every request that could be created has run
\* and been freed and the list is empty, provided that there were fewer failed
\* requests than workers.
THEOREM ServerAllServed == Spec => []AllServed
<1>1. ServerInit => SpareInv
  BY SpareInit
<1>2. BaseInv /\ PlaceInv /\ SpareInv /\ [Next]_vars => SpareInv'
  BY SpareStep
<1>3. BaseInv /\ PlaceInv /\ SpareInv => AllServed
  BY JoinedMeansServed
<1> QED
  BY <1>1, <1>2, <1>3, ServerPlaceInvariant, PTL DEF Spec

------------------------------------------------------------------------------
(* A single worker logs the requests in the order of their submission      *)

Before(a, b) == a \in Request /\ b \in Request => a < b

\* Request r comes before request c, which main has still to submit, before
\* what main has in hand and before everything in the list.
Precedes(r, c, hand, list) ==
    /\ r < c
    /\ Before(r, hand)
    /\ \A j \in 1..Len(list) : Before(r, list[j])

\* The list is in order and before what main has in hand, whatever the number
\* of workers.
ListOrder ==
    /\ \A i, j \in 1..Len(Items) : i < j => Before(Items[i], Items[j])
    /\ \A i \in 1..Len(Items) : Before(Items[i], Val[Main])

\* With one worker, the log is in order, and the worker has what comes next.
LogOrder ==
    /\ \A i, j \in 1..Len(log) : i < j => log[i] < log[j]
    /\ \A i \in 1..Len(log) : Precedes(log[i], count, Val[Main], Items)
    /\ \A w \in Worker : Val[w] \in Request => Precedes(Val[w], count, Val[Main], Items)
    /\ \A w \in Worker : wpc[w] \in {"called", "task", "logging"} =>
          \A i \in 1..Len(log) : Before(log[i], Val[w])

OrderInv == ListOrder /\ (spawned <= 1 => LogOrder)

\* Steps that take nothing from the list, submit nothing and log nothing.
LEMMA OrderFrame ==
  ASSUME BaseInv, OrderInv,
         Items' = Items, UNCHANGED <<count, log>>, spawned' <= 1 => spawned <= 1,
         Val'[Main] \in {Val[Main], NULL},
         \A w \in Worker :
            /\ Val'[w] \in {Val[w], NULL}
            /\ wpc'[w] \in {"called", "task", "logging"} =>
                  wpc[w] \in {"called", "task", "logging"} \/ Val'[w] = NULL
  PROVE  OrderInv'
<1> USE ViewTypes
<1>1. ListOrder'
  BY DEF OrderInv, ListOrder, Before
<1>2. ASSUME NEW r, Precedes(r, count, Val[Main], Items)
      PROVE  Precedes(r, count', Val'[Main], Items')
  BY <1>2 DEF Precedes, Before
<1>3. ASSUME spawned' <= 1 PROVE LogOrder'
  <2>1. LogOrder
    BY <1>3 DEF OrderInv
  <2>2. \A i \in 1..Len(log') : Precedes(log'[i], count', Val'[Main], Items')
    BY <1>2, <2>1 DEF LogOrder
  <2>3. \A w \in Worker : Val'[w] \in Request =>
           Precedes(Val'[w], count', Val'[Main], Items')
    BY <1>2, <2>1 DEF LogOrder
  <2>4. \A i, j \in 1..Len(log') : i < j => log'[i] < log'[j]
    BY <2>1 DEF LogOrder
  <2>5. \A w \in Worker : wpc'[w] \in {"called", "task", "logging"} =>
          \A i \in 1..Len(log') : Before(log'[i], Val'[w])
    BY <2>1 DEF LogOrder, Before
  <2> QED
    BY <2>2, <2>3, <2>4, <2>5 DEF LogOrder
<1> QED
  BY <1>1, <1>3 DEF OrderInv

\* What main submits comes after everything submitted before.
LEMMA SubmitOrder ==
  ASSUME BaseInv, PlaceInv, OrderInv, SubmitRequest
  PROVE  OrderInv'
<1> USE Threads, ViewTypes
<1>0. /\ count \in Request /\ count' = count + 1 /\ UNCHANGED <<wpc, log, spawned>>
      /\ log \in Seq(Request)
  BY DEF SubmitRequest, BaseInv, ServerInv, PoolTypeOK, Request
<1>1. PICK d \in {NULL, count} : Calls(Main, "put", d)
  BY CallMoves DEF SubmitRequest
<1>2. /\ Items' = Items /\ Val'[Main] = d
      /\ \A w \in Worker : Val'[w] = Val[w]
  BY <1>1 DEF Calls
<1>3. \A i \in 1..Len(Items) : Items[i] \in Request => Items[i] < count
  <2>1. ASSUME NEW i \in 1..Len(Items), Items[i] \in Request PROVE Items[i] < count
    <3>1. InList(Items[i]) /\ Kept(Items[i])
      BY <2>1 DEF InList, PlaceInv
    <3>2. ~(Items[i] >= count)
      BY <3>1 DEF Kept
    <3> QED
      BY <1>0, <2>1, <3>2 DEF Request
  <2> QED
    BY <2>1
<1>4. ListOrder'
  BY <1>2, <1>3 DEF OrderInv, ListOrder, Before
<1>5. ASSUME NEW r \in Request, Precedes(r, count, Val[Main], Items)
      PROVE  Precedes(r, count', Val'[Main], Items')
  BY <1>0, <1>2, <1>5 DEF Precedes, Before, Request
<1>6. ASSUME spawned <= 1 PROVE LogOrder'
  <2>1. LogOrder
    BY <1>6 DEF OrderInv
  <2>2. \A i \in 1..Len(log) : log[i] \in Request
    BY <1>0, ElementOfSeq
  <2>3. \A i \in 1..Len(log') : Precedes(log'[i], count', Val'[Main], Items')
    BY <1>0, <1>5, <2>1, <2>2 DEF LogOrder
  <2>4. \A w \in Worker : Val'[w] \in Request =>
           Precedes(Val'[w], count', Val'[Main], Items')
    BY <1>2, <1>5, <2>1 DEF LogOrder
  <2>5. /\ \A i, j \in 1..Len(log') : i < j => log'[i] < log'[j]
        /\ \A w \in Worker : wpc'[w] \in {"called", "task", "logging"} =>
              \A i \in 1..Len(log') : Before(log'[i], Val'[w])
    BY <1>0, <1>2, <2>1 DEF LogOrder
  <2> QED
    BY <2>3, <2>4, <2>5 DEF LogOrder
<1> QED
  BY <1>0, <1>4, <1>6 DEF OrderInv

\* Linking keeps the order, since everything in the list comes before what
\* main has in hand.
LEMMA PutOrder ==
  ASSUME BaseInv, PlaceInv, OrderInv, Puts(Main), UNCHANGED <<wpc, log, spawned, count>>
  PROVE  OrderInv'
<1> USE Threads, ViewTypes
<1> DEFINE d == Val[Main]
           k == Len(Items)
<1>0. /\ Val'[Main] = NULL /\ Items' = Append(Items, d) /\ k \in Nat
      /\ \A w \in Worker : Val'[w] = Val[w]
  BY DEF Puts
<1>1. /\ Len(Items') = k + 1 /\ Items'[k + 1] = d
      /\ \A i \in 1..k : Items'[i] = Items[i]
      /\ \A i \in 1..(k + 1) : i \in 1..k \/ i = k + 1
  BY <1>0, AppendProperties
<1>2. ListOrder'
  <2>1. ASSUME NEW i \in 1..Len(Items'), NEW j \in 1..Len(Items'), i < j
        PROVE  Before(Items'[i], Items'[j])
    <3>1. i \in 1..k
      BY <1>0, <1>1, <2>1
    <3>2. CASE j \in 1..k
      BY <1>1, <2>1, <3>1, <3>2 DEF OrderInv, ListOrder
    <3>3. CASE j = k + 1
      BY <1>1, <3>1, <3>3 DEF OrderInv, ListOrder
    <3> QED
      BY <1>1, <3>2, <3>3
  <2>2. \A i \in 1..Len(Items') : Before(Items'[i], Val'[Main])
    BY <1>0 DEF Before
  <2> QED
    BY <2>1, <2>2 DEF ListOrder
<1>3. ASSUME NEW r, Precedes(r, count, Val[Main], Items)
      PROVE  Precedes(r, count', Val'[Main], Items')
  <2>1. \A j \in 1..Len(Items') : Before(r, Items'[j])
    BY <1>1, <1>3 DEF Precedes
  <2>2. r < count' /\ Before(r, Val'[Main])
    BY <1>0, <1>3 DEF Precedes, Before
  <2> QED
    BY <2>1, <2>2 DEF Precedes
<1>4. ASSUME LogOrder PROVE LogOrder'
  BY <1>0, <1>3, <1>4 DEF LogOrder
<1> QED
  BY <1>2, <1>4 DEF OrderInv

\* What a worker takes comes after everything logged and before everything
\* that stays in the list.
LEMMA TakeOrder ==
  ASSUME BaseInv, PlaceInv, OrderInv, NEW w \in Worker, Takes(w),
         UNCHANGED <<wpc, log, spawned, count>>
  PROVE  OrderInv'
<1> USE Threads, ViewTypes
<1> DEFINE d == Items[1]
           k == Len(Items)
<1>0. Items \in Seq(Request \cup {NULL}) /\ Items # <<>> /\ Items' = Tail(Items)
  BY DEF Takes
<1>1. /\ k \in Nat /\ k >= 1 /\ Len(Items') = k - 1
      /\ \A i \in 1..(k - 1) : i + 1 \in 1..k /\ Items'[i] = Items[i + 1]
      /\ Head(Items) = d
  BY <1>0, TailFacts
<1>2. /\ Val'[w] = d /\ \A t \in Thread \ {w} : Val'[t] = Val[t]
  BY <1>1 DEF Takes
<1>3. Val'[Main] = Val[Main]
  BY <1>2
<1>4. ListOrder'
  <2>1. ASSUME NEW i \in 1..Len(Items'), NEW j \in 1..Len(Items'), i < j
        PROVE  Before(Items'[i], Items'[j])
    BY <1>1, <2>1 DEF OrderInv, ListOrder
  <2>2. \A i \in 1..Len(Items') : Before(Items'[i], Val'[Main])
    BY <1>1, <1>3 DEF OrderInv, ListOrder
  <2> QED
    BY <2>1, <2>2 DEF ListOrder
<1>5. ASSUME NEW r, Precedes(r, count, Val[Main], Items)
      PROVE  Precedes(r, count', Val'[Main], Items')
  <2>1. \A j \in 1..Len(Items') : Before(r, Items'[j])
    BY <1>1, <1>5 DEF Precedes
  <2> QED
    BY <1>3, <1>5, <2>1 DEF Precedes
<1>6. ASSUME d \in Request PROVE Precedes(d, count', Val'[Main], Items')
  <2>1. d < count
    <3>1. InList(d) /\ Kept(d)
      BY <1>1, <1>6 DEF InList, PlaceInv
    <3>2. ~(d >= count)
      BY <3>1 DEF Kept
    <3> QED
      BY <1>6, <3>2 DEF Request, BaseInv, ServerInv, PoolTypeOK
  <2>2. \A j \in 1..Len(Items') : Before(d, Items'[j])
    BY <1>1 DEF OrderInv, ListOrder
  <2>3. Before(d, Val[Main])
    BY <1>1 DEF OrderInv, ListOrder
  <2> QED
    BY <1>3, <2>1, <2>2, <2>3 DEF Precedes
<1>7. ASSUME LogOrder PROVE LogOrder'
  <2>1. \A i \in 1..Len(log') : Precedes(log'[i], count', Val'[Main], Items')
    BY <1>5, <1>7 DEF LogOrder
  <2>2. \A u \in Worker : Val'[u] \in Request =>
           Precedes(Val'[u], count', Val'[Main], Items')
    <3>1. Val'[w] \in Request => Precedes(Val'[w], count', Val'[Main], Items')
      BY <1>2, <1>6
    <3>2. \A u \in Worker \ {w} : Val'[u] \in Request =>
             Precedes(Val'[u], count', Val'[Main], Items')
      BY <1>2, <1>5, <1>7 DEF LogOrder
    <3> QED
      BY <3>1, <3>2
  <2>3. \A i \in 1..Len(log) : Before(log[i], d)
    BY <1>1, <1>7 DEF LogOrder, Precedes
  <2>4. \A u \in Worker : wpc'[u] \in {"called", "task", "logging"} =>
           \A i \in 1..Len(log') : Before(log'[i], Val'[u])
    BY <1>2, <1>7, <2>3 DEF LogOrder
  <2>5. \A i, j \in 1..Len(log') : i < j => log'[i] < log'[j]
    BY <1>7 DEF LogOrder
  <2> QED
    BY <2>1, <2>2, <2>4, <2>5 DEF LogOrder
<1> QED
  BY <1>4, <1>7 DEF OrderInv

\* The line a single worker appends is about a later request than all lines
\* before it, and no other worker has a request in hand.
LEMMA LogWriteOrder ==
  ASSUME BaseInv, PlaceInv, OrderInv, NEW w \in Worker, LogWrite(w)
  PROVE  OrderInv'
<1> USE Threads, ViewTypes
<1> DEFINE d == item[w]
           n == Len(log)
<1>0. /\ wpc \in [Worker -> {"unborn", "loop", "called", "exited"} \cup Serving]
      /\ log \in Seq(Request) /\ spawned \in 0..MaxWorkers
  BY DEF BaseInv, ServerInv, PoolTypeOK
<1>1. /\ Still /\ UNCHANGED <<count, spawned>> /\ wpc' = [wpc EXCEPT ![w] = "logged"]
      /\ wpc[w] = "logging" /\ d = Val[w]
  BY QuietMoves, IdleView DEF LogWrite, WorkerAt, Outside, WorkerGoto
<1>2. CASE log' = log
  <2>1. \A u \in Worker : wpc'[u] \in {"called", "task", "logging"} =>
           wpc[u] \in {"called", "task", "logging"}
    BY <1>0, <1>1
  <2> QED
    BY <1>1, <1>2, <2>1, OrderFrame DEF Still
<1>3. CASE log' = Append(log, d)
  <2>1. ListOrder'
    BY <1>1 DEF Still, OrderInv, ListOrder
  <2>2. ASSUME NEW r, Precedes(r, count, Val[Main], Items)
        PROVE  Precedes(r, count', Val'[Main], Items')
    BY <1>1, <2>2 DEF Still, Precedes
  <2>3. ASSUME spawned <= 1 PROVE LogOrder'
    <3>0. LogOrder
      BY <2>3 DEF OrderInv
    <3>1. d \in Request
      BY <1>1 DEF BaseInv, ServerInv, PoolInv, Serving
    <3>2. /\ n \in Nat /\ Len(log') = n + 1 /\ log'[n + 1] = d
          /\ \A i \in 1..n : log'[i] = log[i] /\ log[i] \in Request
          /\ \A i \in 1..(n + 1) : i \in 1..n \/ i = n + 1
      BY <1>0, <1>3, <3>1, AppendProperties, LenProperties, ElementOfSeq
    <3>3. \A i \in 1..n : log[i] < d
      BY <1>1, <3>0, <3>1, <3>2 DEF LogOrder, Before
    <3>4. ASSUME NEW i \in 1..Len(log'), NEW j \in 1..Len(log'), i < j
          PROVE  log'[i] < log'[j]
      <4>1. i \in 1..n
        BY <3>2, <3>4
      <4>2. CASE j \in 1..n
        BY <3>0, <3>2, <3>4, <4>1, <4>2 DEF LogOrder
      <4>3. CASE j = n + 1
        BY <3>2, <3>3, <4>1, <4>3
      <4> QED
        BY <3>2, <4>2, <4>3
    <3>5. \A i \in 1..Len(log') : Precedes(log'[i], count', Val'[Main], Items')
      BY <1>1, <2>2, <3>0, <3>1, <3>2 DEF LogOrder
    <3>6. \A u \in Worker : Val'[u] \in Request =>
             Precedes(Val'[u], count', Val'[Main], Items')
      BY <1>1, <2>2, <3>0 DEF LogOrder, Still
    <3>7. \A u \in Worker : wpc'[u] \notin {"called", "task", "logging"}
      <4>1. ASSUME NEW u \in Worker \ {w} PROVE wpc[u] = "unborn"
        <5>1. w <= spawned /\ (wpc[u] # "unborn" => u <= spawned)
          BY <1>1 DEF BaseInv, ServerInv, PoolInv
        <5> QED
          BY <1>0, <2>3, <5>1 DEF Worker
      <4> QED
        BY <1>0, <1>1, <4>1
    <3> QED
      BY <3>4, <3>5, <3>6, <3>7 DEF LogOrder
  <2> QED
    BY <1>1, <2>1, <2>3 DEF OrderInv
<1> QED
  BY <1>2, <1>3, Zenon DEF LogWrite

\* Every step of the server keeps the order.
LEMMA OrderStep ==
  ASSUME BaseInv, PlaceInv, OrderInv, [Next]_vars
  PROVE  OrderInv'
<1> USE Threads, ViewTypes
<1>0. /\ wpc \in [Worker -> {"unborn", "loop", "called", "exited"} \cup Serving]
      /\ spawned \in 0..MaxWorkers
  BY DEF BaseInv, ServerInv, PoolTypeOK
<1>1. CASE UNCHANGED vars \/ Terminated
  <2>1. Still /\ UNCHANGED <<wpc, count, log, spawned>>
    BY <1>1, QuietMoves DEF vars, serverVars, Terminated
  <2> QED
    BY <2>1, OrderFrame DEF Still
<1>2. CASE MainStep
  <2>1. CASE \/ \E n \in ThreadArgs : ParseArgs(n)
             \/ PoolReady \/ JoinWorker \/ PoolDestroyed \/ queue_destroy
    <3>1. Still /\ UNCHANGED <<wpc, count, log, spawned>>
      BY <2>1, QuietMoves DEF ParseArgs, PoolReady, JoinWorker, PoolDestroyed, queue_destroy
    <3> QED
      BY <3>1, OrderFrame DEF Still
  <2>2. CASE SpawnWorker
    <3>1. Still /\ UNCHANGED <<count, log>> /\ (spawned' <= 1 => spawned <= 1)
      BY <1>0, <2>2, QuietMoves DEF SpawnWorker
    <3>2. \A w \in Worker : wpc'[w] \in {wpc[w], "loop"}
      BY <1>0, <2>2 DEF SpawnWorker, WorkerGoto
    <3> QED
      BY <3>1, <3>2, OrderFrame DEF Still
  <2>3. CASE SpawnFails
    <3>1. AllDead /\ UNCHANGED <<wpc, count, log, spawned>>
      BY <2>3, QuietMoves DEF SpawnFails, serverVars
    <3> QED
      BY <3>1, OrderFrame DEF AllDead
  <2>4. CASE SubmitRequest
    BY <2>4, SubmitOrder
  <2>5. CASE CloseQueue
    <3>1. Calls(Main, "close", NULL) /\ UNCHANGED <<wpc, count, log, spawned>>
      BY <2>5, CallMoves DEF CloseQueue
    <3> QED
      BY <3>1, OrderFrame DEF Calls
  <2>6. CASE Step(Main) /\ UNCHANGED serverVars
    <3>1. MainMoves /\ UNCHANGED <<wpc, count, log, spawned>>
      BY <2>6, MainInQueue DEF Elsewhere, PlaceInv
    <3>2. CASE Puts(Main)
      BY <3>1, <3>2, PutOrder
    <3>3. CASE ~Puts(Main)
      <4>1. Items' = Items /\ Val' = Val
        BY <3>1, <3>3 DEF MainMoves, Still, Closes, Returns, AllDead
      <4> QED
        BY <3>1, <4>1, OrderFrame
    <3> QED
      BY <3>2, <3>3
  <2> QED
    BY <1>2, <2>1, <2>2, <2>3, <2>4, <2>5, <2>6 DEF MainStep
<1>3. ASSUME NEW w \in Worker, WorkerStep(w) \/ Spurious(w)
      PROVE  OrderInv'
  <2>1. CASE WorkerDequeue(w)
    <3>1. /\ Calls(w, "take", NULL) /\ UNCHANGED <<count, log, spawned>>
          /\ wpc' = [wpc EXCEPT ![w] = "called"]
      BY <2>1, CallMoves DEF WorkerDequeue, WorkerGoto
    <3>2. \A u \in Worker \ {w} : wpc'[u] = wpc[u]
      BY <1>0, <3>1
    <3> QED
      BY <3>1, <3>2, OrderFrame DEF Calls
  <2>2. CASE LogWrite(w)
    BY <2>2, LogWriteOrder
  <2>3. CASE WorkerRun(w) \/ WorkerExit(w) \/ LogLock(w) \/ LogUnlock(w) \/ WorkerFree(w)
    <3>1. Still /\ UNCHANGED <<count, log, spawned>>
      BY <2>3, QuietMoves DEF WorkerRun, WorkerExit, LogLock, LogUnlock, WorkerFree
    <3>2. \A u \in Worker : wpc'[u] \in {"called", "task", "logging"} =>
             wpc[u] \in {"called", "task", "logging"}
      BY <1>0, <2>3 DEF WorkerRun, WorkerExit, LogLock, LogUnlock, WorkerFree,
                        WorkerAt, WorkerGoto
    <3> QED
      BY <3>1, <3>2, OrderFrame DEF Still
  <2>4. CASE (Step(w) /\ UNCHANGED serverVars) \/ Spurious(w)
    <3>1. WorkerMoves(w) /\ UNCHANGED <<wpc, count, log, spawned>>
      BY <2>4, WorkerInQueue DEF Elsewhere, PlaceInv
    <3>2. CASE Takes(w)
      BY <3>1, <3>2, TakeOrder
    <3>3. CASE ~Takes(w)
      <4>1. Items' = Items /\ Val' = Val
        BY <3>1, <3>3 DEF WorkerMoves, Still, TakesNothing, Returns
      <4> QED
        BY <3>1, <4>1, OrderFrame
    <3> QED
      BY <3>2, <3>3
  <2> QED
    BY <1>3, <2>1, <2>2, <2>3, <2>4 DEF WorkerStep
<1> QED
  BY <1>1, <1>2, <1>3 DEF Next

------------------------------------------------------------------------------
(* One worker at a time writes, and one line per request                   *)

\* What is written is about requests that have run, once each, and not about
\* what a worker will still write; who writes has the mutex.
LinesInv ==
    /\ \A v \in Worker : wpc[v] \in {"logging", "logged"} => logMutex = v
    /\ \A i \in 1..Len(log) : runs[log[i]] = 1
    /\ \A i \in 1..Len(log), v \in Worker : wpc[v] \in {"task", "logging"} => log[i] # Val[v]
    /\ \A i, j \in 1..Len(log) : i < j => log[i] # log[j]

\* A step that runs and writes nothing, and leaves the mutex and the requests
\* of those who run a task alone.
LEMMA LinesFrame ==
  ASSUME LinesInv, UNCHANGED <<runs, log, logMutex>>,
         \A v \in Worker : wpc'[v] \in {"task", "logging", "logged"} =>
             wpc'[v] = wpc[v] /\ Val'[v] = Val[v]
  PROVE  LinesInv'
BY DEF LinesInv

\* A task begins: its request has not been run, so no line is about it.
LEMMA RunLines ==
  ASSUME BaseInv, PlaceInv, LinesInv, NEW w \in Worker, WorkerRun(w)
  PROVE  LinesInv'
<1> USE Threads, ViewTypes
<1> DEFINE d == item[w]
<1>0. /\ wpc \in [Worker -> {"unborn", "loop", "called", "exited"} \cup Serving]
      /\ log \in Seq(Request) /\ runs \in [Request -> Nat]
  BY DEF BaseInv, ServerInv, PoolTypeOK
<1>1. /\ Still /\ UNCHANGED <<log, logMutex>> /\ wpc' = [wpc EXCEPT ![w] = "task"]
      /\ wpc[w] = "called" /\ d = Val[w] /\ d \in Request
      /\ runs' = [runs EXCEPT ![d] = @ + 1]
  BY QuietMoves, IdleView DEF WorkerRun, WorkerAt, Outside, WorkerGoto
<1>2. runs[d] = 0
  BY <1>1 DEF PlaceInv, Kept, Holds
<1>3. \A i \in 1..Len(log) : log[i] \in Request /\ log[i] # d
  BY <1>0, <1>2, ElementOfSeq DEF LinesInv
<1>4. \A i \in 1..Len(log') : runs'[log'[i]] = 1
  BY <1>0, <1>1, <1>3 DEF LinesInv
<1>5. \A i \in 1..Len(log'), v \in Worker : wpc'[v] \in {"task", "logging"} => log'[i] # Val'[v]
  BY <1>0, <1>1, <1>3 DEF LinesInv, Still
<1>6. \A v \in Worker : wpc'[v] \in {"logging", "logged"} => logMutex' = v
  BY <1>0, <1>1 DEF LinesInv
<1> QED
  BY <1>1, <1>4, <1>5, <1>6 DEF LinesInv

\* A worker that writes has in hand a request that no line is about and that
\* no other worker has in hand.
LEMMA WriteLines ==
  ASSUME BaseInv, PlaceInv, LinesInv, NEW w \in Worker, LogWrite(w)
  PROVE  LinesInv'
<1> USE Threads, ViewTypes
<1> DEFINE d == item[w]
           n == Len(log)
<1>0. /\ wpc \in [Worker -> {"unborn", "loop", "called", "exited"} \cup Serving]
      /\ log \in Seq(Request)
  BY DEF BaseInv, ServerInv, PoolTypeOK
<1>1. /\ Still /\ UNCHANGED <<runs, logMutex>> /\ wpc' = [wpc EXCEPT ![w] = "logged"]
      /\ wpc[w] = "logging" /\ d = Val[w]
  BY QuietMoves, IdleView DEF LogWrite, WorkerAt, Outside, WorkerGoto
<1>2. d \in Request /\ Holds(w, d) /\ runs[d] = 1
  <2>1. d \in Request
    BY <1>1 DEF BaseInv, ServerInv, PoolInv, Serving
  <2>2. Holds(w, d)
    BY <1>1 DEF Holds
  <2> QED
    BY <1>1, <2>1, <2>2 DEF PlaceInv, Kept
<1>3. \A v \in Worker \ {w} : wpc'[v] = wpc[v]
  BY <1>0, <1>1
<1>4. \A v \in Worker : wpc'[v] \in {"logging", "logged"} => logMutex' = v
  BY <1>0, <1>1, <1>3 DEF LinesInv
<1>5. \A v \in Worker : wpc'[v] \in {"task", "logging"} =>
         v # w /\ wpc[v] \in {"task", "logging"} /\ Val'[v] = Val[v] /\ Val[v] # d
  <2> SUFFICES ASSUME NEW v \in Worker, wpc'[v] \in {"task", "logging"}
               PROVE  /\ v # w /\ wpc[v] \in {"task", "logging"}
                      /\ Val'[v] = Val[v] /\ Val[v] # d
    OBVIOUS
  <2>1. v # w /\ wpc[v] \in {"task", "logging"} /\ Val'[v] = Val[v]
    BY <1>0, <1>1, <1>3 DEF Still
  <2>2. Val[v] # d
    BY <1>2, <2>1 DEF PlaceInv, Apart, Holds
  <2> QED
    BY <2>1, <2>2
<1>6. CASE log' = log
  BY <1>1, <1>4, <1>5, <1>6 DEF LinesInv
<1>7. CASE log' = Append(log, d)
  <2>1. /\ n \in Nat /\ Len(log') = n + 1 /\ log'[n + 1] = d
        /\ \A i \in 1..n : log'[i] = log[i]
        /\ \A i \in 1..(n + 1) : i \in 1..n \/ i = n + 1
    BY <1>0, <1>2, <1>7, AppendProperties, LenProperties
  <2>2. \A i \in 1..n : log[i] # d
    BY <1>1 DEF LinesInv
  <2>3. \A i \in 1..Len(log') : runs'[log'[i]] = 1
    BY <1>1, <1>2, <2>1 DEF LinesInv
  <2>4. \A i \in 1..Len(log'), v \in Worker : wpc'[v] \in {"task", "logging"} => log'[i] # Val'[v]
    BY <1>5, <2>1 DEF LinesInv
  <2>5. ASSUME NEW i \in 1..Len(log'), NEW j \in 1..Len(log'), i < j
        PROVE  log'[i] # log'[j]
    <3>1. i \in 1..n
      BY <2>1, <2>5
    <3> QED
      BY <2>1, <2>2, <2>5, <3>1 DEF LinesInv
  <2> QED
    BY <1>4, <2>3, <2>4, <2>5 DEF LinesInv
<1> QED
  BY <1>6, <1>7, Zenon DEF LogWrite

\* Every step of the server keeps the lines right.
LEMMA LinesStep ==
  ASSUME BaseInv, PlaceInv, LinesInv, [Next]_vars
  PROVE  LinesInv'
<1> USE Threads, ViewTypes
<1>0. /\ wpc \in [Worker -> {"unborn", "loop", "called", "exited"} \cup Serving]
      /\ Main \notin Worker /\ NoThread \notin Worker
  BY ServerConstants, QueueConstants DEF BaseInv, ServerInv, PoolTypeOK, Worker, Main
<1>1. CASE UNCHANGED vars \/ Terminated
  <2>1. Still /\ UNCHANGED <<wpc, runs, log, logMutex>>
    BY <1>1, QuietMoves DEF vars, serverVars, Terminated
  <2> QED
    BY <2>1, LinesFrame DEF Still
<1>2. CASE MainStep
  <2>1. \A v \in Worker : Val'[v] = Val[v]
    <3>1. CASE Step(Main) /\ UNCHANGED serverVars
      <4>1. MainMoves
        BY <3>1, MainInQueue DEF PlaceInv
      <4> QED
        BY <1>0, <4>1 DEF MainMoves, Still, Puts, Closes, Returns, AllDead
    <3>2. CASE SubmitRequest \/ CloseQueue
      <4>1. \E p, d : Calls(Main, p, d)
        BY <3>2, CallMoves DEF SubmitRequest, CloseQueue
      <4> QED
        BY <1>0, <4>1 DEF Calls
    <3>3. CASE SpawnFails
      BY <3>3, QuietMoves DEF AllDead
    <3>4. CASE \/ \E n \in ThreadArgs : ParseArgs(n)
               \/ SpawnWorker \/ PoolReady \/ JoinWorker \/ PoolDestroyed \/ queue_destroy
      <4>1. Still
        BY <3>4, QuietMoves
           DEF ParseArgs, SpawnWorker, PoolReady, JoinWorker, PoolDestroyed, queue_destroy
      <4> QED
        BY <4>1 DEF Still
    <3> QED
      BY <1>2, <3>1, <3>2, <3>3, <3>4 DEF MainStep
  <2>2. UNCHANGED <<runs, log, logMutex>>
    BY <1>2 DEF MainStep, ParseArgs, SpawnWorker, SpawnFails, PoolReady, SubmitRequest,
                CloseQueue, JoinWorker, PoolDestroyed, queue_destroy, serverVars
  <2>3. \A v \in Worker : wpc'[v] \in {wpc[v], "loop"}
    BY <1>0, <1>2 DEF MainStep, ParseArgs, SpawnWorker, SpawnFails, PoolReady, SubmitRequest,
                CloseQueue, JoinWorker, PoolDestroyed, queue_destroy, serverVars, WorkerGoto
  <2> QED
    BY <2>1, <2>2, <2>3, LinesFrame
<1>3. ASSUME NEW w \in Worker, WorkerStep(w) \/ Spurious(w)
      PROVE  LinesInv'
  <2>1. CASE WorkerDequeue(w)
    <3>1. /\ Calls(w, "take", NULL) /\ UNCHANGED <<runs, log, logMutex>>
          /\ wpc' = [wpc EXCEPT ![w] = "called"]
      BY <2>1, CallMoves DEF WorkerDequeue, WorkerGoto
    <3> QED
      BY <1>0, <3>1, LinesFrame DEF Calls
  <2>2. CASE WorkerExit(w) \/ WorkerFree(w)
    <3>1. /\ Still /\ UNCHANGED <<runs, log, logMutex>>
          /\ \E p \in {"exited", "loop"} : wpc' = [wpc EXCEPT ![w] = p]
      BY <2>2, QuietMoves DEF WorkerExit, WorkerFree, WorkerGoto
    <3> QED
      BY <1>0, <3>1, LinesFrame DEF Still
  <2>3. CASE WorkerRun(w)
    BY <2>3, RunLines
  <2>4. CASE LogLock(w)
    <3>1. /\ Still /\ UNCHANGED <<runs, log>> /\ wpc[w] = "task"
          /\ wpc' = [wpc EXCEPT ![w] = "logging"] /\ logMutex = NoThread /\ logMutex' = w
      BY <2>4, QuietMoves DEF LogLock, WorkerAt, WorkerGoto
    <3>2. \A v \in Worker : wpc'[v] \in {"logging", "logged"} => logMutex' = v
      BY <1>0, <3>1 DEF LinesInv
    <3>3. \A v \in Worker : wpc'[v] \in {"task", "logging"} => wpc[v] \in {"task", "logging"}
      BY <1>0, <3>1
    <3> QED
      BY <3>1, <3>2, <3>3 DEF LinesInv, Still
  <2>5. CASE LogWrite(w)
    BY <2>5, WriteLines
  <2>6. CASE LogUnlock(w)
    <3>1. /\ Still /\ UNCHANGED <<runs, log>> /\ wpc[w] = "logged"
          /\ wpc' = [wpc EXCEPT ![w] = "ran"]
      BY <2>6, QuietMoves DEF LogUnlock, WorkerAt, WorkerGoto
    <3>2. \A v \in Worker : wpc'[v] \in {"logging", "logged"} => logMutex' = v
      BY <1>0, <3>1 DEF LinesInv
    <3>3. \A v \in Worker : wpc'[v] \in {"task", "logging"} => wpc[v] \in {"task", "logging"}
      BY <1>0, <3>1
    <3> QED
      BY <3>1, <3>2, <3>3 DEF LinesInv, Still
  <2>7. CASE (Step(w) /\ UNCHANGED serverVars) \/ Spurious(w)
    <3>1. WorkerMoves(w) /\ wpc[w] = "called" /\ UNCHANGED <<wpc, runs, log, logMutex>>
      BY <2>7, WorkerInQueue DEF Elsewhere, PlaceInv
    <3>2. \A v \in Worker \ {w} : Val'[v] = Val[v]
      BY <3>1 DEF WorkerMoves, Still, Takes, TakesNothing, Returns
    <3> QED
      BY <3>1, <3>2, LinesFrame
  <2> QED
    BY <1>3, <2>1, <2>2, <2>3, <2>4, <2>5, <2>6, <2>7 DEF WorkerStep
<1> QED
  BY <1>1, <1>2, <1>3 DEF Next

\* The log is written by one worker at a time, has at most one line for each
\* request and only of those that have run; a single worker keeps the order in
\* which main submitted the requests, however many lines could not be written.
THEOREM ServerLogConsistent == Spec => []LogConsistent
<1>1. ServerInit => OrderInv /\ LinesInv
  <2> SUFFICES ASSUME ServerInit PROVE OrderInv /\ LinesInv
    OBVIOUS
  <2>1. /\ Items = <<>> /\ Val = [t \in Thread |-> NULL] /\ log = <<>> /\ NULL \notin Request
        /\ wpc = [w \in Worker |-> "unborn"]
    BY Threads, QueueConstants DEF ServerInit, QueueInit, Items, Val
  <2>2. OrderInv
    BY <2>1, Threads DEF OrderInv, ListOrder, LogOrder
  <2>3. LinesInv
    BY <2>1 DEF LinesInv
  <2> QED
    BY <2>2, <2>3
<1>2. BaseInv /\ PlaceInv /\ OrderInv /\ LinesInv /\ [Next]_vars => OrderInv' /\ LinesInv'
  BY OrderStep, LinesStep
<1>3. BaseInv /\ OrderInv /\ LinesInv => LogConsistent
  <2> SUFFICES ASSUME BaseInv, OrderInv, LinesInv PROVE LogConsistent
    OBVIOUS
  <2>1. DOMAIN log = 1..Len(log)
    BY LenProperties DEF BaseInv, ServerInv, PoolTypeOK
  <2>2. ASSUME num_threads = 1, NEW i \in DOMAIN log, NEW j \in DOMAIN log, i < j
        PROVE  log[i] < log[j]
    <3>1. spawned <= 1
      BY <2>2, Threads DEF BaseInv, ServerInv, PoolInv, PoolTypeOK
    <3> QED
      BY <2>1, <2>2, <3>1 DEF OrderInv, LogOrder
  <2>3. ASSUME NEW v \in Worker, NEW w \in Worker,
               {wpc[v], wpc[w]} \subseteq {"logging", "logged"}
        PROVE  v = w
    BY <2>3 DEF LinesInv
  <2> QED
    BY <2>1, <2>2, <2>3 DEF LogConsistent, LinesInv
<1> QED
  BY <1>1, <1>2, <1>3, ServerPlaceInvariant, PTL DEF Spec
==============================================================================
