------------------------- MODULE RequestServerProofs -------------------------
(***************************************************************************)
(* Proofs about the request server of M9Lab/M9: the queue keeps its        *)
(* invariant inside the server, and the shutdown of main.c never frees the *)
(* queue under a worker, for any number of workers, requests and nodes.    *)
(***************************************************************************)
EXTENDS RequestServer, RequestQueueProofs

\* The part of ServerTypeOK that is not about the queue's own variables.
PoolTypeOK ==
    /\ mpc \in {"args", "usage", "spawn", "submit", "join", "destroy", "done"}
    /\ num_threads \in Int
    /\ spawned \in 0..MaxWorkers
    /\ count \in 1..(NumRequests + 1)
    /\ joined \in 0..MaxWorkers
    /\ wpc \in [Worker -> {"unborn", "loop", "called", "exited"} \cup Serving]
    /\ rstate \in [Request -> {"unborn", "live", "failed", "used", "freed"}]
    /\ runs \in [Request -> Nat]
    /\ logMutex \in Worker \cup {NoThread}
    /\ log \in Seq(Request)
    /\ freed \in BOOLEAN
    /\ spurious \in 0..MaxSpurious

ServerInv == QueueInv /\ PoolTypeOK /\ PoolInv

\* The threads of the server are main and the workers; main is no worker.
LEMMA Threads ==
  /\ Main \in Thread /\ Worker \subseteq Thread /\ Main \notin Worker
  /\ Data = Request /\ MaxWorkers \in Nat /\ NumRequests \in Nat /\ MaxSpurious \in Nat
  /\ ThreadArgs \subseteq Int
BY ServerConstants DEF Main, Worker

\* Main's submission is a call of queue_enqueue with a request or NULL.
LEMMA SubmitIsEnqueue ==
  ASSUME PoolTypeOK, SubmitRequest
  PROVE  \E d \in Item : queue_enqueue(Main, d)
<1>1. NULL \in Item
  BY DEF Item
<1>2. count \in Item
  BY Threads DEF PoolTypeOK, SubmitRequest, Item, Request
<1> QED
  BY <1>1, <1>2 DEF SubmitRequest

\* What the queue sees of a step of the server that is not its own.
QueueDies ==
    Die /\ UNCHANGED <<next, data, tail, size, isclosed, live, mutex, node, item, chain>>

\* Seen from the queue, a step of the server is a step of the queue, a
\* stuttering step, or the death of the process.
LEMMA ServerStepIsQueueStep ==
  ASSUME PoolTypeOK, [Next]_vars
  PROVE  [QueueNext]_queueVars \/ QueueDies
<1>1. CASE UNCHANGED vars \/ Terminated
  BY <1>1 DEF vars, Terminated
<1>2. CASE MainStep
  <2>1. CASE \/ \E n \in ThreadArgs : ParseArgs(n)
             \/ SpawnWorker \/ PoolReady \/ JoinWorker \/ PoolDestroyed \/ queue_destroy
    BY <2>1 DEF ParseArgs, SpawnWorker, PoolReady, JoinWorker, PoolDestroyed, queue_destroy
  <2>2. CASE SpawnFails
    BY <2>2 DEF SpawnFails, QueueDies
  <2>3. CASE SubmitRequest
    BY <2>3, SubmitIsEnqueue, Threads DEF QueueNext, Call
  <2>4. CASE CloseQueue
    BY <2>4, Threads DEF CloseQueue, QueueNext, Call
  <2>5. CASE Step(Main) /\ UNCHANGED serverVars
    BY <2>5, Threads DEF QueueNext
  <2> QED
    BY <1>2, <2>1, <2>2, <2>3, <2>4, <2>5 DEF MainStep
<1>3. ASSUME NEW w \in Worker, WorkerStep(w) \/ Spurious(w)
      PROVE  [QueueNext]_queueVars
  <2>1. CASE WorkerDequeue(w)
    BY <2>1, Threads DEF WorkerDequeue, QueueNext, Call
  <2>2. CASE Spurious(w)
    BY <2>2, Threads DEF Spurious, QueueNext
  <2>3. CASE Step(w) /\ UNCHANGED serverVars
    BY <2>3, Threads DEF QueueNext
  <2>4. CASE \/ WorkerRun(w) \/ WorkerExit(w) \/ LogLock(w) \/ LogWrite(w)
             \/ LogUnlock(w) \/ WorkerFree(w)
    BY <2>4 DEF WorkerRun, WorkerExit, LogLock, LogWrite, LogUnlock, WorkerFree
  <2> QED
    BY <1>3, <2>1, <2>2, <2>3, <2>4 DEF WorkerStep
<1> QED
  BY <1>1, <1>2, <1>3 DEF Next

\* The queue's invariant survives whatever the server does.
LEMMA ServerKeepsQueueInv ==
  ASSUME QueueInv, PoolTypeOK, [Next]_vars
  PROVE  QueueInv'
<1>1. CASE [QueueNext]_queueVars
  BY <1>1, StepInv
<1>2. CASE QueueDies
  <2> USE <1>2 DEF QueueInv, QueueDies, Die
  <2>1. QueueTypeOK'
    BY DEF QueueTypeOK, Op
  <2>2. MutualExclusion' /\ Ownership' /\ AllDie' /\ (Alive' => Links' /\ Counted')
    BY Threads DEF MutualExclusion, Critical, Ownership, AllDie, Owning, Alive
  <2>3. NodesAccounted'
    BY DEF NodesAccounted, Linked
  <2> QED
    BY <2>1, <2>2, <2>3
<1> QED
  BY <1>1, <1>2, ServerStepIsQueueStep

\* A thread steps inside the queue only while it is in an operation, and
\* never starts one for another thread or changes what that thread holds.
LEMMA StepEffect ==
  ASSUME QueueTypeOK, NEW t \in Thread, Step(t) \/ SpuriousWakeup(t)
  PROVE  /\ op[t] \notin {"idle", "dead"}
         /\ \A u \in Thread \ {t} :
               /\ item'[u] = item[u]
               /\ op'[u] \notin {"idle", "dead"} => op[u] \notin {"idle", "dead"}
<1> USE DEF QueueTypeOK
<1>1. CASE EnqueueStep(t)
  BY <1>1 DEF EnqueueStep, EnqueueAlloc, EnqueueAllocFails, EnqueueLock, EnqueueLink,
              EnqueueCount, EnqueueUnlock, EnqueueBroadcast, Lock, Unlock, Broadcast, Goto
<1>2. CASE DequeueStep(t)
  BY <1>2 DEF DequeueStep, DequeueLock, DequeueNonempty, DequeueClosed, DequeueWait,
              DequeueBroadcast, DequeueReturnNull, DequeueUnlink, DequeueCount,
              DequeueFree, DequeueUnlock, Lock, Unlock, Broadcast, Goto
<1>3. CASE CloseStep(t)
  BY <1>3 DEF CloseStep, CloseLock, CloseSet, CloseUnlock, CloseBroadcast,
              Lock, Unlock, Broadcast, Goto
<1>4. CASE SpuriousWakeup(t)
  BY <1>4 DEF SpuriousWakeup, Goto
<1> QED
  BY <1>1, <1>2, <1>3, <1>4 DEF Step

\* The server's own variables keep their types.
LEMMA PoolTypeStep ==
  ASSUME ServerInv, [Next]_vars
  PROVE  PoolTypeOK'
<1> USE Threads DEF PoolTypeOK, ServerInv
<1>1. CASE UNCHANGED vars \/ Terminated
  BY <1>1, Zenon DEF vars, Terminated, serverVars
<1>2. CASE MainStep
  <2>1. CASE \E n \in ThreadArgs : ParseArgs(n)
    BY <2>1 DEF ParseArgs
  <2>2. CASE SpawnWorker
    BY <2>2 DEF SpawnWorker, WorkerGoto, PoolInv, Worker
  <2>3. CASE SpawnFails \/ (Step(Main) /\ UNCHANGED serverVars)
    BY <2>3, Zenon DEF SpawnFails, serverVars
  <2>4. CASE PoolReady \/ PoolDestroyed \/ CloseQueue
    BY <2>4 DEF PoolReady, PoolDestroyed, CloseQueue
  <2>5. CASE SubmitRequest
    BY <2>5, SMTT(20) DEF SubmitRequest, Request
  <2>6. CASE JoinWorker
    BY <2>6 DEF JoinWorker, PoolInv
  <2>7. CASE queue_destroy
    BY <2>7 DEF queue_destroy
  <2> QED
    BY <1>2, <2>1, <2>2, <2>3, <2>4, <2>5, <2>6, <2>7 DEF MainStep
<1>3. ASSUME NEW w \in Worker, WorkerStep(w) \/ Spurious(w)
      PROVE  PoolTypeOK'
  <2>0. wpc[w] \in Serving => item[w] \in Request
    BY DEF PoolInv, QueueInv, QueueTypeOK, Item
  <2>1. CASE WorkerDequeue(w) \/ WorkerExit(w) \/ LogLock(w)
    BY <2>1 DEF WorkerDequeue, WorkerExit, LogLock, WorkerGoto, Serving
  <2>2. CASE WorkerRun(w)
    <3>1. item[w] \in Request
      BY <2>2 DEF WorkerRun, QueueInv, QueueTypeOK, Item
    <3>2. runs' \in [Request -> Nat]
      BY <2>2, <3>1 DEF WorkerRun
    <3>3. freed' \in BOOLEAN
      BY <2>2, Zenon DEF WorkerRun
    <3> QED
      BY <2>2, <3>2, <3>3 DEF WorkerRun, WorkerGoto, Serving
  <2>3. CASE LogWrite(w)
    <3>0. item[w] \in Request /\ log \in Seq(Request)
      BY <2>0, <2>3 DEF LogWrite, WorkerAt, Serving
    <3>1. log' \in Seq(Request)
      <4>1. Append(log, item[w]) \in Seq(Request)
        BY <3>0, AppendProperties
      <4> HIDE DEF PoolTypeOK, ServerInv
      <4>2. log' = log \/ log' = Append(log, item[w])
        BY <2>3, Zenon DEF LogWrite
      <4> QED
        BY <3>0, <4>1, <4>2
    <3>2. freed' \in BOOLEAN
      BY <2>3, Zenon DEF LogWrite
    <3> QED
      BY <2>3, <3>1, <3>2 DEF LogWrite, WorkerGoto, Serving
  <2>4. CASE LogUnlock(w) \/ WorkerFree(w)
    BY <2>4 DEF LogUnlock, WorkerFree, WorkerGoto, Serving
  <2>5. CASE Step(w) /\ UNCHANGED serverVars
    BY <2>5, Zenon DEF serverVars
  <2>6. CASE Spurious(w)
    BY <2>6 DEF Spurious
  <2> QED
    BY <1>3, <2>1, <2>2, <2>3, <2>4, <2>5, <2>6 DEF WorkerStep
<1> QED
  BY <1>1, <1>2, <1>3 DEF Next

\* What PoolInv says of the workers and of main is kept by every step.
LEMMA PoolStep ==
  ASSUME ServerInv, [Next]_vars
  PROVE  PoolInv'
<1> USE Threads DEF ServerInv, PoolInv
<1>0. op \in [Thread -> Op] /\ item \in [Thread -> Item] /\ QueueTypeOK
  BY DEF QueueInv, QueueTypeOK
<1>1. CASE UNCHANGED vars \/ Terminated
  BY <1>1 DEF vars, Terminated, serverVars, queueVars
<1>2. CASE MainStep
  <2>1. CASE \E n \in ThreadArgs : ParseArgs(n)
    BY <2>1 DEF ParseArgs, queueVars, PoolTypeOK, MainAt
  <2>2. CASE SpawnWorker
    BY <2>2 DEF SpawnWorker, WorkerGoto, queueVars, PoolTypeOK, Worker, MainAt, Serving
  <2>3. CASE SpawnFails
    BY <2>3 DEF SpawnFails, Die, serverVars
  <2>4. CASE PoolReady \/ PoolDestroyed \/ queue_destroy
    BY <2>4 DEF PoolReady, PoolDestroyed, queue_destroy, queueVars, MainAt
  <2>5. CASE SubmitRequest \/ CloseQueue
    BY <1>0, <2>5 DEF SubmitRequest, CloseQueue, queue_enqueue, queue_close, Goto, MainAt
  <2>6. CASE JoinWorker
    BY <2>6, SMTT(20) DEF JoinWorker, queueVars, PoolTypeOK, Worker, MainAt
  <2>7. CASE Step(Main) /\ UNCHANGED serverVars
    BY <1>0, <2>7, StepEffect DEF serverVars
  <2> QED
    BY <1>2, <2>1, <2>2, <2>3, <2>4, <2>5, <2>6, <2>7 DEF MainStep
<1>3. ASSUME NEW w \in Worker, WorkerStep(w) \/ Spurious(w)
      PROVE  PoolInv'
  <2>1. CASE WorkerDequeue(w)
    BY <1>0, <2>1 DEF WorkerDequeue, queue_dequeue, Goto, WorkerAt, WorkerGoto, PoolTypeOK, Serving
  <2>2. CASE \/ WorkerRun(w) \/ WorkerExit(w) \/ LogLock(w) \/ LogWrite(w)
             \/ LogUnlock(w) \/ WorkerFree(w)
    BY <1>0, <2>2 DEF WorkerRun, WorkerExit, LogLock, LogWrite, LogUnlock, WorkerFree,
                      WorkerAt, Outside, WorkerGoto, PoolTypeOK, Serving, queueVars
  <2>3. CASE (Step(w) /\ UNCHANGED serverVars) \/ Spurious(w)
    <3>1. UNCHANGED <<mpc, num_threads, spawned, joined, wpc>>
      BY <2>3 DEF serverVars, Spurious
    <3>2. wpc[w] = "called"
      BY <1>0, <2>3, StepEffect DEF Spurious
    <3> QED
      BY <1>0, <2>3, <3>1, <3>2, StepEffect DEF Spurious, Serving
  <2> QED
    BY <1>3, <2>1, <2>2, <2>3 DEF WorkerStep
<1> QED
  BY <1>1, <1>2, <1>3 DEF Next

\* The invariant of the whole server.
THEOREM ServerInvariant == Spec => []ServerInv
<1>1. ServerInit => ServerInv
  <2> SUFFICES ASSUME ServerInit PROVE ServerInv
    OBVIOUS
  <2>1. QueueInv
    BY InitInv DEF ServerInit
  <2>2. PoolTypeOK
    <3>1. freed \in BOOLEAN
      BY Zenon DEF ServerInit
    <3>2. log \in Seq(Request) /\ runs \in [Request -> Nat]
      BY DEF ServerInit
    <3>3. /\ spawned \in 0..MaxWorkers /\ joined \in 0..MaxWorkers
          /\ count \in 1..(NumRequests + 1) /\ spurious \in 0..MaxSpurious
          /\ num_threads \in Int
      BY Threads DEF ServerInit
    <3> QED
      BY <3>1, <3>2, <3>3 DEF ServerInit, PoolTypeOK
  <2>3. PoolInv
    BY Threads DEF ServerInit, QueueInit, PoolInv, Worker, Serving
  <2> QED
    BY <2>1, <2>2, <2>3 DEF ServerInv
<1>2. ServerInv /\ [Next]_vars => ServerInv'
  BY ServerKeepsQueueInv, PoolTypeStep, PoolStep DEF ServerInv
<1> QED
  BY <1>1, <1>2, PTL DEF Spec

\* All variables of the server, its queue and its threads keep their types.
THEOREM ServerTypeCorrect == Spec => []ServerTypeOK
<1>1. ServerInv => ServerTypeOK
  BY DEF ServerInv, PoolTypeOK, QueueInv, ServerTypeOK, Serving
<1> QED
  BY <1>1, ServerInvariant, PTL

\* thread_pool_destroy returns only when every worker has left the queue for
\* good, so queue_destroy never frees it under one.
THEOREM ServerNoUseAfterDestroy == Spec => []NoUseAfterDestroy
<1>1. ServerInv => NoUseAfterDestroy
  BY DEF ServerInv, PoolInv, NoUseAfterDestroy, PoolTypeOK, Worker
<1> QED
  BY <1>1, ServerInvariant, PTL

\* Inside the server, too, the queue never touches a freed node.
THEOREM ServerMemorySafe == Spec => []MemorySafe
<1>1. ServerInv => MemorySafe
  BY InvSafe DEF ServerInv
<1> QED
  BY <1>1, ServerInvariant, PTL

\* The invariant of the pool, for any number of workers and requests.
THEOREM ServerPoolInv == Spec => []PoolInv
<1>1. ServerInv => PoolInv
  BY DEF ServerInv
<1> QED
  BY <1>1, ServerInvariant, PTL
==============================================================================
