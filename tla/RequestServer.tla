---------------------------- MODULE RequestServer ----------------------------
(***************************************************************************)
(* The request server of M9Lab/M9: main.c submits requests to the queue,   *)
(* closes it, joins the pool and destroys everything; thread_pool.c spawns *)
(* and joins the workers; worker_thread.c takes requests until it gets     *)
(* NULL; tasks.c runs a request and logs a line under its own mutex.       *)
(* Threads are numbered as the code numbers them: main is 0, the workers   *)
(* have their thread_id.                                                   *)
(***************************************************************************)
EXTENDS RequestQueue, Integers, FiniteSets

CONSTANTS
    MaxWorkers,     \* MAX_WORKER_THREADS
    ThreadArgs,     \* values of atoi(argv[1])
    NumRequests,    \* atoi(argv[2])
    MaxSpurious     \* bound on spurious wakeups

Main == 0
Worker == 1..MaxWorkers
Request == 1..NumRequests

ASSUME ServerConstants ==
    /\ MaxWorkers \in Nat /\ NumRequests \in Nat /\ MaxSpurious \in Nat
    /\ ThreadArgs \subseteq Int
    /\ Thread = Worker \cup {Main}
    /\ Data = Request

VARIABLES
    mpc,          \* where main is
    num_threads,  \* pool->num_threads
    spawned,      \* workers created by thread_pool_init
    count,        \* the loop counter of main
    joined,       \* workers joined by thread_pool_destroy
    wpc,          \* where each worker is
    rstate,       \* each request_t: allocated, argument freed, freed
    runs,         \* how often work_fn has been called for each request
    logMutex,     \* owner of log_mutex
    log,          \* the lines of task_log.txt
    freed,        \* has queue_destroy freed the queue?
    spurious      \* spurious wakeups so far

serverVars == <<mpc, num_threads, spawned, count, joined, wpc, rstate, runs,
                logMutex, log, freed, spurious>>

vars == <<queueVars, serverVars>>

ServerInit ==
    /\ QueueInit
    /\ mpc = "args"
    /\ num_threads = 0
    /\ spawned = 0
    /\ count = 1
    /\ joined = 0
    /\ wpc = [w \in Worker |-> "unborn"]
    /\ rstate = [r \in Request |-> "unborn"]
    /\ runs = [r \in Request |-> 0]
    /\ logMutex = NoThread
    /\ log = <<>>
    /\ freed = FALSE
    /\ spurious = 0

\* A thread that is in no queue operation, in a process that has not died.
Outside(t) == op[t] = "idle"

MainAt(p) == mpc = p /\ Outside(Main)

WorkerAt(w, p) == wpc[w] = p /\ Outside(w)

WorkerGoto(w, p) == wpc' = [wpc EXCEPT ![w] = p]

Die == op' = [t \in Thread |-> "dead"]

------------------------------------------------------------------------------
(* main and the thread pool                                                *)

\* Mutant: the number of threads is not checked against the array.
ParseArgsUnchecked(n) ==
    /\ MainAt("args")
    /\ mpc' = "spawn"
    /\ num_threads' = n
    /\ UNCHANGED <<queueVars, spawned, count, joined, wpc, rstate, runs,
                   logMutex, log, freed, spurious>>

\* Too many threads: the program prints a message and exits.
ParseArgs(n) ==
    /\ MainAt("args")
    /\ \/ /\ n > MaxWorkers
          /\ mpc' = "usage"
          /\ UNCHANGED num_threads
       \/ /\ n <= MaxWorkers
          /\ mpc' = "spawn"
          /\ num_threads' = n
    /\ UNCHANGED <<queueVars, spawned, count, joined, wpc, rstate, runs,
                   logMutex, log, freed, spurious>>

SpawnWorker ==
    /\ MainAt("spawn")
    /\ spawned < num_threads
    /\ spawned' = spawned + 1
    /\ WorkerGoto(spawned + 1, "loop")
    /\ UNCHANGED <<queueVars, mpc, num_threads, count, joined, rstate, runs,
                   logMutex, log, freed, spurious>>

\* The queue or the pool cannot be allocated or pthread_create fails, and the
\* program exits; or an unchecked malloc of a worker's structures returns NULL
\* and the process dies.
SpawnFails ==
    /\ AllocFails
    /\ MainAt("spawn")
    /\ spawned < num_threads \/ spawned = 0
    /\ Die
    /\ UNCHANGED <<next, data, tail, size, isclosed, live, mutex, node, item,
                   chain, serverVars>>

PoolReady ==
    /\ MainAt("spawn")
    /\ spawned >= num_threads
    /\ mpc' = "submit"
    /\ UNCHANGED <<queueVars, num_threads, spawned, count, joined, wpc, rstate,
                   runs, logMutex, log, freed, spurious>>

\* create_request(task_type) and the call of queue_enqueue with its result.
SubmitRequest ==
    /\ MainAt("submit")
    /\ count <= NumRequests
    /\ count' = count + 1
    /\ \/ /\ rstate' = [rstate EXCEPT ![count] = "live"]
          /\ queue_enqueue(Main, count)
       \/ /\ AllocFails
          /\ rstate' = [rstate EXCEPT ![count] = "failed"]
          /\ queue_enqueue(Main, NULL)
    /\ UNCHANGED <<mpc, num_threads, spawned, joined, wpc, runs, logMutex, log,
                   freed, spurious>>

CloseQueue ==
    /\ MainAt("submit")
    /\ count > NumRequests
    /\ queue_close(Main)
    /\ mpc' = "join"
    /\ UNCHANGED <<num_threads, spawned, count, joined, wpc, rstate, runs,
                   logMutex, log, freed, spurious>>

\* Mutant: thread_pool_destroy does not wait for the worker.
JoinWorkerAtOnce ==
    /\ MainAt("join")
    /\ joined < num_threads
    /\ joined' = joined + 1
    /\ UNCHANGED <<queueVars, mpc, num_threads, spawned, count, wpc, rstate,
                   runs, logMutex, log, freed, spurious>>

JoinWorker ==
    /\ MainAt("join")
    /\ joined < num_threads
    /\ wpc[joined + 1] = "exited"
    /\ joined' = joined + 1
    /\ UNCHANGED <<queueVars, mpc, num_threads, spawned, count, wpc, rstate,
                   runs, logMutex, log, freed, spurious>>

\* Mutant: the join loop ends one worker early.
PoolDestroyedEarly ==
    /\ MainAt("join")
    /\ joined >= num_threads - 1
    /\ mpc' = "destroy"
    /\ UNCHANGED <<queueVars, num_threads, spawned, count, joined, wpc, rstate,
                   runs, logMutex, log, freed, spurious>>

PoolDestroyed ==
    /\ MainAt("join")
    /\ joined >= num_threads
    /\ mpc' = "destroy"
    /\ UNCHANGED <<queueVars, num_threads, spawned, count, joined, wpc, rstate,
                   runs, logMutex, log, freed, spurious>>

\* Frees the sentinel and the queue, not the nodes that are still linked.
queue_destroy ==
    /\ MainAt("destroy")
    /\ freed' = TRUE
    /\ mpc' = "done"
    /\ UNCHANGED <<queueVars, num_threads, spawned, count, joined, wpc, rstate,
                   runs, logMutex, log, spurious>>

------------------------------------------------------------------------------
(* do_work and the tasks                                                   *)

WorkerDequeue(w) ==
    /\ WorkerAt(w, "loop")
    /\ queue_dequeue(w)
    /\ WorkerGoto(w, "called")
    /\ UNCHANGED <<mpc, num_threads, spawned, count, joined, rstate, runs,
                   logMutex, log, freed, spurious>>

WorkerRun(w) ==
    /\ WorkerAt(w, "called")
    /\ item[w] # NULL
    /\ runs' = [runs EXCEPT ![item[w]] = @ + 1]
    /\ WorkerGoto(w, "task")
    /\ UNCHANGED <<queueVars, mpc, num_threads, spawned, count, joined, rstate,
                   logMutex, log, freed, spurious>>

WorkerExit(w) ==
    /\ WorkerAt(w, "called")
    /\ item[w] = NULL
    /\ WorkerGoto(w, "exited")
    /\ UNCHANGED <<queueVars, mpc, num_threads, spawned, count, joined, rstate,
                   runs, logMutex, log, freed, spurious>>

\* Mutant: log_message does not lock.
LogUnlocked(w) ==
    /\ WorkerAt(w, "task")
    /\ WorkerGoto(w, "logging")
    /\ UNCHANGED <<queueVars, mpc, num_threads, spawned, count, joined, rstate,
                   runs, logMutex, log, freed, spurious>>

\* write_log, compute_sum and delay_task differ in what they compute or how
\* long they sleep before they call log_message.
LogLock(w) ==
    /\ WorkerAt(w, "task")
    /\ logMutex = NoThread
    /\ logMutex' = w
    /\ WorkerGoto(w, "logging")
    /\ UNCHANGED <<queueVars, mpc, num_threads, spawned, count, joined, rstate,
                   runs, log, freed, spurious>>

\* Nothing is written when the file cannot be opened.
LogWrite(w) ==
    /\ WorkerAt(w, "logging")
    /\ log' \in {log, Append(log, item[w])}
    /\ WorkerGoto(w, "logged")
    /\ UNCHANGED <<queueVars, mpc, num_threads, spawned, count, joined, rstate,
                   runs, logMutex, freed, spurious>>

\* log_message releases its mutex and the task frees its argument.
LogUnlock(w) ==
    /\ WorkerAt(w, "logged")
    /\ logMutex' = NoThread
    /\ rstate' = [rstate EXCEPT ![item[w]] = "used"]
    /\ WorkerGoto(w, "ran")
    /\ UNCHANGED <<queueVars, mpc, num_threads, spawned, count, joined, runs,
                   log, freed, spurious>>

\* Mutant: the request is not freed.
WorkerKeeps(w) ==
    /\ WorkerAt(w, "ran")
    /\ WorkerGoto(w, "loop")
    /\ UNCHANGED <<queueVars, mpc, num_threads, spawned, count, joined, rstate,
                   runs, logMutex, log, freed, spurious>>

WorkerFree(w) ==
    /\ WorkerAt(w, "ran")
    /\ rstate' = [rstate EXCEPT ![item[w]] = "freed"]
    /\ WorkerGoto(w, "loop")
    /\ UNCHANGED <<queueVars, mpc, num_threads, spawned, count, joined, runs,
                   logMutex, log, freed, spurious>>

------------------------------------------------------------------------------

MainStep ==
    \/ \E n \in ThreadArgs : ParseArgs(n)
    \/ SpawnWorker \/ SpawnFails \/ PoolReady
    \/ SubmitRequest \/ CloseQueue
    \/ JoinWorker \/ PoolDestroyed \/ queue_destroy
    \/ Step(Main) /\ UNCHANGED serverVars

WorkerStep(w) ==
    \/ WorkerDequeue(w) \/ WorkerRun(w) \/ WorkerExit(w)
    \/ LogLock(w) \/ LogWrite(w) \/ LogUnlock(w) \/ WorkerFree(w)
    \/ Step(w) /\ UNCHANGED serverVars

Spurious(w) ==
    /\ spurious < MaxSpurious
    /\ SpuriousWakeup(w)
    /\ spurious' = spurious + 1
    /\ UNCHANGED <<mpc, num_threads, spawned, count, joined, wpc, rstate, runs,
                   logMutex, log, freed>>

Died == op[Main] = "dead"

Ended == mpc \in {"done", "usage"} \/ Died

\* The process is gone: nothing happens any more.
Terminated == Ended /\ UNCHANGED vars

Next ==
    \/ MainStep
    \/ \E w \in Worker : WorkerStep(w) \/ Spurious(w)
    \/ Terminated

Spec == ServerInit /\ [][Next]_vars

\* Every runnable thread is scheduled eventually.
FairSpec ==
    /\ Spec
    /\ WF_vars(MainStep)
    /\ \A w \in Worker : WF_vars(WorkerStep(w))

------------------------------------------------------------------------------
(* Properties                                                              *)

\* Every variable of the server, its threads and its log has its type; the
\* slots of pool->threads that are used fit the array.
ServerTypeOK ==
    /\ QueueTypeOK
    /\ mpc \in {"args", "usage", "spawn", "submit", "join", "destroy", "done"}
    /\ num_threads \in Int
    /\ spawned \in 0..MaxWorkers
    /\ count \in 1..(NumRequests + 1)
    /\ joined \in 0..MaxWorkers
    /\ wpc \in [Worker -> {"unborn", "loop", "called", "task", "logging",
                           "logged", "ran", "exited"}]
    /\ rstate \in [Request -> {"unborn", "live", "failed", "used", "freed"}]
    /\ runs \in [Request -> Nat]
    /\ logMutex \in Worker \cup {NoThread}
    /\ log \in Seq(Request)
    /\ freed \in BOOLEAN
    /\ spurious \in 0..MaxSpurious

\* Where request r is: in the hands of a thread (main on its way into the
\* queue, a worker from the dequeue to free(req)) or in the linked list.
InHand(t) == IF node[t] # NULL THEN data[node[t]] ELSE item[t]

Places(r) ==
    {<<"thread", t>> : t \in {u \in Thread : InHand(u) = r /\ ~(u \in Worker /\ wpc[u] = "loop")}}
        \cup {<<"queue", i>> : i \in {j \in DOMAIN chain : data[chain[j]] = r}}

\* A request that has been created and not freed is in exactly one place, so
\* no interleaving of main and the workers loses it or runs it twice; a freed
\* request is nowhere and its work_fn was called exactly once.
EveryRequestInOnePlace ==
    \A r \in Request :
        /\ Places(r) # {} <=> rstate[r] \in {"live", "used"}
        /\ \A p, q \in Places(r) : p = q
        /\ runs[r] <= 1
        /\ rstate[r] = "freed" => runs[r] = 1

\* When queue_destroy frees the queue, and from then on, no worker is inside
\* a queue operation or can enter one: thread_pool_destroy has joined all.
NoUseAfterDestroy ==
    mpc \in {"destroy", "done"} =>
        \A w \in Worker : wpc[w] \in {"unborn", "exited"} /\ op[w] \in {"idle", "dead"}

\* Why that is so: a worker is inside a queue operation only between its call
\* of queue_dequeue and the answer, it has a request in hand while it serves,
\* the workers spawned are those thread_pool_init counted, and main passes the
\* join loop only with all of them joined.
Serving == {"task", "logging", "logged", "ran"}

PoolInv ==
    /\ \A w \in Worker :
          /\ op[w] \notin {"idle", "dead"} => wpc[w] = "called"
          /\ wpc[w] \in Serving => item[w] # NULL
          /\ w <= joined => wpc[w] = "exited"
          /\ wpc[w] # "unborn" => w <= spawned
    /\ num_threads <= MaxWorkers
    /\ spawned > 0 => spawned <= num_threads
    /\ mpc = "args" => spawned = 0
    /\ mpc \in {"destroy", "done"} => joined >= num_threads

Failed == {r \in Request : rstate[r] = "failed"}

\* By the time the pool has been joined, every request that could be created
\* has been run and freed and no node is left in the list, provided that at
\* least one worker survives: a request that could not be created is enqueued
\* as NULL and ends the worker that dequeues it.
AllServed ==
    mpc \in {"destroy", "done"} /\ Cardinality(Failed) < num_threads =>
        /\ \A r \in Request \ Failed : rstate[r] = "freed"
        /\ live = {}

\* The workers write to the log one at a time (they share localtime's buffer as
\* well), and a line is that of a request that has been run, none having two.
\* With a single worker the lines are in the order in which main submitted the
\* requests; with several they need not be.
LogConsistent ==
    /\ \A v, w \in Worker : {wpc[v], wpc[w]} \subseteq {"logging", "logged"} => v = w
    /\ \A i \in DOMAIN log : runs[log[i]] = 1
    /\ \A i, j \in DOMAIN log : i < j =>
          log[i] # log[j] /\ (num_threads = 1 => log[i] < log[j])

\* Submitting, serving, closing and joining always come to an end: no thread
\* waits forever on the condition variable, on a mutex or in pthread_join.
Terminates == <>Ended
==============================================================================
