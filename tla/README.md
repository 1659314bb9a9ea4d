# Verification of the request server, the HTTP proxy and the example programs

This directory holds TLA+ models of the programs in this repository, the TLC
configurations that check them on small instances and proofs, checked by TLAPS,
that hold for every size of the instance. Paths are relative to the repository
(`src/`).

## 1. Inventory

The repository is a course repository: a semester's programs, the last two of
which build one system. The own code, in order of importance:

| Part | Source | State | Operations | Interacts with |
|---|---|---|---|---|
| Request queue | `M9Lab/M9/queue.c` | sentinel node, linked nodes, `tail`, `size`, `isclosed`, a mutex and a condition variable | `queue_init/enqueue/dequeue/close/isclose/size/destroy` | called by `main` and all workers at once |
| Thread pool | `M9Lab/M9/thread_pool.c` | array of 20 `pthread_t`, `num_threads` | `thread_pool_init`, `thread_pool_destroy` (joins) | creates the workers |
| Worker | `M9Lab/M9/worker_thread.c` | its request | `do_work`: dequeue, call `work_fn`, free, until NULL | queue, tasks |
| Tasks | `M9Lab/M9/tasks.c` | `log_mutex`, the log file | `write_log`, `compute_sum`, `delay_task`, `log_message` | run on the workers |
| Server main | `M9Lab/M9/main.c` | counters, requests | parse arguments, submit, close, join, destroy | queue and pool |
| Proxy main | `Final/proxy_server/main.c` | listening socket, `stop` flag | listen, install SIGINT handler, accept loop, shutdown | librequest, kernel, clients |
| Proxy handler | `Final/proxy_server/http_proxy.c` | sockets and buffer of one request | receive, parse, connect, forward request, forward response, close | clients, targets, descriptor table shared by all threads |
| librequest | headers in `Final/` | as the M9 queue and pool | as M9 | the proxy links against it; its source is not in the repository |
| Target server | `Final/target_server/web_server.py` | none | answer GET in two writes | the proxy |
| Signals | `M8/parent.c`, `child.c`, `send_signal.sh` | counters, handlers | SIGUSR1, SIGUSR2, SIGCHLD, SIGTERM | two processes |
| Privileges | `M6/setuid_demo.c` | real, effective, saved uid | a sequence of `seteuid`, `setresuid`, `setuid` | kernel |
| Multithreaded examples | `booksrc/ch14` - `ch17` and solutions | globals, heap buffers, mutexes, a condition variable, pending signals | create, join, lock, wait, cancel, clean up, `sigwait` | the threads of one process |
| Process examples | `booksrc/ch7`, `ch8`, `ch10` - `ch13`, `B_daemon` and solutions | processes, dispositions, masks, pending signals, timers, ids, one shared file offset | fork, exec, wait, kill, `sigaction`, timers, `setsid`, `set*uid` | parent, child, user, kernel |
| File copying | `booksrc/A_fileio/simpcp*.c`, `ch18` | two files, buffers, segments | copy with `read`/`write` or `pread`/`pwrite` in threads, lay out a file with holes | kernel; the threads of `mt_copy.c` share two descriptors |
| Helpers of the examples | `booksrc/common.c`, `common.h` | none | `FATAL`, `r_sleep`, lock macros | all examples |
| Line input | `M4lab/input.c` | none | ask until a value is in range | terminal |
| Small programs | `m2`, `M3Lab`, `M5`, `Testing_server`, `booksrc/ch1` - `ch5`, `ch9` | none to speak of | one pass each | - |

What is hard here, and why tests hardly reach it:

* **Interleavings in the queue.** Broadcasts are sent after the mutex has been
  released; consumers race for one item; `pthread_cond_wait` returns spuriously.
* **A pointer that dangles by design.** An enqueue onto a non-empty list makes
  the *new* node point to itself (`queue.c:44`), so `header->next` can keep the
  address of a freed node. Only `tail` and `size` keep it from being followed.
* **NULL means two things.** A closed and drained queue answers NULL, and a
  request that could not be allocated is enqueued as NULL.
* **Shutdown order.** Close, drain, join, free: with workers anywhere.
* **Descriptor reuse in the proxy.** A closed number is handed out again at once
  to `accept` or to another worker. Who still uses the old number?
* **Peers.** Partial reads, closed and reset connections, refused addresses, no
  timeouts, one failing connection exits the process.
* **SIGINT** before the handler is there, during `accept`, during the shutdown.
* **Threads of the examples.** `x++` on globals, one structure for all threads,
  buffers freed by a thread or by its clean-up handler, a wait that does not test
  its condition first, signals that must be blocked before the first thread.
* **Signals and processes.** A signal that comes before its handler, during
  another handler or between two statements of main; signals that coalesce;
  children that end before or after their parent waits; a file offset in common.
* **Short transfers.** `read` and `write` may do less than they were asked for.

`PROJECT.json` lists each of these hazards at its line with the properties that
cover it, or says why none does.

## 2. Modules

```
FifoQueue                 what a closeable FIFO promises: one step per operation
   ^ implemented by (proved)
RequestQueue              queue.c on a heap of nodes, step by step
   |-- RequestQueueProofs      inductive invariant and its consequences;
   |                           RequestQueue implements FifoQueue
   `-- RequestServer      main.c, thread_pool.c, worker_thread.c, tasks.c
         `-- RequestServerProofs      (also extends RequestQueueProofs)
               `-- RequestServedProofs   what becomes of each request
HttpProxy                 Final/proxy_server over an atomic queue
   `-- HttpProxyProofs
Signals                   M8: parent, child and script
   `-- SignalsProofs
PosixThreads              pthread, heap, signal and exit calls: one action each
   `-- ThreadPrograms     thirty example programs as code for it, properties
         `-- ThreadOutlines    proof outlines of the programs, and what certifies one
               `-- ThreadProofs
Processes                 fork, exec, wait, signals, timers, user ids: one action each
   `-- ProcessPrograms    forty-one example programs (setuid_demo.c too), properties
         `-- ProcessProofs
FileCopy                  simpcp1.c, simpcp2.c, mt_copy.c, sgio_simple.c
   `-- FileCopyProofs
MC*                       instances for TLC
```

### RequestQueue and FifoQueue

`next`, `data` and `live` are the heap: the fields of every node and which nodes
are allocated. `tail`, `size`, `isclosed` are the fields of `queue_t`, `mutex`
the owner of its mutex; the condition variable is the set of threads at
`deq_wait`. `op[t]` is the next group of statements of thread `t`; `node[t]` and
`item[t]` are its locals. Each operation is a chain of actions, in the order of
the code: `queue_enqueue`, `EnqueueAlloc`, `EnqueueLock`, `EnqueueLink`,
`EnqueueCount`, `EnqueueUnlock`, `EnqueueBroadcast`, and so on. `chain` is a
history variable, the nodes in the order of the list; no guard and no other
variable reads it. A failed `malloc` in `queue_enqueue` is dereferenced by the
code: every thread becomes `dead`.

`FifoQueue` has a sequence of items, a flag, and for each thread a phase and a
value; an enqueue, a dequeue or a close is one step between its call and its
return.

### RequestServer

Extends `RequestQueue`; `main` is thread 0, the workers have their `thread_id`.
`mpc` and `wpc` are the positions outside the queue; while a thread is inside a
queue operation its `op` is not `idle`. `rstate[r]` follows the two allocations
of a request (the request, its argument). `ThreadArgs` are the values of
`atoi(argv[1])`: too large ones, which `main` refuses, and zero, which like
a negative number creates no worker, are included. What a task
computes, its `sleep` and the text of the log lines are left out; that it locks,
may fail to open the file, appends and unlocks is kept. Failures of `malloc` and
`pthread_create` in `thread_pool_init` end the process, by `exit` or by the use
of a null pointer.

### HttpProxy

`fd` maps descriptor numbers to connections; `accept` and `socket` take the
lowest free number, `close` frees whatever the number stands for *now*. Main
(`mpc`), each worker (`wpc`) and the locals `csock`, `tsock`, `left`, `buffer`
follow the code call by call, each early return (`ReturnEarly`) with the sockets
it leaves open. `inbox`, `ended`, `sent`, `asked`, `answered`, `got` are the other
ends of the connections: a client sends one request in `Parts` pieces, a target its
response in `Segments` pieces; either may close or reset at any time. `recv` returns
any non-empty prefix of what has arrived, of the request (`ReceiveRequest`) as of the
response, and what it returned is all that is forwarded. The text of a request is abstracted to
whether it parses and its host resolves, both possible for each request. The
librequest queue is the atomic FIFO of `FifoQueue`, which is justified for the
queue of M9 by the refinement proof; the pool creates any subset of `Worker`.
`sockfd`, the listening socket, is not one of the counted descriptors.

### Signals

Two processes and the script, which share nothing but signals. `ppc` and `cpc` are
the positions of the two `main`s; `usr1` and `chld` are what is pending at the
parent, `pending` what is pending at the child. They are standard signals: while
one is pending a second is dropped, so a set (or one value) is enough. `frames` is
the stack of the child's active handlers; a signal may be delivered between any two
steps, handlers included, because no `sa_mask` is initialised. The `sa_flags` of
two handlers are not initialised either; the bits that matter, `SA_RESETHAND` and
`SA_NODEFER`, are arbitrary (`oneshot`, `nodefer`). A signal that finds no handler
has its default action: SIGTSTP stops the child, SIGUSR2 and SIGTERM kill it. The
script may start at any time, also before the child has installed its handlers.
SIGCHLD is handled without `SA_SIGINFO`, so what the handler reads from its second
argument is garbage; the process exits next and the model leaves the value out.

### PosixThreads and ThreadPrograms

The examples are many and short, and made of the same calls. `PosixThreads` is
those calls: one action per call on the state of one process (`th`: status, pc,
last value read, clean-up handler, cancellation state and signal mask of each
thread; `mem`, `heap`, `mtx`, `pend`; `proc` says whether and how the process has
ended). `ThreadPrograms` translates each program into the sequence of calls and
accesses to shared memory of each of its threads, named after the functions of
the source. A load and a store are separate steps, so `g1 ++` is not atomic; a
`printf` stays as a step (`io`) because it is a cancellation point. An argument
that chooses a behaviour (lock or not, cancel or not, which thread) is a cell
whose initial value is any. What a buffer holds is abstracted to whose data it is,
primes to whether a thread's are there. `create`, `alloc` and `mayfail` may fail
and end the process through `FATAL`. `FATAL` prints before it exits, so it is a
cancellation point as well: that matters where a clean-up handler is pushed
(`cleanup_hdlr.c`). A cell `ferror` records that a thread's `fwrite` has failed,
`warned` that `mt_primes2.c` has gone on after a failed `write`. The child process of `pshared_mutex_demo.c`
is a thread that shares the two segments only. `pthreads_app_template.c` is split:
its threads are here, its handler of fatal signals is in `ProcessPrograms`.

`ThreadOutlines` adds nothing to the behaviour. `Outline(p, cs)` computes, by a sweep
over the code of each thread, what the thread may rely on at every place it can reach
(mutexes held, clean-up handler, cancellation state, facts about the shared cells, the
heap and the mutexes, and, in main, which threads may be running). `Certified` checks
such an outline instruction by instruction; section 5 says what for.

### Processes and ProcessPrograms

The same for single-threaded programs. A process has a stack of frames (main, and
the handlers that interrupted it), a mask, a queue of pending signals, a
disposition with flags per signal, armed timers, its memory (copied by fork), its
session, its limit on processes, its three user ids and CAP_SETUID. A signal is
delivered between any two instructions; it may interrupt `pause`, `sleep` and
`sigtimedwait`; standard signals coalesce, realtime signals queue, and the lowest
number is delivered first. A process that ends is a zombie until its parent waits,
unless `SA_NOCLDWAIT` or `SIG_IGN` says otherwise; its children go to init. The
user may type any command, stop and continue the program that was started, and
send up to `NSignals` signals at any time, to `killer.c` as well, whose parent
waits, then kills its child. `file` is the one file that
`fork_r6_of.c` writes, with the offset parent and child share. `atomic_A.c` and
`sigq_sender.c` are the sender of the signals to `atomic_B.c` and `sigq_recv.c`.
A signal that has come to be ignored while it was pending is dropped when it would be
delivered.

### FileCopy

The byte at offset `i` of the source is `i + 1`, so each byte of the destination
tells where it comes from. A transfer may be short `MaxShort` times; any call may
fail. `read` and `write` move the offsets `pos`, `pread` and `pwrite` use that of
the segment; as in the code, a repeated transfer starts at the beginning of the
buffer. The destination may exist and be longer: nobody truncates it.
`sgio_simple.c` has its own actions, with holes and data of a few bytes.

## 3. Runs

| Run | Instance | Shows |
|---|---|---|
| `request_queue` | 3 threads, 3 nodes, 1 datum and NULL | `QueueTypeOK`, `MemorySafe`, `NodesAccounted`, `QueueInv`, `NoLostWakeup`; `ImplementsFifo` as a refinement |
| `server` | up to 2 workers, 3 requests, 2 nodes, failing mallocs, a spurious wakeup, fairness | types, `EveryRequestInOnePlace`, `NoUseAfterDestroy`, `PoolInv`, `AllServed`, `LogConsistent`, `Terminates` |
| `proxy_safety` | 2 clients, 2 workers, 3 descriptors, requests and responses in 2 pieces, 1 address per host, failing peers and mallocs, addresses that refuse | types, `OwnResponseOnly`, `DescriptorsOwned`, `DrainedAtExit` |
| `proxy_liveness` | 2 clients, 1 worker, 2 descriptors, requests in 2 pieces, 2 addresses per host, failing peers and mallocs, addresses that refuse, fairness | `HandlerEnds`, `ShutdownEnds` |
| `proxy_stale` | all addresses may refuse | **violation** of `SocketForTarget` |
| `proxy_truncated` | a response in two pieces | **violation** of `ResponseForwarded` |
| `signals` | 3 SIGTSTPs, three rounds of the child, failing calls, fairness | types, `ReportsInOrder`, `ParentStaysForRunningChild`, `BothEnd` |
| `threads` | all thirty programs, up to 3 threads beside main, failing calls, 2 signals, fairness | types, `RaceFree`, `MemorySafe`, `Results`, `Ends`, `SignalsTaken` |
| `threads_iobuf` | `mt_iobuf_mtx.c` | **violation** of `LockedBufferWritten` |
| `filecopy` | sources of 0, 1, 3 and 5 bytes, blocks of 2, 2 or 3 threads, 2 short transfers, failing calls, fairness | types and ranges, `NoWrongByte`, `AtExit`, `Terminates` |
| `filecopy_short` | one short transfer, no failing call | **violation** of `RemainingTransferred` |
| `processes` | all forty-one programs, up to 4 processes, 2 signals of the user, failing calls, fairness | types, `ChildrenAccounted`, `SharedDataKept`, `EndsAsHandled`, `PrivilegeDropPermanent`, `DaemonDetached`, `GetsOn` |

The properties of the examples are conjunctions of named parts, a part per
program or kind of program; the comment at each part names the program it is
about. Where a program means to show a mistake (`pthreads1_wrong.c`,
`pthreads_joiner_BUGGY_3.c`, the unlocked variants) the property says what still
holds there.

*Bounds.* Three threads on three nodes give the queue a consumer that waits, one
that overtakes it and a producer; the list becomes empty, has one node and has
more, which are all the cases `enqueue` and `dequeue` distinguish, and
freed nodes are allocated again. In `server` two nodes let the queue hold more
than one request while a third waits for a freed node, and three requests let a
worker come back while another is busy. Two workers and two clients are the least
number with which one can get another's descriptor; three descriptors let a
number be reused while two others are held, two let `socket` and `accept` fail for want
of one. Two pieces of a
request are the least of which one can be missing, and the second address lets a
connection succeed after a refusal. One worker is enough for the liveness, as a handler
waits for its own client and target only, and with a second client there is one to be
drained from the queue, or handled next; main's
joins of two workers are in `proxy_safety`.
`MaxSpurious` bounds the spurious wakeups of the server; a wakeup
only repeats the test of the loop. The child of `Signals` counts at most to
`MaxSum`, a bound that only cuts its endless loop; three SIGTSTPs let one be
handled, one be pending and one be dropped.

The example programs have their numbers in the code; where those only repeat the
same steps they are smaller here, as named constants: `NumIO` 2 rounds of I/O
(the user's argument), `Rounds` 1 of 30, `Workers` 2 of 3, factorials of `FactN` 2
and 3 for 10 and 12, `NumLines` 4 lines for 100, `Forks` 2 of 3, `NumTasks` 2 (the
user's argument), `MAX` 2 of 10, `MaxCount` 1 tick of `react.c`. `NProcs` is 4,
what two forks by everybody make. The source sizes are zero, fewer bytes than
threads, a multiple of the number of threads and neither; the old destination is
empty or longer than any source. Two signals are the least number of which one
can interrupt the handler of the other.

*Symmetry* is used in `request_queue` and `proxy_safety` only, on threads, nodes,
clients and workers, which the models do not tell apart; both check no liveness.

*Deadlock.* `RequestServer` checks it: an ended process stutters explicitly
(`Terminated`). The others do not, because there the system may rest: every
consumer waits and nobody calls, no client comes, a program pauses for ever.

*Fairness.* Weak fairness for each thread says that the kernel schedules a thread
that can go on; a mutex needs no more here because every critical section is
short and `Terminates` has finitely many requests. In `HttpProxy` a connected
client that stays must also send its request to the end, and a target that stays its
response, provided it was sent the whole request (`Whole`): no `recv` of the proxy has
a timeout, so without that a handler really waits for ever. A target that was sent a
part of a request may answer, leave, or wait for the rest for ever. Nothing is assumed
of SIGINT, of new clients or of peers that leave. In `Signals` both processes and the script are scheduled and a pending
signal is delivered to a process that runs. `PosixThreads` only assumes that the
process goes on while some thread of it can; its programs are finite, but for
the threads that wait for signals. In `FileCopy` main and each copying thread go on;
calls need not fail. In `Processes` each process is scheduled and the real-time
timers expire; nothing is assumed of the user, of failing calls or of programs
started by exec. Spurious wakeups are nowhere fair, and bounded.

## 4. What disagrees with the code's own comments

Each of the first four is a run that TLC refutes.

1. `SocketForTarget` - "@return the socket for the target server or -1 on failure
   to connect" (`http_proxy.c:159`). After the last refusal the number of the
   socket just closed is returned, and sent to, received from and closed again.
2. `ResponseForwarded` - "Receives the response from the target socket and sends
   it to the client socket." (`http_proxy.c:204`). One `recv` is made; what
   arrives later is dropped.
3. `LockedBufferWritten` - "to use a mutex lock in the critical sections,
   rendering it thread safe" (`mt_iobuf_mtx.c:15`). Reading into and writing from
   the shared buffer are two critical sections; a thread writes the other's data.
4. `RemainingTransferred` - "arrange to transfer the remaining by encoding the IO
   in a loop" (`simpcp2.c:18`). The loop transfers from the start of the buffer
   again.

Others were seen while modelling. The models follow the code, and the property in
brackets states what does hold:

* "work until dequeue return null aka everything is done" (`worker_thread.c:13`):
  a request that could not be created is enqueued as NULL (`main.c:54`) and ends a
  worker [`AllServed`: all requests are served as long as there are fewer such
  failures than workers].
* "Continue to accept client connections until SIGINT is received."
  (`Final/proxy_server/main.c:86`): with `SA_RESTART` the blocked `accept` goes on
  [`ShutdownEnds`: after SIGINT the proxy ends, or it is in `accept` with no client
  in the backlog].
* "Forward the clients request to the target server" (`http_proxy.c:62`): what one
  `recv` of at most 4095 bytes has returned (`:119`) is forwarded. When that is a part
  of the request, the target waits for the rest and the worker, and a shutdown, for the
  target, with no peer failing [`HandlerEnds` and `ShutdownEnds`, in `WaitsForRest`].
* "rendering it thread safe" (`mt_iobuf_mtx.c:15`) once more: after a failed `fwrite` a
  thread frees the shared buffer and unlocks (`:66`) before `FATAL` has ended the
  process; the other one uses it. "even if they do get cancelled, we handle the cleanup"
  (`cleanup_hdlr.c:16`): after a failed `fwrite` the thread frees its buffer (`:63`);
  cancelled in the message of `FATAL`, its clean-up handler frees it a second time
  [`MemorySafe`: memory is used after it was freed in no other case, see `ExcusedBy`].
* "The destination file is overwritten if it exists." (`simpcp1.c:15`): it is not
  truncated, and keeps the tail of a longer one, as do the other copiers [`AtExit`, in
  `CopyExact`].
* "the moment the message [...] appears, press ^C [...] Your reaction time is displayed"
  (`react.c:22`): the message is written (`:163`) before the start time is taken; a ^C
  in between computes with a start time of zero [`SharedDataKept`, in
  `ReactionMeasured`].
* "wait until child dies" (`M8/parent.c:69`): the child queues SIGCHLD before it
  exits [`ParentStaysForRunningChild`].
* "go forever printing this stuff until a kill signals" (`M8/child.c:63`): a SIGTSTP
  between two `sigaction` calls is reported and the acknowledging SIGUSR2 kills
  the child [`BothEnd`].
* `mt_primes2.c:63`: `gCanceledThread` is 0, the first thread's index, also when no
  thread is cancelled; its primes are left out and its memory is not freed
  [`Results`, in `PrimesWritten`, which also allows for a `write` that failed and was
  only warned about, `:120`].
* `daemon_trad.c:88` resets the mask "using sigprocmask()" and only empties a
  `sigset_t`; the original parent exits "after initialization is complete" (`:216`)
  and in fact at once after its fork [`DaemonDetached`].
* `pthreads_app_template.c:252` lets the kernel dump core; for SIGSEGV the handler
  exits before the signal it raised can be delivered [`EndsAsHandled`, in
  `FaultOutcome`].
* `forkbomb.c` sets the limit to the number of forks it then makes: the loop is not
  finished while the earlier processes sleep [`ChildrenAccounted`, in
  `ProcessCount`].
* `killer.c:38` ends the parent with success at a SIGINT of its own; its child is left,
  and pauses for ever when it has not been sent its signal yet [`ChildrenAccounted`, in
  `ChildrenReaped`, and `GetsOn`, in `ProcessesEnd`].
* `sgio_simple.c:174` leaves its four buffers when an `open`, `lseek` or `write` fails
  [`AtExit`, in `BuffersFreed`].
* `cv_simple.c:68` waits before it has tested its predicate [`Ends`, in
  `EarlyWaiterWakes`].

The history variable `wild` of `HttpProxy` records that item 1 has happened.
`OwnResponseOnly` and `DescriptorsOwned` hold up to then and not afterwards;
`DrainedAtExit` holds always. `HandlerEnds` and `ShutdownEnds` make the same
exception: a worker that was given a closed number may then read from another
client's connection and wait for data that never comes. Their other exception is a request
forwarded in part (`WaitsForRest`): the target has a part of the request, has sent nothing and stays.
When it leaves after all, the handler has to end. Likewise `MemorySafe` of
`ThreadPrograms` excepts the buffers of the two programs named above from the failed
`fwrite` on (`ExcusedBy`), and nothing else.

## 5. Proofs

All proofs are for arbitrary constants that satisfy the named assumptions of the
modules, which TLC evaluates on every run: `QueueConstants` (the sentinel is not a
node, NULL is neither node nor datum, "nobody" is not a thread), `ServerConstants`
(threads are main and the workers `1..MaxWorkers`, data are the requests),
`ProxyConstants`, `SignalsConstants`, `ProcessesConstants` (the bounds are natural
numbers), `ProgramsClosed` (no jump of a routine leads out of it, only handlers return,
what an instruction names exists, and a program starts in main), `CodeClosed` (the same
for `PosixThreads`), `ProgramsCertified` (the outlines of the thirty programs are
certified, see `ThreadsOutlined`), `CredentialPrograms`
(the code of the three programs about credentials, and the ids with which exec starts a
program: any, but as Linux sets them) and `FileCopyConstants` (sizes are natural numbers, the block and every number of
threads are positive, and there is a greatest number of threads: `MAX_THRDS`,
`mt_copy.c:85`, which `main` enforces at `:329`).

**`QueueInvariant`** : `QueueSpec => []QueueInv`. `MemorySafe` and
`NodesAccounted` are not inductive: whether `next[Header]` is safe to follow
depends on `size`, and `size` is right only when no thread is between linking
and counting. `QueueInv` adds: the mutex is held in every critical group
(`MutualExclusion`), a thread has a node exactly in the groups `Owning`
(`Ownership`), consecutive nodes are linked and a non-empty list starts at the
sentinel (`Links`; nothing is said of the last node's `next`, which may point to
itself), `size` and `tail` agree with the list up to the one change the holder of
the mutex still owes (`Counted`). After a death of the process only the types,
ownership and accounting are kept (`AllDie`). The proof has one lemma per action.
`QueueTypeCorrect`, `QueueMemorySafe` and `QueueNodesAccounted` follow.

**`QueueNoLostWakeup`** : `NoLostWakeup` is inductive relative to `QueueInv`: a
thread that goes to wait holds the mutex, so nobody else is between its change
and its unlock.

**`QueueImplementsFifo`** (`RequestQueueProofs`) : `QueueSpec =>
ImplementsFifo`. The items are the data along `chain`; the linearisation points
are `EnqueueLink`, `DequeueUnlink`, `DequeueClosed` and `CloseSet`; the value of a
thread is in its node while it owns one. That the argument moves unchanged from
the local to the node and back is a lemma of its own.

**`ServerInvariant`** : `QueueInv`, `ServerTypeOK` and `PoolInv` together are
inductive for `RequestServer`; a queue step of a thread is a queue step, so the
lemmas of the queue are reused. `ServerTypeCorrect`, `ServerMemorySafe`,
`ServerPoolInv` and `ServerNoUseAfterDestroy` follow.

**`SignalsInvariant`** : `SignalsInv` adds to the types what is known before `fork`
(`BeforeFork`), that a pending report is not older than the printed ones and not
newer than the child's sum (`Reports`), and that SIGCHLD is pending, or `waitpid` has
succeeded, only if the child is dead or past its notification (`Notices`).
`ReportsInOrder` is not inductive without the pending report, and
`ParentStaysForRunningChild` not without the pending SIGCHLD.

**`ServerPlaceInvariant`** (`RequestServedProofs`) : nothing here looks at links,
locks or nodes. By `ThreadStepRefines`, the lemma behind the refinement, every step a
thread takes inside the queue is a step of the FIFO, so that the server is seen as
main and workers that put into and take from a sequence (`Items`, the value `Val` and
the phase `PhaseMap` of each thread; `StepMoves`, `CallMoves`, `QuietMoves`). On that
view `PlaceInv` is inductive relative to `ServerInv`: what each thread may be doing
with the queue (`Roles`), no request is in two hands, twice in the list, or in a hand
and the list (`Apart`), and how far a request has been served is told by where it is
(`Kept`). `EveryRequestInOnePlace` alone is not inductive: it does not say that a
request in the list has not run yet, nor that a worker at the top of its loop holds a
dangling pointer only. **`ServerRequestsInOnePlace`** follows.

**`ServerAllServed`** needs an account of the NULLs that failed `create_request`s
put into the queue. `SpareInv`: until the queue is closed and drained, the workers that
have ended or are about to, the NULLs in the list and the one in main's hand are
together at most the failures. So with fewer failures than workers some worker stays
until the queue is drained (`JoinedMeansServed`). **`ServerLogConsistent`** needs, for
the order, that the list is in the order of submission before what main has in hand
(`ListOrder`, for any number of workers) and that the log comes before what the one
worker holds, and that before the list (`LogOrder`). That one worker writes at a time and
one line per request needs the owner of the log's mutex, and that no line is about a
request whose task is still to write (`LinesInv`): a request has not run when a worker
takes it, and what has a line has run.

**`ProxyInvariant`** (`HttpProxyProofs`) : `ProxyInv` has what the types need of the
control (`InUse`), what the shutdown relies on (`Draining`: a worker leaves its loop only
when the closed queue is empty, nothing is queued after the close) and, as long as no
closed number has been used (`~wild`), `Untangled`: a client's descriptor is in the
queue, with main or with one worker, once (`HeldOnce`); a connection is behind one
descriptor at most, a target's exactly between `socket` and `close` (`ConnsApart`); the
pieces of a request in a worker's buffer, those its target was asked and the pieces of
the response on their way are those of the client the worker serves (`DataFlow`); a client
that has not been answered has received nothing (`NothingYet`).
`OwnResponseOnly` speaks of what a client got and is not inductive without what is
on its way, and that not without the uniqueness of descriptors, because `accept` and
`socket` reuse the number that `close` has just freed. `ProxyTypeCorrect`,
`ProxyOwnResponseOnly`, `ProxyDescriptorsOwned` and `ProxyDrainedAtExit` follow.

**`CopyInvariant`** (`FileCopyProofs`) : the program never changes, so `CopyInv` has a
part for each kind. `SimpleInv` ties the two file offsets, the counters of the loops
and the bytes in the buffer (`Pending`) to what the destination has. `ThreadsInv` is
`mt_copy.c`: thread `a` has the bytes from `(a-1) * Share`, and the last one the
`Rest` of the division as well (`Segment`); what it has finished is in the destination
(`ThreadData`), and no other thread's write touches it. `EachByteHasOwner` is the
arithmetic that the shares and the rest are the whole file. `LayoutInv` follows
`sgio_simple.c` from one iovec to the next (`Laid`). Neither `NoWrongByte` nor `AtExit`
is inductive: what is in a buffer must be the source's bytes of the offset to
which they will be written, and success at the end must mean that every thread has
finished its share. `CopyTypeCorrect`, `CopyNoWrongByte` and `CopyAtExit` follow: all
invariants of `FileCopy` are proved.

**`ProcessInvariant`** (`ProcessProofs`) : `TypeOK` says that every frame is at an
instruction of its routine, and is not inductive: what a handler interrupts goes on after
an offset that only a blocking call has, so `ProcInv` adds that a blocked process is in
`pause`, `sleep` or `sigtimedwait`; a handler returns to the frame below it, so that the
lowest frame is main's or that of a program exec started; and the latter has no
handler left. There is one lemma for what happens to a process (`ReturnOK`, `PushOK`,
`PopOK`, `SignalledOK`, `TakenOK`, `EndsOK`), and the actions are put together from
these. **`ProcessTypeCorrect`** follows for every closed table of programs.

**`PrivilegesStayDropped`** : `CredInv` says where main of `setuid_demo.c`,
`savedset_demo.c` or `set_pcap.c` is and what its ids are there (`IdsOK`), that boing is
the only handler on top of it, and that there is no other process. In `setuid_demo.c` the
capability implies that one of the ids is 0, which every call preserves by Linux's rule
(`SetIdsEffect`), so after `setresuid(getuid(), ...)` nobody but root has it; in
`savedset_demo.c` the saved id is 0 from the first test on; in `set_pcap.c` the saved id
is always the real one, and with the capability gone `setuid` can change the effective id
only. `PrivilegeDropPermanent` alone does not say what was true at T1 to T3. The
theorem is for every user id, not only the four users of the run.

**`ThreadsTypeCorrect`** (`ThreadProofs`) : no thread runs off its code, for every table
of code that satisfies `CodeClosed`. `TypeInv` adds to `TypeOK` what the end of a thread
relies on: that `fin` says how it ends, that a thread that waits is at a
`pthread_cond_wait`, and that one not created yet stands at its first instruction.

**`ThreadsOutlined`** : the properties `RaceFree` and `MemorySafe` speak of thirty
programs, and each needs an inductive invariant of its own: which mutex is held where,
which flag says that memory is allocated, which threads main has not joined yet. These are
proof outlines in the manner of Owicki and Gries, and writing them by hand would repeat
the programs. So they are computed (`Outline`), and the proof is of the method: if an
outline is `Certified`, it holds in every state of every execution. `Certified` looks at
single instructions and at pairs of places, never at an execution: what an instruction
establishes implies what is annotated where it leads (`PlaceCertified`); an instruction
of one thread keeps the facts annotated at every place of another thread at which that
one may be meanwhile (`FactsCertified`), where two places exclude each other if both
hold the same mutex or if main has not created, or has already joined, the thread
(`Together`). The assumption `ProgramsCertified` is the conjunction of these finite
conditions; TLC evaluates it for the code in `ThreadPrograms` on every run of `threads`,
and it is false for a program with a lock too little or a free too much. `OutlineInv`
then says of a state that each thread is at a place of its outline with the handler and
the cancellation state written there (`ControlInv`), that it owns exactly the mutexes
written there (`LockInv`), and that the facts are true (`FactInv`) - also those of a
thread that has ended, until main joins it and knows them. There is one lemma for a step
along an edge of an outline (`EdgeKept`), with a part each for the control, the mutexes,
the memory and the facts of the other threads (`OthersFactsKept`); the 28 actions of
`PosixThreads` and spurious wakeups are put together from it. How an outline is computed
plays no part in the proof, so nothing is assumed of the sweep.

A fact may be conditional: that a cell is allocated, unless a guard has a value
(`Guards`): the argument that a program tests before it frees, or the failed `fwrite` of
`ExcusedBy`. So the outline of `cleanup_hdlr.c` says that the buffer its handler frees
is allocated unless the thread's `fwrite` has failed, which is what is true there.

**`ThreadsRaceFree`** and **`ThreadsMemorySafe`** follow: two threads that access the same
cell, one of them to write it, would be at two places that exclude each other
(`RaceCertified`), unless main knows that the user chose not to lock; what
an access, a lock, an unlock or a destruction needs is among the facts of its place; a
place where a thread ends holds no mutex; and where main of a program in `LeakFree`
ends, every cell is known to be free. `ThreadsMemorySafe` says nothing of leaks in the
other programs, nor of the two excepted buffers after the failure. Neither property is inductive: they
speak of the instruction that comes next only. The argument covers any number of failing
calls, spurious wakeups, signals and cancellations, of which the run has two.

Only model-checked:

* the liveness properties (fairness and ENABLED are out of the prover's reach):
  `Terminates`, `HandlerEnds`, `ShutdownEnds`, `BothEnd`, `Ends`, `SignalsTaken`, `GetsOn`
  and `DaemonDetached`, half of which is a leads-to;
* `Results` of `ThreadPrograms`: what the locked programs compute needs, beyond the
  outlines, the sum of what each thread has contributed so far, and the value a thread
  was given at its creation, program by program;
* `ChildrenAccounted`, `SharedDataKept` and `EndsAsHandled` of `ProcessPrograms`, which
  are about thirty-eight programs with a part for each kind;
* the four comments of section 4, which are false.

## 6. Not modelled, and the plan

Proofs that are left, in this order:

1. **`ProcessPrograms.EndsAsHandled` and `ChildrenAccounted`**: outlines as those of
   `ThreadOutlines`, whose places are stacks of frames, or program by program along the
   lines of `CredInv`.
2. **`Results`**: a fact about the value a thread read last, for the numbers given to
   threads; a ghost sum per cell for the locked counters.

Not modelled, and why:

* `M4lab/input.c`, `m2`, `M5`, `M3Lab`, `Testing_server`, `booksrc/ch1` - `ch5`, `ch9`,
  most of `A_fileio`, `diskspc.c`, `mmap_file_simple.c`, `query_*`, `disp_defattr_pthread.c`:
  one pass without state that outlives a call, floating point, or machine and
  kernel data that is only printed.
* `altstack.c`, `segv_altstack.c`, `membugs.c`: stack layout and deliberate memory
  errors, below this level; `murder.c` kills whatever runs on the machine.
* The measuring programs of `ch14`: independent computations.
* `handle_err` of `common.c` returns when its own `malloc` fails, and its caller
  goes on after `FATAL`; this needs two failures in a row and ends in a null
  pointer. The joiners pass the address of an `int` where `pthread_join` stores a
  pointer.
* The kernel resets a connection that is closed with unread data, so that a peer may
  lose what was sent to it before; in the model it gets that. No property that passes
  promises that a response arrives.
* The circuit breaker of `bankacc.c`: with a balance of 12000 and the amounts in the
  code neither of its limits is reached in any order. A `write` of `mt_primes2.c` that
  transfers a part only goes unnoticed there and is taken to be whole.
* `killer.c` gets SIGINT as `kill` would send it, the parent alone; a terminal sends it
  to the child too.
* The sockets that early returns of the proxy's handler leave open are in the model,
  and no property is about them: nothing in the repository promises otherwise.
* SIGINT before the proxy's handler is installed ends it at once, and an error on
  one connection exits the proxy: both are in the model (`handle_sigint`,
  `ResponseFails`), and no property forbids them because nothing promises more.
  The alarm of `alarm1.c` and `alarm2_rep.c` that comes before `pause` likewise.
* What tasks compute, log and message texts, HTTP syntax beyond accept or reject,
  the paths `web_server.py` knows, `primes1.c` (does not compile), the unit tests
  (read as documentation), and undefined behaviour inside librequest, whose source
  is not here (the proxy passes the number of threads on unchecked).
