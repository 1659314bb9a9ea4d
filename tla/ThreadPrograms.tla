--------------------------- MODULE ThreadPrograms ---------------------------
(***************************************************************************)
(* The multithreaded example programs as code for PosixThreads.  Thread 0  *)
(* is main, thread i is the i-th thread created (the code's index i - 1);  *)
(* arrays are indexed the same way.  printf and the like are "io": they    *)
(* are cancellation points.  A command line argument that chooses between  *)
(* two behaviours is a cell whose initial value is either.                 *)
(***************************************************************************)
EXTENDS PosixThreads, FiniteSets, SequencesExt

NumIO == 2          \* numio of the iobuf programs
Rounds == 1         \* rounds of a worker of assgn2.c (30 in the code)
Workers == 2        \* workers of mutex1.c and assgn2.c (3 in the code)
FactN == <<2, 3>>   \* the N of facto.c's two threads (10 and 12 in the code)

ForEach(n, Body(_)) == FlattenSeq([i \in 1 .. n |-> Body(i)])

\* for (...) { pthread_create(&tid[i], ..., (void *)i); if (ret) FATAL }
create_loop(n) == ForEach(n, LAMBDA i : << <<"create", i, i - 1>> >>)

\* for (...) { pthread_join(tid[i], ...) }
join_loop(n) == ForEach(n, LAMBDA i : << <<"io">>, <<"join", i>> >>)

TExit == << <<"texit">> >>

-----------------------------------------------------------------------------
(* ch14: creating, joining, passing parameters                             *)

\* pthreads1.c: main calls exit, which ends the workers too
pthreads1_worker(i) == << <<"io">>, <<"io">>, <<"texit">> >>
pthreads1_main == create_loop(3) \o << <<"exit">> >>

\* pthreads2.c: main ends with pthread_exit instead
pthreads2_worker(i) == << <<"io">>, <<"io">>, <<"texit">> >>
pthreads2_main == create_loop(3) \o TExit

\* pthreads3.c: the workers sleep
pthreads3_worker(i) == << <<"io">>, <<"sleep">>, <<"io">>, <<"texit">> >>
pthreads3_main == create_loop(3) \o TExit

\* cr8_so_many_threads.c and see_tid.c: as many threads as asked for, all
\* of which wait for a signal
pausing_worker(i) == << <<"io">>, <<"pause">>, <<"io">>, <<"texit">> >>
cr8_so_many_main == create_loop(3) \o TExit
see_tid_worker(i) == pausing_worker(i)
see_tid_main == create_loop(2) \o TExit

\* named_threads.c names each thread after it has created it
named_worker(i) == pausing_worker(i)
named_main ==
    ForEach(2, LAMBDA i : << <<"create", i, i - 1>>, <<"mayfail">> >>) \o TExit

\* pthreads_joiner1.c and pthreads_joiner2.c
joiner1_worker(i) == << <<"io">>, <<"sleep">>, <<"io">>, <<"texit">> >>
joiner1_main == create_loop(3) \o join_loop(3) \o << <<"io">>, <<"texit">> >>
joiner2_worker(i) == << <<"io">>, <<"sleep">>, <<"io">>, <<"texit">> >>
joiner2_main == create_loop(3) \o join_loop(3) \o << <<"io">>, <<"texit">> >>

\* struct_as_param.c: a structure of its own for each thread
struct_worker(i) ==
    << <<"load", "plocdata", i>>, <<"io">>, <<"sleep">>, <<"io">>, <<"texit">> >>
struct_main ==
    ForEach(3, LAMBDA i : << <<"alloc", "plocdata", i>>,
                             <<"store", "plocdata", i, i - 1>>,
                             <<"create", i, 0>> >>) \o
    ForEach(3, LAMBDA i : << <<"io">>, <<"join", i>>, <<"free", "plocdata", i>> >>) \o
    << <<"io">>, <<"texit">> >>

\* pthreads_joiner3.c: the worker uses its argument before and after it sleeps
joiner3_worker(i) ==
    << <<"load", "passthis", i>>, <<"io">>, <<"sleep">>,
       <<"load", "passthis", i>>, <<"io">>, <<"texit">> >>
passthis_loop ==
    ForEach(3, LAMBDA i : << <<"alloc", "passthis", i>>,
                             <<"store", "passthis", i, i - 1>>,
                             <<"create", i, 0>> >>)
joiner3_main ==
    passthis_loop \o
    ForEach(3, LAMBDA i : << <<"io">>, <<"join", i>>, <<"free", "passthis", i>> >>) \o
    << <<"io">>, <<"texit">> >>

\* pthreads_joiner4.c: the join may time out, and then frees nothing
joiner4_worker(i) == joiner3_worker(i)
joiner4_main ==
    passthis_loop \o
    ForEach(3, LAMBDA i : << <<"io">>, <<"timedjoin", i, 1>>, <<"free", "passthis", i>> >>) \o
    << <<"io">>, <<"texit">> >>

\* pthreads_joiner_BUGGY_3.c: one structure for all threads
buggy3_worker(i) ==
    << <<"load", "passthis", 1>>, <<"io">>, <<"sleep">>,
       <<"load", "passthis", 1>>, <<"io">>, <<"texit">> >>
buggy3_main ==
    << <<"alloc", "passthis", 1>> >> \o
    ForEach(3, LAMBDA i : << <<"store", "passthis", 1, i - 1>>, <<"create", i, 0>> >>) \o
    ForEach(3, LAMBDA i : << <<"join", i>> >>) \o
    << <<"free", "passthis", 1>>, <<"io">>, <<"texit">> >>

\* pthreads1_wrong.c passes the address of its loop variable
pthreads1_wrong_worker(i) == << <<"load", "i", 0>>, <<"io">>, <<"texit">> >>
pthreads1_wrong_main ==
    ForEach(3, LAMBDA i : << <<"store", "i", 0, i - 1>>, <<"io">>, <<"create", i, 0>> >>) \o
    << <<"store", "i", 0, 3>>, <<"sleep">>, <<"exit">> >>

\* stack_test.c: the second thread calls danger(), whose local array needs
\* 1960 KB of stack (:51); an invalid size becomes TSTACK, 1024 KB
StackNeeded == 1960
stack_worker(i) ==
    IF i # 2 THEN << <<"io">>, <<"texit">> >>
    ELSE << <<"io">>, <<"stack", "stack_set", 0, StackNeeded>>, <<"io">>, <<"texit">> >>
stack_main ==
    << <<"skipif", "stack_set", 0, 1, 4096, 1>>, <<"store", "stack_set", 0, 1024>>,
       <<"mayfail">> >> \o
    create_loop(3) \o join_loop(3) \o << <<"io">>, <<"texit">> >>

-----------------------------------------------------------------------------
(* ch15: mutexes and condition variables                                   *)

\* if (locking) pthread_mutex_lock / unlock / init / destroy (&mylock)
when_locking(op) == << <<"skipif", "locking", 0, 0, 0, 1>>, <<op, "mylock">> >>

\* mutex1.c: three threads increment three globals
increment(x) == << <<"load", x, 0>>, <<"add", x, 0, 1>> >>
mutex1_worker(i) ==
    when_locking("lock") \o increment("g1") \o increment("g2") \o increment("g3") \o
    << <<"load", "g1", 0>>, <<"load", "g2", 0>>, <<"load", "g3", 0>> >> \o
    when_locking("unlock") \o TExit
mutex1_main ==
    when_locking("initmutex") \o create_loop(Workers) \o
    ForEach(Workers, LAMBDA i : << <<"join", i>> >>) \o when_locking("destroymutex") \o TExit

\* facto.c: two threads compute a factorial in the same global
factorize(n) ==
    << <<"store", "gFactorial", 0, 1>> >> \o
    ForEach(n, LAMBDA k : << <<"load", "gFactorial", 0>>, <<"mul", "gFactorial", 0, k>> >>)
facto_worker(i) ==
    when_locking("lock") \o factorize(FactN[i]) \o << <<"load", "gFactorial", 0>> >> \o
    when_locking("unlock") \o TExit
facto_main ==
    when_locking("initmutex") \o create_loop(2) \o
    ForEach(2, LAMBDA i : << <<"join", i>> >>) \o when_locking("destroymutex") \o TExit

\* bankacc.c: the circuit breaker fails a withdrawal that leaves less than
\* gCB_MinCredit
gCB_MinCredit == 500
deposit(amt) ==
    IF amt <= 0 THEN <<>>
    ELSE << <<"io">>, <<"load", "gBalance", 0>>, <<"add", "gBalance", 0, amt>> >>
withdraw(amt) ==
    << <<"skipif", "gBalance", 0, 0, gCB_MinCredit + amt - 1, 3>>, <<"io">>,
       <<"load", "gBalance", 0>>, <<"add", "gBalance", 0, -amt>> >>
bankacc_worker(i) ==
    when_locking("lock") \o
    (IF i = 1 THEN deposit(3000) \o withdraw(250) ELSE withdraw(9000) \o deposit(1000)) \o
    when_locking("unlock") \o TExit
bankacc_main ==
    when_locking("initmutex") \o create_loop(2) \o
    ForEach(2, LAMBDA i : << <<"join", i>> >>) \o when_locking("destroymutex") \o
    << <<"load", "gBalance", 0>>, <<"texit">> >>

\* cv_simple.c: thread 1 is A, which waits; thread 2 is B, which signals
\* Mutant: forgets the signal
workerB_no_signal ==
    << <<"io">>, <<"sleep">>, <<"io">>, <<"lock", "mycv_mutex">>,
       <<"store", "gWorkDone", 0, 1>>, <<"unlock", "mycv_mutex">>, <<"texit">> >>
workerB ==
    << <<"io">>, <<"sleep">>, <<"io">>, <<"lock", "mycv_mutex">>,
       <<"store", "gWorkDone", 0, 1>>, <<"cvsignal">>,
       <<"unlock", "mycv_mutex">>, <<"texit">> >>
workerA ==
    << <<"lock", "mycv_mutex">>, <<"cvwait", "mycv_mutex">>,
       <<"skipif", "gWorkDone", 0, 0, 0, -2>>, <<"unlock", "mycv_mutex">>, <<"texit">> >>
cv_simple_worker(i) == IF i = 1 THEN workerA ELSE workerB
cv_simple_main ==
    << <<"mayfail">> >> \o create_loop(2) \o ForEach(2, LAMBDA i : << <<"join", i>> >>) \o
    << <<"destroymutex", "mycv_mutex">>, <<"exit">> >>

\* pshared_mutex_demo.c: thread 1 is the worker thread, thread 2 stands for
\* the child process: it shares the two shared memory segments only, and its
\* exit ends it alone.  pthread_once finds the mutex initialised in the child.
shmem_setup(x) == << <<"mayfail">>, <<"alloc", x, 0>> >>
init_mutex ==
    << <<"skipif", "shmtx", 0, 1, 1, 3>>, <<"mayfail">>, <<"initmutex", "shmtx">>,
       <<"store", "shmtx", 0, 1>> >>
pshared_worker(i) ==
    (IF i = 2 THEN init_mutex ELSE <<>>) \o
    << <<"sleep">>, <<"lock", "shmtx">>, <<"store", "gshmbuf", i, 1>>,
       <<"store", "gshmbuf", i, 2>>, <<"unlock", "shmtx">>, <<"texit">> >>
pshared_main ==
    shmem_setup("shmtx") \o << <<"store", "shmtx", 0, 0>> >> \o
    << <<"mayfail">>, <<"alloc", "gshmbuf", 1>>, <<"alloc", "gshmbuf", 2>> >> \o init_mutex \o
    << <<"create", 1, 0>>, <<"create", 2, 0>>, <<"join", 2>>, <<"join", 1>>,
       <<"load", "gshmbuf", 1>>, <<"load", "gshmbuf", 2>>, <<"free", "shmtx", 0>>,
       <<"mayfail">>, <<"free", "gshmbuf", 1>>, <<"free", "gshmbuf", 2>>, <<"mayfail">>,
       <<"texit">> >>

-----------------------------------------------------------------------------
(* ch16: thread safety, cancellation, clean-up handlers and signals        *)

\* the part of main that mt_iobuf_mtx.c, mt_iobuf_rfct.c, mt_iobuf_tls.c and
\* cleanup_hdlr.c have in common: the streams, the structures and the threads
open_streams == << <<"alloc", "wfp", 0>>, <<"alloc", "rfp", 0>> >>
ToThread_loop ==
    ForEach(2, LAMBDA i : << <<"alloc", "ToThread", i>>, <<"store", "ToThread", i, i>>,
                             <<"create", i, 0>> >>)
join_free_loop == ForEach(2, LAMBDA i : << <<"join", i>>, <<"free", "ToThread", i>> >>)
close_streams == << <<"free", "rfp", 0>>, <<"free", "wfp", 0>> >>

\* fread puts the data of thread i in the buffer, fwrite writes what is in
\* it: the write's last step records whose data it wrote
fread(i, buf, k) == << <<"load", "rfp", 0>>, <<"store", buf, k, i>>, <<"mayfail">> >>
fwrite(i, buf, k) == << <<"load", "wfp", 0>>, <<"load", buf, k>>, <<"save", "wrote", i>> >>

\* mt_iobuf_mtx.c: one buffer for all threads.  When fwrite fails, which the
\* stream's error indicator, ferror, records, the thread frees the buffer,
\* unlocks, and only then FATAL prints its message and ends the process
testit_mt_mtx(i) ==
    ForEach(NumIO, LAMBDA n :
        << <<"lock", "mylock">>, <<"load", "rfp", 0>>, <<"store", "gbuf", 0, i>>,
           <<"unlock", "mylock">>, <<"mayfail">>,
           <<"lock", "mylock">> >> \o fwrite(i, "gbuf", 0) \o
        << <<"maybe", 1>>, <<"goto", 5>>, <<"store", "ferror", 0, 1>>,
           <<"free", "gbuf", 0>>, <<"unlock", "mylock">>, <<"io">>, <<"exit">>,
           <<"unlock", "mylock">> >>)
mt_iobuf_mtx_worker(i) == << <<"load", "ToThread", i>> >> \o testit_mt_mtx(i) \o TExit
mt_iobuf_mtx_main ==
    << <<"alloc", "gbuf", 0>> >> \o open_streams \o ToThread_loop \o join_free_loop \o
    << <<"destroymutex", "mylock">> >> \o close_streams \o << <<"free", "gbuf", 0>>, <<"texit">> >>

\* mt_iobuf_rfct.c: a heap buffer for each thread; when fwrite fails the
\* thread frees it, and FATAL prints its message and ends the process
or_fatal(i) ==
    << <<"maybe", 1>>, <<"goto", 4>>, <<"store", "ferror", i, 1>>,
       <<"free", "iobuf", i>>, <<"io">>, <<"exit">> >>

\* Mutant: a buffer that all threads share, locked for each call
testit_mt_shared(i) ==
    ForEach(NumIO, LAMBDA n :
        << <<"lock", "mylock">>, <<"load", "rfp", 0>>, <<"store", "sbuf", 0, i>>,
           <<"unlock", "mylock">>, <<"mayfail">>, <<"lock", "mylock">> >> \o
        fwrite(i, "sbuf", 0) \o << <<"unlock", "mylock">> >> \o or_fatal(i))

testit_mt_refactored(i) ==
    << <<"io">> >> \o ForEach(NumIO, LAMBDA n :
        << <<"io">> >> \o fread(i, "iobuf", i) \o << <<"io">> >> \o fwrite(i, "iobuf", i)
           \o or_fatal(i))
mt_iobuf_rfct_worker(i) ==
    << <<"load", "ToThread", i>>, <<"alloc", "iobuf", i>> >> \o testit_mt_refactored(i) \o
    << <<"free", "iobuf", i>>, <<"texit">> >>
mt_iobuf_rfct_main ==
    open_streams \o ToThread_loop \o join_free_loop \o close_streams \o TExit

\* mt_iobuf_tls.c: the buffer is thread-local
testit_mt_tls(i) ==
    << <<"io">> >> \o ForEach(NumIO, LAMBDA n :
        fread(i, "tls", i) \o fwrite(i, "tls", i) \o << <<"mayfail">> >>)
mt_iobuf_tls_worker(i) == << <<"load", "ToThread", i>> >> \o testit_mt_tls(i) \o TExit
mt_iobuf_tls_main ==
    open_streams \o ToThread_loop \o join_free_loop \o close_streams \o TExit

\* cancelit.c: thread 1 may not be cancelled while it works
cancelit_worker(i) ==
    (IF i = 1 THEN << <<"io">>, <<"cancel_off">>, <<"io">>, <<"io">>, <<"cancel_on">> >>
     ELSE <<>>) \o << <<"io">>, <<"sleep">>, <<"io">>, <<"texit">> >>
cancelit_main ==
    create_loop(2) \o << <<"cancel", 1>> >> \o join_loop(2) \o << <<"io">>, <<"texit">> >>

\* cleanup_hdlr.c: as mt_iobuf_rfct.c, with a handler that frees the buffer
\* of a cancelled thread; argv[2] says whether thread 1 is cancelled
cleanup_hdlr_handler(i) == << <<"io">>, <<"free", "iobuf", i>>, <<"handler_end">> >>
cleanup_hdlr_body(i, handler) ==
    << <<"load", "ToThread", i>>, <<"mayfail">>, <<"alloc", "iobuf", i>>, <<"push", handler>> >> \o
    testit_mt_refactored(i) \o << <<"pop">>, <<"free", "iobuf", i>>, <<"texit">> >>
cleanup_hdlr_worker(i) ==
    cleanup_hdlr_body(i, Len(cleanup_hdlr_body(i, 0)) + 1) \o cleanup_hdlr_handler(i)
cleanup_hdlr_main ==
    open_streams \o ToThread_loop \o
    << <<"skipif", "cancel", 0, 0, 0, 1>>, <<"cancel", 1>> >> \o
    join_free_loop \o close_streams \o TExit

\* mt_primes1.c, mt_primes2.c: each thread puts its primes in a buffer of
\* its own
simple_primegen(i) == << <<"store", "iobuf", i, 1>> >>
primes_loop ==
    ForEach(3, LAMBDA i : << <<"alloc", "ToThread", i>>, <<"store", "ToThread", i, i>>,
                             <<"alloc", "iobuf", i>>, <<"create", i, 0>> >>)
mt_primes1_worker(i) == << <<"load", "ToThread", i>> >> \o simple_primegen(i) \o << <<"io">>, <<"texit">> >>
mt_primes1_main ==
    primes_loop \o
    ForEach(3, LAMBDA i : << <<"join", i>>, <<"free", "iobuf", i>>, <<"free", "ToThread", i>> >>) \o
    TExit

\* mt_primes2.c: a cancelled thread frees its own buffer and says so in
\* gCanceledThread, which is 0, the first thread's index, from the start
primes2_handler(i) ==
    << <<"lock", "mylock">>, <<"load", "ToThread", i>>, <<"store", "gCanceledThread", 0, i>>,
       <<"unlock", "mylock">>, <<"io">>, <<"free", "iobuf", i>>, <<"free", "ToThread", i>>,
       <<"handler_end">> >>
primes2_body(i, handler) ==
    << <<"push", handler>>, <<"load", "ToThread", i>> >> \o
    (IF i = 3 THEN << <<"sleep">> >> ELSE <<>>) \o simple_primegen(i) \o
    << <<"io">>, <<"load", "iobuf", i>>, <<"pop">>, <<"texit">> >>
mt_primes2_worker(i) == primes2_body(i, Len(primes2_body(i, 0)) + 1) \o primes2_handler(i)
\* a failing write only warns, and the loop goes on
write_the_primes ==
    ForEach(3, LAMBDA i : << <<"skipif", "gCanceledThread", 0, i, i, 6>>,
                             <<"load", "iobuf", i>>, <<"maybe", 2>>,
                             <<"save", "datafile", i>>, <<"goto", 2>>,
                             <<"store", "warned", i, 1>>, <<"io">> >>)
mt_primes2_main ==
    << <<"mayfail">> >> \o primes_loop \o
    << <<"skipif", "cancel", 0, 0, 0, 1>>, <<"cancel", 3>> >> \o
    join_loop(3) \o write_the_primes \o
    ForEach(3, LAMBDA i : << <<"skipif", "gCanceledThread", 0, i, i, 2>>,
                             <<"free", "iobuf", i>>, <<"free", "ToThread", i>> >>) \o TExit

\* tsig.c: thread 1 handles the signals that all threads block
\* Mutant: ends after the first signal
tsig_signal_handler_once == << <<"sigwait">>, <<"io">>, <<"texit">> >>
tsig_signal_handler == << <<"sigwait">>, <<"io">>, <<"goto", -3>> >>
tsig_worker(i) ==
    IF i = 1 THEN tsig_signal_handler ELSE << <<"io">>, <<"io">>, <<"io">>, <<"texit">> >>
tsig_main == << <<"sigmask">> >> \o create_loop(3) \o << <<"pause">> >>

\* pthreads_app_template.c: the same, with an alternate signal stack and a
\* mutex around signal_handled; main joins the signal thread, which never ends
template_signal_handler ==
    << <<"sigwait">>, <<"lock", "sig_mutex">>, <<"store", "signal_handled", 0, 1>>,
       <<"unlock", "sig_mutex">>, <<"io">>, <<"goto", -6>> >>
template_worker(i) ==
    IF i = 1 THEN template_signal_handler
    ELSE << <<"load", "ToThread", i>>, <<"push", 5>>, <<"pop">>, <<"texit">>,
            <<"load", "ToThread", i>>, <<"io">>, <<"handler_end">> >>
init_signal_handling_for_mt ==
    << <<"sigmask">>, <<"alloc", "altstack", 0>>, <<"mayfail">> >>
template_main ==
    init_signal_handling_for_mt \o << <<"mayfail">>, <<"create", 1, 0>> >> \o
    ForEach(2, LAMBDA i : << <<"alloc", "ToThread", i + 1>>, <<"store", "ToThread", i + 1, i>>,
                             <<"create", i + 1, 0>>, <<"io">> >>) \o
    ForEach(2, LAMBDA i : << <<"join", i + 1>>, <<"io">>, <<"free", "ToThread", i + 1>> >>) \o
    << <<"join", 1>>, <<"texit">> >>

-----------------------------------------------------------------------------
(* ch17: scheduling policy                                                 *)

\* solutions ch17/assgn2.c: a worker publishes its kernel id in tpid; main
\* sleeps, then changes the policy of the thread the user named if it has one
assgn2_body(i, handler) ==
    << <<"load", "ToThread", i>>, <<"store", "tpid", i, i>>, <<"push", handler>>, <<"io">> >> \o
    ForEach(Rounds, LAMBDA n : << <<"io">>, <<"sleep">> >>) \o << <<"io">>, <<"pop">>, <<"texit">> >>
assgn2_worker(i) ==
    assgn2_body(i, Len(assgn2_body(i, 0)) + 1) \o << <<"io">>, <<"handler_end">> >>
get_show_sched(i) == << <<"load", "policy", i>>, <<"io">> >>
set_sched(i) ==
    << <<"skipif", "tpid", i, 0, 0, 2>>, <<"maybe", 1>>, <<"store", "policy", i, 1>> >>
change_sched_policy_prio(i) ==
    << <<"skipif", "tpid", i, 0, 0, 2>> >> \o get_show_sched(i) \o
    << <<"skipif", "thrd2change", 0, 1, i - 1, 5>>, <<"skipif", "thrd2change", 0, i + 1, Workers, 4>> >> \o
    set_sched(i) \o << <<"io">> >>
assgn2_main ==
    ForEach(Workers, LAMBDA i : << <<"alloc", "ToThread", i>>, <<"store", "ToThread", i, i>>,
                             <<"create", i, 0>> >>) \o
    << <<"sleep">>, <<"io">> >> \o ForEach(Workers, change_sched_policy_prio) \o
    ForEach(Workers, LAMBDA i : << <<"join", i>>, <<"free", "ToThread", i>> >>) \o TExit

\* sched_rt_eg.c: each worker sets its own policy, or warns that it could not
sched_rt_worker(i) ==
    << <<"io">>, <<"maybe", 1>>, <<"store", "policy", i, i>>, <<"sleep">>, <<"io">>,
       <<"texit">> >>
sched_rt_main == << <<"mayfail">> >> \o create_loop(2) \o << <<"io">>, <<"texit">> >>

-----------------------------------------------------------------------------
(* The programs, and what they start with                                  *)

Threaded(main, Worker(_), n) ==
    [t \in Threads |-> IF t = 0 THEN main ELSE IF t <= n THEN Worker(t) ELSE <<>>]

BookCode ==
    [pthreads1       |-> Threaded(pthreads1_main, pthreads1_worker, 3),
     pthreads2       |-> Threaded(pthreads2_main, pthreads2_worker, 3),
     pthreads3       |-> Threaded(pthreads3_main, pthreads3_worker, 3),
     cr8_so_many     |-> Threaded(cr8_so_many_main, pausing_worker, 3),
     see_tid         |-> Threaded(see_tid_main, see_tid_worker, 2),
     named_threads   |-> Threaded(named_main, named_worker, 2),
     joiner1         |-> Threaded(joiner1_main, joiner1_worker, 3),
     joiner2         |-> Threaded(joiner2_main, joiner2_worker, 3),
     struct_as_param |-> Threaded(struct_main, struct_worker, 3),
     joiner3         |-> Threaded(joiner3_main, joiner3_worker, 3),
     joiner4         |-> Threaded(joiner4_main, joiner4_worker, 3),
     joiner_BUGGY_3  |-> Threaded(buggy3_main, buggy3_worker, 3),
     pthreads1_wrong |-> Threaded(pthreads1_wrong_main, pthreads1_wrong_worker, 3),
     stack_test      |-> Threaded(stack_main, stack_worker, 3),
     mutex1          |-> Threaded(mutex1_main, mutex1_worker, Workers),
     facto           |-> Threaded(facto_main, facto_worker, 2),
     bankacc         |-> Threaded(bankacc_main, bankacc_worker, 2),
     cv_simple       |-> Threaded(cv_simple_main, cv_simple_worker, 2),
     pshared         |-> Threaded(pshared_main, pshared_worker, 2),
     mt_iobuf_mtx    |-> Threaded(mt_iobuf_mtx_main, mt_iobuf_mtx_worker, 2),
     mt_iobuf_rfct   |-> Threaded(mt_iobuf_rfct_main, mt_iobuf_rfct_worker, 2),
     mt_iobuf_tls    |-> Threaded(mt_iobuf_tls_main, mt_iobuf_tls_worker, 2),
     cancelit        |-> Threaded(cancelit_main, cancelit_worker, 2),
     cleanup_hdlr    |-> Threaded(cleanup_hdlr_main, cleanup_hdlr_worker, 2),
     mt_primes1      |-> Threaded(mt_primes1_main, mt_primes1_worker, 3),
     mt_primes2      |-> Threaded(mt_primes2_main, mt_primes2_worker, 3),
     tsig            |-> Threaded(tsig_main, tsig_worker, 3),
     app_template    |-> Threaded(template_main, template_worker, 3),
     assgn2          |-> Threaded(assgn2_main, assgn2_worker, Workers),
     sched_rt_eg     |-> Threaded(sched_rt_main, sched_rt_worker, 2)]

Instructions(p) ==
    UNION {{BookCode[p][t][n] : n \in 1 .. Len(BookCode[p][t])} : t \in Threads}

CellOps == {"load", "skipif", "alloc", "free", "stack"} \cup Writes
CellsOf(p) == {<<i[2], i[3]>> : i \in {j \in Instructions(p) : j[1] \in CellOps}}

\* The values of the globals and arguments; v tells the arguments apart
Initial(x, v) ==
    CASE x \in {"locking", "cancel"} -> IF v = 0 THEN 0 ELSE 1
      [] x = "stack_set"       -> v * 1024
      [] x = "thrd2change"     -> 1 + (v % Workers)
      [] x = "gCanceledThread" -> 1
      [] x = "g1" -> 10  [] x = "g2" -> 12  [] x = "g3" -> 14
      [] x = "gFactorial"      -> 1
      [] x = "gBalance"        -> 12000
      [] OTHER                 -> 0

BookArgs ==
    [p \in DOMAIN BookCode |-> {[c \in CellsOf(p) |-> Initial(c[1], v)] : v \in 0 .. 2}]

\* PTHREAD_MUTEX_INITIALIZER, unless the program calls pthread_mutex_init
BookMutexes ==
    [p \in DOMAIN BookCode |->
        LET mops == {i \in Instructions(p) : i[1] \in {"lock", "unlock", "initmutex"}}
        IN  [m \in {i[2] : i \in mops} |->
                IF <<"initmutex", m>> \in Instructions(p) THEN Gone ELSE Nobody]]

-----------------------------------------------------------------------------
(* Properties                                                              *)

HeapCells ==
    [p \in DOMAIN BookCode |->
        {<<i[2], i[3]>> : i \in {j \in Instructions(p) : j[1] = "alloc"}}]

Accesses(t) == At(t, {"load", "skipif", "free"} \cup Writes)
Writing(t) == At(t, {"free"} \cup Writes)

\* No data race: two threads are never about to access the same cell, one of
\* them to write it.  pthreads1_wrong.c, pthreads_joiner_BUGGY_3.c (which
\* say so) and assgn2.c, whose main trusts sleep(1), are the exceptions, and
\* the programs that lock only when the user asks for it.
Racy == {"pthreads1_wrong", "joiner_BUGGY_3", "assgn2"}
Locking == <<"locking", 0>> \in DOMAIN mem => mem[<<"locking", 0>>] = 1
RaceFree ==
    prog \notin Racy /\ Locking =>
        \A t, u \in Threads : t # u /\ Writing(t) /\ Accesses(u) => Cell(t) # Cell(u)

\* When the last thread of one of these programs ends, everything it
\* allocated has been freed, also when a thread was cancelled on its way.
LeakFree == {"struct_as_param", "joiner3", "joiner_BUGGY_3", "mt_iobuf_mtx",
             "mt_iobuf_rfct", "mt_iobuf_tls", "cleanup_hdlr", "mt_primes1", "assgn2", "pshared"}
NoLeak ==
    prog \in LeakFree /\ th[0].st = "ended" /\ proc = "running" => heap = {}

\* A failed fwrite frees a buffer before FATAL has ended the process: in
\* mt_iobuf_mtx.c the one that another thread may use next, in cleanup_hdlr.c
\* the thread's own, which its clean-up handler frees again when FATAL's
\* message is where it is cancelled.  Only after such a failure may cell c of
\* program p be used when it has been freed.
ExcusedBy(p, c) ==
    CASE p = "mt_iobuf_mtx" /\ c = <<"gbuf", 0>> -> {<<"ferror", 0>>}
      [] p = "cleanup_hdlr" /\ c[1] = "iobuf" -> {<<"ferror", c[2]>>}
      [] OTHER -> {}
Excused(c) == \E e \in ExcusedBy(prog, c) : mem[e] = 1

\* Memory and mutexes are used within their lifetime and given back: every
\* access, and every free, is to memory that is allocated and not freed yet,
\* unless a failed fwrite freed it as ExcusedBy says; every stream is open
\* when it is used, a mutex is locked and unlocked only between its
\* initialisation and its destruction, unlocked by its owner, and not held by
\* a thread that has ended or was cancelled; the LeakFree programs leak
\* nothing.
MemorySafe ==
    /\ \A t \in Threads :
         /\ Accesses(t) /\ Cell(t) \in HeapCells[prog] => Cell(t) \in heap \/ Excused(Cell(t))
         /\ At(t, {"lock"}) => mtx[Ins(t)[2]] # Gone
         /\ At(t, {"unlock", "cvwait"}) => mtx[Ins(t)[2]] = t
         /\ At(t, {"destroymutex"}) => mtx[Ins(t)[2]] = Nobody
         /\ Done(t) => \A m \in DOMAIN mtx : mtx[m] # t
    /\ NoLeak

\* A worker that ends has been given the number it was created with, also
\* when it reads it from a structure after a sleep and the creator has gone
\* on; where all threads share one structure or the loop variable, the number
\* is that of this or of a later round of the loop, never of an earlier one.
OwnNumber == {"pthreads2", "pthreads3", "joiner1", "joiner2", "struct_as_param", "joiner3", "joiner4"}
LaterNumber == {"pthreads1_wrong", "joiner_BUGGY_3"}
WorkerNumber ==
    \A t \in Threads \ {0} :
      th[t].st = "ended" =>
        /\ prog \in OwnNumber => th[t].reg = t - 1
        /\ prog \in LaterNumber => th[t].reg \in t - 1 .. 3

\* What the locked programs compute once main is done: one increment of each
\* global per thread, the closing balance, both factorials, and both messages
\* in the shared buffer.
Computed ==
    Locking /\ th[0].st = "ended" =>
      /\ prog = "mutex1" => <<mem[<<"g1", 0>>], mem[<<"g2", 0>>], mem[<<"g3", 0>>]>> = <<12, 14, 16>>
      /\ prog = "bankacc" => th[0].reg = 6750
      /\ prog = "facto" => <<th[1].reg, th[2].reg>> = <<2, 6>>
      /\ prog = "pshared" => mem[<<"gshmbuf", 1>>] = 2 /\ th[0].reg = 2

\* Of mt_primes2.c's threads the cancelled one, the last, never has its primes
\* in the data file; with no thread cancelled the first one's are missing.  For
\* each of the others either the primes are there or its write was warned about.
PrimesWritten ==
    prog = "mt_primes2" /\ th[0].st = "ended" =>
        \A i \in 1 .. 3 :
            mem[<<"datafile", i>>] + mem[<<"warned", i>>] =
                IF i = (IF th[3].st = "cancelled" THEN 3 ELSE 1) THEN 0 ELSE 1

\* Each thread writes to the file what it has read from /dev/urandom.
WritesWhatItRead(programs) ==
    prog \in programs => \A i \in 1 .. 2 : mem[<<"wrote", i>>] \in {0, i}

\* assgn2.c changes the scheduling policy of no thread but the one named,
\* and of that one only if it has published its id.
OnlyNamedThreadChanged ==
    prog = "assgn2" =>
        \A i \in 1 .. Workers : mem[<<"policy", i>>] = 1 =>
            i = mem[<<"thrd2change", 0>>] /\ mem[<<"tpid", i>>] = i

\* What each thread is given, computes and writes is right whatever the
\* interleaving: numbers, sums and factorials, the primes of the threads that
\* were not cancelled and whose write succeeded, the own buffer in mt_iobuf_rfct.c, mt_iobuf_tls.c and
\* cleanup_hdlr.c, the policy of the named thread.
Results ==
    /\ WorkerNumber /\ Computed /\ PrimesWritten /\ OnlyNamedThreadChanged
    /\ WritesWhatItRead({"mt_iobuf_rfct", "mt_iobuf_tls", "cleanup_hdlr"})

\* mt_iobuf_mtx.c:15 says that its mutex renders testit_mt_mtx thread safe
LockedBufferWritten == WritesWhatItRead({"mt_iobuf_mtx"})

\* cv_simple.c: a thread A that waits before B has done its work goes on.
\* (One that comes to wait afterwards waits for ever: it does not test
\* gWorkDone before its first pthread_cond_wait.)
EarlyWaiterWakes ==
    (prog = "cv_simple" /\ th[1].st = "cvwait" /\ mem[<<"gWorkDone", 0>>] = 0)
        ~> (proc # "running" \/ th[1].st = "ended")

\* The programs that end do end, every thread or the process, and so does the
\* waiting thread of cv_simple.c, if it was early.
Over == proc # "running" \/ \A t \in Threads : ~Alive(t)
Endless == {"cr8_so_many", "see_tid", "named_threads", "tsig", "app_template", "cv_simple"}
Ends == <>(Over \/ prog \in Endless) /\ EarlyWaiterWakes

\* In tsig.c and pthreads_app_template.c all threads block the signals that
\* one of them waits for (in the template all but SIGSEGV, SIGBUS, SIGABRT,
\* SIGFPE and SIGILL): such a signal can only end the process before the first
\* thread is created; every other one is taken by that thread.
SignalsBlocked ==
    prog \in {"tsig", "app_template"} /\ proc = "killed" => th[1].st = "none"
SignalsTaken == []SignalsBlocked /\ (pend > 0 ~> (proc # "running" \/ pend = 0))
=============================================================================
