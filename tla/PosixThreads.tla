---------------------------- MODULE PosixThreads ----------------------------
(***************************************************************************)
(* The pthread, heap, signal and exit calls that the multithreaded example *)
(* programs (booksrc ch14 - ch17 and the solutions to their assignments)   *)
(* are made of.  One action per call; Code gives, for every program, the   *)
(* calls and the accesses to shared memory of each of its threads in       *)
(* order.  ThreadPrograms.tla translates the programs.                     *)
(*                                                                         *)
(* An instruction is a tuple: its operation, then the shared cell          *)
(* (a name and an index), mutex or thread it is about, then its arguments. *)
(* Loads and stores are steps of their own, so that x++ is not atomic.     *)
(***************************************************************************)
EXTENDS Integers, Sequences

CONSTANTS
    NThreads,   \* most threads a program creates; thread 0 is main
    Programs,   \* the programs modelled
    Code,       \* Code[p][t]: the instructions of thread t of program p
    Args,       \* Args[p]: the possible initial values of p's shared cells
    Mutexes,    \* Mutexes[p]: p's mutexes and their initial state
    CallsFail,  \* may pthread_create, malloc and fopen fail?
    NSignals    \* bound on the signals sent and on spurious wakeups

Threads == 0 .. NThreads
Nobody == -1    \* the owner of a free mutex
Gone == -2      \* a mutex that is not initialised, or destroyed

ASSUME ThreadsConstants ==
    NThreads \in Nat /\ NSignals \in Nat /\ CallsFail \in BOOLEAN

\* Instruction i of thread t of program p leads to instructions of t only,
\* and names threads and a clean-up handler that exist
Closed(p, t, i) ==
    LET ins == Code[p][t][i]
        len == Len(Code[p][t])
    IN  /\ ins[1] \notin {"goto", "texit", "exit", "handler_end", "pause"} => i < len
        /\ ins[1] \in {"goto", "maybe"} => i + 1 + ins[2] \in 1 .. len
        /\ ins[1] = "skipif" => i + 1 + ins[6] \in 1 .. len
        /\ ins[1] = "timedjoin" => i + 1 + ins[3] \in 1 .. len
        /\ ins[1] = "push" => ins[2] \in 1 .. len
        /\ ins[1] \in {"create", "cancel", "join", "timedjoin"} => ins[2] \in Threads
        /\ ins[1] = "create" => Len(Code[p][ins[2]]) > 0

\* The programs run within their code from the first instruction of main on
ASSUME CodeClosed ==
    \A p \in Programs :
        /\ \A t \in Threads :
             /\ Len(Code[p][t]) \in Nat
             /\ \A i \in 1 .. Len(Code[p][t]) : Closed(p, t, i)
        /\ Len(Code[p][0]) > 0
        /\ \A m \in DOMAIN Mutexes[p] : Mutexes[p][m] \in {Nobody, Gone}

VARIABLES
    prog,   \* the program that runs
    th,     \* per thread: status, pc, the value it last read, and so on
    mem,    \* the shared cells
    heap,   \* the cells that are allocated and not freed
    mtx,    \* the owner of each mutex
    pend,   \* signals pending for the process
    sent,   \* signals sent so far
    proc    \* "running", or how the process ended

vars == <<prog, th, mem, heap, mtx, pend, sent, proc>>

Statuses == {"none", "ready", "cvwait", "relock", "ended", "cancelled"}

Init ==
    /\ prog \in Programs
    /\ mem \in Args[prog]
    /\ th = [t \in Threads |->
                [st |-> IF t = 0 THEN "ready" ELSE "none", pc |-> 1, reg |-> 0,
                 hdl |-> 0, fin |-> "ended", cancel |-> FALSE, nocancel |-> FALSE, mask |-> FALSE]]
    /\ heap = {} /\ mtx = Mutexes[prog] /\ pend = 0 /\ sent = 0
    /\ proc = "running"

Alive(t) == th[t].st \in {"ready", "cvwait", "relock"}
Done(t) == th[t].st \in {"ended", "cancelled"}

\* Code, which TLC evaluates once under this name
TheCode == Code
Ins(t) == TheCode[prog][t][th[t].pc]
Cell(t) == <<Ins(t)[2], Ins(t)[3]>>
At(t, ops) == proc = "running" /\ th[t].st = "ready" /\ Ins(t)[1] \in ops

\* th with thread t moved on by one instruction and n more
Skip(t, n) == [th EXCEPT ![t].pc = @ + 1 + n]
Go(t) == Skip(t, 0)

shared == <<mem, heap, mtx, pend, sent, proc>>

-----------------------------------------------------------------------------
(* Threads                                                                 *)

\* pthread_create: the new thread inherits the signal mask of its creator
Create(t) ==
    /\ At(t, {"create"})
    /\ LET w == Ins(t)[2] IN
         th' = [Go(t) EXCEPT ![w].st = "ready", ![w].reg = Ins(t)[3],
                             ![w].mask = th[t].mask]
    /\ UNCHANGED <<prog, shared>>

\* FATAL: handle_err prints the message and ends the process
Fatal(t) ==
    /\ CallsFail /\ At(t, {"create", "alloc", "mayfail"})
    /\ proc' = "failed"
    /\ UNCHANGED <<prog, th, mem, heap, mtx, pend, sent>>

Join(t) ==
    /\ At(t, {"join"}) /\ Done(Ins(t)[2])
    /\ th' = Go(t) /\ UNCHANGED <<prog, shared>>

\* pthread_timedjoin_np: as Join, or the time is up first
TimedJoin(t) ==
    /\ At(t, {"timedjoin"})
    /\ \/ Done(Ins(t)[2]) /\ th' = Go(t)
       \/ ~Done(Ins(t)[2]) /\ th' = Skip(t, Ins(t)[3])
    /\ UNCHANGED <<prog, shared>>

\* the end of thread t, once the clean-up handler it may have pushed has run
EndOf(t, st) ==
    IF th[t].hdl # 0
    THEN [th EXCEPT ![t].pc = th[t].hdl, ![t].hdl = 0, ![t].fin = st,
                    ![t].nocancel = TRUE]
    ELSE [th EXCEPT ![t].st = st]

\* pthread_exit, or the return of a thread's function; main's pthread_exit
\* leaves the other threads running
ThreadExit(t) ==
    /\ At(t, {"texit"})
    /\ th' = EndOf(t, "ended") /\ UNCHANGED <<prog, shared>>

\* exit: the whole process ends
Exit(t) ==
    /\ At(t, {"exit"})
    /\ proc' = "exited"
    /\ UNCHANGED <<prog, th, mem, heap, mtx, pend, sent>>

-----------------------------------------------------------------------------
(* Control and memory                                                      *)

Plain(t) ==
    /\ At(t, {"io", "sleep", "mayfail"})
    /\ th' = Go(t) /\ UNCHANGED <<prog, shared>>

Goto(t) ==
    /\ At(t, {"goto"})
    /\ th' = Skip(t, Ins(t)[2]) /\ UNCHANGED <<prog, shared>>

\* a call that may fail without ending the process
Maybe(t) ==
    /\ At(t, {"maybe"})
    /\ th' \in {Go(t), Skip(t, Ins(t)[2])} /\ UNCHANGED <<prog, shared>>

\* a condition on a shared cell: skip some instructions if it is in a range
SkipIf(t) ==
    /\ At(t, {"skipif"})
    /\ th' = IF mem[Cell(t)] \in Ins(t)[4] .. Ins(t)[5]
             THEN Skip(t, Ins(t)[6]) ELSE Go(t)
    /\ UNCHANGED <<prog, shared>>

Load(t) ==
    /\ At(t, {"load"})
    /\ th' = [Go(t) EXCEPT ![t].reg = mem[Cell(t)]]
    /\ UNCHANGED <<prog, shared>>

\* write a constant, the value read last, or a value computed from it
Stored(t) ==
    CASE Ins(t)[1] = "store" -> Ins(t)[4]
      [] Ins(t)[1] = "save"  -> th[t].reg
      [] Ins(t)[1] = "add"   -> th[t].reg + Ins(t)[4]
      [] Ins(t)[1] = "mul"   -> th[t].reg * Ins(t)[4]

Writes == {"store", "save", "add", "mul"}

Store(t) ==
    /\ At(t, Writes)
    /\ mem' = [mem EXCEPT ![Cell(t)] = Stored(t)]
    /\ th' = Go(t) /\ UNCHANGED <<prog, heap, mtx, pend, sent, proc>>

\* malloc, calloc, fopen
Alloc(t) ==
    /\ At(t, {"alloc"})
    /\ heap' = heap \cup {Cell(t)}
    /\ th' = Go(t) /\ UNCHANGED <<prog, mem, mtx, pend, sent, proc>>

\* free, fclose
Free(t) ==
    /\ At(t, {"free"})
    /\ heap' = heap \ {Cell(t)}
    /\ th' = Go(t) /\ UNCHANGED <<prog, mem, mtx, pend, sent, proc>>

\* a function that needs more stack than the thread has
Overflow(t) ==
    /\ At(t, {"stack"})
    /\ IF mem[Cell(t)] < Ins(t)[4]
       THEN proc' = "crashed" /\ UNCHANGED th
       ELSE th' = Go(t) /\ UNCHANGED proc
    /\ UNCHANGED <<prog, mem, heap, mtx, pend, sent>>

-----------------------------------------------------------------------------
(* Mutexes and condition variables                                         *)

SetMutex(t, owner) == mtx' = [mtx EXCEPT ![Ins(t)[2]] = owner]

\* Mutant: pthread_mutex_trylock, whose EBUSY is taken for success
Lock_try(t) ==
    /\ At(t, {"lock"})
    /\ IF mtx[Ins(t)[2]] = Nobody THEN SetMutex(t, t) ELSE UNCHANGED mtx
    /\ th' = Go(t) /\ UNCHANGED <<prog, mem, heap, pend, sent, proc>>
Lock(t) ==
    /\ At(t, {"lock"}) /\ mtx[Ins(t)[2]] = Nobody
    /\ SetMutex(t, t)
    /\ th' = Go(t) /\ UNCHANGED <<prog, mem, heap, pend, sent, proc>>

\* Mutant: unlocks a copy of the mutex
Unlock_copy(t) ==
    /\ At(t, {"unlock"})
    /\ th' = Go(t) /\ UNCHANGED <<prog, mem, heap, mtx, pend, sent, proc>>
Unlock(t) ==
    /\ At(t, {"unlock"})
    /\ SetMutex(t, Nobody)
    /\ th' = Go(t) /\ UNCHANGED <<prog, mem, heap, pend, sent, proc>>

\* pthread_mutex_init, pthread_mutex_destroy
MutexLife(t) ==
    /\ At(t, {"initmutex", "destroymutex"})
    /\ SetMutex(t, IF Ins(t)[1] = "initmutex" THEN Nobody ELSE Gone)
    /\ th' = Go(t) /\ UNCHANGED <<prog, mem, heap, pend, sent, proc>>

\* pthread_cond_wait: the mutex is released and taken again
CondWait(t) ==
    /\ At(t, {"cvwait"})
    /\ SetMutex(t, Nobody)
    /\ th' = [th EXCEPT ![t].st = "cvwait"]
    /\ UNCHANGED <<prog, mem, heap, pend, sent, proc>>

CondSignal(t) ==
    /\ At(t, {"cvsignal"})
    /\ LET waiting == {w \in Threads : th[w].st = "cvwait"} IN
         IF waiting = {} THEN th' = Go(t)
         ELSE \E w \in waiting : th' = [Go(t) EXCEPT ![w].st = "relock"]
    /\ UNCHANGED <<prog, shared>>

\* at most NSignals times: it is a signal that wakes the thread early
SpuriousWakeup(t) ==
    /\ proc = "running" /\ th[t].st = "cvwait" /\ sent < NSignals
    /\ sent' = sent + 1
    /\ th' = [th EXCEPT ![t].st = "relock"]
    /\ UNCHANGED <<prog, mem, heap, mtx, pend, proc>>

Relock(t) ==
    /\ proc = "running" /\ th[t].st = "relock" /\ mtx[Ins(t)[2]] = Nobody
    /\ SetMutex(t, t)
    /\ th' = [Go(t) EXCEPT ![t].st = "ready"]
    /\ UNCHANGED <<prog, mem, heap, pend, sent, proc>>

-----------------------------------------------------------------------------
(* Cancellation and signals                                                *)

\* pthread_cleanup_push, pthread_cleanup_pop(0): the handler's code follows
\* the thread's, at the pc that "push" names
Cleanup(t) ==
    /\ At(t, {"push", "pop"})
    /\ th' = [Go(t) EXCEPT ![t].hdl = IF Ins(t)[1] = "push" THEN Ins(t)[2] ELSE 0]
    /\ UNCHANGED <<prog, shared>>

CancelState(t) ==
    /\ At(t, {"cancel_off", "cancel_on"})
    /\ th' = [Go(t) EXCEPT ![t].nocancel = (Ins(t)[1] = "cancel_off")]
    /\ UNCHANGED <<prog, shared>>

Cancel(t) ==
    /\ At(t, {"cancel"})
    /\ th' = [Go(t) EXCEPT ![Ins(t)[2]].cancel = TRUE]
    /\ UNCHANGED <<prog, shared>>

\* A call that may fail is one where FATAL would print its message
CancellationPoints ==
    {"io", "sleep", "pause", "sigwait", "join", "timedjoin"} \cup
    (IF CallsFail THEN {"mayfail"} ELSE {})

\* a pending cancellation takes effect at a cancellation point only
Cancelled(t) ==
    /\ At(t, CancellationPoints) /\ th[t].cancel /\ ~th[t].nocancel
    /\ th' = EndOf(t, "cancelled") /\ UNCHANGED <<prog, shared>>

\* the end of the clean-up handler, and of its thread
HandlerEnd(t) ==
    /\ At(t, {"handler_end"})
    /\ th' = [th EXCEPT ![t].st = th[t].fin] /\ UNCHANGED <<prog, shared>>

\* pthread_sigmask(SIG_BLOCK)
SigMask(t) ==
    /\ At(t, {"sigmask"})
    /\ th' = [Go(t) EXCEPT ![t].mask = TRUE] /\ UNCHANGED <<prog, shared>>

\* Mutant: returns without a signal
SigWait_any(t) ==
    /\ At(t, {"sigwait"}) /\ pend' = pend - 1
    /\ th' = Go(t) /\ UNCHANGED <<prog, mem, heap, mtx, sent, proc>>
SigWait(t) ==
    /\ At(t, {"sigwait"}) /\ pend > 0
    /\ pend' = pend - 1
    /\ th' = Go(t) /\ UNCHANGED <<prog, mem, heap, mtx, sent, proc>>

\* the programs that wait for signals
Waiters ==
    {p \in Programs : \E t \in Threads : \E i \in 1 .. Len(Code[p][t]) :
        Code[p][t][i][1] \in {"pause", "sigwait"}}

\* A signal whose action is the default one is sent to the process: it ends
\* the process unless every thread blocks it
Signal ==
    /\ proc = "running" /\ prog \in Waiters /\ sent < NSignals
    /\ \E t \in Threads : Alive(t)
    /\ sent' = sent + 1
    /\ IF \A t \in Threads : Alive(t) => th[t].mask
       THEN pend' = pend + 1 /\ UNCHANGED proc
       ELSE proc' = "killed" /\ UNCHANGED pend
    /\ UNCHANGED <<prog, th, mem, heap, mtx>>

-----------------------------------------------------------------------------
\* Every step of thread t but SpuriousWakeup, which nothing promises
ThreadStep(t) ==
    \/ Create(t) \/ Fatal(t) \/ Join(t) \/ TimedJoin(t) \/ ThreadExit(t) \/ Exit(t)
    \/ Plain(t) \/ Goto(t) \/ Maybe(t) \/ SkipIf(t) \/ Load(t) \/ Store(t)
    \/ Alloc(t) \/ Free(t) \/ Overflow(t)
    \/ Lock(t) \/ Unlock(t) \/ MutexLife(t) \/ CondWait(t) \/ CondSignal(t) \/ Relock(t)
    \/ Cleanup(t) \/ CancelState(t) \/ Cancel(t) \/ Cancelled(t) \/ HandlerEnd(t)
    \/ SigMask(t) \/ SigWait(t)

Next == Signal \/ \E t \in Threads : ThreadStep(t) \/ SpuriousWakeup(t)

Spec == Init /\ [][Next]_vars

\* The program keeps running as long as one of its threads can
FairSpec == Spec /\ WF_vars(\E t \in Threads : ThreadStep(t))

\* The type of the state: no thread runs off the end of its code.
TypeOK ==
    /\ prog \in Programs
    /\ \A t \in Threads :
         /\ th[t].st \in Statuses
         /\ Alive(t) => th[t].pc \in 1 .. Len(Code[prog][t])
         /\ th[t].hdl \in 0 .. Len(Code[prog][t])
         /\ {th[t].cancel, th[t].nocancel, th[t].mask} \subseteq BOOLEAN
    /\ \A m \in DOMAIN mtx : mtx[m] \in Threads \cup {Nobody, Gone}
    /\ pend \in 0 .. sent /\ sent \in 0 .. NSignals
    /\ proc \in {"running", "exited", "failed", "crashed", "killed"}
=============================================================================
