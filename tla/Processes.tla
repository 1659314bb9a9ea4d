----------------------------- MODULE Processes -----------------------------
(***************************************************************************)
(* The process, signal, timer and credential calls that the single-        *)
(* threaded example programs (booksrc ch7, ch8, ch10 - ch13, B_daemon,     *)
(* their solutions, and M6/setuid_demo.c) are made of.  One action per     *)
(* call; Code gives the instructions of each program's main and of its     *)
(* signal handlers.  ProcessPrograms.tla translates the programs.          *)
(*                                                                         *)
(* An instruction is a tuple: its operation, then its arguments.  A number *)
(* n that says where to go on counts from the next instruction.  Every     *)
(* routine is closed: no jump leads out of it, and only handlers return.   *)
(***************************************************************************)
EXTENDS Integers, Sequences, FiniteSets, SequencesExt

CONSTANTS
    NProcs,       \* most processes; process 1 is the one the user starts
    Programs,     \* the programs modelled
    Code,         \* Code[p][r]: routine r of program p, "main" or a handler
    Starts,       \* Starts[p]: the states in which p's main may be started
    UserSignals,  \* UserSignals[p]: the signals the user sends to p
    CallsFail,    \* may fork, exec and the like fail?
    NSignals      \* bound on the signals sent by the user

Procs == 1 .. NProcs

ASSUME ProcessesConstants ==
    NProcs \in Nat \ {0} /\ NSignals \in Nat /\ CallsFail \in BOOLEAN

\* The signals the programs use, in the order in which Linux delivers those
\* that are pending; the last four are realtime signals, which are queued
Order ==
    <<"FPE", "SEGV", "HUP", "INT", "QUIT", "USR1", "ALRM", "CHLD", "VTALRM", "PROF",
      "RTMIN", "RTMIN+5", "RTMAX-5", "RTMAX">>
Signals == ToSet(Order)
RealTime == ToSet(SubSeq(Order, 11, 14))
CoreDump == {"SEGV", "FPE", "QUIT"}     \* signals that by default dump core
Rank == [s \in Signals |-> CHOOSE n \in DOMAIN Order : Order[n] = s]

VARIABLES
    prog,   \* the program that runs
    ps,     \* the processes
    file,   \* the open file that parent and child share: its offset, its lines
    sent    \* signals the user has sent so far

vars == <<prog, ps, file, sent>>

(***************************************************************************)
(* A process: its status and how it ended; its parent (0 is init); its     *)
(* stack of frames, main's and those of the handlers that interrupted it;  *)
(* whether it is blocked in its current call; blocked and pending signals, *)
(* dispositions, armed timers; its memory; the change of status its parent *)
(* has not been told of; its session; its limit on processes; user ids and *)
(* whether CAP_SETUID is effective and permitted.                          *)
(***************************************************************************)
Frame(routine, mask) == [r |-> routine, pc |-> 1, reg |-> 0, mask |-> mask]

NoProcess ==
    [st |-> "none", how |-> "none", parent |-> 0, stk |-> <<Frame("main", {})>>,
     blk |-> FALSE, mask |-> {}, pend |-> <<>>,
     disp |-> [s \in Signals |-> [h |-> "DFL", fl |-> {}]],
     tmr |-> {}, mem |-> [x \in {} |-> 0], told |-> TRUE, sess |-> "old", lim |-> NProcs,
     uid |-> [r |-> 1, e |-> 1, s |-> 1], eff |-> FALSE, prm |-> FALSE]

\* How far from the next instruction a process may go on after ins
Offsets(ins) ==
    CASE ins[1] \in {"exit", "return"} -> {}
      [] ins[1] = "branch" -> ins[2]
      [] ins[1] \in {"fork", "wait", "waitany", "raisecap", "needroot"} -> {0, ins[2]}
      [] ins[1] \in {"skipret", "seteuid", "setuid", "setresuid"} -> {0, ins[3]}
      [] ins[1] = "skipif" -> {0, ins[5]}
      [] ins[1] = "sigtimedwait" -> {0, ins[3], ins[4]}
      [] OTHER -> {0}

\* Instruction i of routine r of program g leads to another of the routine,
\* and what it names exists
Closed(g, r, i) ==
    LET ins == Code[g][r][i] IN
    /\ \A n \in Offsets(ins) : i + 1 + n \in DOMAIN Code[g][r]
    /\ ins[1] = "return" => r # "main"
    /\ ins[1] = "exit" => ins[2] \in {"ok", "fail"}
    /\ ins[1] \in {"fork", "mayfail"} => Last(ins) \in {"ok", "fail", "ignore"}
    /\ ins[1] \in {"kill", "raise", "arm", "sigaction"} => ins[2] \in Signals
    /\ ins[1] = "sigaction" => ins[3] \in {"DFL", "IGN"} \cup (DOMAIN Code[g] \ {"main"})

\* A program starts in main, with nothing pending and no handler
Startable(start) ==
    /\ start.st = "ready" /\ start.how = "none" /\ start.parent = 0 /\ ~start.blk
    /\ start.stk = NoProcess.stk /\ start.pend = <<>> /\ start.tmr = {}
    /\ DOMAIN start = DOMAIN NoProcess
    /\ DOMAIN start.disp = Signals /\ \A s \in Signals : start.disp[s].h \in {"DFL", "IGN"}

ASSUME ProgramsClosed ==
    \A g \in Programs :
        /\ g \in DOMAIN Code /\ "main" \in DOMAIN Code[g]
        /\ \A r \in DOMAIN Code[g] :
              1 \in DOMAIN Code[g][r] /\ \A i \in DOMAIN Code[g][r] : Closed(g, r, i)
        /\ \A start \in Starts[g] : Startable(start)
        /\ UserSignals[g] \subseteq Signals

Init ==
    /\ prog \in Programs
    /\ \E start \in Starts[prog] :
         ps = [p \in Procs |-> IF p = 1 THEN start ELSE NoProcess]
    /\ file = [pos |-> 0, lines |-> <<>>]
    /\ sent = 0

\* Code, which TLC evaluates once under this name
TheCode == Code
Top(q) == q.stk[Len(q.stk)]
Ins(p) ==
    IF Top(ps[p]).r = "execd" THEN <<"execd">>
    ELSE TheCode[prog][Top(ps[p]).r][Top(ps[p]).pc]

Exists(p) == ps[p].st \in {"ready", "stopped", "zombie"}
Running(p) == ps[p].st \in {"ready", "stopped"}
Children(p) == {c \in Procs : Exists(c) /\ ps[c].parent = p}

Deliverable(q) == {i \in DOMAIN q.pend : q.pend[i] \notin q.mask}

\* Process p is about to execute, or is blocked in, one of the operations
At(p, ops) ==
    /\ ps[p].st = "ready" /\ Deliverable(ps[p]) = {} /\ ~ps[p].blk /\ Ins(p)[1] \in ops
Within(p, ops) ==
    /\ ps[p].st = "ready" /\ Deliverable(ps[p]) = {} /\ ps[p].blk /\ Ins(p)[1] \in ops

\* q after its current instruction, n instructions further, with a result
Return(q, n, result) ==
    LET f == [Top(q) EXCEPT !.pc = @ + 1 + n, !.reg = result]
    IN  [q EXCEPT !.stk = [q.stk EXCEPT ![Len(q.stk)] = f], !.blk = FALSE]
Skip(q, n) == Return(q, n, Top(q).reg)
Go(q) == Skip(q, 0)

Becomes(p, q) == ps' = [ps EXCEPT ![p] = q]
Step(p, q) == Becomes(p, q) /\ UNCHANGED <<prog, file, sent>>

\* A signal is sent to q: it is lost if it is ignored, or pending already and
\* not a realtime signal
Ignores(q, s) ==
    q.disp[s].h = "IGN" \/ (s = "CHLD" /\ q.disp[s].h = "DFL")
Signalled(q, s) ==
    IF Ignores(q, s) \/ (s \in ToSet(q.pend) \ RealTime) THEN q
    ELSE [q EXCEPT !.pend = Append(@, s)]

-----------------------------------------------------------------------------
(* Creation and end of processes                                           *)

Unused == {c \in Procs \ {1} : ~Exists(c)}
Count == Cardinality({c \in Procs : Exists(c)})

\* fork: the child starts with an empty set of pending signals and no timers
Fork(p) ==
    /\ At(p, {"fork"}) /\ Unused # {} /\ Count < ps[p].lim
    /\ \E c \in Unused :
         /\ \A d \in Unused : c <= d
         /\ ps' = [ps EXCEPT
               ![c] = [Return(ps[p], Ins(p)[2], 0) EXCEPT
                         !.parent = p, !.pend = <<>>, !.tmr = {}, !.told = TRUE,
                         !.sess = IF @ = "leader" THEN "member" ELSE @],
               ![p] = Return(@, 0, c)]
    /\ UNCHANGED <<prog, file, sent>>

\* ps after the end of p: the children are init's, which reaps them; p stays
\* a zombie until its parent waits, unless that said it will not
NoWait(q) ==
    q.disp["CHLD"].h = "IGN" \/ "nocldwait" \in q.disp["CHLD"].fl
Reaped(p) == ps[p].parent = 0 \/ NoWait(ps[ps[p].parent])
\* what is left of c: no more than its exit status, unless it is the first
Corpse(c, st, how) ==
    [(IF c = 1 THEN ps[c] ELSE [NoProcess EXCEPT !.parent = ps[c].parent]) EXCEPT
        !.st = st, !.how = how, !.pend = <<>>, !.tmr = {}]
Ended(p, how) ==
    [q \in Procs |->
        IF q = p THEN Corpse(p, IF Reaped(p) THEN "gone" ELSE "zombie", how)
        ELSE IF q \in Children(p)
        THEN [ps[q] EXCEPT !.parent = 0, !.st = IF @ = "zombie" THEN "gone" ELSE @]
        ELSE IF q = ps[p].parent THEN Signalled(ps[q], "CHLD")
        ELSE ps[q]]

Ends(p, how) == ps' = Ended(p, how) /\ UNCHANGED <<prog, file, sent>>

\* a call fails: the last argument says how the process ends then, or that
\* the program ignores it
CallFails(p) ==
    /\ CallsFail /\ At(p, {"fork", "mayfail"})
    /\ IF Last(Ins(p)) = "ignore" THEN Step(p, Return(ps[p], 0, -1))
       ELSE Ends(p, Last(Ins(p)))

\* fork fails for want of a process
NoProcessLeft(p) ==
    /\ At(p, {"fork"}) /\ (Unused = {} \/ Count >= ps[p].lim)
    /\ Last(Ins(p)) # "ignore" /\ Ends(p, Last(Ins(p)))

Exit(p) == At(p, {"exit"}) /\ Ends(p, Ins(p)[2])

\* exec: handlers are reset; the program it starts is "execd", or it fails
Exec(p) ==
    /\ At(p, {"exec"})
    /\ \/ Step(p, [ps[p] EXCEPT !.stk = <<Frame("execd", {})>>,
                    !.disp = [s \in Signals |-> IF @[s].h = "IGN" THEN @[s]
                                                ELSE [h |-> "DFL", fl |-> {}]]])
       \/ CallsFail /\ Step(p, Go(ps[p]))

\* what the user does to the program that was started
Execd(p) ==
    /\ ps[p].stk[1].r = "execd"
    /\ \/ At(p, {"execd"}) /\ Ends(p, "ok")
       \/ /\ At(p, {"execd"}) /\ sent < NSignals /\ sent' = sent + 1
          /\ Becomes(p, [ps[p] EXCEPT !.st = "stopped", !.told = FALSE])
          /\ UNCHANGED <<prog, file>>
       \/ ps[p].st = "stopped" /\ Step(p, [ps[p] EXCEPT !.st = "ready", !.told = FALSE])

\* wait: blocks until a child is a zombie; fails if there is none at all.
\* "waitany" is waitpid with WUNTRACED | WCONTINUED
Wait(p) ==
    /\ At(p, {"wait", "waitany"})
    /\ \/ Children(p) = {} /\ Step(p, Skip(ps[p], Ins(p)[2]))
       \/ \E c \in Children(p) :
            /\ \/ /\ ps[c].st = "zombie"
                  /\ ps' = [ps EXCEPT ![p] = Go(@), ![c].st = "gone"]
               \/ /\ Ins(p)[1] = "waitany" /\ ps[c].st # "zombie" /\ ~ps[c].told
                  /\ ps' = [ps EXCEPT ![p] = Go(@), ![c].told = TRUE]
            /\ UNCHANGED <<prog, file, sent>>

Setsid(p) == At(p, {"setsid"}) /\ Step(p, [Go(ps[p]) EXCEPT !.sess = "leader"])

\* prlimit(RLIMIT_NPROC)
Limit(p) == At(p, {"limit"}) /\ Step(p, [Go(ps[p]) EXCEPT !.lim = Ins(p)[2]])

-----------------------------------------------------------------------------
(* Control and memory                                                      *)

\* a choice the user makes, or the clock
Branch(p) ==
    /\ At(p, {"branch"})
    /\ \E n \in Ins(p)[2] : Step(p, Skip(ps[p], n))

Plain(p) == At(p, {"io", "mayfail"}) /\ Step(p, Go(ps[p]))

\* skip n instructions if variable x is in lo .. hi
SkipIf(p) ==
    /\ At(p, {"skipif"})
    /\ Step(p, Skip(ps[p], IF ps[p].mem[Ins(p)[2]] \in Ins(p)[3] .. Ins(p)[4]
                           THEN Ins(p)[5] ELSE 0))

\* skip n instructions if the last call returned v
SkipRet(p) ==
    /\ At(p, {"skipret"})
    /\ Step(p, Skip(ps[p], IF Top(ps[p]).reg = Ins(p)[2] THEN Ins(p)[3] ELSE 0))

Load(p) == At(p, {"load"}) /\ Step(p, Return(ps[p], 0, ps[p].mem[Ins(p)[2]]))

\* write a constant, or the value read last and n
Store(p) ==
    /\ At(p, {"set", "add"})
    /\ Step(p, [Go(ps[p]) EXCEPT
                  !.mem[Ins(p)[2]] = IF Ins(p)[1] = "set" THEN Ins(p)[3]
                                     ELSE Top(ps[p]).reg + Ins(p)[3]])

\* lseek and write on the file that was open when the process forked
Lseek(p) ==
    /\ At(p, {"lseek"})
    /\ file' = [file EXCEPT !.pos = Ins(p)[2]]
    /\ Becomes(p, Go(ps[p])) /\ UNCHANGED <<prog, sent>>

Write(p) ==
    /\ At(p, {"write"})
    /\ LET at == file.pos + 1  old == file.lines IN
       file' = [pos |-> at,
                lines |-> [i \in 1 .. (IF Len(old) > at THEN Len(old) ELSE at) |->
                             IF i = at THEN p ELSE IF i <= Len(old) THEN old[i] ELSE 0]]
    /\ Becomes(p, Go(ps[p])) /\ UNCHANGED <<prog, sent>>

-----------------------------------------------------------------------------
(* Signals and timers                                                      *)

\* pause and sleep block; sleep ends by itself and returns 0
Block(p) ==
    At(p, {"pause", "sleep", "sigtimedwait"}) /\ Step(p, [ps[p] EXCEPT !.blk = TRUE])
Wake(p) == Within(p, {"sleep"}) /\ Step(p, Return(ps[p], 0, 0))

Sigaction(p) ==
    /\ At(p, {"sigaction"})
    /\ Step(p, [Go(ps[p]) EXCEPT !.disp[Ins(p)[2]] = [h |-> Ins(p)[3], fl |-> Ins(p)[4]]])

\* sigaction for every signal, back to SIG_DFL
SigDefaults(p) ==
    /\ At(p, {"sigdefaults"})
    /\ Step(p, [Go(ps[p]) EXCEPT !.disp = NoProcess.disp])

Sigprocmask(p) ==
    /\ At(p, {"sigblock"})
    /\ Step(p, [Go(ps[p]) EXCEPT !.mask = @ \cup Ins(p)[2]])

Without(s, i) == SubSeq(s, 1, i - 1) \o SubSeq(s, i + 1, Len(s))

\* sigwait takes a pending signal of the set; sigtimedwait's time may be up
Sigwait(p) ==
    /\ At(p, {"sigwait"}) \/ Within(p, {"sigtimedwait"})
    /\ \/ \E i \in DOMAIN ps[p].pend :
            /\ ps[p].pend[i] \in Ins(p)[2]
            /\ Step(p, [Go(ps[p]) EXCEPT !.pend = Without(@, i)])
       \/ /\ Ins(p)[1] = "sigtimedwait" /\ ToSet(ps[p].pend) \cap Ins(p)[2] = {}
          /\ Step(p, Skip(ps[p], Ins(p)[3]))

\* kill the child whose pid fork returned, or raise
Kill(p) ==
    /\ At(p, {"kill", "raise"})
    /\ IF Ins(p)[1] = "raise" THEN Step(p, Signalled(Go(ps[p]), Ins(p)[2]))
       ELSE LET c == ps[p].mem["pid"]
                went == [ps EXCEPT ![p] = Go(@)]
            IN
            /\ ps' = [went EXCEPT ![c] = IF Running(c) THEN Signalled(@, Ins(p)[2]) ELSE @]
            /\ UNCHANGED <<prog, file, sent>>

\* an access to memory that is not mapped; the instruction is tried again
\* when the handler has returned.  No program faults with SIGSEGV blocked
Fault(p) == At(p, {"fault"}) /\ Step(p, Signalled(ps[p], "SEGV"))

\* alarm, setitimer, timer_settime: the signal and whether it repeats.  No
\* program arms a timer and forks
Arm(p) ==
    /\ At(p, {"arm"})
    /\ Step(p, [Go(ps[p]) EXCEPT !.tmr = @ \cup {<<Ins(p)[2], Ins(p)[3]>>}])

\* A timer expires; its signal is queued once at most.  The virtual and the
\* profiling timer run only while the process does
TimerSignals == {"ALRM", "RTMIN", "VTALRM", "PROF"}
Expire(p, s) ==
    \E t \in ps[p].tmr :
      /\ t[1] = s /\ s \notin ToSet(ps[p].pend)
      /\ s \in {"VTALRM", "PROF"} => ~ps[p].blk
      /\ Step(p, [Signalled(ps[p], s) EXCEPT !.tmr = IF t[2] THEN @ ELSE @ \ {t}])

Interrupted_far(q, ins) ==     \* mutant: sigtimedwait's error goes astray
    IF ~q.blk THEN q
    ELSE Return(q, IF ins[1] = "sigtimedwait" THEN ins[4] + 1 ELSE 0, -1)
\* the place a signal handler returns to: the call that blocked is over,
\* with an error
Interrupted(q, ins) ==
    IF ~q.blk THEN q
    ELSE Return(q, IF ins[1] = "sigtimedwait" THEN ins[4] ELSE 0, -1)

Handles(q, s, ins) ==
    LET d == q.disp[s] IN
    [Interrupted(q, ins) EXCEPT
        !.stk = Append(@, Frame(d.h, q.mask)),
        !.mask = @ \cup (IF "nodefer" \in d.fl THEN {} ELSE {s})
                   \cup (IF "fillmask" \in d.fl THEN Signals ELSE {})]

\* The pending signal that comes next
NextSignals(q) ==
    {i \in Deliverable(q) : \A j \in Deliverable(q) \ {i} :
        \/ Rank[q.pend[i]] < Rank[q.pend[j]]
        \/ q.pend[i] = q.pend[j] /\ i < j}

\* (one that has come to be ignored since it was sent is dropped)
Deliver(p) ==
    /\ ps[p].st = "ready"
    /\ \E i \in NextSignals(ps[p]) :
         LET s == ps[p].pend[i]
             q == [ps[p] EXCEPT !.pend = Without(@, i)]
         IN  IF Ignores(q, s) THEN Step(p, q)
             ELSE IF q.disp[s].h = "DFL"
             THEN Ends(p, IF s \in CoreDump THEN "core" ELSE "killed")
             ELSE Step(p, Handles(q, s, Ins(p)))

\* the end of a handler
HandlerReturns(p) ==
    /\ At(p, {"return"})
    /\ Step(p, [ps[p] EXCEPT !.mask = Top(ps[p]).mask, !.stk = Front(@)])

\* the user, or another program, sends a signal to the first process
UserSignal ==
    /\ Running(1) /\ sent < NSignals /\ ps[1].stk[1].r = "main"
    /\ \E s \in UserSignals[prog] : Becomes(1, Signalled(ps[1], s))
    /\ sent' = sent + 1 /\ UNCHANGED <<prog, file>>

-----------------------------------------------------------------------------
(* Credentials: 0 is root's user id                                        *)

\* Linux's rules for the capability when user ids change
WithIds(q, r, e, s) ==
    LET prm == q.prm /\ ~(0 \in {q.uid.r, q.uid.e, q.uid.s} /\ 0 \notin {r, e, s})
    IN  [q EXCEPT !.uid = [r |-> r, e |-> e, s |-> s], !.prm = prm,
                  !.eff = CASE q.uid.e = 0 /\ e # 0 -> FALSE
                            [] q.uid.e # 0 /\ e = 0 -> prm
                            [] OTHER -> q.eff /\ prm]

\* seteuid, setuid, setresuid(u, u, u): Self as argument stands for getuid()
Self == -1
IdOf(q, u) == IF u = Self THEN q.uid.r ELSE u
Permitted(q, u) == q.eff \/ u \in {q.uid.r, q.uid.e, q.uid.s}
SetIds(q, call, u) ==
    CASE call = "seteuid"   -> WithIds(q, q.uid.r, u, q.uid.s)
      [] call = "setresuid" -> WithIds(q, u, u, u)
      [] call = "setuid"    -> IF q.eff THEN WithIds(q, u, u, u)
                               ELSE WithIds(q, q.uid.r, u, q.uid.s)

\* a call that is not permitted goes on n instructions further
SetUid(p) ==
    /\ At(p, {"seteuid", "setuid", "setresuid"})
    /\ LET u == IdOf(ps[p], Ins(p)[2]) IN
       Step(p, IF Permitted(ps[p], u) THEN Go(SetIds(ps[p], Ins(p)[1], u))
               ELSE Skip(ps[p], Ins(p)[3]))

\* cap_set_proc of no capability at all
DropCaps(p) ==
    /\ At(p, {"dropcaps"})
    /\ Step(p, [Go(ps[p]) EXCEPT !.eff = FALSE, !.prm = FALSE])

\* cap_set_proc with CAP_SETUID effective: n instructions further if it is
\* not permitted
RaiseCap(p) ==
    /\ At(p, {"raisecap"})
    /\ Step(p, IF ps[p].prm THEN [Go(ps[p]) EXCEPT !.eff = TRUE]
               ELSE Skip(ps[p], Ins(p)[2]))

\* n instructions further unless geteuid() is 0
NeedRoot(p) ==
    /\ At(p, {"needroot"})
    /\ Step(p, Skip(ps[p], IF ps[p].uid.e = 0 THEN 0 ELSE Ins(p)[2]))

-----------------------------------------------------------------------------
(* The steps process p itself takes, and the specification                 *)

ProcStep(p) ==
    /\ ps[p].st = "ready"
    /\ \/ Fork(p) \/ NoProcessLeft(p) \/ Exit(p) \/ Exec(p) \/ Wait(p) \/ Setsid(p) \/ Limit(p)
       \/ Branch(p) \/ Plain(p) \/ SkipIf(p) \/ SkipRet(p) \/ Load(p) \/ Store(p)
       \/ Lseek(p) \/ Write(p)
       \/ Block(p) \/ Wake(p) \/ Sigaction(p) \/ SigDefaults(p) \/ Sigprocmask(p) \/ Sigwait(p)
       \/ Kill(p) \/ Fault(p) \/ Arm(p) \/ Deliver(p) \/ HandlerReturns(p)
       \/ SetUid(p) \/ DropCaps(p) \/ RaiseCap(p) \/ NeedRoot(p)

Next ==
    \/ \E p \in Procs : ProcStep(p) \/ CallFails(p) \/ Execd(p)
    \/ \E s \in TimerSignals : Expire(1, s)
    \/ UserSignal

Spec == Init /\ [][Next]_vars

\* Every process is scheduled and every timer expires; calls need not fail,
\* and the user and the programs exec started need not do anything
FairSpec ==
    /\ Spec
    /\ \A p \in Procs : WF_vars(ProcStep(p))
    /\ \A s \in {"ALRM", "RTMIN"} : WF_vars(Expire(1, s))

=============================================================================
