-------------------------- MODULE ProcessPrograms --------------------------
(***************************************************************************)
(* The single-threaded example programs about processes, signals, timers   *)
(* and credentials as code for Processes.  printf and the like are left    *)
(* out, unless something may happen during them.  A command line argument  *)
(* that chooses between two behaviours is a variable whose initial value   *)
(* is either.                                                              *)
(***************************************************************************)
EXTENDS Processes

NumLines == 4   \* lines each process of fork_r6_of.c writes (100 in the code)
Forks == 2      \* FORK_AND_PRINT's of smallbomb.c (3 in the code)
NumTasks == 2   \* argument of forkbomb.c
MAX == 2        \* MAX of defer_or_not.c and rtsigs_waiter.c (10 in the code)
MaxCount == 1   \* c of react.c counts up to here

Repeat(n, s) == FlattenSeq([i \in 1 .. n |-> s])
goto(n) == <<"branch", {n}>>
exit(how) == << <<"exit", how>> >>

\* A process with these initial variables, as the shell starts it
Start(mem) == [NoProcess EXCEPT !.st = "ready", !.mem = mem]
NoVars == [x \in {} |-> 0]

\* r_sleep of common.c: nanosleep again until it has not been interrupted
r_sleep == << <<"sleep">>, <<"skipret", 0, 1>>, goto(-3) >>

-----------------------------------------------------------------------------
(* ch10: fork                                                              *)

\* fork1.c does not look at what fork returns, fork2.c and fork3.c do
fork1_main == << <<"fork", 0, "ignore">>, <<"io">>, <<"exit", "ok">> >>
fork2_main == << <<"fork", 0, "fail">>, <<"io">>, <<"exit", "ok">> >>
fork3_main == << <<"fork", 0, "fail">>, <<"io">>, <<"exit", "ok">> >>

\* fork4.c, fork4_prnum.c: both work for as long as asked
fork4_main ==
    << <<"fork", 2, "fail">>, <<"sleep">>, <<"exit", "ok">>,
       <<"sleep">>, <<"exit", "ok">> >>
fork4_prnum_main ==
    << <<"fork", 2, "fail">>, <<"io">>, <<"exit", "ok">>,
       <<"io">>, <<"exit", "ok">> >>

plus(x, n) == << <<"load", x>>, <<"add", x, n>> >>

\* fork5.c: the child's part, then the parent's
fork5_main ==
    << <<"fork", 6, "fail">>, <<"sleep">> >> \o plus("loc", -1) \o plus("g", 1) \o exit("ok")
      \o plus("loc", 1) \o plus("g", -1) \o exit("ok")

\* fork_malloc_test.c: the same, if show_vars, after writing to the heap
WORK_ON_MEM(d) ==
    << <<"skipif", "show_vars", 0, 0, 4>> >> \o plus("loc", d) \o plus("g", -d)
fork_malloc_main ==
    << <<"mayfail", "fail">>, <<"fork", 8, "fail">>, <<"sleep">>, <<"set", "gptr", 1>> >>
      \o WORK_ON_MEM(-1) \o exit("ok")
      \o << <<"set", "gptr", 2>> >> \o WORK_ON_MEM(1) \o exit("ok")

\* fork_r6_of.c: the offset of the file, in lines, is that of both
work_on_file(at) ==
    << <<"mayfail", "fail">>, <<"mayfail", "fail">>, <<"lseek", at>> >>
      \o Repeat(NumLines, << <<"mayfail", "fail">>, <<"write">> >>)
do_work ==
    LET parent == work_on_file(NumLines) \o exit("ok") IN
    << <<"fork", Len(parent), "fail">> >> \o parent \o work_on_file(0) \o exit("ok")
fork_r6_main == << <<"mayfail", "fail">> >> \o do_work

\* fork2c.c: main waits until it has no child any more
createChild == << <<"fork", 2, "fail">> >>
fork2c_main ==
    << <<"fork", 3, "fail">> >> \o createChild
      \o << <<"wait", 2>>, goto(-2), <<"sleep">>, <<"exit", "ok">> >>

\* zombie.c
zombie_main == << <<"fork", 2, "fail">>, <<"sleep">>, <<"exit", "ok">>, <<"exit", "ok">> >>

\* smallbomb.c
FORK_AND_PRINT == << <<"fork", 0, "fail">> >>
smallbomb_main == Repeat(Forks, FORK_AND_PRINT) \o << <<"pause">>, <<"exit", "ok">> >>

\* forkbomb.c: num is the first argument, as is maxtasks; the parent sleeps
\* and the child goes on
setup_rlimits(n) == << <<"mayfail", "ignore">>, <<"skipret", -1, 1>>, <<"limit", n>> >>
forkbomb_main(num) ==
    setup_rlimits(num)
      \o << <<"skipif", "i", num + 1, num + 1, 5>>, <<"fork", 1, "fail">>, <<"sleep">>,
            <<"load", "i">>, <<"add", "i", 1>>, goto(-6), <<"exit", "ok">> >>

-----------------------------------------------------------------------------
(* ch10: fork, exec, wait                                                  *)

\* getcmd: nothing but [Enter], a command, quit, or EOF
getcmd == << <<"branch", {-1, 0, 5, 6}>> >>

\* do_simpsh: simpsh_v1.c and simpsh_v2.c wait, simpsh_v3.c may return when
\* the child has been stopped or continued
do_simpsh_v1 ==
    << <<"mayfail", "fail">> >> \o getcmd
      \o << <<"fork", 2, "fail">>, <<"wait", 4>>, goto(-4),
            <<"exec">>, <<"exit", "fail">>, <<"exit", "ok">>, <<"exit", "fail">> >>
do_simpsh_v2 ==
    << <<"mayfail", "fail">> >> \o getcmd
      \o << <<"fork", 2, "fail">>, <<"wait", 4>>, goto(-4),
            <<"exec">>, <<"exit", "fail">>, <<"exit", "ok">>, <<"exit", "fail">> >>
do_simpsh_v3 ==
    << <<"mayfail", "fail">> >> \o getcmd
      \o << <<"fork", 2, "fail">>, <<"waitany", 4>>, goto(-4),
            <<"exec">>, <<"exit", "fail">>, <<"exit", "ok">>, <<"exit", "fail">> >>

\* pdf_rdr.c
exec_pdf_reader_app == << <<"exec">>, <<"exit", "fail">> >>
pdf_rdr_main ==
    << <<"fork", 2, "fail">>, <<"wait", 2>>, <<"exit", "ok">> >> \o exec_pdf_reader_app

-----------------------------------------------------------------------------
(* B_daemon                                                                *)

\* daemon_trad.c: after an error it returns, and main returns 0
daemon_process ==
    << <<"mayfail", "ok">>, <<"mayfail", "ok">>, <<"pause">>, <<"exit", "ok">> >>
daemonize_one_fork ==     \* mutant: no second fork
    << <<"mayfail", "ok">>, <<"sigdefaults">>, <<"fork", 1, "ok">>, <<"exit", "ok">>,
       <<"setsid">> >> \o daemon_process
daemonize_traditional ==
    << <<"mayfail", "ok">>, <<"sigdefaults">>, <<"fork", 1, "ok">>, <<"exit", "ok">>,
       <<"setsid">>, <<"fork", 1, "ok">>, <<"exit", "ok">> >> \o daemon_process

-----------------------------------------------------------------------------
(* ch11, ch12: signal handlers                                             *)

\* A handler that only prints; a main that loops or waits for ever
prints == << <<"io">>, <<"return">> >>
loop_sleeping == << <<"io">>, <<"sleep">>, goto(-3) >>
loop_pausing == << <<"pause">>, goto(-2) >>
trap(sig, handler, flags) == << <<"mayfail", "fail">>, <<"sigaction", sig, handler, flags>> >>
Trap(sigs, handler, flags) == FlattenSeq([i \in DOMAIN sigs |-> trap(sigs[i], handler, flags)])

\* sig1.c, sig2.c, query_mask.c, donthup.c
sig1_main == loop_sleeping
sig2_siggy == prints
sig2_main == Trap(<<"INT", "QUIT">>, "siggy", {}) \o loop_sleeping
query_mask_my_handler == << <<"mayfail", "fail">>, <<"io">>, <<"return">> >>
query_mask_main == Trap(<<"INT", "QUIT">>, "my_handler", {"fillmask"}) \o loop_sleeping
donthup_siggy == prints
donthup_main == Trap(<<"HUP", "INT", "QUIT">>, "siggy", {}) \o loop_sleeping

\* atomic_B.c polls gFlag; atomic_A.c is whoever sends it SIGUSR1
handle_sigs == << <<"set", "gFlag", 1>>, <<"return">> >>
atomic_B_main == Trap(<<"USR1">>, "handle_sigs", {}) \o loop_sleeping

\* zombies_clear_linux26.c: option 1 is SA_NOCLDWAIT, option 2 SIG_IGN
child_dies == prints
zombies_clear_main_late ==     \* mutant: sigaction after fork
    << <<"mayfail", "fail">>, <<"fork", 6, "fail">>, <<"skipif", "opt", 2, 2, 2>>,
       <<"sigaction", "CHLD", "child_dies", {"nocldwait"}>>, goto(1),
       <<"sigaction", "CHLD", "IGN", {}>> >>
      \o loop_pausing \o << <<"io">>, <<"exit", "ok">> >>
zombies_clear_main ==
    << <<"mayfail", "fail">>, <<"skipif", "opt", 2, 2, 2>>,
       <<"sigaction", "CHLD", "child_dies", {"nocldwait"}>>, goto(1),
       <<"sigaction", "CHLD", "IGN", {}>>, <<"fork", 2, "fail">> >>
      \o loop_pausing \o << <<"io">>, <<"exit", "ok">> >>

\* s ++; t ++; if (s >= MAX) s = 1;
count_signal ==
    plus("s", 1) \o plus("t", 1) \o << <<"skipif", "s", 0, MAX - 1, 1>>, <<"set", "s", 1>> >>

\* defer_or_not.c: option 2 sets SA_NODEFER
defer_sighdlr == << <<"io">> >> \o count_signal \o prints
defer_main ==
    << <<"mayfail", "fail">>, <<"skipif", "opt", 2, 2, 2>>,
       <<"sigaction", "USR1", "sighdlr", {}>>, goto(1),
       <<"sigaction", "USR1", "sighdlr", {"nodefer"}>> >> \o loop_pausing

\* rtsigs_waiter.c
rt_sighdlr == << <<"io">> >> \o count_signal \o prints
rtsigs_main_no_mask ==     \* mutant: no sigfillset
    Trap(<<"RTMAX-5", "RTMIN+5", "RTMAX">>, "rt_sighdlr", {}) \o loop_pausing
rtsigs_main == Trap(<<"RTMAX-5", "RTMIN+5", "RTMAX">>, "rt_sighdlr", {"fillmask"}) \o loop_pausing

\* sigq_recv.c: the handler stores what was sent, main looks at it now and
\* then.  sigq_sender.c is whoever sends the signal
read_msg == << <<"set", "data", 1>>, <<"set", "data_recvd", 1>>, <<"return">> >>
display_recv_data == << <<"load", "data">>, <<"io">> >>
sigq_main ==
    Trap(<<"RTMIN">>, "read_msg", {"fillmask"}) \o r_sleep
      \o << <<"skipif", "data_recvd", 0, 0, 3>> >> \o display_recv_data
      \o << <<"set", "data_recvd", 0>>, goto(-8) >>

\* sleeping_beauty.c: sleep, or nanosleep until it is over
sleeping_main ==
    Trap(<<"INT", "QUIT">>, "sig_handler", {})
      \o << <<"skipif", "opt", 1, 1, 2>>, <<"sleep">>, goto(3) >> \o r_sleep \o exit("ok")

\* killer.c: the child inherits the handler, which exits
catchit == << <<"io">>, <<"exit", "ok">> >>
killer_main_late ==     \* mutant: sigaction after fork
    << <<"fork", 7, "fail">> >> \o Trap(<<"INT">>, "catchit", {})
      \o << <<"add", "pid", 0>>, <<"sleep">>, <<"kill", "INT">>,
            <<"wait", 3>>, <<"exit", "ok">>, <<"pause">>, <<"exit", "ok">>, <<"exit", "fail">> >>
killer_main ==
    Trap(<<"INT">>, "catchit", {})
      \o << <<"fork", 5, "fail">>, <<"add", "pid", 0>>, <<"sleep">>, <<"kill", "INT">>,
            <<"wait", 3>>, <<"exit", "ok">>, <<"pause">>, <<"exit", "ok">>, <<"exit", "fail">> >>
KillAt == Len(Trap(<<"INT">>, "catchit", {})) + 4   \* where the parent calls kill

\* sigwt.c: option 1 leaves SIGFPE and SIGSEGV alone and handles SIGFPE
sigwt_siggy == prints
sigwt_main ==
    LET most == Signals \ {"FPE", "SEGV"} IN
    << <<"skipif", "opt", 0, 0, 5>> >> \o Trap(<<"FPE">>, "siggy", {})
      \o << <<"sigblock", most>>, <<"sigwait", most>>, goto(-2),
            <<"sigblock", Signals>>, <<"sigwait", Signals>>, goto(-2) >>

\* sigtmwtinfo.c: when the time is up and option 1 was given, it faults; the
\* handler has the kernel dump core
reraise == << <<"sigaction", "SEGV", "DFL", {}>>, <<"raise", "SEGV">> >>
fatal_sig_handler == << <<"io">> >> \o reraise \o << <<"return">> >>
sigtmwtinfo_main ==
    LET most == Signals \ {"FPE", "SEGV"} IN
    Trap(<<"SEGV">>, "fatal", {}) \o Trap(<<"FPE">>, "fatal_fpe", {})
      \o << <<"sigblock", most>>, <<"sigtimedwait", most, 1, 4>>, goto(-2),
            <<"skipif", "opt", 0, 0, 1>>, <<"fault">>, goto(-5), <<"exit", "fail">> >>

-----------------------------------------------------------------------------
(* ch12, ch16: faults                                                      *)

\* handle_segv.c: four ways to fault, or usage
setup_altsigstack == << <<"mayfail", "fail">>, <<"mayfail", "fail">> >>
myfault == << <<"io">> >> \o reraise \o << <<"return">> >>
handle_segv_main ==
    setup_altsigstack \o Trap(<<"SEGV">>, "myfault", {})
      \o << <<"branch", {0, 1}>>, <<"fault">>, <<"exit", "ok">> >>

\* pthreads_app_template.c: the handler of the fatal signals exits
fatal_sigs_handler == << <<"io">> >> \o reraise \o << <<"exit", "fail">> >>
template_fatal_main ==
    Trap(<<"SEGV", "FPE">>, "fatal_sigs_handler", {}) \o loop_pausing

-----------------------------------------------------------------------------
(* ch13: timers                                                            *)

\* alarm1.c, alarm2_rep.c: the alarm may come before pause is called
alarm_sig_handler == prints
alarm1_main ==
    Trap(<<"ALRM">>, "sig_handler", {})
      \o << <<"arm", "ALRM", FALSE>>, <<"io">>, <<"pause">>, <<"exit", "ok">> >>
alarm2_sig_handler == prints
alarm2_main ==
    Trap(<<"ALRM">>, "sig_handler", {})
      \o << <<"arm", "ALRM", FALSE>>, <<"io">>, <<"pause">>, goto(-4) >>

\* intv_clksimple.c, 3intv.c: interval timers
ticktock == << <<"mayfail", "fail">>, <<"io">>, <<"return">> >>
intv_clksimple_main ==
    Trap(<<"ALRM">>, "ticktock", {"fillmask"})
      \o << <<"mayfail", "fail">>, <<"arm", "ALRM", TRUE>> >> \o loop_pausing
profalrm == prints
virtalrm == prints
intv3_ticktock == << <<"mayfail", "fail">>, <<"io">>, <<"return">> >>
intv3_main ==
    Trap(<<"ALRM">>, "ticktock", {"fillmask"}) \o Trap(<<"VTALRM">>, "virtalrm", {"fillmask"})
      \o Trap(<<"PROF">>, "profalrm", {"fillmask"})
      \o << <<"mayfail", "fail">>, <<"arm", "ALRM", TRUE>>, <<"arm", "VTALRM", TRUE>>,
            <<"arm", "PROF", TRUE>>, <<"io">>, <<"pause">>, goto(-3) >>

\* react.c: SIGALRM starts the interval timer, whose ticks are counted, and
\* tells the user to press ^C; tm_start is 1 once it has been taken
timer_handler ==
    << <<"load", "c">>, <<"skipret", MaxCount, 1>>, <<"add", "c", 1>>, <<"return">> >>
userpress ==
    << <<"skipif", "jumped_the_gun", 1, 1, 6>>, <<"skipif", "first_time", 0, 0, 3>>,
       <<"skipif", "c", 0, 0, 1>>, <<"io">>, <<"set", "first_time", 0>>, <<"set", "c", 0>>,
       <<"exit", "ok">>, <<"exit", "fail">> >>
TimerSpecSub == 4   \* where userpress computes tm_end - tm_start
arm_timer == << <<"mayfail", "fail">>, <<"arm", "RTMIN", TRUE>>, <<"set", "jumped_the_gun", 0>> >>
startoff == arm_timer \o << <<"io">>, <<"set", "tm_start", 1>>, <<"return">> >>
react_init ==
    Trap(<<"RTMIN">>, "timer_handler", {}) \o Trap(<<"INT">>, "userpress", {})
      \o Trap(<<"ALRM">>, "startoff", {}) \o << <<"mayfail", "fail">> >>
random_start == << <<"arm", "ALRM", FALSE>> >>
react_main == react_init \o random_start \o loop_pausing

\* runwalk_timer.c: the handler toggles the type (0 is RUN) and arms the
\* timer again
RUN == 0
WALK == 1
its_time_once ==     \* mutant: the timer is not armed again
    << <<"skipif", "type", WALK, WALK, 2>>, <<"set", "type", WALK>>, goto(1),
       <<"set", "type", RUN>>, <<"return">> >>
its_time ==
    << <<"skipif", "type", WALK, WALK, 2>>, <<"set", "type", WALK>>, goto(1),
       <<"set", "type", RUN>>, <<"mayfail", "fail">>, <<"arm", "RTMIN", FALSE>>, <<"return">> >>
runwalk_timer_init_and_arm ==
    Trap(<<"RTMIN">>, "its_time", {"fillmask"})
      \o << <<"set", "type", RUN>>, <<"mayfail", "fail">>, <<"arm", "RTMIN", FALSE>> >>
bye == << <<"io">>, <<"exit", "ok">> >>
runwalk_main ==
    Trap(<<"INT">>, "bye", {}) \o << <<"mayfail", "fail">> >> \o runwalk_timer_init_and_arm
      \o << <<"skipif", "verbose", 0, 0, 2>>, <<"sleep">>, goto(-3), <<"pause">>, goto(-5) >>

-----------------------------------------------------------------------------
(* M6, ch7, ch8: credentials                                               *)

\* setuid_demo.c: T1 to T5; 1 stands for the user id 1000
setuid_demo_main_seteuid ==     \* mutant: T4 changes the effective id only
    << <<"seteuid", 1, 5>>, <<"seteuid", 0, 4>>, <<"seteuid", 1, 3>>,
       <<"seteuid", Self, 2>>, <<"setuid", 0, 1>>, <<"exit", "ok">>, <<"exit", "fail">> >>
setuid_demo_main ==
    << <<"seteuid", 1, 5>>, <<"seteuid", 0, 4>>, <<"seteuid", 1, 3>>,
       <<"setresuid", Self, 2>>, <<"setuid", 0, 1>>, <<"exit", "ok">>, <<"exit", "fail">> >>
T5 == 5     \* the attempt to restore the privileges that T4 dropped

\* savedset_demo.c
savedset_main ==
    << <<"needroot", 5>>, <<"seteuid", Self, 4>>, <<"seteuid", 0, 3>>, <<"needroot", 2>>,
       <<"seteuid", Self, 1>>, <<"exit", "ok">>, <<"exit", "fail">> >>

\* set_pcap.c
boing == prints
test_setuid == << <<"seteuid", 0, 0>> >>
drop_caps_be_normal ==
    << <<"mayfail", "fail">>, <<"dropcaps">>, <<"setuid", Self, 3>> >>
set_pcap_main ==
    trap("INT", "boing", {})
      \o << <<"mayfail", "fail">>, <<"raisecap", 8>>, <<"pause">> >> \o test_setuid
      \o drop_caps_be_normal \o test_setuid
      \o << <<"pause">>, <<"exit", "ok">>, <<"exit", "fail">> >>

-----------------------------------------------------------------------------
(* The programs together: code, initial states, signals from outside       *)

BookCode ==
    [fork1 |-> [main |-> fork1_main], fork2 |-> [main |-> fork2_main],
     fork3 |-> [main |-> fork3_main], fork4 |-> [main |-> fork4_main],
     fork4_prnum |-> [main |-> fork4_prnum_main], fork5 |-> [main |-> fork5_main],
     fork_malloc |-> [main |-> fork_malloc_main], fork_r6 |-> [main |-> fork_r6_main],
     fork2c |-> [main |-> fork2c_main], zombie |-> [main |-> zombie_main],
     smallbomb |-> [main |-> smallbomb_main], forkbomb |-> [main |-> forkbomb_main(NumTasks)],
     simpsh_v1 |-> [main |-> do_simpsh_v1], simpsh_v2 |-> [main |-> do_simpsh_v2],
     simpsh_v3 |-> [main |-> do_simpsh_v3], pdf_rdr |-> [main |-> pdf_rdr_main],
     daemon |-> [main |-> daemonize_traditional], sig1 |-> [main |-> sig1_main],
     sig2 |-> [main |-> sig2_main, siggy |-> sig2_siggy],
     query_mask |-> [main |-> query_mask_main, my_handler |-> query_mask_my_handler],
     donthup |-> [main |-> donthup_main, siggy |-> donthup_siggy],
     atomic_B |-> [main |-> atomic_B_main, handle_sigs |-> handle_sigs],
     zombies_clear |-> [main |-> zombies_clear_main, child_dies |-> child_dies],
     defer |-> [main |-> defer_main, sighdlr |-> defer_sighdlr],
     rtsigs |-> [main |-> rtsigs_main, rt_sighdlr |-> rt_sighdlr],
     sigq |-> [main |-> sigq_main, read_msg |-> read_msg],
     sleeping |-> [main |-> sleeping_main, sig_handler |-> prints],
     killer |-> [main |-> killer_main, catchit |-> catchit],
     sigwt |-> [main |-> sigwt_main, siggy |-> sigwt_siggy],
     sigtmwtinfo |-> [main |-> sigtmwtinfo_main, fatal |-> fatal_sig_handler,
                      fatal_fpe |-> << <<"return">> >>],
     handle_segv |-> [main |-> handle_segv_main, myfault |-> myfault],
     template |-> [main |-> template_fatal_main, fatal_sigs_handler |-> fatal_sigs_handler],
     alarm1 |-> [main |-> alarm1_main, sig_handler |-> alarm_sig_handler],
     alarm2 |-> [main |-> alarm2_main, sig_handler |-> alarm2_sig_handler],
     intv_clksimple |-> [main |-> intv_clksimple_main, ticktock |-> ticktock],
     intv3 |-> [main |-> intv3_main, ticktock |-> intv3_ticktock, virtalrm |-> virtalrm,
                profalrm |-> profalrm],
     react |-> [main |-> react_main, timer_handler |-> timer_handler,
                userpress |-> userpress, startoff |-> startoff],
     runwalk |-> [main |-> runwalk_main, its_time |-> its_time, bye |-> bye],
     setuid_demo |-> [main |-> setuid_demo_main], savedset |-> [main |-> savedset_main],
     set_pcap |-> [main |-> set_pcap_main, boing |-> boing]]

\* Users of the credential programs: root, the owner of a file that is not
\* setuid, and two users of a setuid-root (or capable) file
Users(caps) ==
    {[Start(NoVars) EXCEPT !.uid = [r |-> u[1], e |-> u[2], s |-> u[2]], !.eff = u[3], !.prm = u[3]] :
        u \in {<<0, 0, TRUE>>, <<1, 1, FALSE>>} \cup caps}
SetuidRoot == {<<1, 0, TRUE>>, <<2, 0, TRUE>>}
FileCaps == {<<1, 1, TRUE>>, <<2, 2, TRUE>>}

BookStarts ==
    [p \in DOMAIN BookCode |->
        CASE p = "fork5" -> {Start([g |-> 7, loc |-> 8])}
          [] p = "fork_malloc" ->
               {Start([g |-> 5, loc |-> 8, gptr |-> 0, show_vars |-> v]) : v \in {0, 1}}
          [] p = "forkbomb" -> {Start([i |-> 1])}
          [] p \in {"zombies_clear"} -> {Start([opt |-> o]) : o \in {1, 2}}
          [] p = "defer" -> {Start([opt |-> o, s |-> 0, t |-> 0]) : o \in {1, 2}}
          [] p = "rtsigs" -> {Start([s |-> 0, t |-> 0])}
          [] p = "sigq" -> {Start([data |-> 0, data_recvd |-> 0])}
          [] p \in {"sleeping", "sigwt", "sigtmwtinfo"} -> {Start([opt |-> o]) : o \in {0, 1}}
          [] p = "killer" -> {Start([pid |-> 0])}
          [] p = "atomic_B" -> {Start([gFlag |-> 0])}
          [] p = "react" ->
               {Start([c |-> 0, first_time |-> 1, jumped_the_gun |-> 1, tm_start |-> 0])}
          [] p = "runwalk" -> {Start([type |-> RUN, verbose |-> v]) : v \in {0, 1}}
          [] p = "daemon" ->
               {Start(NoVars), [Start(NoVars) EXCEPT !.disp["HUP"].h = "IGN"]}
          [] p \in {"setuid_demo", "savedset"} -> Users(SetuidRoot)
          [] p = "set_pcap" -> Users(FileCaps)
          [] OTHER -> {Start(NoVars)}]

BookSignals ==
    [p \in DOMAIN BookCode |->
        CASE p \in {"sig1", "sig2", "query_mask", "sleeping"} -> {"INT", "QUIT"}
          [] p = "donthup" -> {"HUP", "INT", "QUIT"}
          [] p \in {"defer", "atomic_B"} -> {"USR1"}
          [] p = "rtsigs" -> {"RTMIN+5", "RTMAX-5", "RTMAX"}
          [] p = "sigq" -> {"RTMIN"}
          [] p = "sigwt" -> {"INT", "FPE"}
          [] p = "sigtmwtinfo" -> {"USR1", "FPE", "SEGV"}
          [] p = "template" -> {"SEGV", "FPE"}
          [] p \in {"react", "runwalk", "set_pcap", "killer"} -> {"INT"}
          [] OTHER -> {}]

\* How exec sets the ids and CAP_SETUID of whoever runs a program whose file
\* may be setuid, and of whoever runs one whose file may have the capability
ExecIds(q) == q.uid.s = q.uid.e /\ q.eff = (q.uid.e = 0) /\ q.prm = (q.uid.e = 0)
ExecCaps(q) == q.uid.s = q.uid.r /\ q.eff \in BOOLEAN /\ q.prm \in BOOLEAN

ASSUME CredentialPrograms ==
    /\ "setuid_demo" \in Programs =>
         /\ Code["setuid_demo"] = [main |-> setuid_demo_main]
         /\ \A start \in Starts["setuid_demo"] : ExecIds(start)
    /\ "savedset" \in Programs =>
         /\ Code["savedset"] = [main |-> savedset_main]
         /\ \A start \in Starts["savedset"] : ExecIds(start)
    /\ "set_pcap" \in Programs =>
         /\ Code["set_pcap"] = [main |-> set_pcap_main, boing |-> boing]
         /\ \A start \in Starts["set_pcap"] : ExecCaps(start)

-----------------------------------------------------------------------------
(* Properties                                                              *)

Ended1 == ~Running(1)
MainAt(p, pc) == ps[p].stk[1].r = "main" /\ ps[p].stk[1].pc = pc
Idle(p) == Running(p) /\ Len(ps[p].stk) = 1 /\ ps[p].pend = <<>>

\* Types: the pc's are within the routines they are in, the parents and the
\* pending signals exist.
TypeOK ==
    /\ prog \in DOMAIN TheCode /\ sent \in 0 .. NSignals
    /\ \A p \in Procs :
         /\ ps[p].st \in {"none", "ready", "stopped", "zombie", "gone"}
         /\ ps[p].how \in {"none", "ok", "fail", "killed", "core"}
         /\ ps[p].parent \in 0 .. NProcs /\ ToSet(ps[p].pend) \subseteq Signals
         /\ \A i \in DOMAIN ps[p].stk :
              LET f == ps[p].stk[i] IN
              f.r # "execd" => f.r \in DOMAIN TheCode[prog] /\ f.pc \in DOMAIN TheCode[prog][f.r]

\* The shells prompt for a command only when the process of the last one is
\* gone; simpsh_v3.c leaves one behind for each time waitpid told it that a
\* child was stopped or continued.  Each of the user's stops is told of twice
\* at most: what is yet to be told, and what stopped children will have to be
\* told of, has left nobody behind.
NoChildAtPrompt ==
    Running(1) /\ MainAt(1, 2) =>
      /\ prog \in {"simpsh_v1", "simpsh_v2"} => Children(1) = {}
      /\ prog = "simpsh_v3" =>
           Cardinality(Children(1)) + Cardinality({c \in Children(1) : ~ps[c].told})
             + Cardinality({c \in Children(1) : ps[c].st = "stopped"}) <= 2 * sent

\* The parent of killer.c was ended, with success, by a SIGINT of its own
HandlerEnded == prog = "killer" /\ Ended1 /\ Top(ps[1]).r = "catchit"

\* When fork2c.c, pdf_rdr.c or killer.c has exited with success, no child
\* and no zombie of it is left: it has waited for as many as it created.  Only
\* the handler of killer.c, when it is the parent that it ends, leaves a child.
ChildrenReaped ==
    prog \in {"fork2c", "pdf_rdr", "killer"} /\ ps[1].how = "ok" /\ ~HandlerEnded
        => \A c \in Procs \ {1} : ~Exists(c)

\* smallbomb.c ends up with 2^Forks processes that all pause.  With the limit
\* set, nobody in forkbomb.c gets through its loop while those who forked
\* still sleep: the number of forks is the limit itself.
ProcessCount ==
    /\ prog = "smallbomb" /\ (\A p \in Procs : ps[p].how = "none" /\ (Exists(p) => ps[p].blk))
         => Count = 2 ^ Forks
    /\ prog = "forkbomb" /\ ps[1].lim = NumTasks /\ ps[1].blk
         => \A p \in Procs : ps[p].how # "ok"

\* No process gets lost: the shells and the programs that wait have no child
\* left when they should not, zombies_clear_linux26.c never has a zombie,
\* whichever option is used and whenever the child ends, and the fork bombs
\* have as many processes as they should.
ChildrenAccounted ==
    /\ NoChildAtPrompt /\ ChildrenReaped /\ ProcessCount
    /\ prog = "zombies_clear" => \A p \in Procs : ps[p].st # "zombie"

\* fork_r6_of.c: once both have written all their lines, none of the child's
\* lines is overwritten, and at most half of the parent's.
LinesLost ==
    prog = "fork_r6" /\ ps[1].how = "ok" /\ ps[2].how = "ok"
        => LET of(p) == Cardinality({i \in DOMAIN file.lines : file.lines[i] = p}) IN
           of(2) = NumLines /\ of(1) >= NumLines - NumLines \div 2

\* rtsigs_waiter.c loses no realtime signal and counts each, one at a time;
\* defer_or_not.c counts one at least, never more than were sent, and is not
\* re-entered unless SA_NODEFER is set.  s stays below MAX between signals.
SignalsCounted ==
    /\ prog = "rtsigs" /\ Idle(1) => ps[1].mem.t = sent
    /\ prog = "defer" /\ Idle(1) => ps[1].mem.t \in (IF sent = 0 THEN 0 ELSE 1) .. sent
    /\ prog \in {"rtsigs", "defer"} /\ Idle(1) => ps[1].mem.s < MAX
    /\ prog = "rtsigs" \/ (prog = "defer" /\ ps[1].mem.opt = 1) => Len(ps[1].stk) <= 2

\* react.c computes the reaction time from a start time that was taken, with
\* one exception, which contradicts what it tells its user (react.c:22-24): ^C
\* interrupts startoff itself, after the timer and before the start time.
ReactionMeasured ==
    prog = "react" /\ Running(1) /\ Top(ps[1]).r = "userpress" /\ Top(ps[1]).pc = TimerSpecSub
        => \/ ps[1].mem.tm_start = 1
           \/ \E i \in DOMAIN ps[1].stk : ps[1].stk[i].r = "startoff"

\* The data that handlers, main, parent and child share without a lock keep
\* what they should, wherever a signal or the other process comes in between:
\* the lines of the file, the counters, the start time.
SharedDataKept == LinesLost /\ SignalsCounted /\ ReactionMeasured

\* Where main has set up its handlers (its first instructions)
SetUpBy ==
    [sig2 |-> 4, query_mask |-> 4, donthup |-> 6, atomic_B |-> 2, defer |-> 5, rtsigs |-> 6,
     sigq |-> 2, sleeping |-> 4, react |-> 4, runwalk |-> 2, set_pcap |-> 2, killer |-> 2]

\* The programs with handlers are killed by the signals they handle only
\* before main has installed the handlers; the child of killer.c never is,
\* however early SIGINT comes.
KilledOnlyInSetup ==
    /\ prog \in DOMAIN SetUpBy /\ ps[1].how \in {"killed", "core"}
         => ps[1].stk[1].pc <= SetUpBy[prog]
    /\ prog = "killer" => ps[2].how # "killed"

\* A fault ends handle_segv.c and sigtmwtinfo.c with a core dump, after their
\* handler has run.  The handler of pthreads_app_template.c exits before the
\* signal it has raised is delivered if it is SIGSEGV that it handles: no core.
FaultOutcome ==
    /\ prog = "handle_segv" /\ Ended1 /\ MainAt(1, Len(handle_segv_main) - 1) => ps[1].how = "core"
    /\ prog = "sigtmwtinfo" /\ Ended1 /\ MainAt(1, 9) => ps[1].how = "core"
    /\ prog = "template" /\ Ended1 /\ Len(ps[1].stk) > 1 /\ ps[1].stk[1].pc > 4
         => (ps[1].how = "core" <=> "SEGV" \notin ps[1].mask)

\* A signal ends a program that handles it only as the handler intends, or
\* before the handler is there.
EndsAsHandled == KilledOnlyInSetup /\ FaultOutcome

\* Privileges that were dropped for good stay dropped: after T4 of
\* setuid_demo.c, and after drop_caps_be_normal of set_pcap.c, a process whose
\* real user is not root has no id 0 left and no capability, and T5 fails.
PrivilegeDropPermanent ==
    /\ \/ prog = "setuid_demo" /\ ps[1].stk[1].pc = T5
       \/ prog = "set_pcap" /\ ps[1].stk[1].pc \in 10 .. 12
       => LET u == ps[1].uid IN
          u.r # 0 => 0 \notin {u.e, u.s} /\ ~ps[1].eff /\ ~ps[1].prm
    /\ prog = "setuid_demo" /\ ps[1].how = "ok" => ps[1].uid.r = 0
    /\ prog = "savedset" /\ ps[1].how = "ok" => ps[1].uid.e = ps[1].uid.r /\ ps[1].uid.s = 0

\* daemon_trad.c: the daemon that pauses is in a session of its own that it
\* does not lead, with all signals at their default, and becomes a child of
\* init.
DaemonAt(p) == prog = "daemon" /\ Running(p) /\ MainAt(p, Len(daemonize_traditional) - 1)
DaemonDetached ==
    /\ [](\A p \in Procs :
            DaemonAt(p) => ps[p].sess = "member" /\ ps[p].disp = NoProcess.disp)
    /\ (\E p \in Procs : DaemonAt(p)) ~> (\A p \in Procs : DaemonAt(p) => ps[p].parent = 0)

\* The programs that do not wait for the user end, with all their processes,
\* but for the child of killer.c when SIGINT has ended the parent before it
\* could send it to the child, which pauses for ever.
Terminating ==
    {"fork1", "fork2", "fork3", "fork4", "fork4_prnum", "fork5", "fork_malloc", "fork_r6",
     "fork2c", "zombie", "killer", "handle_segv", "setuid_demo", "savedset"}
LeftPausing(p) ==
    p # 1 /\ HandlerEnded /\ \E n \in 1 .. KillAt : MainAt(1, n)
ProcessesEnd ==
    prog \in Terminating => <>(\A p \in Procs : ~Exists(p) \/ LeftPausing(p))

\* The timeouts of intv_clksimple.c, 3intv.c and runwalk_timer.c go on for as
\* long as the program runs, whatever main is doing when one comes.
TickGoesOn ==
    (prog \in {"intv_clksimple", "intv3", "runwalk"} /\ Running(1))
        ~> (Ended1 \/ Top(ps[1]).r \in {"ticktock", "its_time"})

\* What sigq_recv.c has received it displays, and what is pending for
\* sigwt.c it takes.
SignalsReceived ==
    /\ (prog = "sigq" /\ ps[1].mem["data_recvd"] = 1)
         ~> (prog = "sigq" /\ (Ended1 \/ ps[1].mem["data_recvd"] = 0))
    /\ (prog = "sigwt" /\ ps[1].pend # <<>>) ~> (Ended1 \/ ps[1].pend = <<>>)

\* Every program gets on with what it is there for: it ends with all its
\* processes, its timer goes on, or it takes the signals it waits for.
GetsOn == ProcessesEnd /\ TickGoesOn /\ SignalsReceived
=============================================================================
