------------------------------- MODULE Signals -------------------------------
(***************************************************************************)
(* M8: parent.c forks child.c, which counts and reports its sum to the     *)
(* parent when it gets SIGTSTP; the parent acknowledges with SIGUSR2;      *)
(* SIGTERM ends the child, which tells its parent with SIGCHLD first.      *)
(* send_signal.sh finds the child and sends the SIGTSTPs and the SIGTERM.  *)
(* All of them are standard signals: one that is pending already is        *)
(* dropped, and the first one's value is kept.  A pending signal may be    *)
(* delivered before any later step of its process, handlers included: the  *)
(* masks of the handlers are never initialised.  Of the bits that the       *)
(* uninitialised sa_flags of the child may hold, SA_RESETHAND and          *)
(* SA_NODEFER matter.                                                      *)
(***************************************************************************)
EXTENDS Naturals, Sequences

CONSTANTS
    NumStops,     \* SIGTSTPs that send_signal.sh sends
    MaxSum,       \* bound on the child's counting
    CallsFail     \* may fork, execl and sigaction fail?

ASSUME SignalsConstants ==
    /\ NumStops \in Nat /\ MaxSum \in Nat
    /\ CallsFail \in BOOLEAN

Handled == {"TSTP", "USR2", "TERM"}
None == MaxSum + 5

VARIABLES
    ppc,       \* where the parent is
    reporting, \* the parent is in SigUser1, before its sigqueue
    heard,     \* the values of sum that SigUser1 has printed
    usr1,      \* the value of the SIGUSR1 pending at the parent, or None
    chld,      \* is SIGCHLD pending at the parent?
    cpc,       \* where the child is
    csum,      \* the child's sum
    frames,    \* the handlers active in the child, innermost first
    pending,   \* signals pending at the child
    handlers,  \* signals for which the child has a handler
    oneshot,   \* those whose uninitialised sa_flags hold SA_RESETHAND
    nodefer,   \* those whose uninitialised sa_flags hold SA_NODEFER
    stopped,   \* has SIGTSTP stopped the child?
    spc,       \* where the script is
    stops      \* SIGTSTPs the script has sent

flagVars == <<oneshot, nodefer>>

vars == <<ppc, reporting, heard, usr1, chld, cpc, csum, frames, pending,
          handlers, flagVars, stopped, spc, stops>>

parentVars == <<ppc, reporting, heard>>
childVars == <<cpc, csum, frames, handlers, flagVars, stopped>>
scriptVars == <<spc, stops>>

Init ==
    /\ ppc = "chld" /\ reporting = FALSE /\ heard = <<>>
    /\ usr1 = None /\ chld = FALSE
    /\ cpc = "unborn" /\ csum = 0 /\ frames = <<>>
    /\ pending = {} /\ handlers = {} /\ stopped = FALSE
    /\ oneshot \in SUBSET {"TSTP", "TERM"}
    /\ nodefer \in SUBSET {"TSTP", "TERM"}
    /\ spc = "pgrep" /\ stops = 0

Dead == cpc \in {"zombie", "reaped"}

------------------------------------------------------------------------------
(* parent.c                                                                *)

ParentRuns(p) == ppc = p /\ ~reporting

\* The two sigaction calls, then fork; each exits the parent if it fails.
ParentSetup ==
    /\ \/ ppc = "chld" /\ ppc' \in {"usr1"} \cup (IF CallsFail THEN {"gone"} ELSE {})
       \/ ppc = "usr1" /\ ppc' \in {"fork"} \cup (IF CallsFail THEN {"gone"} ELSE {})
    /\ UNCHANGED <<reporting, heard, usr1, chld, childVars, pending, scriptVars>>

Fork ==
    /\ ppc = "fork"
    /\ \/ ppc' = "poll" /\ cpc' = "exec"
       \/ CallsFail /\ ppc' = "gone" /\ UNCHANGED cpc
    /\ UNCHANGED <<reporting, heard, usr1, chld, csum, frames, handlers, flagVars,
                   stopped, pending, scriptVars>>

\* waitpid(-1, &status, WNOHANG): the loop goes on, or the child is reaped.
Poll ==
    /\ ParentRuns("poll")
    /\ IF cpc = "zombie" THEN ppc' = "leaving" /\ cpc' = "reaped"
                         ELSE ppc' = "nap" /\ UNCHANGED cpc
    /\ UNCHANGED <<reporting, heard, usr1, chld, csum, frames, handlers, flagVars,
                   stopped, pending, scriptVars>>

\* sleep(3) ends, early if a handler has run.
Nap ==
    /\ ParentRuns("nap")
    /\ ppc' = "poll"
    /\ UNCHANGED <<reporting, heard, usr1, chld, childVars, pending, scriptVars>>

Exit ==
    /\ ppc' = "gone"
    /\ cpc' = IF cpc = "zombie" THEN "reaped" ELSE cpc

Leave ==
    /\ ParentRuns("leaving")
    /\ Exit
    /\ UNCHANGED <<reporting, heard, usr1, chld, csum, frames, handlers, flagVars,
                   stopped, pending, scriptVars>>

ParentInterruptible == ppc \in {"poll", "nap", "leaving"}

\* SigChild: the parent prints that the child has terminated, and exits.
SigChild ==
    /\ ParentInterruptible
    /\ chld
    /\ chld' = FALSE
    /\ Exit
    /\ UNCHANGED <<reporting, heard, usr1, csum, frames, handlers, flagVars,
                   stopped, pending, scriptVars>>

\* SigUser1 takes the sum out of the signal ...
SigUser1 ==
    /\ ParentInterruptible
    /\ ~reporting
    /\ usr1 # None
    /\ heard' = Append(heard, usr1)
    /\ usr1' = None
    /\ reporting' = TRUE
    /\ UNCHANGED <<ppc, chld, childVars, pending, scriptVars>>

\* ... and acknowledges it; sigqueue fails once the child has been reaped, and
\* has no effect on a zombie.
Acknowledge ==
    /\ ParentInterruptible
    /\ reporting
    /\ reporting' = FALSE
    /\ \/ /\ cpc = "reaped"
          /\ ppc' = "gone"
          /\ UNCHANGED pending
       \/ /\ cpc # "reaped"
          /\ pending' = IF Dead THEN pending ELSE pending \cup {"USR2"}
          /\ UNCHANGED ppc
    /\ UNCHANGED <<heard, usr1, chld, childVars, scriptVars>>

------------------------------------------------------------------------------
(* child.c                                                                 *)

ChildRuns(p) == cpc = p /\ ~stopped /\ frames = <<>>

\* The child is dead: its parent gets SIGCHLD, or init reaps it.
Die ==
    /\ cpc' = IF ppc = "gone" THEN "reaped" ELSE "zombie"
    /\ chld' = (chld \/ ppc # "gone")
    /\ frames' = <<>>
    /\ pending' = {}

Exec ==
    /\ ChildRuns("exec")
    /\ \/ cpc' = "set_TSTP" /\ UNCHANGED <<chld, frames, pending>>
       \/ CallsFail /\ Die
    /\ UNCHANGED <<parentVars, usr1, csum, handlers, flagVars, stopped, scriptVars>>

After == [set_TSTP |-> "set_USR2", set_USR2 |-> "set_TERM", set_TERM |-> "run"]
SignalOf == [set_TSTP |-> "TSTP", set_USR2 |-> "USR2", set_TERM |-> "TERM"]

Install ==
    /\ cpc \in DOMAIN After
    /\ ChildRuns(cpc)
    /\ handlers' = handlers \cup {SignalOf[cpc]}
    /\ cpc' = After[cpc]
    /\ UNCHANGED <<parentVars, usr1, chld, csum, frames, flagVars, stopped, pending,
                   scriptVars>>

\* The check of the last sigaction compares with 1 instead of -1: the child
\* goes on without a handler for SIGTERM.
InstallFails ==
    /\ CallsFail
    /\ cpc \in DOMAIN After
    /\ ChildRuns(cpc)
    /\ IF cpc = "set_TERM" THEN cpc' = "run" /\ UNCHANGED <<chld, frames, pending>>
                           ELSE Die
    /\ UNCHANGED <<parentVars, usr1, csum, handlers, flagVars, stopped, scriptVars>>

\* One round of the endless loop.
Count ==
    /\ ChildRuns("run")
    /\ csum < MaxSum
    /\ csum' = csum + 5
    /\ UNCHANGED <<parentVars, usr1, chld, cpc, frames, handlers, flagVars, stopped,
                   pending, scriptVars>>

\* A pending signal that no active handler blocks.
Deliverable(s) ==
    /\ s \in pending
    /\ ~stopped
    /\ s \in nodefer \/ \A i \in DOMAIN frames : frames[i][1] # s

Enter(s) ==
    /\ Deliverable(s)
    /\ s \in handlers
    /\ pending' = pending \ {s}
    /\ handlers' = handlers \ ({s} \cap oneshot)

\* SigStop and SigTerm start.
EnterHandler(s) ==
    /\ Enter(s)
    /\ frames' = <<<<s, "send">>>> \o frames
    /\ UNCHANGED <<parentVars, usr1, chld, cpc, csum, flagVars, stopped, scriptVars>>

\* Mutant: the handler of SIGUSR2 stores the message like the parent's does.
SigUser2Stores ==
    /\ Enter("USR2")
    /\ csum' = 1
    /\ UNCHANGED <<parentVars, usr1, chld, cpc, frames, flagVars, stopped, scriptVars>>

\* SigUser1 of child.c, the handler of SIGUSR2, prints the acknowledgement.
SigUser2 ==
    /\ Enter("USR2")
    /\ UNCHANGED <<parentVars, usr1, chld, cpc, csum, frames, flagVars, stopped,
                   scriptVars>>

\* Mutant: the parent does not ask for SA_NOCLDSTOP.
StopByDefaultNotified ==
    /\ Deliverable("TSTP")
    /\ "TSTP" \notin handlers
    /\ pending' = pending \ {"TSTP"}
    /\ stopped' \in {TRUE, ppc # "gone"}
    /\ chld' = (chld \/ stopped')
    /\ UNCHANGED <<parentVars, usr1, cpc, csum, frames, handlers, flagVars, scriptVars>>

\* SIGTSTP finds no handler and stops the child; SA_NOCLDSTOP keeps that from
\* the parent.  A child whose process group is orphaned ignores it.
StopByDefault ==
    /\ Deliverable("TSTP")
    /\ "TSTP" \notin handlers
    /\ pending' = pending \ {"TSTP"}
    /\ stopped' \in {TRUE, ppc # "gone"}
    /\ UNCHANGED <<parentVars, usr1, chld, cpc, csum, frames, handlers, flagVars,
                   scriptVars>>

\* SIGUSR2 or SIGTERM finds no handler and kills the child.
KillByDefault ==
    /\ \E s \in {"USR2", "TERM"} : Deliverable(s) /\ s \notin handlers
    /\ Die
    /\ UNCHANGED <<parentVars, usr1, csum, handlers, flagVars, stopped, scriptVars>>

InFrame(f) == ~stopped /\ frames # <<>> /\ Head(frames) = f

\* sigqueue to a parent that is gone goes to init: it fails unless the child
\* is root's, and the handler exits the child.
NotPermitted == ppc = "gone" /\ Die

\* The rest of SigStop: the sum goes to the parent.
SigStop ==
    /\ InFrame(<<"TSTP", "send">>)
    /\ \/ NotPermitted /\ UNCHANGED usr1
       \/ /\ usr1' = IF ppc = "gone" \/ usr1 # None THEN usr1 ELSE csum
          /\ frames' = Tail(frames)
          /\ UNCHANGED <<chld, cpc, pending>>
    /\ UNCHANGED <<parentVars, csum, handlers, flagVars, stopped, scriptVars>>

\* SigTerm tells the parent that the child is leaving ...
SigTerm ==
    /\ InFrame(<<"TERM", "send">>)
    /\ \/ NotPermitted
       \/ /\ chld' = (chld \/ ppc # "gone")
          /\ frames' = <<<<"TERM", "exit">>>> \o Tail(frames)
          /\ UNCHANGED <<cpc, pending>>
    /\ UNCHANGED <<parentVars, usr1, csum, handlers, flagVars, stopped, scriptVars>>

\* Mutant: the handler returns instead of calling exit.
SigTermReturns ==
    /\ InFrame(<<"TERM", "exit">>)
    /\ frames' = Tail(frames)
    /\ UNCHANGED <<parentVars, usr1, chld, cpc, csum, handlers, flagVars, stopped,
                   pending, scriptVars>>

\* ... and exits.
SigTermExit ==
    /\ InFrame(<<"TERM", "exit">>)
    /\ Die
    /\ UNCHANGED <<parentVars, usr1, csum, handlers, flagVars, stopped, scriptVars>>

------------------------------------------------------------------------------
(* send_signal.sh                                                          *)

Send(s) == pending' = IF Dead THEN pending ELSE pending \cup {s}

Pgrep ==
    /\ spc = "pgrep"
    /\ spc' = IF cpc \in {"unborn", "exec", "reaped"} THEN "not_found" ELSE "send"
    /\ UNCHANGED <<parentVars, usr1, chld, childVars, pending, stops>>

\* Mutant: the loop counts from 0.
SendStopFromZero ==
    /\ spc = "send"
    /\ stops <= NumStops
    /\ stops' = stops + 1
    /\ Send("TSTP")
    /\ UNCHANGED <<parentVars, usr1, chld, childVars, spc>>

SendStop ==
    /\ spc = "send"
    /\ stops < NumStops
    /\ stops' = stops + 1
    /\ Send("TSTP")
    /\ UNCHANGED <<parentVars, usr1, chld, childVars, spc>>

SendTerm ==
    /\ spc = "send"
    /\ stops = NumStops
    /\ spc' = "sent"
    /\ Send("TERM")
    /\ UNCHANGED <<parentVars, usr1, chld, childVars, stops>>

------------------------------------------------------------------------------

ParentMain == ParentSetup \/ Fork \/ Poll \/ Nap \/ Leave

ParentSignal == SigUser1 \/ Acknowledge

ChildStep ==
    \/ Exec \/ Install \/ InstallFails \/ Count
    \/ (\E s \in {"TSTP", "TERM"} : EnterHandler(s))
    \/ SigUser2 \/ StopByDefault \/ KillByDefault
    \/ SigStop \/ SigTerm \/ SigTermExit

ScriptStep == Pgrep \/ SendStop \/ SendTerm

Next == ParentMain \/ ParentSignal \/ SigChild \/ ChildStep \/ ScriptStep

Spec == Init /\ [][Next]_vars

\* Both processes and the script are scheduled, and a pending signal is
\* delivered to a process that runs.
FairSpec ==
    /\ Spec
    /\ WF_vars(ParentMain) /\ WF_vars(ParentSignal) /\ WF_vars(SigChild)
    /\ WF_vars(ChildStep) /\ WF_vars(ScriptStep)

------------------------------------------------------------------------------
(* Properties                                                              *)

Frame == {<<"TSTP", "send">>, <<"TERM", "send">>, <<"TERM", "exit">>}

\* Every variable of the two programs and the script has its type.
TypeOK ==
    /\ ppc \in {"chld", "usr1", "fork", "poll", "nap", "leaving", "gone"}
    /\ reporting \in BOOLEAN
    /\ heard \in Seq(0..(MaxSum + 4))
    /\ usr1 \in 0..None
    /\ chld \in BOOLEAN
    /\ cpc \in {"unborn", "exec", "set_TSTP", "set_USR2", "set_TERM", "run",
                "zombie", "reaped"}
    /\ csum \in 0..(MaxSum + 4)
    /\ frames \in Seq(Frame)
    /\ pending \subseteq Handled /\ handlers \subseteq Handled
    /\ oneshot \subseteq {"TSTP", "TERM"} /\ nodefer \subseteq {"TSTP", "TERM"}
    /\ stopped \in BOOLEAN
    /\ spc \in {"pgrep", "not_found", "send", "sent"}
    /\ stops \in 0..NumStops

\* The sums the parent prints are sums the child had, in the order in which it
\* had them, although reports are dropped while one is pending.
ReportsInOrder ==
    /\ \A i \in DOMAIN heard : heard[i] <= csum /\ heard[i] % 5 = 0
    /\ \A i, j \in DOMAIN heard : i < j => heard[i] <= heard[j]

\* A parent that has a child does not end while the child still counts: the
\* child is dead or in the last statement of SigTerm.
ParentStaysForRunningChild ==
    ppc = "gone" /\ cpc # "unborn" =>
        Dead \/ \E i \in DOMAIN frames : frames[i] = <<"TERM", "exit">>

\* The SIGTERM of the script ends both processes, unless a SIGTSTP that found
\* no handler has stopped the child: then its SIGTERM stays pending.
BothEnd == spc = "sent" ~> (Dead /\ ppc = "gone") \/ stopped
==============================================================================
