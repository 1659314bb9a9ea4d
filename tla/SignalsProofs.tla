---------------------------- MODULE SignalsProofs ----------------------------
(* Proofs about the signals of M8, for any number of SIGTSTPs and any sum. *)
EXTENDS Signals, TLAPS

\* Before fork there is no child, no handler of it and no signal for it.
BeforeFork ==
    /\ ppc \in {"chld", "usr1", "fork"} => cpc = "unborn"
    /\ ParentInterruptible => cpc # "unborn"
    /\ cpc = "unborn" => frames = <<>> /\ pending = {} /\ spc \in {"pgrep", "not_found"}

\* The report that is pending is not older than those that were printed, nor
\* newer than the child's sum.
Reports ==
    /\ csum % 5 = 0
    /\ ReportsInOrder
    /\ usr1 # None =>
          /\ usr1 <= csum /\ usr1 % 5 = 0
          /\ \A i \in DOMAIN heard : heard[i] <= usr1

Leaving == \E i \in DOMAIN frames : frames[i] = <<"TERM", "exit">>

\* SIGCHLD is pending, and waitpid has succeeded, only if the child is dead or
\* leaving.
Notices ==
    /\ chld => Dead \/ Leaving
    /\ ppc = "leaving" => Dead
    /\ ParentStaysForRunningChild

SignalsInv == TypeOK /\ BeforeFork /\ Reports /\ Notices

------------------------------------------------------------------------------
(* Frames of the child's handlers                                          *)

\* A frame pushed on the stack gives a stack of frames.
LEMMA PushFrame ==
    ASSUME NEW f \in Frame, NEW s \in Seq(Frame)
    PROVE  /\ <<f>> \o s \in Seq(Frame)
           /\ <<f>> \o s # <<>>
           /\ \A i \in DOMAIN s : i + 1 \in DOMAIN (<<f>> \o s)
                                  /\ (<<f>> \o s)[i + 1] = s[i]
           /\ 1 \in DOMAIN (<<f>> \o s) /\ (<<f>> \o s)[1] = f
  OBVIOUS

\* The frames below the innermost one stay when that is popped.
LEMMA PopFrame ==
    ASSUME NEW s \in Seq(Frame), s # <<>>
    PROVE  /\ Tail(s) \in Seq(Frame)
           /\ Head(s) = s[1]
           /\ \A i \in DOMAIN s : i # 1 => i - 1 \in DOMAIN Tail(s)
                                           /\ Tail(s)[i - 1] = s[i]
  OBVIOUS

------------------------------------------------------------------------------

\* The end of the child keeps the types of what it changes.
LEMMA DieType ==
    ASSUME Die
    PROVE  /\ cpc' \in {"zombie", "reaped"}
           /\ chld' \in BOOLEAN
           /\ frames' \in Seq(Frame) /\ frames' = <<>>
           /\ pending' \subseteq Handled
  BY DEF Die

\* The invariant holds when parent.c starts.
LEMMA InitInv == Init => SignalsInv
  <1> SUFFICES ASSUME Init PROVE SignalsInv
    OBVIOUS
  <1> USE SignalsConstants DEF Init
  <1>1. TypeOK
    <2>1. usr1 \in 0..None /\ csum \in 0..(MaxSum + 4) /\ stops \in 0..NumStops
      BY DEF None
    <2>2. heard \in Seq(0..(MaxSum + 4)) /\ frames \in Seq(Frame)
      OBVIOUS
    <2> QED BY <2>1, <2>2 DEF TypeOK
  <1>2. BeforeFork
    BY DEF BeforeFork, ParentInterruptible
  <1>3. Reports
    BY DEF Reports, ReportsInOrder
  <1>4. Notices
    BY DEF Notices, ParentStaysForRunningChild
  <1> QED BY <1>1, <1>2, <1>3, <1>4 DEF SignalsInv

\* Every step keeps the types.
LEMMA TypeStep == SignalsInv /\ [Next]_vars => TypeOK'
  <1> SUFFICES ASSUME SignalsInv, [Next]_vars PROVE TypeOK'
    OBVIOUS
  <1> USE SignalsConstants
  <1> USE DEF SignalsInv, TypeOK, parentVars, childVars, flagVars, scriptVars,
              Handled, None, Dead
  <1>1. CASE ParentMain
    <2>1. CASE ParentSetup
      BY <2>1 DEF ParentSetup
    <2>2. CASE Fork
      BY <2>2 DEF Fork
    <2>3. CASE Poll
      BY <2>3 DEF Poll
    <2>4. CASE Nap
      BY <2>4 DEF Nap
    <2>5. CASE Leave
      BY <2>5 DEF Leave, Exit
    <2> QED BY <1>1, <2>1, <2>2, <2>3, <2>4, <2>5 DEF ParentMain
  <1>2. CASE ParentSignal
    <2>1. CASE SigUser1
      <3>1. usr1 \in 0..(MaxSum + 4)
        BY <2>1 DEF SigUser1
      <3> QED BY <2>1, <3>1 DEF SigUser1, ParentInterruptible
    <2>2. CASE Acknowledge
      BY <2>2 DEF Acknowledge, ParentInterruptible
    <2> QED BY <1>2, <2>1, <2>2 DEF ParentSignal
  <1>3. CASE SigChild
    BY <1>3 DEF SigChild, Exit
  <1>4. CASE ChildStep
    <2>1. CASE Exec
      BY <2>1, DieType DEF Exec
    <2>2. CASE Install
      <3>1. cpc \in {"set_TSTP", "set_USR2", "set_TERM"}
        BY <2>2 DEF Install, After
      <3>2. After[cpc] \in {"set_USR2", "set_TERM", "run"} /\ SignalOf[cpc] \in Handled
        BY <3>1 DEF After, SignalOf
      <3> QED BY <2>2, <3>2, ZenonT(20) DEF Install
    <2>3. CASE InstallFails
      BY <2>3, DieType DEF InstallFails
    <2>4. CASE Count
      BY <2>4 DEF Count, ChildRuns
    <2>5. ASSUME NEW s \in {"TSTP", "TERM"}, EnterHandler(s) PROVE TypeOK'
      BY <2>5, PushFrame DEF EnterHandler, Enter, Deliverable, Frame
    <2>6. CASE SigUser2
      BY <2>6 DEF SigUser2, Enter
    <2>7. CASE StopByDefault
      <3>1. stopped' \in BOOLEAN
        BY <2>7, Zenon DEF StopByDefault
      <3> QED BY <2>7, <3>1 DEF StopByDefault
    <2>8. CASE KillByDefault
      BY <2>8, DieType DEF KillByDefault
    <2>9. CASE SigStop
      <3>1. frames' \in Seq(Frame)
        BY <2>9, PopFrame, DieType DEF SigStop, InFrame, NotPermitted
      <3>2. usr1' \in 0..None
        BY <2>9 DEF SigStop
      <3>3. chld' \in BOOLEAN
        BY <2>9, DieType DEF SigStop, NotPermitted
      <3> QED BY <2>9, <3>1, <3>2, <3>3, DieType DEF SigStop, NotPermitted
    <2>10. CASE SigTerm
      <3>1. Tail(frames) \in Seq(Frame)
        BY <2>10, PopFrame DEF SigTerm, InFrame
      <3>2. <<<<"TERM", "exit">>>> \o Tail(frames) \in Seq(Frame)
        BY <3>1, PushFrame DEF Frame
      <3>3. chld' \in BOOLEAN
        BY <2>10, DieType DEF SigTerm, NotPermitted
      <3> QED BY <2>10, <3>2, <3>3, DieType DEF SigTerm, NotPermitted
    <2>11. CASE SigTermExit
      BY <2>11, DieType DEF SigTermExit
    <2> QED BY <1>4, <2>1, <2>2, <2>3, <2>4, <2>5, <2>6, <2>7, <2>8, <2>9, <2>10, <2>11
            DEF ChildStep
  <1>5. CASE ScriptStep
    <2>1. CASE Pgrep
      BY <2>1 DEF Pgrep
    <2>2. CASE SendStop
      BY <2>2 DEF SendStop, Send
    <2>3. CASE SendTerm
      BY <2>3 DEF SendTerm, Send
    <2> QED BY <1>5, <2>1, <2>2, <2>3 DEF ScriptStep
  <1>6. CASE UNCHANGED vars
    BY <1>6 DEF vars
  <1> QED BY <1>1, <1>2, <1>3, <1>4, <1>5, <1>6 DEF Next

\* Every step keeps what is known before fork.
LEMMA BeforeForkStep == SignalsInv /\ [Next]_vars => BeforeFork'
  <1> SUFFICES ASSUME SignalsInv, [Next]_vars PROVE BeforeFork'
    OBVIOUS
  <1> USE DEF SignalsInv, TypeOK, BeforeFork, parentVars, childVars, flagVars,
              scriptVars, ParentInterruptible, Dead
  <1>1. CASE ParentMain
    BY <1>1 DEF ParentMain, ParentSetup, Fork, Poll, Nap, Leave, ParentRuns, Exit
  <1>2. CASE ParentSignal
    BY <1>2 DEF ParentSignal, SigUser1, Acknowledge
  <1>3. CASE SigChild
    BY <1>3 DEF SigChild, Exit
  <1>4. CASE ChildStep
    <2>1. cpc # "unborn"
      BY <1>4 DEF ChildStep, Exec, Install, InstallFails, Count, ChildRuns, After,
         EnterHandler, Enter, SigUser2, StopByDefault, KillByDefault, Deliverable,
         SigStop, SigTerm, SigTermExit, InFrame
    <2>2. cpc' # "unborn"
      <3>1. CASE Install
        <4>1. cpc \in {"set_TSTP", "set_USR2", "set_TERM"}
          BY <3>1 DEF Install, After
        <4> QED BY <3>1, <4>1 DEF Install, After
      <3>2. CASE ~Install
        BY <1>4, <2>1, <3>2, DieType DEF ChildStep, Exec, InstallFails, Count,
           EnterHandler, SigUser2, StopByDefault, KillByDefault, SigStop, SigTerm,
           SigTermExit, NotPermitted
      <3> QED BY <3>1, <3>2
    <2>3. UNCHANGED <<ppc, spc>>
      BY <1>4 DEF ChildStep, Exec, Install, InstallFails, Count, EnterHandler,
         SigUser2, StopByDefault, KillByDefault, SigStop, SigTerm, SigTermExit
    <2> QED BY <2>1, <2>2, <2>3
  <1>5. CASE ScriptStep
    BY <1>5 DEF ScriptStep, Pgrep, SendStop, SendTerm, Send
  <1>6. CASE UNCHANGED vars
    BY <1>6 DEF vars
  <1> QED BY <1>1, <1>2, <1>3, <1>4, <1>5, <1>6 DEF Next

\* Every step keeps the reports in order.
LEMMA ReportsStep == SignalsInv /\ [Next]_vars => Reports'
  <1> SUFFICES ASSUME SignalsInv, [Next]_vars PROVE Reports'
    OBVIOUS
  <1> USE SignalsConstants
  <1> USE DEF SignalsInv, TypeOK, Reports, ReportsInOrder, parentVars, childVars,
              flagVars, scriptVars, None
  <1>1. CASE SigUser1
    <2>1. /\ heard' \in Seq(Nat) /\ Len(heard') = Len(heard) + 1
          /\ DOMAIN heard = 1..Len(heard) /\ DOMAIN heard' = 1..(Len(heard) + 1)
          /\ \A i \in DOMAIN heard : heard'[i] = heard[i]
          /\ heard'[Len(heard) + 1] = usr1
      BY <1>1 DEF SigUser1
    <2>2. usr1 <= csum /\ usr1 % 5 = 0 /\ (\A i \in DOMAIN heard : heard[i] <= usr1)
      BY <1>1 DEF SigUser1
    <2>3. usr1' = None' /\ csum' = csum
      BY <1>1 DEF SigUser1
    <2>4. \A i \in DOMAIN heard' : heard'[i] <= csum /\ heard'[i] % 5 = 0
      <3> SUFFICES ASSUME NEW i \in DOMAIN heard'
                   PROVE  heard'[i] <= csum /\ heard'[i] % 5 = 0
        OBVIOUS
      <3>1. CASE i \in DOMAIN heard
        BY <2>1, <3>1
      <3>2. CASE i = Len(heard) + 1
        BY <2>1, <2>2, <3>2
      <3> QED BY <2>1, <3>1, <3>2
    <2>5. \A i, j \in DOMAIN heard' : i < j => heard'[i] <= heard'[j]
      <3> SUFFICES ASSUME NEW i \in DOMAIN heard', NEW j \in DOMAIN heard', i < j
                   PROVE  heard'[i] <= heard'[j]
        OBVIOUS
      <3>1. i \in DOMAIN heard
        BY <2>1
      <3>2. CASE j \in DOMAIN heard
        BY <2>1, <3>1, <3>2
      <3>3. CASE j = Len(heard) + 1
        BY <2>1, <2>2, <3>1, <3>3
      <3> QED BY <2>1, <3>2, <3>3
    <2> QED BY <2>3, <2>4, <2>5
  <1>2. CASE Count
    BY <1>2, SMTT(20) DEF Count
  <1>3. CASE SigStop
    <2>1. UNCHANGED <<heard, csum>> /\ usr1' \in {usr1, csum}
      BY <1>3 DEF SigStop
    <2>2. \A i \in DOMAIN heard : heard[i] <= csum
      OBVIOUS
    <2>3. CASE usr1' = usr1
      BY <2>1, <2>3
    <2>4. CASE usr1' = csum
      BY <2>1, <2>2, <2>4
    <2> QED BY <2>1, <2>3, <2>4
  <1>4. CASE UNCHANGED <<heard, usr1, csum>>
    BY <1>4
  <1>5. Next => \/ SigUser1 \/ Count \/ SigStop
                \/ UNCHANGED <<heard, usr1, csum>>
    BY DEF Next, ParentMain, ParentSetup, Fork, Poll, Nap, Leave, ParentSignal,
       Acknowledge, SigChild, ChildStep, Exec, Install, InstallFails, EnterHandler,
       SigUser2, StopByDefault, KillByDefault, SigTerm, SigTermExit, ScriptStep,
       Pgrep, SendStop, SendTerm
  <1> QED BY <1>1, <1>2, <1>3, <1>4, <1>5 DEF vars

\* Every step keeps what SIGCHLD and waitpid stand for.
LEMMA NoticesStep == SignalsInv /\ [Next]_vars => Notices'
  <1> SUFFICES ASSUME SignalsInv, [Next]_vars PROVE Notices'
    OBVIOUS
  <1> USE DEF SignalsInv, TypeOK, BeforeFork, Notices, ParentStaysForRunningChild,
              Leaving, Dead, parentVars, childVars, flagVars, scriptVars,
              ParentInterruptible
  <1>1. CASE ParentMain
    BY <1>1 DEF ParentMain, ParentSetup, Fork, Poll, Nap, Leave, ParentRuns, Exit
  <1>2. CASE ParentSignal
    BY <1>2 DEF ParentSignal, SigUser1, Acknowledge
  <1>3. CASE SigChild
    BY <1>3 DEF SigChild, Exit
  <1>4. CASE ChildStep
    <2>1. CASE Exec \/ Install \/ InstallFails
      BY <2>1 DEF Exec, Install, InstallFails, ChildRuns, After, Die
    <2>2. CASE Count
      BY <2>2 DEF Count
    <2>3. ASSUME NEW s \in {"TSTP", "TERM"}, EnterHandler(s) PROVE Notices'
      <3>1. Leaving => Leaving'
        <4> DEFINE f == <<s, "send">>
        <4>1. f \in Frame /\ frames' = <<f>> \o frames
          BY <2>3 DEF EnterHandler, Frame
        <4>2. \A i \in DOMAIN frames : i + 1 \in DOMAIN frames' /\ frames'[i + 1] = frames[i]
          BY <4>1, PushFrame
        <4> QED BY <4>2
      <3> QED BY <2>3, <3>1 DEF EnterHandler
    <2>4. CASE SigUser2 \/ StopByDefault
      <3>1. UNCHANGED <<ppc, chld, cpc, frames>>
        BY <2>4 DEF SigUser2, StopByDefault
      <3> QED BY <3>1
    <2>5. CASE KillByDefault
      BY <2>5 DEF KillByDefault, Die
    <2>6. CASE SigStop
      <3>1. CASE NotPermitted
        BY <2>6, <3>1 DEF SigStop, NotPermitted, Die
      <3>2. CASE frames' = Tail(frames) /\ UNCHANGED <<chld, cpc, pending>>
        <4>1. frames # <<>> /\ frames[1] # <<"TERM", "exit">>
          BY <2>6, PopFrame DEF SigStop, InFrame
        <4>2. \A i \in DOMAIN frames : i # 1 => i - 1 \in DOMAIN frames' /\ frames'[i - 1] = frames[i]
          BY <3>2, <4>1, PopFrame
        <4>3. Leaving => Leaving'
          BY <4>1, <4>2
        <4> QED BY <2>6, <3>2, <4>3 DEF SigStop
      <3> QED BY <2>6, <3>1, <3>2 DEF SigStop
    <2>7. CASE SigTerm
      <3>1. CASE NotPermitted
        BY <2>7, <3>1 DEF SigTerm, NotPermitted, Die
      <3>2. CASE frames' = <<<<"TERM", "exit">>>> \o Tail(frames) /\ UNCHANGED cpc
        <4>1. Leaving'
          BY <2>7, <3>2, PopFrame, PushFrame DEF SigTerm, InFrame, Frame
        <4> QED BY <2>7, <3>2, <4>1 DEF SigTerm
      <3> QED BY <2>7, <3>1, <3>2 DEF SigTerm
    <2>8. CASE SigTermExit
      BY <2>8 DEF SigTermExit, Die
    <2> QED BY <1>4, <2>1, <2>2, <2>3, <2>4, <2>5, <2>6, <2>7, <2>8 DEF ChildStep
  <1>5. CASE ScriptStep
    BY <1>5 DEF ScriptStep, Pgrep, SendStop, SendTerm, Send
  <1>6. CASE UNCHANGED vars
    BY <1>6 DEF vars
  <1> QED BY <1>1, <1>2, <1>3, <1>4, <1>5, <1>6 DEF Next

------------------------------------------------------------------------------

\* The inductive invariant of the two programs of M8.
THEOREM SignalsInvariant == Spec => []SignalsInv
  <1>1. SignalsInv /\ [Next]_vars => SignalsInv'
    BY TypeStep, BeforeForkStep, ReportsStep, NoticesStep DEF SignalsInv
  <1> QED BY InitInv, <1>1, PTL DEF Spec

\* Type correctness of parent.c, child.c and send_signal.sh.
THEOREM SignalsTypeCorrect == Spec => []TypeOK
  BY SignalsInvariant, PTL DEF SignalsInv

\* The reports printed by SigUser1 of parent.c follow the child's sum.
THEOREM SignalsReportsInOrder == Spec => []ReportsInOrder
  <1>1. SignalsInv => ReportsInOrder
    BY DEF SignalsInv, Reports
  <1> QED BY SignalsInvariant, <1>1, PTL

\* parent.c does not end while its child counts.
THEOREM SignalsParentStays == Spec => []ParentStaysForRunningChild
  <1>1. SignalsInv => ParentStaysForRunningChild
    BY DEF SignalsInv, Notices
  <1> QED BY SignalsInvariant, <1>1, PTL
==============================================================================
