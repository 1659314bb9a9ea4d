--------------------------- MODULE ProcessProofs ---------------------------
(***************************************************************************)
(* Proofs about the process, signal and credential programs.               *)
(*                                                                         *)
(* TypeOK holds of every table of programs that is closed                  *)
(* (ProgramsClosed), for any number of processes and signals, and          *)
(* PrivilegeDropPermanent whatever the user ids of those who start the     *)
(* three programs about credentials (CredentialPrograms).                  *)
(***************************************************************************)
EXTENDS ProcessPrograms, SequenceTheorems, TLAPS

FieldNames ==
    {"st", "how", "parent", "stk", "blk", "mask", "pend", "disp", "tmr", "mem", "told", "sess",
     "lim", "uid", "eff", "prm"}

\* What a disposition of program g may be
Dispositions(g) == {"DFL", "IGN"} \cup (DOMAIN Code[g] \ {"main"})

FrameOK(g, f) ==
    /\ DOMAIN f = {"r", "pc", "reg", "mask"}
    /\ f.r # "execd" => f.r \in DOMAIN Code[g] /\ f.pc \in DOMAIN Code[g][f.r]

\* main, or the program that exec started, is at the bottom of a stack
StackOK(g, s) ==
    /\ s \in Seq(Range(s)) /\ Len(s) >= 1
    /\ \A i \in 1 .. Len(s) : FrameOK(g, s[i])
    /\ s[1].r \in {"main", "execd"}

\* The instruction that the topmost frame has reached
TopIns(g, s) ==
    LET f == s[Len(s)] IN IF f.r = "execd" THEN <<"execd">> ELSE Code[g][f.r][f.pc]

Blocking == {"pause", "sleep", "sigtimedwait"}

\* A process of program g.  One that has called exec has no handler, and one
\* that is blocked is so in a call that a signal can interrupt.
ProcOK(g, q) ==
    /\ DOMAIN q = FieldNames
    /\ q.st \in {"none", "ready", "stopped", "zombie", "gone"}
    /\ q.how \in {"none", "ok", "fail", "killed", "core"}
    /\ q.parent \in 0 .. NProcs
    /\ q.pend \in Seq(Signals)
    /\ DOMAIN q.disp = Signals /\ \A s \in Signals : q.disp[s].h \in Dispositions(g)
    /\ StackOK(g, q.stk)
    /\ q.stk[1].r = "execd" =>
         Len(q.stk) = 1 /\ \A s \in Signals : q.disp[s].h \in {"DFL", "IGN"}
    /\ q.blk => TopIns(g, q.stk)[1] \in Blocking

ProcInv ==
    /\ prog \in Programs /\ sent \in 0 .. NSignals
    /\ DOMAIN ps = Procs /\ \A p \in Procs : ProcOK(prog, ps[p])

-----------------------------------------------------------------------------
(* Processes                                                               *)

\* The signals that the model itself sends.
LEMMA SentSignals == {"CHLD", "SEGV"} \cup TimerSignals \subseteq Signals
<1>1. DOMAIN Order = 1 .. 14
  BY DEF Order
<1>2. /\ Order[8] = "CHLD" /\ Order[2] = "SEGV" /\ Order[7] = "ALRM" /\ Order[9] = "VTALRM"
      /\ Order[10] = "PROF" /\ Order[11] = "RTMIN"
  BY DEF Order
<1> QED
  BY <1>1, <1>2 DEF Signals, ToSet, TimerSignals

\* A place where no process is.
LEMMA NoProcessOK ==
  ASSUME NEW g \in Programs
  PROVE  ProcOK(g, NoProcess)
<1> DEFINE s == NoProcess.stk
<1>1. s = <<Frame("main", {})>>
  BY DEF NoProcess
<1>2. Len(s) = 1 /\ DOMAIN s = {1} /\ s[1] = Frame("main", {}) /\ s \in Seq({s[1]})
  BY <1>1
<1>3. FrameOK(g, s[1]) /\ s[1].r = "main"
  BY <1>2, ProgramsClosed DEF FrameOK, Frame
<1>4. StackOK(g, s)
  <2>1. Range(s) = {s[1]}
    BY <1>2 DEF Range
  <2> QED
    BY <1>2, <1>3, <2>1 DEF StackOK
<1>5. NoProcess.blk = FALSE /\ DOMAIN NoProcess = FieldNames
  BY DEF NoProcess, FieldNames
<1>6. /\ NoProcess.st = "none" /\ NoProcess.how = "none" /\ NoProcess.parent = 0
      /\ NoProcess.pend = <<>>
      /\ NoProcess.disp = [x \in Signals |-> [h |-> "DFL", fl |-> {}]]
  BY DEF NoProcess
<1> QED
  BY <1>3, <1>4, <1>5, <1>6, ProcessesConstants DEF ProcOK, Dispositions

\* Nothing is said of the other fields of a process.
LEMMA SameProc ==
  ASSUME NEW g, NEW q, NEW r, ProcOK(g, q), DOMAIN r = DOMAIN q,
         r.st = q.st, r.how = q.how, r.parent = q.parent, r.stk = q.stk, r.blk = q.blk,
         r.pend = q.pend, r.disp = q.disp
  PROVE  ProcOK(g, r)
  BY DEF ProcOK

\* A signal that is sent leaves a process as it should be.
LEMMA SignalledOK ==
  ASSUME NEW g, NEW q, ProcOK(g, q), NEW s \in Signals
  PROVE  /\ ProcOK(g, Signalled(q, s))
         /\ \A f \in FieldNames \ {"pend"} : Signalled(q, s)[f] = q[f]
<1>1. CASE Signalled(q, s) = q
  BY <1>1
<1>2. CASE Signalled(q, s) = [q EXCEPT !.pend = Append(q.pend, s)]
  <2> DEFINE r == [q EXCEPT !.pend = Append(q.pend, s)]
  <2>1. q.pend \in Seq(Signals) /\ DOMAIN q = FieldNames
    BY DEF ProcOK
  <2>2. Append(q.pend, s) \in Seq(Signals)
    BY <2>1
  <2>3. /\ DOMAIN r = FieldNames /\ r.pend = Append(q.pend, s)
        /\ \A f \in FieldNames \ {"pend"} : r[f] = q[f]
    BY <2>1 DEF FieldNames
  <2>4. /\ r.st = q.st /\ r.how = q.how /\ r.parent = q.parent /\ r.stk = q.stk /\ r.blk = q.blk
        /\ r.disp = q.disp
    BY <2>3 DEF FieldNames
  <2> HIDE DEF r
  <2>5. ProcOK(g, r)
    BY <2>2, <2>3, <2>4 DEF ProcOK
  <2> QED
    BY <1>2, <2>3, <2>5 DEF r
<1> QED
  BY <1>1, <1>2 DEF Signalled

\* A process that goes on to the next instruction of its routine, or to one
\* that the instruction it has executed names.
LEMMA ReturnOK ==
  ASSUME NEW g \in Programs, NEW q, ProcOK(g, q), NEW v, NEW n,
         TopIns(g, q.stk)[1] # "execd", n \in Offsets(TopIns(g, q.stk))
  PROVE  /\ ProcOK(g, Return(q, n, v))
         /\ \A f \in FieldNames \ {"stk", "blk"} : Return(q, n, v)[f] = q[f]
         /\ Len(Return(q, n, v).stk) = Len(q.stk)
         /\ \A i \in 1 .. Len(q.stk) : /\ Return(q, n, v).stk[i].r = q.stk[i].r
                                       /\ Return(q, n, v).stk[i].mask = q.stk[i].mask
<1> DEFINE s == q.stk
           k == Len(s)
           f == s[k]
           e == [f EXCEPT !.pc = f.pc + 1 + n, !.reg = v]
           t == [s EXCEPT ![k] = e]
           r == Return(q, n, v)
<1>1. /\ DOMAIN q = FieldNames /\ StackOK(g, s) /\ s \in Seq(Range(s)) /\ k \in Nat /\ k >= 1
      /\ DOMAIN s = 1 .. k
  BY LenProperties DEF ProcOK, StackOK
<1>2. FrameOK(g, f) /\ f.r # "execd" /\ TopIns(g, s) = Code[g][f.r][f.pc]
  BY <1>1 DEF StackOK, TopIns
<1>3. f.pc + 1 + n \in DOMAIN Code[g][f.r]
  <2>1. f.r \in DOMAIN Code[g] /\ f.pc \in DOMAIN Code[g][f.r]
    BY <1>2 DEF FrameOK
  <2>2. Closed(g, f.r, f.pc)
    BY <2>1, ProgramsClosed
  <2> QED
    BY <1>2, <2>2 DEF Closed
<1>4. /\ DOMAIN e = {"r", "pc", "reg", "mask"} /\ e.r = f.r /\ e.pc = f.pc + 1 + n
      /\ e.mask = f.mask
  BY <1>2 DEF FrameOK
<1>5. FrameOK(g, e)
  BY <1>2, <1>3, <1>4 DEF FrameOK
<1>6. r = [q EXCEPT !.stk = t, !.blk = FALSE]
  BY DEF Return, Top
<1> HIDE DEF e
<1>7. DOMAIN t = 1 .. k /\ t[k] = e /\ \A i \in 1 .. k : i # k => t[i] = s[i]
  BY <1>1
<1>8. t \in Seq(Range(t)) /\ Len(t) = k
  <2>1. s \in Seq(Range(s) \cup {e}) /\ k \in 1 .. Len(s)
    BY <1>1, SeqMonotonic
  <2>2. t \in Seq(Range(s) \cup {e}) /\ Len(t) = k
    BY <2>1, ExceptSeq
  <2> QED
    BY <2>2, SeqOfRange
<1> HIDE DEF t
<1>9. \A i \in 1 .. k : t[i].r = s[i].r /\ t[i].mask = s[i].mask /\ FrameOK(g, t[i])
  BY <1>1, <1>4, <1>5, <1>7 DEF StackOK
<1>10. StackOK(g, t)
  BY <1>1, <1>8, <1>9 DEF StackOK
<1>11. /\ DOMAIN r = FieldNames /\ r.stk = t /\ r.blk = FALSE
       /\ \A x \in FieldNames \ {"stk", "blk"} : r[x] = q[x]
  BY <1>1, <1>6 DEF FieldNames
<1>12. /\ r.st = q.st /\ r.how = q.how /\ r.parent = q.parent /\ r.pend = q.pend
       /\ r.disp = q.disp
  BY <1>11 DEF FieldNames
<1> HIDE DEF r
<1>13. ProcOK(g, r)
  BY <1>1, <1>8, <1>9, <1>10, <1>11, <1>12 DEF ProcOK
<1> QED
  BY <1>1, <1>8, <1>9, <1>11, <1>13 DEF r

\* A pending signal is taken.
LEMMA WithoutOK ==
  ASSUME NEW s \in Seq(Signals), NEW i \in DOMAIN s
  PROVE  Without(s, i) \in Seq(Signals)
<1>1. Len(s) \in Nat /\ i \in 1 .. Len(s)
  BY LenProperties
<1>2. SubSeq(s, 1, i - 1) \in Seq(Signals) /\ SubSeq(s, i + 1, Len(s)) \in Seq(Signals)
  BY <1>1, SubSeqProperties
<1> QED
  BY <1>2, ConcatProperties DEF Without

LEMMA TakenOK ==
  ASSUME NEW g, NEW q, ProcOK(g, q), NEW i \in DOMAIN q.pend
  PROVE  LET r == [q EXCEPT !.pend = Without(q.pend, i)]
         IN  ProcOK(g, r) /\ \A f \in FieldNames \ {"pend"} : r[f] = q[f]
<1> DEFINE r == [q EXCEPT !.pend = Without(q.pend, i)]
<1>1. q.pend \in Seq(Signals) /\ DOMAIN q = FieldNames
  BY DEF ProcOK
<1>2. Without(q.pend, i) \in Seq(Signals)
  BY <1>1, WithoutOK
<1>3. /\ DOMAIN r = FieldNames /\ r.pend = Without(q.pend, i)
      /\ \A f \in FieldNames \ {"pend"} : r[f] = q[f]
  BY <1>1 DEF FieldNames
<1>4. /\ r.st = q.st /\ r.how = q.how /\ r.parent = q.parent /\ r.stk = q.stk /\ r.blk = q.blk
      /\ r.disp = q.disp
  BY <1>3 DEF FieldNames
<1> HIDE DEF r
<1>5. ProcOK(g, r)
  BY <1>2, <1>3, <1>4 DEF ProcOK
<1> QED
  BY <1>3, <1>5 DEF r

\* A handler of the program starts on top of what it interrupts, which no
\* longer blocks.
LEMMA PushOK ==
  ASSUME NEW g \in Programs, NEW q, ProcOK(g, q), NEW m, NEW n,
         NEW h \in DOMAIN Code[g] \ {"main"}, q.stk[1].r # "execd", ~q.blk
  PROVE  ProcOK(g, [q EXCEPT !.stk = Append(q.stk, Frame(h, m)), !.mask = n])
<1> DEFINE s == q.stk
           e == Frame(h, m)
           t == Append(s, e)
           r == [q EXCEPT !.stk = t, !.mask = n]
<1>1. /\ DOMAIN q = FieldNames /\ StackOK(g, s) /\ s \in Seq(Range(s))
      /\ Len(s) \in Nat /\ Len(s) >= 1
  BY LenProperties DEF ProcOK, StackOK
<1>2. FrameOK(g, e)
  <2>1. 1 \in DOMAIN Code[g][h]
    BY ProgramsClosed
  <2>2. e.r = h /\ e.pc = 1 /\ DOMAIN e = {"r", "pc", "reg", "mask"}
    BY DEF Frame
  <2> HIDE DEF e
  <2> QED
    BY <2>1, <2>2 DEF FrameOK
<1> HIDE DEF e
<1>3. s \in Seq(Range(s) \cup {e})
  BY <1>1, SeqMonotonic
<1>4. /\ t \in Seq(Range(s) \cup {e}) /\ Len(t) = Len(s) + 1
      /\ \A i \in 1 .. Len(s) : t[i] = s[i]
      /\ t[Len(s) + 1] = e
  BY <1>3, AppendProperties
<1>5. t \in Seq(Range(t))
  BY <1>4, SeqOfRange
<1> HIDE DEF t
<1>6. StackOK(g, t) /\ t[1].r # "execd"
  <2>1. \A i \in 1 .. Len(t) : FrameOK(g, t[i])
    BY <1>1, <1>2, <1>4 DEF StackOK
  <2> QED
    BY <1>1, <1>4, <1>5, <2>1 DEF StackOK
<1>7. /\ DOMAIN r = FieldNames /\ r.stk = t
      /\ \A f \in FieldNames \ {"stk", "mask"} : r[f] = q[f]
  BY <1>1 DEF FieldNames
<1>8. /\ r.st = q.st /\ r.how = q.how /\ r.parent = q.parent /\ r.pend = q.pend /\ r.blk = q.blk
      /\ r.disp = q.disp
  BY <1>7 DEF FieldNames
<1> HIDE DEF r
<1>9. ProcOK(g, r)
  BY <1>6, <1>7, <1>8 DEF ProcOK
<1> QED
  BY <1>9 DEF r, t, e

\* The topmost handler returns.
LEMMA PopOK ==
  ASSUME NEW g \in Programs, NEW q, ProcOK(g, q), ~q.blk, NEW n,
         TopIns(g, q.stk)[1] = "return"
  PROVE  ProcOK(g, [q EXCEPT !.mask = n, !.stk = Front(q.stk)])
<1> DEFINE s == q.stk
           k == Len(s)
           t == SubSeq(s, 1, k - 1)
           r == [q EXCEPT !.mask = n, !.stk = t]
<1>1. /\ DOMAIN q = FieldNames /\ StackOK(g, s) /\ s \in Seq(Range(s))
      /\ k \in Nat /\ k >= 1
  BY LenProperties DEF ProcOK, StackOK
<1>2. s[k].r \notin {"main", "execd"}
  <2>1. s[k].r # "execd"
    BY DEF TopIns
  <2>2. s[k].r \in DOMAIN Code[g] /\ s[k].pc \in DOMAIN Code[g][s[k].r]
    BY <1>1, <2>1 DEF StackOK, FrameOK
  <2>3. Closed(g, s[k].r, s[k].pc)
    BY <2>2, ProgramsClosed
  <2> QED
    BY <2>1, <2>3 DEF Closed, TopIns
<1>3. k > 1
  BY <1>1, <1>2 DEF StackOK
<1>4. /\ t \in Seq(Range(s)) /\ Len(t) = k - 1 /\ \A i \in 1 .. k - 1 : t[i] = s[i]
  BY <1>1, <1>3, SubSeqProperties
<1>5. t \in Seq(Range(t))
  BY <1>4, SeqOfRange
<1> HIDE DEF t
<1>6. StackOK(g, t) /\ t[1].r = s[1].r
  BY <1>1, <1>3, <1>4, <1>5 DEF StackOK
<1>7. s[1].r # "execd"
  <2>1. s[1].r = "execd" => k = 1
    BY DEF ProcOK
  <2>2. \A x \in Nat : x > 1 => x # 1
    OBVIOUS
  <2> QED
    BY <1>1, <1>3, <2>1, <2>2, Zenon
<1>8. /\ DOMAIN r = FieldNames /\ r.stk = t
      /\ \A f \in FieldNames \ {"stk", "mask"} : r[f] = q[f]
  BY <1>1 DEF FieldNames
<1>9. /\ r.st = q.st /\ r.how = q.how /\ r.parent = q.parent /\ r.pend = q.pend /\ r.blk = q.blk
      /\ r.disp = q.disp
  BY <1>8 DEF FieldNames
<1> HIDE DEF r
<1>10. ProcOK(g, r)
  BY <1>6, <1>7, <1>8, <1>9 DEF ProcOK
<1> QED
  BY <1>10 DEF r, t, Front

-----------------------------------------------------------------------------
(* Steps                                                                   *)

\* What is known of a process.
LEMMA Known ==
  ASSUME ProcInv, NEW p \in Procs
  PROVE  /\ prog \in Programs /\ ProcOK(prog, ps[p])
         /\ Ins(p) = TopIns(prog, ps[p].stk)
  BY DEF ProcInv, Ins, TopIns, Top, TheCode

\* A step that changes one process only.
LEMMA StepOK ==
  ASSUME ProcInv, NEW p \in Procs, NEW q, ProcOK(prog, q), Becomes(p, q),
         prog' = prog, sent' = sent \/ (sent < NSignals /\ sent' = sent + 1)
  PROVE  ProcInv'
<1>1. ps' = [ps EXCEPT ![p] = q] /\ prog' = prog
  BY DEF Becomes
<1>2. sent' \in 0 .. NSignals
  BY ProcessesConstants DEF ProcInv
<1>3. DOMAIN ps' = Procs /\ \A x \in Procs : ProcOK(prog, ps'[x])
  BY <1>1 DEF ProcInv
<1> QED
  BY <1>1, <1>2, <1>3 DEF ProcInv

\* Every instruction but these may lead to the next one.
LEMMA ZeroOffset ==
  ASSUME NEW ins, ins[1] \notin {"exit", "return", "branch"}
  PROVE  0 \in Offsets(ins)
  BY DEF Offsets

\* A process goes on n instructions further.
LEMMA Advance ==
  ASSUME ProcInv, NEW p \in Procs, Ins(p)[1] # "execd", NEW n \in Offsets(Ins(p)), NEW v
  PROVE  /\ ProcOK(prog, Return(ps[p], n, v))
         /\ \A f \in FieldNames \ {"stk", "blk"} : Return(ps[p], n, v)[f] = ps[p][f]
         /\ Return(ps[p], n, v).stk[1].r = ps[p].stk[1].r
<1>1. /\ prog \in Programs /\ ProcOK(prog, ps[p]) /\ Ins(p) = TopIns(prog, ps[p].stk)
  BY Known
<1>2. 1 \in 1 .. Len(ps[p].stk)
  BY <1>1, LenProperties DEF ProcOK, StackOK
<1>3. TopIns(prog, ps[p].stk)[1] # "execd" /\ n \in Offsets(TopIns(prog, ps[p].stk))
  BY <1>1
<1>4. ProcOK(prog, Return(ps[p], n, v))
  BY <1>1, <1>3, ReturnOK
<1>5. \A f \in FieldNames \ {"stk", "blk"} : Return(ps[p], n, v)[f] = ps[p][f]
  BY <1>1, <1>3, ReturnOK
<1>6. Return(ps[p], n, v).stk[1].r = ps[p].stk[1].r
  BY <1>1, <1>2, <1>3, ReturnOK
<1> QED
  BY <1>4, <1>5, <1>6

\* The same for the next instruction.
LEMMA Goes ==
  ASSUME ProcInv, NEW p \in Procs, Ins(p)[1] \notin {"exit", "return", "branch", "execd"}
  PROVE  /\ ProcOK(prog, Go(ps[p]))
         /\ \A f \in FieldNames \ {"stk", "blk"} : Go(ps[p])[f] = ps[p][f]
         /\ Go(ps[p]).stk[1].r = ps[p].stk[1].r
<1>1. 0 \in Offsets(Ins(p))
  BY ZeroOffset
<1>2. Ins(p)[1] # "execd"
  OBVIOUS
<1>3. PICK v : Go(ps[p]) = Return(ps[p], 0, v)
  BY DEF Go, Skip
<1>4. ProcOK(prog, Return(ps[p], 0, v))
  BY <1>1, <1>2, Advance
<1>5. \A f \in FieldNames \ {"stk", "blk"} : Return(ps[p], 0, v)[f] = ps[p][f]
  BY <1>1, <1>2, Advance
<1>6. Return(ps[p], 0, v).stk[1].r = ps[p].stk[1].r
  BY <1>1, <1>2, Advance
<1> QED
  BY <1>3, <1>4, <1>5, <1>6

\* A process goes on and one of the fields of which nothing is said changes.
LEMMA FreeField ==
  ASSUME NEW g, NEW q, ProcOK(g, q), NEW v,
         NEW f \in FieldNames \ {"st", "how", "parent", "stk", "blk", "pend", "disp"}
  PROVE  ProcOK(g, [q EXCEPT ![f] = v])
<1> DEFINE r == [q EXCEPT ![f] = v]
<1>1. DOMAIN q = FieldNames
  BY DEF ProcOK
<1>2. /\ DOMAIN r = DOMAIN q /\ r.st = q.st /\ r.how = q.how /\ r.parent = q.parent
      /\ r.stk = q.stk /\ r.blk = q.blk /\ r.pend = q.pend /\ r.disp = q.disp
  BY <1>1 DEF FieldNames
<1> HIDE DEF r
<1>3. ProcOK(g, r)
  BY <1>2, SameProc
<1> QED
  BY <1>3 DEF r

\* What a process has executed, or is about to, is an instruction of a
\* closed routine.
LEMMA ClosedIns ==
  ASSUME ProcInv, NEW p \in Procs, Ins(p)[1] # "execd"
  PROVE  /\ Ins(p)[1] = "exit" => Ins(p)[2] \in {"ok", "fail"}
         /\ Ins(p)[1] \in {"fork", "mayfail"} => Last(Ins(p)) \in {"ok", "fail", "ignore"}
         /\ Ins(p)[1] \in {"kill", "raise", "arm", "sigaction"} => Ins(p)[2] \in Signals
         /\ Ins(p)[1] = "sigaction" => Ins(p)[3] \in Dispositions(prog)
         /\ ps[p].stk[1].r # "execd"
<1> DEFINE s == ps[p].stk
           f == s[Len(s)]
<1>1. /\ prog \in Programs /\ StackOK(prog, s) /\ Ins(p) = TopIns(prog, s)
      /\ s[1].r = "execd" => Len(s) = 1
  BY Known DEF ProcOK
<1>2. f.r # "execd" /\ Ins(p) = Code[prog][f.r][f.pc]
  <2>1. TopIns(prog, s) = IF f.r = "execd" THEN <<"execd">> ELSE Code[prog][f.r][f.pc]
    BY DEF TopIns
  <2> HIDE DEF s, f
  <2>2. f.r # "execd"
    <3>1. f.r = "execd" => Ins(p) = <<"execd">>
      BY <1>1, <2>1
    <3>2. <<"execd">>[1] = "execd"
      OBVIOUS
    <3> QED
      BY <3>1, <3>2
  <2> QED
    BY <1>1, <2>1, <2>2
<1>3. f.r \in DOMAIN Code[prog] /\ f.pc \in DOMAIN Code[prog][f.r]
  <2>1. Len(s) \in 1 .. Len(s)
    BY <1>1, LenProperties DEF StackOK
  <2> QED
    BY <1>1, <1>2, <2>1 DEF StackOK, FrameOK
<1>4. Closed(prog, f.r, f.pc)
  BY <1>1, <1>3, ProgramsClosed
<1>5. s[1].r # "execd"
  <2>1. s[1].r = "execd" => f = s[1]
    BY <1>1
  <2> QED
    BY <1>2, <2>1, Zenon
<1> QED
  BY <1>2, <1>4, <1>5 DEF Closed, Dispositions

\* Status, outcome and parent may change.
LEMMA StatusOK ==
  ASSUME NEW g, NEW q, ProcOK(g, q), NEW r, DOMAIN r = FieldNames,
         r.st \in {"none", "ready", "stopped", "zombie", "gone"},
         r.how \in {"none", "ok", "fail", "killed", "core"}, r.parent \in 0 .. NProcs,
         r.pend \in Seq(Signals), r.stk = q.stk, r.blk = q.blk, r.disp = q.disp
  PROVE  ProcOK(g, r)
  BY DEF ProcOK

\* The end of a process.
LEMMA EndsOK ==
  ASSUME ProcInv, NEW p \in Procs, NEW how \in {"ok", "fail", "killed", "core"}, Ends(p, how)
  PROVE  ProcInv'
<1>1. ps' = Ended(p, how) /\ prog' = prog /\ sent' = sent /\ prog \in Programs
  BY DEF Ends, ProcInv
<1>2. 0 \in 0 .. NProcs
  BY ProcessesConstants
<1>3. ASSUME NEW st \in {"gone", "zombie"} PROVE ProcOK(prog, Corpse(p, st, how))
  <2> DEFINE b == IF p = 1 THEN ps[p] ELSE [NoProcess EXCEPT !.parent = ps[p].parent]
             r == [b EXCEPT !.st = st, !.how = how, !.pend = <<>>, !.tmr = {}]
  <2>1. ProcOK(prog, b)
    <3>1. ProcOK(prog, ps[p]) /\ ps[p].parent \in 0 .. NProcs
      BY DEF ProcInv, ProcOK
    <3>2. ProcOK(prog, NoProcess)
      BY <1>1, NoProcessOK
    <3> DEFINE e == [NoProcess EXCEPT !.parent = ps[p].parent]
    <3>3. /\ DOMAIN e = FieldNames /\ e.st = NoProcess.st /\ e.how = NoProcess.how
          /\ e.parent = ps[p].parent /\ e.pend = NoProcess.pend /\ e.stk = NoProcess.stk
          /\ e.blk = NoProcess.blk /\ e.disp = NoProcess.disp
      <4>1. DOMAIN NoProcess = FieldNames
        BY <3>2 DEF ProcOK
      <4> QED
        BY <4>1 DEF FieldNames
    <3>4. /\ NoProcess.st \in {"none", "ready", "stopped", "zombie", "gone"}
          /\ NoProcess.how \in {"none", "ok", "fail", "killed", "core"}
          /\ NoProcess.pend \in Seq(Signals)
      BY <3>2 DEF ProcOK
    <3> HIDE DEF e
    <3>5. ProcOK(prog, e)
      BY <3>1, <3>2, <3>3, <3>4, StatusOK
    <3> QED
      BY <3>1, <3>5 DEF e
  <2>2. Corpse(p, st, how) = r
    BY DEF Corpse
  <2> HIDE DEF b
  <2>3. DOMAIN b = FieldNames /\ b.parent \in 0 .. NProcs
    BY <2>1 DEF ProcOK
  <2>4. /\ DOMAIN r = FieldNames /\ r.st = st /\ r.how = how /\ r.parent = b.parent
        /\ r.pend = <<>> /\ r.stk = b.stk /\ r.blk = b.blk /\ r.disp = b.disp
    BY <2>3 DEF FieldNames
  <2>5. r.pend \in Seq(Signals)
    BY <2>4
  <2> HIDE DEF r
  <2>6. ProcOK(prog, r)
    BY <2>1, <2>3, <2>4, <2>5, StatusOK
  <2> QED
    BY <2>2, <2>6
<1>4. ASSUME NEW q \in Procs
      PROVE  ProcOK(prog, [ps[q] EXCEPT !.parent = 0, !.st = IF @ = "zombie" THEN "gone" ELSE @])
  <2> DEFINE b == ps[q]
             st == IF b.st = "zombie" THEN "gone" ELSE b.st
             r == [b EXCEPT !.parent = 0, !.st = st]
  <2>1. ProcOK(prog, b)
    BY DEF ProcInv
  <2>2. /\ DOMAIN b = FieldNames /\ st \in {"none", "ready", "stopped", "zombie", "gone"}
        /\ b.how \in {"none", "ok", "fail", "killed", "core"} /\ b.pend \in Seq(Signals)
    BY <2>1 DEF ProcOK
  <2>3. /\ DOMAIN r = FieldNames /\ r.st = st /\ r.how = b.how /\ r.parent = 0
        /\ r.pend = b.pend /\ r.stk = b.stk /\ r.blk = b.blk /\ r.disp = b.disp
    BY <2>2 DEF FieldNames
  <2>4. r = [ps[q] EXCEPT !.parent = 0, !.st = IF @ = "zombie" THEN "gone" ELSE @]
    BY <2>2 DEF FieldNames
  <2> HIDE DEF r, st, b
  <2>5. ProcOK(prog, r)
    BY <1>2, <2>1, <2>2, <2>3, StatusOK
  <2> QED
    BY <2>4, <2>5
<1>5. ASSUME NEW q \in Procs PROVE ProcOK(prog, Signalled(ps[q], "CHLD")) /\ ProcOK(prog, ps[q])
  BY SignalledOK, SentSignals DEF ProcInv
<1>6. ASSUME NEW q \in Procs PROVE ProcOK(prog, Ended(p, how)[q])
  <2>1. CASE q = p
    BY <1>3, <2>1 DEF Ended
  <2>2. CASE q # p
    BY <1>4, <1>5, <2>2 DEF Ended
  <2> QED
    BY <2>1, <2>2
<1>7. DOMAIN Ended(p, how) = Procs
  BY DEF Ended
<1> QED
  BY <1>1, <1>6, <1>7 DEF ProcInv

\* A step that changes two processes.
LEMMA TwoOK ==
  ASSUME ProcInv, NEW p \in Procs, NEW c, NEW a, NEW b, ProcOK(prog, a), ProcOK(prog, b),
         ps' = [[ps EXCEPT ![p] = a] EXCEPT ![c] = b], UNCHANGED <<prog, sent>>
  PROVE  ProcInv'
<1>1. DOMAIN ps' = Procs /\ \A x \in Procs : ps'[x] \in {a, b, ps[x]}
  BY DEF ProcInv
<1>2. \A x \in Procs : ProcOK(prog, ps'[x])
  BY <1>1 DEF ProcInv
<1> QED
  BY <1>1, <1>2 DEF ProcInv

\* A process that is ready is at an instruction.
LEMMA AtIns ==
  ASSUME NEW p \in Procs, NEW ops, At(p, ops)
  PROVE  Ins(p)[1] \in ops /\ ~ps[p].blk /\ ps[p].st = "ready"
  BY DEF At

LEMMA ForkOK ==
  ASSUME ProcInv, NEW p \in Procs, Fork(p)
  PROVE  ProcInv'
<1> DEFINE r == Return(ps[p], Ins(p)[2], 0)
           leads(s) == IF s = "leader" THEN "member" ELSE s
           child == [r EXCEPT !.parent = p, !.pend = <<>>, !.tmr = {}, !.told = TRUE,
                              !.sess = leads(r.sess)]
<1>1. Ins(p)[1] = "fork" /\ ps[p].st = "ready" /\ UNCHANGED <<prog, sent>>
  BY AtIns DEF Fork
<1>2. PICK c \in Unused :
        ps' = [ps EXCEPT ![c] = [Return(ps[p], Ins(p)[2], 0) EXCEPT
                         !.parent = p, !.pend = <<>>, !.tmr = {}, !.told = TRUE,
                         !.sess = IF @ = "leader" THEN "member" ELSE @],
                         ![p] = Return(@, 0, c)]
  BY DEF Fork
<1>3. c \in Procs /\ c # p /\ p \in 0 .. NProcs
  BY <1>1, ProcessesConstants DEF Unused, Exists, Procs
<1>4. 0 \in Offsets(Ins(p)) /\ Ins(p)[2] \in Offsets(Ins(p)) /\ Ins(p)[1] # "execd"
  BY <1>1 DEF Offsets
<1>5. ProcOK(prog, Return(ps[p], 0, c)) /\ ProcOK(prog, r)
  BY <1>4, Advance
<1> HIDE DEF r
<1>6. ProcOK(prog, child)
  <2>1. DOMAIN r = FieldNames /\ r.st \in {"none", "ready", "stopped", "zombie", "gone"}
        /\ r.how \in {"none", "ok", "fail", "killed", "core"}
    BY <1>5 DEF ProcOK
  <2>2. /\ DOMAIN child = FieldNames /\ child.st = r.st /\ child.how = r.how
        /\ child.parent = p /\ child.pend = <<>> /\ child.stk = r.stk /\ child.blk = r.blk
        /\ child.disp = r.disp
    BY <2>1 DEF FieldNames
  <2>3. child.pend \in Seq(Signals)
    BY <2>2
  <2> HIDE DEF child
  <2> QED
    BY <1>3, <1>5, <2>1, <2>2, <2>3, StatusOK
<1>7. ps' = [[ps EXCEPT ![c] = child] EXCEPT ![p] = Return(ps[p], 0, c)]
  <2>1. child = [r EXCEPT !.parent = p, !.pend = <<>>, !.tmr = {}, !.told = TRUE,
                          !.sess = IF @ = "leader" THEN "member" ELSE @]
    <3>1. DOMAIN r = FieldNames
      BY <1>5 DEF ProcOK
    <3> QED
      BY <3>1 DEF FieldNames
  <2> HIDE DEF child
  <2>2. ps' = [ps EXCEPT ![c] = child, ![p] = Return(@, 0, c)]
    BY <1>2, <2>1 DEF r
  <2> QED
    BY <1>3, <2>2 DEF ProcInv
<1> QED
  BY <1>1, <1>3, <1>5, <1>6, <1>7, TwoOK

LEMMA WaitOK ==
  ASSUME ProcInv, NEW p \in Procs, Wait(p)
  PROVE  ProcInv'
<1>1. Ins(p)[1] \in {"wait", "waitany"}
  BY AtIns DEF Wait
<1>2. Ins(p)[2] \in Offsets(Ins(p)) /\ Ins(p)[1] \notin {"exit", "return", "branch", "execd"}
  BY <1>1 DEF Offsets
<1>3. ProcOK(prog, Go(ps[p]))
  BY <1>2, Goes
<1>4. CASE Step(p, Skip(ps[p], Ins(p)[2]))
  <2>1. ProcOK(prog, Skip(ps[p], Ins(p)[2]))
    BY <1>2, Advance DEF Skip
  <2> QED
    BY <1>4, <2>1, StepOK DEF Step
<1>5. ASSUME NEW c \in Procs, UNCHANGED <<prog, file, sent>>,
             \/ ps' = [ps EXCEPT ![p] = Go(@), ![c].st = "gone"]
             \/ ps' = [ps EXCEPT ![p] = Go(@), ![c].told = TRUE]
      PROVE  ProcInv'
  <2> DEFINE f == [ps EXCEPT ![p] = Go(ps[p])]
             b1 == [f[c] EXCEPT !.st = "gone"]
             b2 == [f[c] EXCEPT !.told = TRUE]
  <2>1. ps' = [f EXCEPT ![c] = b1] \/ ps' = [f EXCEPT ![c] = b2]
    BY <1>5
  <2>2. ProcOK(prog, f[c])
    BY <1>3 DEF ProcInv
  <2> DEFINE q == f[c]
  <2> HIDE DEF q
  <2>3. /\ DOMAIN q = FieldNames /\ q.st \in {"none", "ready", "stopped", "zombie", "gone"}
        /\ q.how \in {"none", "ok", "fail", "killed", "core"} /\ q.parent \in 0 .. NProcs
        /\ q.pend \in Seq(Signals)
    BY <2>2 DEF ProcOK, q
  <2>4. ProcOK(prog, [q EXCEPT !.st = "gone"])
    <3> DEFINE r == [q EXCEPT !.st = "gone"]
    <3>1. /\ DOMAIN r = FieldNames /\ r.st = "gone" /\ r.how = q.how /\ r.parent = q.parent
          /\ r.pend = q.pend /\ r.stk = q.stk /\ r.blk = q.blk /\ r.disp = q.disp
      BY <2>3 DEF FieldNames
    <3>2. ProcOK(prog, q)
      BY <2>2 DEF q
    <3> HIDE DEF r
    <3>3. ProcOK(prog, r)
      BY <2>3, <3>1, <3>2, StatusOK
    <3> QED
      BY <3>3 DEF r
  <2>5. ProcOK(prog, b1) /\ ProcOK(prog, b2)
    <3>1. ProcOK(prog, [q EXCEPT !["told"] = TRUE])
      BY <2>2, FreeField DEF q, FieldNames
    <3> QED
      BY <2>4, <3>1 DEF q
  <2> HIDE DEF b1, b2
  <2>6. prog' = prog /\ sent' = sent
    BY <1>5
  <2> QED
    BY <1>3, <2>1, <2>5, <2>6, TwoOK
<1> QED
  BY <1>4, <1>5 DEF Wait, Children

\* A step of one process that goes on to the next instruction, and changes
\* one of the fields of which nothing is said.
LEMMA GoesWith ==
  ASSUME ProcInv, NEW p \in Procs, Ins(p)[1] \notin {"exit", "return", "branch", "execd"},
         NEW v, NEW f \in FieldNames \ {"st", "how", "parent", "stk", "blk", "pend", "disp"},
         Step(p, [Go(ps[p]) EXCEPT ![f] = v])
  PROVE  ProcInv'
<1>1. ProcOK(prog, Go(ps[p]))
  BY Goes
<1>2. ProcOK(prog, [Go(ps[p]) EXCEPT ![f] = v])
  BY <1>1, FreeField
<1> QED
  BY <1>2, StepOK DEF Step

LEMMA GoOn ==
  ASSUME ProcInv, NEW p \in Procs, Ins(p)[1] # "execd", NEW n \in Offsets(Ins(p)), NEW v,
         Becomes(p, Return(ps[p], n, v)), UNCHANGED <<prog, sent>>
  PROVE  ProcInv'
<1>1. ProcOK(prog, Return(ps[p], n, v))
  BY Advance
<1>2. prog' = prog /\ sent' = sent
  OBVIOUS
<1> QED
  BY <1>1, <1>2, StepOK

\* The calls that change a field of which nothing is said.
LEMMA FieldStepsOK ==
  ASSUME ProcInv, NEW p \in Procs,
         \/ Setsid(p) \/ Limit(p) \/ Store(p) \/ Sigprocmask(p) \/ Arm(p)
  PROVE  ProcInv'
<1> DEFINE free == FieldNames \ {"st", "how", "parent", "stk", "blk", "pend", "disp"}
<1>1. {"sess", "lim", "mem", "mask", "tmr"} \subseteq free
  BY DEF FieldNames
<1>2. Ins(p)[1] \in {"setsid", "limit", "set", "add", "sigblock", "arm"}
  BY AtIns DEF Setsid, Limit, Store, Sigprocmask, Arm
<1>3. Ins(p)[1] \notin {"exit", "return", "branch", "execd"}
  BY <1>2
<1>4. CASE Setsid(p)
  <2>1. Step(p, [Go(ps[p]) EXCEPT !["sess"] = "leader"])
    BY <1>4 DEF Setsid
  <2> QED
    BY <1>1, <1>3, <2>1, GoesWith
<1>5. CASE Limit(p)
  <2>1. Step(p, [Go(ps[p]) EXCEPT !["lim"] = Ins(p)[2]])
    BY <1>5 DEF Limit
  <2> QED
    BY <1>1, <1>3, <2>1, GoesWith
<1>6. CASE Store(p)
  <2>1. PICK v : Step(p, [Go(ps[p]) EXCEPT !["mem"] = v])
    BY <1>6 DEF Store
  <2> QED
    BY <1>1, <1>3, <2>1, GoesWith
<1>7. CASE Sigprocmask(p)
  <2>1. PICK v : Step(p, [Go(ps[p]) EXCEPT !["mask"] = v])
    BY <1>7 DEF Sigprocmask
  <2> QED
    BY <1>1, <1>3, <2>1, GoesWith
<1>8. CASE Arm(p)
  <2>1. PICK v : Step(p, [Go(ps[p]) EXCEPT !["tmr"] = v])
    BY <1>8 DEF Arm
  <2> QED
    BY <1>1, <1>3, <2>1, GoesWith
<1> QED
  BY <1>4, <1>5, <1>6, <1>7, <1>8

\* The jumps, and the calls that only have a result.
LEMMA ControlOK ==
  ASSUME ProcInv, NEW p \in Procs,
         \/ Branch(p) \/ Plain(p) \/ SkipIf(p) \/ SkipRet(p) \/ Load(p) \/ Wake(p) \/ NeedRoot(p)
         \/ Lseek(p) \/ Write(p)
  PROVE  ProcInv'
<1>1. Ins(p)[1] \in {"branch", "io", "mayfail", "skipif", "skipret", "load", "sleep", "needroot",
                     "lseek", "write"}
  BY AtIns DEF Branch, Plain, SkipIf, SkipRet, Load, Wake, NeedRoot, Lseek, Write, Within
<1>2. PICK n, v : Becomes(p, Return(ps[p], n, v)) /\ n \in Offsets(Ins(p))
  <2>1. CASE Branch(p)
    BY <2>1, AtIns DEF Branch, Step, Skip, Offsets
  <2>2. CASE Plain(p) \/ Lseek(p) \/ Write(p)
    <3>1. 0 \in Offsets(Ins(p))
      BY <2>2, AtIns DEF Plain, Lseek, Write, Offsets
    <3> QED
      BY <2>2, <3>1 DEF Plain, Lseek, Write, Step, Go, Skip
  <2>3. CASE Load(p) \/ Wake(p)
    <3>1. 0 \in Offsets(Ins(p))
      BY <2>3, AtIns DEF Load, Wake, Within, Offsets
    <3> QED
      BY <2>3, <3>1 DEF Load, Wake, Step
  <2>4. CASE SkipIf(p)
    <3>1. {0, Ins(p)[5]} \subseteq Offsets(Ins(p))
      BY <2>4, AtIns DEF SkipIf, Offsets
    <3> QED
      BY <2>4, <3>1 DEF SkipIf, Step, Skip
  <2>5. CASE SkipRet(p)
    <3>1. {0, Ins(p)[3]} \subseteq Offsets(Ins(p))
      BY <2>5, AtIns DEF SkipRet, Offsets
    <3> QED
      BY <2>5, <3>1 DEF SkipRet, Step, Skip
  <2>6. CASE NeedRoot(p)
    <3>1. {0, Ins(p)[2]} \subseteq Offsets(Ins(p))
      BY <2>6, AtIns DEF NeedRoot, Offsets
    <3> QED
      BY <2>6, <3>1 DEF NeedRoot, Step, Skip
  <2> QED
    BY <2>1, <2>2, <2>3, <2>4, <2>5, <2>6
<1>3. prog' = prog /\ sent' = sent
  BY DEF Branch, Plain, SkipIf, SkipRet, Load, Wake, NeedRoot, Lseek, Write, Step
<1>4. Ins(p)[1] # "execd"
  BY <1>1
<1> QED
  BY <1>2, <1>3, <1>4, GoOn

\* The end of a process, by exit or because a call fails.
LEMMA EndStepsOK ==
  ASSUME ProcInv, NEW p \in Procs, Exit(p) \/ NoProcessLeft(p) \/ CallFails(p)
  PROVE  ProcInv'
<1>1. Ins(p)[1] \in {"exit", "fork", "mayfail"}
  BY AtIns DEF Exit, NoProcessLeft, CallFails
<1>2. Ins(p)[1] # "execd"
  BY <1>1
<1>3. CASE Exit(p)
  <2>1. Ins(p)[2] \in {"ok", "fail"}
    BY <1>2, <1>3, AtIns, ClosedIns DEF Exit
  <2> QED
    BY <1>3, <2>1, EndsOK DEF Exit
<1>4. CASE NoProcessLeft(p)
  <2>1. Last(Ins(p)) \in {"ok", "fail"}
    BY <1>2, <1>4, AtIns, ClosedIns DEF NoProcessLeft
  <2> QED
    BY <1>4, <2>1, EndsOK DEF NoProcessLeft
<1>5. CASE CallFails(p)
  <2>1. Ins(p)[1] \in {"fork", "mayfail"}
    BY <1>5, AtIns DEF CallFails
  <2>2. CASE Last(Ins(p)) = "ignore"
    <3>1. 0 \in Offsets(Ins(p))
      BY <2>1 DEF Offsets
    <3>2. Becomes(p, Return(ps[p], 0, -1)) /\ prog' = prog /\ sent' = sent
      BY <1>5, <2>2 DEF CallFails, Step
    <3> QED
      BY <1>2, <3>1, <3>2, GoOn
  <2>3. CASE Last(Ins(p)) # "ignore"
    <3>1. Last(Ins(p)) \in {"ok", "fail"}
      BY <1>2, <2>1, <2>3, ClosedIns
    <3> QED
      BY <1>5, <2>3, <3>1, EndsOK DEF CallFails
  <2> QED
    BY <2>2, <2>3
<1> QED
  BY <1>3, <1>4, <1>5

\* exec, and what the user does to the program it starts.
LEMMA ExecOK ==
  ASSUME ProcInv, NEW p \in Procs, Exec(p) \/ Execd(p)
  PROVE  ProcInv'
<1> DEFINE q == ps[p]
<1>1. ProcOK(prog, q) /\ prog \in Programs /\ DOMAIN q = FieldNames
  BY Known DEF ProcOK
<1>2. CASE Exec(p)
  <2>1. Ins(p)[1] = "exec" /\ ~q.blk
    BY <1>2, AtIns DEF Exec
  <2>2. CASE Step(p, Go(q))
    <3>1. ProcOK(prog, Go(q))
      BY <2>1, Goes
    <3> QED
      BY <2>2, <3>1, StepOK DEF Step
  <2> DEFINE d == [s \in Signals |-> IF q.disp[s].h = "IGN" THEN q.disp[s]
                                     ELSE [h |-> "DFL", fl |-> {}]]
             t == <<Frame("execd", {})>>
             r == [q EXCEPT !.stk = t, !.disp = d]
  <2>3. CASE Step(p, r)
    <3>1. DOMAIN d = Signals /\ \A s \in Signals : d[s].h \in {"DFL", "IGN"}
      OBVIOUS
    <3>2. /\ Len(t) = 1 /\ t \in Seq({t[1]}) /\ t[1].r = "execd"
          /\ DOMAIN t[1] = {"r", "pc", "reg", "mask"}
      BY DEF Frame
    <3> HIDE DEF d, t
    <3>3. t \in Seq(Range(t))
      BY <3>2, SeqOfRange
    <3>4. StackOK(prog, t)
      BY <3>2, <3>3 DEF StackOK, FrameOK
    <3>5. /\ DOMAIN r = FieldNames /\ r.st = q.st /\ r.how = q.how /\ r.parent = q.parent
          /\ r.pend = q.pend /\ r.stk = t /\ r.disp = d /\ r.blk = q.blk
      BY <1>1 DEF FieldNames
    <3> HIDE DEF r, q
    <3>6. ProcOK(prog, r)
      BY <1>1, <2>1, <3>1, <3>2, <3>4, <3>5 DEF ProcOK, Dispositions
    <3> QED
      BY <2>3, <3>6, StepOK DEF Step
  <2>4. Step(p, r) \/ Step(p, Go(q))
    <3>1. r = [q EXCEPT !.stk = t, !.disp = [s \in Signals |-> IF @[s].h = "IGN" THEN @[s]
                                                ELSE [h |-> "DFL", fl |-> {}]]]
      BY <1>1 DEF FieldNames
    <3> HIDE DEF r
    <3> QED
      BY <1>2, <3>1 DEF Exec
  <2> QED
    BY <2>2, <2>3, <2>4
<1>3. CASE Execd(p)
  <2>1. ASSUME NEW st \in {"ready", "stopped"}
        PROVE  ProcOK(prog, [q EXCEPT !.st = st, !.told = FALSE])
    <3> DEFINE r == [q EXCEPT !.st = st, !.told = FALSE]
    <3>1. /\ DOMAIN r = FieldNames /\ r.st = st /\ r.how = q.how /\ r.parent = q.parent
          /\ r.pend = q.pend /\ r.stk = q.stk /\ r.blk = q.blk /\ r.disp = q.disp
      BY <1>1 DEF FieldNames
    <3>2. /\ q.how \in {"none", "ok", "fail", "killed", "core"} /\ q.parent \in 0 .. NProcs
          /\ q.pend \in Seq(Signals)
      BY <1>1 DEF ProcOK
    <3> HIDE DEF r, q
    <3>3. ProcOK(prog, r)
      BY <1>1, <3>1, <3>2, StatusOK
    <3> QED
      BY <3>3 DEF r
  <2>2. CASE Ends(p, "ok")
    BY <2>2, EndsOK
  <2>3. ASSUME NEW st \in {"ready", "stopped"},
               Becomes(p, [q EXCEPT !.st = st, !.told = FALSE]),
               prog' = prog, sent' = sent \/ (sent < NSignals /\ sent' = sent + 1)
        PROVE  ProcInv'
    BY <2>1, <2>3, StepOK
  <2> QED
    BY <1>3, <2>2, <2>3 DEF Execd, Step
<1> QED
  BY <1>2, <1>3

\* kill and raise; what kill signals may be no process at all.
LEMMA KillOK ==
  ASSUME ProcInv, NEW p \in Procs, Kill(p)
  PROVE  ProcInv'
<1>1. Ins(p)[1] \in {"kill", "raise"}
  BY AtIns DEF Kill
<1>2. Ins(p)[1] \notin {"exit", "return", "branch", "execd"}
  BY <1>1
<1>3. ProcOK(prog, Go(ps[p])) /\ Ins(p)[2] \in Signals
  BY <1>1, <1>2, Goes, ClosedIns
<1>4. CASE Ins(p)[1] = "raise"
  <2>1. ProcOK(prog, Signalled(Go(ps[p]), Ins(p)[2]))
    BY <1>3, SignalledOK
  <2> QED
    BY <1>4, <2>1, StepOK DEF Kill, Step
<1>5. CASE Ins(p)[1] = "kill"
  <2> DEFINE c == ps[p].mem["pid"]
             f == [ps EXCEPT ![p] = Go(ps[p])]
             b == IF Running(c) THEN Signalled(f[c], Ins(p)[2]) ELSE f[c]
  <2>1. ps' = [f EXCEPT ![c] = b] /\ prog' = prog /\ sent' = sent
    BY <1>5 DEF Kill
  <2>2. CASE c \in Procs
    <3>1. ProcOK(prog, f[c])
      BY <1>3, <2>2 DEF ProcInv
    <3>2. ProcOK(prog, b)
      BY <1>3, <3>1, SignalledOK
    <3> HIDE DEF b, c
    <3> QED
      BY <1>3, <2>1, <3>2, TwoOK
  <2>3. CASE c \notin Procs
    <3>1. DOMAIN f = Procs
      BY DEF ProcInv
    <3> HIDE DEF b, c
    <3>2. ps' = f
      BY <2>1, <2>3, <3>1
    <3> QED
      BY <1>3, <2>1, <3>2, StepOK DEF Becomes
  <2> QED
    BY <2>2, <2>3
<1> QED
  BY <1>1, <1>4, <1>5

\* Calls that block.
LEMMA BlockOK ==
  ASSUME ProcInv, NEW p \in Procs, Block(p)
  PROVE  ProcInv'
<1> DEFINE q == ps[p]
           r == [q EXCEPT !.blk = TRUE]
<1>1. Ins(p)[1] \in Blocking /\ Step(p, r)
  BY AtIns DEF Block, Blocking
<1>2. ProcOK(prog, q) /\ DOMAIN q = FieldNames /\ Ins(p) = TopIns(prog, q.stk)
  BY Known DEF ProcOK
<1>3. /\ DOMAIN r = FieldNames /\ r.st = q.st /\ r.how = q.how /\ r.parent = q.parent
      /\ r.pend = q.pend /\ r.stk = q.stk /\ r.disp = q.disp
  BY <1>2 DEF FieldNames
<1> HIDE DEF r, q
<1>4. ProcOK(prog, r)
  BY <1>1, <1>2, <1>3 DEF ProcOK
<1> QED
  BY <1>1, <1>4, StepOK DEF Step

\* Calls that change what a signal does.
LEMMA SigactionOK ==
  ASSUME ProcInv, NEW p \in Procs, Sigaction(p) \/ SigDefaults(p)
  PROVE  ProcInv'
<1>1. Ins(p)[1] \in {"sigaction", "sigdefaults"}
  BY AtIns DEF Sigaction, SigDefaults
<1>2. Ins(p)[1] \notin {"exit", "return", "branch", "execd"} /\ Ins(p)[1] # "execd"
  BY <1>1
<1>3. ps[p].stk[1].r # "execd" /\ (Ins(p)[1] = "sigaction" => Ins(p)[3] \in Dispositions(prog))
  BY <1>2, ClosedIns
<1> DEFINE q == Go(ps[p])
<1>4. ProcOK(prog, q) /\ q.stk[1].r = ps[p].stk[1].r
  BY <1>2, Goes
<1> HIDE DEF q
<1>5. /\ DOMAIN q = FieldNames /\ DOMAIN q.disp = Signals
      /\ \A s \in Signals : q.disp[s].h \in Dispositions(prog)
  BY <1>4 DEF ProcOK
<1>6. ASSUME NEW d, DOMAIN d = Signals, \A s \in Signals : d[s].h \in Dispositions(prog)
      PROVE  ProcOK(prog, [q EXCEPT !.disp = d])
  <2> DEFINE r == [q EXCEPT !.disp = d]
  <2>1. /\ DOMAIN r = FieldNames /\ r.st = q.st /\ r.how = q.how /\ r.parent = q.parent
        /\ r.pend = q.pend /\ r.stk = q.stk /\ r.disp = d /\ r.blk = q.blk
    BY <1>5 DEF FieldNames
  <2> HIDE DEF r
  <2>2. ProcOK(prog, r)
    BY <1>3, <1>4, <1>6, <2>1 DEF ProcOK
  <2> QED
    BY <2>2 DEF r
<1>7. CASE Sigaction(p)
  <2> DEFINE v == [h |-> Ins(p)[3], fl |-> Ins(p)[4]]
             d == [q.disp EXCEPT ![Ins(p)[2]] = v]
  <2>1. v.h \in Dispositions(prog)
    BY <1>3, <1>7, AtIns DEF Sigaction
  <2>2. Step(p, [q EXCEPT !.disp[Ins(p)[2]] = v])
    BY <1>7 DEF Sigaction, q
  <2> HIDE DEF v
  <2>3. DOMAIN d = Signals /\ \A s \in Signals : d[s].h \in Dispositions(prog)
    BY <1>5, <2>1
  <2>4. [q EXCEPT !.disp[Ins(p)[2]] = v] = [q EXCEPT !.disp = d]
    BY <1>5 DEF FieldNames
  <2> HIDE DEF d
  <2>5. ProcOK(prog, [q EXCEPT !.disp = d])
    BY <1>6, <2>3
  <2> QED
    BY <2>2, <2>4, <2>5, StepOK DEF Step
<1>8. CASE SigDefaults(p)
  <2>1. Step(p, [q EXCEPT !.disp = NoProcess.disp])
    BY <1>8 DEF SigDefaults, q
  <2>2. /\ DOMAIN NoProcess.disp = Signals
        /\ \A s \in Signals : NoProcess.disp[s].h \in Dispositions(prog)
    BY DEF NoProcess, Dispositions
  <2>3. ProcOK(prog, [q EXCEPT !.disp = NoProcess.disp])
    BY <1>6, <2>2
  <2> QED
    BY <2>1, <2>3, StepOK DEF Step
<1> QED
  BY <1>7, <1>8

\* A call that waits for a signal, an access that faults, a timer.
LEMMA SigwaitOK ==
  ASSUME ProcInv, NEW p \in Procs, Sigwait(p)
  PROVE  ProcInv'
<1>1. Ins(p)[1] \in {"sigwait", "sigtimedwait"}
  BY AtIns DEF Sigwait, Within
<1>2. Ins(p)[1] \notin {"exit", "return", "branch", "execd"} /\ Ins(p)[1] # "execd"
  BY <1>1
<1> DEFINE q == Go(ps[p])
<1>3. ProcOK(prog, q) /\ q.pend = ps[p].pend
  BY <1>2, Goes DEF FieldNames
<1> HIDE DEF q
<1>4. ASSUME NEW i \in DOMAIN ps[p].pend, Step(p, [q EXCEPT !.pend = Without(@, i)])
      PROVE  ProcInv'
  <2>1. DOMAIN q = FieldNames
    BY <1>3 DEF ProcOK
  <2>2. Step(p, [q EXCEPT !.pend = Without(q.pend, i)])
    BY <1>4, <2>1 DEF FieldNames
  <2>3. ProcOK(prog, [q EXCEPT !.pend = Without(q.pend, i)])
    BY <1>3, <1>4, TakenOK
  <2> QED
    BY <2>2, <2>3, StepOK DEF Step
<1>5. CASE Ins(p)[1] = "sigtimedwait" /\ Step(p, Skip(ps[p], Ins(p)[3]))
  <2>1. Ins(p)[3] \in Offsets(Ins(p))
    BY <1>5 DEF Offsets
  <2>2. PICK v : Becomes(p, Return(ps[p], Ins(p)[3], v)) /\ prog' = prog /\ sent' = sent
    BY <1>5 DEF Step, Skip
  <2> QED
    BY <1>2, <2>1, <2>2, GoOn
<1> QED
  BY <1>4, <1>5 DEF Sigwait, q

LEMMA FaultOK ==
  ASSUME ProcInv, NEW p \in Procs, Fault(p)
  PROVE  ProcInv'
<1>1. ProcOK(prog, Signalled(ps[p], "SEGV"))
  BY Known, SignalledOK, SentSignals
<1> QED
  BY <1>1, StepOK DEF Fault, Step

LEMMA ExpireOK ==
  ASSUME ProcInv, NEW s \in TimerSignals, Expire(1, s)
  PROVE  ProcInv'
<1>1. 1 \in Procs /\ s \in Signals
  BY ProcessesConstants, SentSignals DEF Procs
<1> DEFINE q == Signalled(ps[1], s)
<1>2. ProcOK(prog, q)
  BY <1>1, Known, SignalledOK
<1>3. PICK v : Step(1, [q EXCEPT !["tmr"] = v])
  BY DEF Expire
<1> HIDE DEF q
<1>4. ProcOK(prog, [q EXCEPT !["tmr"] = v])
  BY <1>2, FreeField DEF FieldNames
<1> QED
  BY <1>1, <1>3, <1>4, StepOK DEF Step

LEMMA UserSignalOK ==
  ASSUME ProcInv, UserSignal
  PROVE  ProcInv'
<1>1. 1 \in Procs /\ prog \in Programs /\ prog' = prog /\ sent < NSignals /\ sent' = sent + 1
  BY ProcessesConstants DEF Procs, ProcInv, UserSignal
<1>2. PICK s \in UserSignals[prog] : Becomes(1, Signalled(ps[1], s))
  BY DEF UserSignal
<1>3. s \in Signals
  BY <1>1, <1>2, ProgramsClosed
<1>4. ProcOK(prog, Signalled(ps[1], s))
  BY <1>1, <1>3, Known, SignalledOK
<1> QED
  BY <1>1, <1>2, <1>4, StepOK

\* A handler starts: the call it interrupts, if any, is over.
LEMMA HandlesOK ==
  ASSUME NEW g \in Programs, NEW q, ProcOK(g, q), NEW s \in Signals,
         q.disp[s].h \notin {"DFL", "IGN"}
  PROVE  ProcOK(g, Handles(q, s, TopIns(g, q.stk)))
<1> DEFINE ins == TopIns(g, q.stk)
           h == q.disp[s].h
           w == Interrupted(q, ins)
<1>1. /\ h \in DOMAIN Code[g] \ {"main"} /\ q.stk[1].r # "execd"
      /\ StackOK(g, q.stk) /\ DOMAIN q = FieldNames
      /\ q.blk => ins[1] \in Blocking
  BY DEF ProcOK, Dispositions
<1>2. ProcOK(g, w) /\ ~w.blk /\ w.stk[1].r # "execd"
  <2>1. CASE ~q.blk
    BY <1>1, <2>1 DEF Interrupted
  <2>2. CASE q.blk
    <3>1. ins[1] \in Blocking
      BY <1>1, <2>2
    <3>2. 1 \in 1 .. Len(q.stk)
      BY <1>1, LenProperties DEF StackOK
    <3> HIDE DEF ins
    <3>3. PICK n : w = Return(q, n, -1) /\ n \in Offsets(ins)
      BY <2>2, <3>1 DEF Interrupted, Offsets, Blocking
    <3>4. ins[1] # "execd"
      BY <3>1 DEF Blocking
    <3>5. ProcOK(g, Return(q, n, -1))
      BY <3>3, <3>4, ReturnOK DEF ins
    <3>6. Return(q, n, -1).stk[1].r = q.stk[1].r
      BY <3>2, <3>3, <3>4, ReturnOK DEF ins
    <3>7. Return(q, n, -1).blk = FALSE
      BY <1>1 DEF Return, FieldNames
    <3> QED
      BY <1>1, <3>3, <3>5, <3>6, <3>7
  <2> QED
    BY <2>1, <2>2
<1> HIDE DEF w
<1>3. DOMAIN w = FieldNames
  BY <1>2 DEF ProcOK
<1>4. PICK m, n : Handles(q, s, ins) = [w EXCEPT !.stk = Append(w.stk, Frame(h, m)), !.mask = n]
  BY <1>3 DEF Handles, w, FieldNames
<1> HIDE DEF h, ins
<1>5. ProcOK(g, [w EXCEPT !.stk = Append(w.stk, Frame(h, m)), !.mask = n])
  BY <1>1, <1>2, PushOK
<1> QED
  BY <1>4, <1>5 DEF ins

LEMMA DeliverOK ==
  ASSUME ProcInv, NEW p \in Procs, Deliver(p)
  PROVE  ProcInv'
<1>1. prog \in Programs /\ ProcOK(prog, ps[p]) /\ Ins(p) = TopIns(prog, ps[p].stk)
  BY Known
<1>2. DOMAIN ps[p] = FieldNames /\ ps[p].pend \in Seq(Signals)
  BY <1>1 DEF ProcOK
<1>3. PICK i \in DOMAIN ps[p].pend :
        LET s == ps[p].pend[i]
            q == [ps[p] EXCEPT !.pend = Without(@, i)]
        IN  IF Ignores(q, s) THEN Step(p, q)
            ELSE IF q.disp[s].h = "DFL"
            THEN Ends(p, IF s \in CoreDump THEN "core" ELSE "killed")
            ELSE Step(p, Handles(q, s, Ins(p)))
  BY DEF Deliver, NextSignals, Deliverable
<1> DEFINE s == ps[p].pend[i]
           q == [ps[p] EXCEPT !.pend = Without(ps[p].pend, i)]
<1>4. q = [ps[p] EXCEPT !.pend = Without(@, i)]
  BY <1>2 DEF FieldNames
<1>5. ProcOK(prog, q) /\ q.stk = ps[p].stk
  BY <1>1, TakenOK DEF FieldNames
<1>6. s \in Signals
  BY <1>2, ElementOfSeq
<1> HIDE DEF q, s
<1>7. IF Ignores(q, s) THEN Step(p, q)
      ELSE IF q.disp[s].h = "DFL"
      THEN Ends(p, IF s \in CoreDump THEN "core" ELSE "killed")
      ELSE Step(p, Handles(q, s, Ins(p)))
  BY <1>3, <1>4 DEF s
<1>8. CASE Ignores(q, s)
  BY <1>5, <1>7, <1>8, StepOK DEF Step
<1>9. CASE ~Ignores(q, s) /\ q.disp[s].h = "DFL"
  BY <1>7, <1>9, EndsOK
<1>10. CASE ~Ignores(q, s) /\ q.disp[s].h # "DFL"
  <2>1. q.disp[s].h \notin {"DFL", "IGN"}
    BY <1>10 DEF Ignores
  <2>2. ProcOK(prog, Handles(q, s, Ins(p)))
    BY <1>1, <1>5, <1>6, <2>1, HandlesOK
  <2> QED
    BY <1>7, <1>10, <2>2, StepOK DEF Step
<1> QED
  BY <1>8, <1>9, <1>10

LEMMA HandlerReturnsOK ==
  ASSUME ProcInv, NEW p \in Procs, HandlerReturns(p)
  PROVE  ProcInv'
<1> DEFINE q == ps[p]
<1>1. prog \in Programs /\ ProcOK(prog, q) /\ Ins(p) = TopIns(prog, q.stk) /\ DOMAIN q = FieldNames
  BY Known DEF ProcOK
<1>2. Ins(p)[1] = "return" /\ ~q.blk
  BY AtIns DEF HandlerReturns
<1>3. PICK n : Step(p, [q EXCEPT !.mask = n, !.stk = Front(q.stk)])
  BY <1>1 DEF HandlerReturns, FieldNames
<1> HIDE DEF q
<1>4. ProcOK(prog, [q EXCEPT !.mask = n, !.stk = Front(q.stk)])
  BY <1>1, <1>2, PopOK
<1> QED
  BY <1>3, <1>4, StepOK DEF Step

-----------------------------------------------------------------------------
(* Credentials                                                             *)

\* Changes of user ids leave the rest alone.
LEMMA WithIdsSame ==
  ASSUME NEW q, DOMAIN q = FieldNames, NEW a, NEW b, NEW c
  PROVE  /\ DOMAIN WithIds(q, a, b, c) = FieldNames
         /\ \A f \in FieldNames \ {"uid", "eff", "prm"} : WithIds(q, a, b, c)[f] = q[f]
<1>1. PICK x, y, z : WithIds(q, a, b, c) = [q EXCEPT !.uid = x, !.prm = y, !.eff = z]
  BY DEF WithIds
<1> QED
  BY <1>1 DEF FieldNames

LEMMA SetUidOK ==
  ASSUME ProcInv, NEW p \in Procs, SetUid(p)
  PROVE  ProcInv'
<1> DEFINE q == ps[p]
<1>1. prog \in Programs /\ ProcOK(prog, q) /\ Ins(p) = TopIns(prog, q.stk) /\ DOMAIN q = FieldNames
  BY Known DEF ProcOK
<1>2. Ins(p)[1] \in {"seteuid", "setuid", "setresuid"}
  BY AtIns DEF SetUid
<1>3. {0, Ins(p)[3]} \subseteq Offsets(Ins(p)) /\ Ins(p)[1] # "execd"
  BY <1>2 DEF Offsets
<1>4. PICK u : Step(p, IF Permitted(q, u) THEN Go(SetIds(q, Ins(p)[1], u)) ELSE Skip(q, Ins(p)[3]))
  BY DEF SetUid
<1>5. CASE Permitted(q, u)
  <2> DEFINE w == SetIds(q, Ins(p)[1], u)
  <2>1. PICK a, b, c : w = WithIds(q, a, b, c)
    BY <1>2 DEF SetIds
  <2> HIDE DEF w, q
  <2>2. DOMAIN w = FieldNames /\ \A f \in FieldNames \ {"uid", "eff", "prm"} : w[f] = q[f]
    BY <1>1, <2>1, WithIdsSame
  <2>3. /\ w.st = q.st /\ w.how = q.how /\ w.parent = q.parent /\ w.stk = q.stk
        /\ w.blk = q.blk /\ w.pend = q.pend /\ w.disp = q.disp
    BY <2>2 DEF FieldNames
  <2>4. ProcOK(prog, w)
    BY <1>1, <2>2, <2>3, SameProc
  <2>5. PICK v : Go(w) = Return(w, 0, v)
    BY DEF Go, Skip
  <2>6. TopIns(prog, w.stk) = Ins(p)
    BY <1>1, <2>3
  <2>7. ProcOK(prog, Return(w, 0, v))
    BY <1>1, <1>3, <2>4, <2>6, ReturnOK
  <2>8. Step(p, Return(w, 0, v))
    BY <1>4, <1>5, <2>5 DEF w
  <2> QED
    BY <2>7, <2>8, StepOK DEF Step
<1>6. CASE ~Permitted(q, u)
  <2>1. PICK v : Becomes(p, Return(q, Ins(p)[3], v)) /\ prog' = prog /\ sent' = sent
    BY <1>4, <1>6 DEF Step, Skip
  <2> QED
    BY <1>3, <2>1, GoOn
<1> QED
  BY <1>5, <1>6

LEMMA CapsOK ==
  ASSUME ProcInv, NEW p \in Procs, DropCaps(p) \/ RaiseCap(p)
  PROVE  ProcInv'
<1>1. Ins(p)[1] \in {"dropcaps", "raisecap"}
  BY AtIns DEF DropCaps, RaiseCap
<1>2. Ins(p)[1] \notin {"exit", "return", "branch", "execd"} /\ Ins(p)[1] # "execd"
  BY <1>1
<1> DEFINE q == Go(ps[p])
<1>3. ProcOK(prog, q) /\ DOMAIN q = FieldNames
  BY <1>2, Goes DEF ProcOK
<1>4. CASE DropCaps(p)
  <2> DEFINE r == [q EXCEPT !["eff"] = FALSE]
  <2>1. Step(p, [r EXCEPT !["prm"] = FALSE])
    BY <1>4 DEF DropCaps
  <2> HIDE DEF q
  <2>2. ProcOK(prog, r)
    BY <1>3, FreeField DEF FieldNames
  <2> HIDE DEF r
  <2>3. ProcOK(prog, [r EXCEPT !["prm"] = FALSE])
    BY <2>2, FreeField DEF FieldNames
  <2> QED
    BY <2>1, <2>3, StepOK DEF Step
<1>5. CASE RaiseCap(p) /\ ps[p].prm
  <2>1. Step(p, [q EXCEPT !["eff"] = TRUE])
    BY <1>5 DEF RaiseCap
  <2> QED
    BY <1>2, <2>1, GoesWith DEF FieldNames
<1>6. CASE RaiseCap(p) /\ ~ps[p].prm
  <2>1. Ins(p)[2] \in Offsets(Ins(p))
    BY <1>6, AtIns DEF RaiseCap, Offsets
  <2>2. PICK v : Becomes(p, Return(ps[p], Ins(p)[2], v)) /\ prog' = prog /\ sent' = sent
    BY <1>6 DEF RaiseCap, Step, Skip
  <2> QED
    BY <1>2, <2>1, <2>2, GoOn
<1> QED
  BY <1>4, <1>5, <1>6

-----------------------------------------------------------------------------
(* The invariant                                                           *)

LEMMA ProcInit == Init => ProcInv
<1> SUFFICES ASSUME Init PROVE ProcInv
  OBVIOUS
<1>1. PICK start \in Starts[prog] : ps = [p \in Procs |-> IF p = 1 THEN start ELSE NoProcess]
  BY DEF Init
<1>2. prog \in Programs /\ sent = 0 /\ sent \in 0 .. NSignals
  BY ProcessesConstants DEF Init
<1>3. ProcOK(prog, NoProcess) /\ DOMAIN NoProcess = FieldNames /\ NoProcess.stk[1].r = "main"
  BY <1>2, NoProcessOK DEF ProcOK, NoProcess, Frame
<1>4. Startable(start)
  BY <1>1, <1>2, ProgramsClosed
<1>5. StackOK(prog, NoProcess.stk)
  BY <1>3 DEF ProcOK
<1>6. ProcOK(prog, start)
  <2>1. /\ start.st = "ready" /\ start.how = "none" /\ start.parent \in 0 .. NProcs /\ ~start.blk
        /\ start.stk = NoProcess.stk /\ start.pend \in Seq(Signals) /\ DOMAIN start = FieldNames
    BY <1>3, <1>4, ProcessesConstants DEF Startable
  <2>2. DOMAIN start.disp = Signals /\ \A s \in Signals : start.disp[s].h \in {"DFL", "IGN"}
    BY <1>4 DEF Startable
  <2>3. start.stk[1].r = "main"
    BY <1>3, <2>1
  <2> QED
    BY <1>5, <2>1, <2>2, <2>3 DEF ProcOK, Dispositions
<1> QED
  BY <1>1, <1>2, <1>3, <1>6 DEF ProcInv

LEMMA ProcNext == ProcInv /\ [Next]_vars => ProcInv'
<1> SUFFICES ASSUME ProcInv, [Next]_vars PROVE ProcInv'
  OBVIOUS
<1>1. ASSUME NEW p \in Procs, ProcStep(p) PROVE ProcInv'
  BY <1>1, ForkOK, EndStepsOK, ExecOK, WaitOK, FieldStepsOK, ControlOK, BlockOK, SigactionOK,
     SigwaitOK, KillOK, FaultOK, DeliverOK, HandlerReturnsOK, SetUidOK, CapsOK DEF ProcStep
<1>2. ASSUME NEW p \in Procs, CallFails(p) PROVE ProcInv'
  BY <1>2, EndStepsOK
<1>3. ASSUME NEW p \in Procs, Execd(p) PROVE ProcInv'
  BY <1>3, ExecOK
<1>4. ASSUME NEW s \in TimerSignals, Expire(1, s) PROVE ProcInv'
  BY <1>4, ExpireOK
<1>5. CASE UserSignal
  BY <1>5, UserSignalOK
<1>6. CASE UNCHANGED vars
  BY <1>6 DEF vars, ProcInv
<1> QED
  BY <1>1, <1>2, <1>3, <1>4, <1>5, <1>6 DEF Next

\* The inductive invariant of the processes: every frame of every stack is at
\* an instruction of its routine, handlers run only on top of main, a program
\* that exec started has none, and a process blocks only in a call that a
\* signal can interrupt.
THEOREM ProcessInvariant == Spec => []ProcInv
  BY ProcInit, ProcNext, PTL DEF Spec

\* Type correctness of the process programs: whatever interrupts a routine,
\* forks, fails or ends, no process runs off the code of its routine, and
\* only signals of the table are ever pending (TypeOK), for every closed
\* table of programs and any number of processes and signals.
THEOREM ProcessTypeCorrect == Spec => []TypeOK
<1>1. ProcInv => TypeOK
  <2> SUFFICES ASSUME ProcInv PROVE TypeOK
    OBVIOUS
  <2>1. prog \in Programs /\ prog \in DOMAIN TheCode /\ sent \in 0 .. NSignals
    BY ProgramsClosed DEF ProcInv, TheCode
  <2>2. ASSUME NEW p \in Procs
        PROVE  /\ ps[p].st \in {"none", "ready", "stopped", "zombie", "gone"}
               /\ ps[p].how \in {"none", "ok", "fail", "killed", "core"}
               /\ ps[p].parent \in 0 .. NProcs /\ ToSet(ps[p].pend) \subseteq Signals
               /\ \A i \in DOMAIN ps[p].stk : FrameOK(prog, ps[p].stk[i])
    <3>1. ProcOK(prog, ps[p]) /\ ps[p].pend \in Seq(Signals) /\ StackOK(prog, ps[p].stk)
      BY Known DEF ProcOK
    <3>2. ToSet(ps[p].pend) \subseteq Signals
      BY <3>1, ElementOfSeq, LenProperties DEF ToSet
    <3>3. DOMAIN ps[p].stk = 1 .. Len(ps[p].stk)
      BY <3>1, LenProperties DEF StackOK
    <3> QED
      BY <3>1, <3>2, <3>3 DEF ProcOK, StackOK
  <2> QED
    BY <2>1, <2>2 DEF TypeOK, FrameOK, TheCode
<1> QED
  BY <1>1, ProcessInvariant, PTL

-----------------------------------------------------------------------------
(* Privileges                                                              *)

CredentialDemos == {"setuid_demo", "savedset", "set_pcap"}

\* What is known of the ids and capabilities of a demo whose main is at pc
IdsOK(g, pc, how, u, eff, prm) ==
    /\ g = "setuid_demo" =>
         /\ eff => prm
         /\ prm => 0 \in {u.r, u.e, u.s}
         /\ pc = 5 => u.e = u.r /\ u.s = u.r
         /\ pc = 6 \/ how = "ok" => u.r = 0
    /\ g = "savedset" =>
         /\ pc = 1 => u.s = u.e
         /\ pc \in 2 .. 6 => u.s = 0
         /\ pc = 6 => u.e = u.r
         /\ how = "ok" => u.e = u.r /\ u.s = 0
    /\ g = "set_pcap" =>
         /\ u.s = u.r
         /\ pc \in 9 .. 12 => ~eff /\ ~prm
         /\ pc \in 10 .. 12 => u.e = u.r

\* The one process of a demo: main, and boing on top of it
DemoOK(g, q) ==
    /\ q.st \in {"ready", "gone"} /\ q.parent = 0 /\ q.tmr = {}
    /\ q.st = "ready" => q.how = "none"
    /\ q.stk[1].r = "main" /\ \A i \in 2 .. Len(q.stk) : q.stk[i].r = "boing"
    /\ q.eff \in BOOLEAN /\ q.prm \in BOOLEAN
    /\ IdsOK(g, q.stk[1].pc, q.how, q.uid, q.eff, q.prm)

CredInv ==
    prog \in CredentialDemos =>
        /\ DemoOK(prog, ps[1])
        /\ \A p \in Procs \ {1} : ps[p].st = "none" /\ ps[p].stk[1].r = "main"

\* The instructions of the demos.
LEMMA SetuidDemoCode ==
  /\ DOMAIN setuid_demo_main = 1 .. 7
  /\ setuid_demo_main[1] = <<"seteuid", 1, 5>> /\ setuid_demo_main[2] = <<"seteuid", 0, 4>>
  /\ setuid_demo_main[3] = <<"seteuid", 1, 3>> /\ setuid_demo_main[4] = <<"setresuid", -1, 2>>
  /\ setuid_demo_main[5] = <<"setuid", 0, 1>> /\ setuid_demo_main[6] = <<"exit", "ok">>
  /\ setuid_demo_main[7] = <<"exit", "fail">>
  BY DEF setuid_demo_main, Self

LEMMA SavedsetCode ==
  /\ DOMAIN savedset_main = 1 .. 7
  /\ savedset_main[1] = <<"needroot", 5>> /\ savedset_main[2] = <<"seteuid", -1, 4>>
  /\ savedset_main[3] = <<"seteuid", 0, 3>> /\ savedset_main[4] = <<"needroot", 2>>
  /\ savedset_main[5] = <<"seteuid", -1, 1>> /\ savedset_main[6] = <<"exit", "ok">>
  /\ savedset_main[7] = <<"exit", "fail">>
  BY DEF savedset_main, Self

LEMMA SetPcapCode ==
  /\ DOMAIN set_pcap_main = 1 .. 13
  /\ set_pcap_main[1] = <<"mayfail", "fail">>
  /\ set_pcap_main[2] = <<"sigaction", "INT", "boing", {}>>
  /\ set_pcap_main[3] = <<"mayfail", "fail">> /\ set_pcap_main[4] = <<"raisecap", 8>>
  /\ set_pcap_main[5] = <<"pause">> /\ set_pcap_main[6] = <<"seteuid", 0, 0>>
  /\ set_pcap_main[7] = <<"mayfail", "fail">> /\ set_pcap_main[8] = <<"dropcaps">>
  /\ set_pcap_main[9] = <<"setuid", -1, 3>> /\ set_pcap_main[10] = <<"seteuid", 0, 0>>
  /\ set_pcap_main[11] = <<"pause">> /\ set_pcap_main[12] = <<"exit", "ok">>
  /\ set_pcap_main[13] = <<"exit", "fail">>
  BY DEF set_pcap_main, trap, test_setuid, drop_caps_be_normal, Self

LEMMA BoingCode ==
  DOMAIN boing = 1 .. 2 /\ boing[1] = <<"io">> /\ boing[2] = <<"return">>
  BY DEF boing, prints

\* What main executes at pc i
DemoIns(g, i, ins) ==
    /\ g = "setuid_demo" => i \in 1 .. 7 /\ ins = setuid_demo_main[i]
    /\ g = "savedset" => i \in 1 .. 7 /\ ins = savedset_main[i]
    /\ g = "set_pcap" => i \in 1 .. 13 /\ ins = set_pcap_main[i]

\* Where the process of a demo is.
LEMMA DemoAt ==
  ASSUME ProcInv, CredInv, prog \in CredentialDemos
  PROVE  /\ 1 \in Procs /\ ProcOK(prog, ps[1]) /\ DemoOK(prog, ps[1])
         /\ Len(ps[1].stk) \in Nat /\ Len(ps[1].stk) >= 1
         /\ Len(ps[1].stk) = 1 => DemoIns(prog, ps[1].stk[1].pc, Ins(1))
         /\ Len(ps[1].stk) > 1 => prog = "set_pcap" /\ Ins(1)[1] \in {"io", "return"}
<1> DEFINE s == ps[1].stk
           k == Len(s)
<1>1. 1 \in Procs
  BY ProcessesConstants DEF Procs
<1>2. /\ prog \in Programs /\ ProcOK(prog, ps[1]) /\ Ins(1) = TopIns(prog, s)
      /\ DemoOK(prog, ps[1])
  BY <1>1, Known DEF CredInv
<1>3. StackOK(prog, s) /\ k \in Nat /\ k >= 1
  BY <1>2, LenProperties DEF ProcOK, StackOK
<1>4. FrameOK(prog, s[k]) /\ FrameOK(prog, s[1])
  BY <1>3 DEF StackOK
<1>5. s[1].r = "main" /\ \A i \in 2 .. k : s[i].r = "boing"
  BY <1>2 DEF DemoOK
<1>6. ASSUME k = 1 PROVE DemoIns(prog, s[1].pc, Ins(1))
  <2>1. /\ Ins(1) = Code[prog]["main"][s[1].pc] /\ s[1].pc \in DOMAIN Code[prog]["main"]
    BY <1>2, <1>4, <1>5, <1>6 DEF TopIns, FrameOK
  <2>2. CASE prog = "setuid_demo"
    BY <1>2, <2>1, <2>2, CredentialPrograms, SetuidDemoCode DEF DemoIns
  <2>3. CASE prog = "savedset"
    BY <1>2, <2>1, <2>3, CredentialPrograms, SavedsetCode DEF DemoIns
  <2>4. CASE prog = "set_pcap"
    BY <1>2, <2>1, <2>4, CredentialPrograms, SetPcapCode DEF DemoIns
  <2> QED
    BY <2>2, <2>3, <2>4 DEF CredentialDemos
<1>7. ASSUME k > 1 PROVE prog = "set_pcap" /\ Ins(1)[1] \in {"io", "return"}
  <2>1. s[k].r = "boing"
    BY <1>3, <1>5, <1>7
  <2>2. /\ Ins(1) = Code[prog]["boing"][s[k].pc] /\ s[k].pc \in DOMAIN Code[prog]["boing"]
        /\ "boing" \in DOMAIN Code[prog]
    BY <1>2, <1>4, <2>1 DEF TopIns, FrameOK
  <2>3. prog = "set_pcap"
    BY <1>2, <2>2, CredentialPrograms DEF CredentialDemos
  <2>4. Ins(1)[1] \in {"io", "return"}
    BY <1>2, <2>2, <2>3, CredentialPrograms, BoingCode
  <2> QED
    BY <2>3, <2>4
<1> QED
  BY <1>1, <1>2, <1>3, <1>6, <1>7, Zenon

\* Main goes on, unless a handler is on top of it.
LEMMA ReturnMain ==
  ASSUME NEW g, NEW q, ProcOK(g, q), NEW n, NEW v
  PROVE  LET r == Return(q, n, v) IN
         /\ DOMAIN r = FieldNames /\ \A f \in FieldNames \ {"stk", "blk"} : r[f] = q[f]
         /\ Len(r.stk) = Len(q.stk) /\ \A i \in 1 .. Len(q.stk) : r.stk[i].r = q.stk[i].r
         /\ Len(q.stk) = 1 => r.stk[1].pc = q.stk[1].pc + 1 + n
         /\ Len(q.stk) # 1 => r.stk[1].pc = q.stk[1].pc
<1> DEFINE s == q.stk
           k == Len(s)
           f == s[k]
           e == [f EXCEPT !.pc = f.pc + 1 + n, !.reg = v]
           t == [s EXCEPT ![k] = e]
           r == Return(q, n, v)
<1>1. /\ DOMAIN q = FieldNames /\ s \in Seq(Range(s)) /\ k \in Nat /\ k >= 1 /\ DOMAIN s = 1 .. k
      /\ FrameOK(g, f)
  BY LenProperties DEF ProcOK, StackOK
<1>2. e.r = f.r /\ e.pc = f.pc + 1 + n
  BY <1>1 DEF FrameOK
<1>3. r = [q EXCEPT !.stk = t, !.blk = FALSE]
  BY DEF Return, Top
<1> HIDE DEF e
<1>4. t[k] = e /\ \A i \in 1 .. k : i # k => t[i] = s[i]
  BY <1>1
<1>5. Len(t) = k
  <2>1. s \in Seq(Range(s) \cup {e}) /\ k \in 1 .. Len(s)
    BY <1>1, SeqMonotonic
  <2> QED
    BY <2>1, ExceptSeq
<1> HIDE DEF t
<1>6. \A i \in 1 .. k : t[i].r = s[i].r
  BY <1>1, <1>2, <1>4
<1>7. (k = 1 => t[1].pc = s[1].pc + 1 + n) /\ (k # 1 => t[1].pc = s[1].pc)
  <2>1. k = 1 => t[1] = e /\ f = s[1]
    <3> HIDE DEF k
    <3> QED
      BY <1>4
  <2>2. k # 1 => t[1] = s[1]
    <3>1. 1 \in 1 .. k
      BY <1>1
    <3> HIDE DEF k
    <3> QED
      BY <1>4, <3>1
  <2> HIDE DEF k, f, s
  <2> QED
    BY <1>2, <2>1, <2>2, Zenon
<1>8. /\ DOMAIN r = FieldNames /\ r.stk = t
      /\ \A x \in FieldNames \ {"stk", "blk"} : r[x] = q[x]
  BY <1>1, <1>3 DEF FieldNames
<1> HIDE DEF r
<1> QED
  BY <1>5, <1>6, <1>7, <1>8 DEF r

\* Nothing is said of the other fields of a demo's process.
LEMMA DemoSame ==
  ASSUME NEW g, NEW q, NEW r, DemoOK(g, q), r.st = q.st, r.how = q.how, r.parent = q.parent,
         r.tmr = q.tmr, r.stk = q.stk, r.uid = q.uid, r.eff = q.eff, r.prm = q.prm
  PROVE  DemoOK(g, r)
  BY DEF DemoOK

\* The process goes on, to where its ids are as they should be.
LEMMA DemoReturn ==
  ASSUME NEW g, NEW q, ProcOK(g, q), DemoOK(g, q), NEW n, NEW v,
         Len(q.stk) = 1 => IdsOK(g, q.stk[1].pc + 1 + n, q.how, q.uid, q.eff, q.prm)
  PROVE  DemoOK(g, Return(q, n, v))
<1> DEFINE r == Return(q, n, v)
<1>1. /\ Len(r.stk) = Len(q.stk) /\ \A i \in 1 .. Len(q.stk) : r.stk[i].r = q.stk[i].r
      /\ Len(q.stk) = 1 => r.stk[1].pc = q.stk[1].pc + 1 + n
      /\ Len(q.stk) # 1 => r.stk[1].pc = q.stk[1].pc
  BY ReturnMain
<1>2. \A f \in FieldNames \ {"stk", "blk"} : r[f] = q[f]
  BY ReturnMain
<1>3. /\ r.st = q.st /\ r.how = q.how /\ r.parent = q.parent /\ r.tmr = q.tmr /\ r.uid = q.uid
      /\ r.eff = q.eff /\ r.prm = q.prm
  BY <1>2 DEF FieldNames
<1>4. Len(q.stk) \in Nat /\ Len(q.stk) >= 1
  BY LenProperties DEF ProcOK, StackOK
<1> HIDE DEF r
<1>5. IdsOK(g, r.stk[1].pc, r.how, r.uid, r.eff, r.prm)
  BY <1>1, <1>3 DEF DemoOK
<1>6. r.stk[1].r = "main" /\ \A i \in 2 .. Len(r.stk) : r.stk[i].r = "boing"
  BY <1>1, <1>4 DEF DemoOK
<1>7. DemoOK(g, r)
  BY <1>3, <1>5, <1>6 DEF DemoOK
<1> QED
  BY <1>7 DEF r

\* A step of that process.
LEMMA DemoStep ==
  ASSUME ProcInv, CredInv, prog \in CredentialDemos, NEW q, DemoOK(prog, q), Becomes(1, q),
         prog' = prog
  PROVE  CredInv'
<1>1. 1 \in Procs
  BY ProcessesConstants DEF Procs
<1>2. ps'[1] = q /\ \A p \in Procs \ {1} : ps'[p] = ps[p]
  BY <1>1 DEF Becomes, ProcInv
<1> QED
  BY <1>2 DEF CredInv

\* The end of that process.
LEMMA DemoEnds ==
  ASSUME ProcInv, CredInv, prog \in CredentialDemos, NEW how, Ends(1, how),
         how = "ok" => IdsOK(prog, ps[1].stk[1].pc, "ok", ps[1].uid, ps[1].eff, ps[1].prm)
  PROVE  CredInv'
<1> DEFINE q == ps[1]
           r == [q EXCEPT !.st = "gone", !.how = how, !.pend = <<>>, !.tmr = {}]
<1>1. /\ 1 \in Procs /\ ProcOK(prog, q) /\ DemoOK(prog, q) /\ DOMAIN q = FieldNames
      /\ ps' = Ended(1, how) /\ prog' = prog
  BY DemoAt DEF Ends, ProcOK
<1>2. ps'[1] = r
  <2>1. Reaped(1)
    BY <1>1 DEF Reaped, DemoOK
  <2> QED
    BY <1>1, <2>1 DEF Ended, Corpse
<1>3. ASSUME NEW p \in Procs \ {1} PROVE ps'[p] = ps[p]
  <2>1. p \notin Children(1) /\ p # ps[1].parent
    BY <1>1, ProcessesConstants DEF Children, Exists, CredInv, DemoOK, Procs
  <2> QED
    BY <1>1, <2>1 DEF Ended
<1>4. /\ r.st = "gone" /\ r.how = how /\ r.parent = q.parent /\ r.tmr = {} /\ r.stk = q.stk
      /\ r.uid = q.uid /\ r.eff = q.eff /\ r.prm = q.prm
  BY <1>1 DEF FieldNames
<1> HIDE DEF r, q
<1>5. IdsOK(prog, q.stk[1].pc, how, q.uid, q.eff, q.prm)
  <2>1. CASE how = "ok"
    BY <2>1 DEF q
  <2>2. CASE how # "ok"
    BY <1>1, <2>2 DEF DemoOK, IdsOK
  <2> QED
    BY <2>1, <2>2
<1>6. DemoOK(prog, r)
  BY <1>1, <1>4, <1>5 DEF DemoOK
<1> QED
  BY <1>1, <1>2, <1>3, <1>6 DEF CredInv

\* What a change of ids does to the capability.
LEMMA SetIdsEffect ==
  ASSUME NEW q, DOMAIN q = FieldNames, q.eff \in BOOLEAN, q.prm \in BOOLEAN, NEW u,
         NEW call \in {"seteuid", "setuid", "setresuid"}
  PROVE  LET r == SetIds(q, call, u) IN
         /\ DOMAIN r = FieldNames
         /\ \A f \in FieldNames \ {"uid", "eff", "prm"} : r[f] = q[f]
         /\ r.eff \in BOOLEAN /\ r.prm \in BOOLEAN /\ (r.eff => r.prm) /\ (r.prm => q.prm)
         /\ r.prm /\ 0 \in {q.uid.r, q.uid.e, q.uid.s} => 0 \in {r.uid.r, r.uid.e, r.uid.s}
         /\ call = "seteuid" => r.uid = [r |-> q.uid.r, e |-> u, s |-> q.uid.s]
         /\ call = "setresuid" => r.uid = [r |-> u, e |-> u, s |-> u]
         /\ call = "setuid" => r.uid = IF q.eff THEN [r |-> u, e |-> u, s |-> u]
                                       ELSE [r |-> q.uid.r, e |-> u, s |-> q.uid.s]
<1>1. ASSUME NEW a, NEW b, NEW c
      PROVE  LET r == WithIds(q, a, b, c) IN
             /\ r.uid = [r |-> a, e |-> b, s |-> c]
             /\ r.eff \in BOOLEAN /\ r.prm \in BOOLEAN /\ (r.eff => r.prm) /\ (r.prm => q.prm)
             /\ r.prm /\ 0 \in {q.uid.r, q.uid.e, q.uid.s} => 0 \in {a, b, c}
  <2> DEFINE prm == q.prm /\ ~(0 \in {q.uid.r, q.uid.e, q.uid.s} /\ 0 \notin {a, b, c})
             eff == CASE q.uid.e = 0 /\ b # 0 -> FALSE
                      [] q.uid.e # 0 /\ b = 0 -> prm
                      [] OTHER -> q.eff /\ prm
             r == WithIds(q, a, b, c)
  <2>1. prm \in BOOLEAN /\ eff \in BOOLEAN /\ (eff => prm)
    OBVIOUS
  <2>2. r = [q EXCEPT !.uid = [r |-> a, e |-> b, s |-> c], !.prm = prm, !.eff = eff]
    BY DEF WithIds
  <2>3. (prm => q.prm) /\ (prm /\ 0 \in {q.uid.r, q.uid.e, q.uid.s} => 0 \in {a, b, c})
    OBVIOUS
  <2> HIDE DEF prm, eff
  <2>4. r.uid = [r |-> a, e |-> b, s |-> c] /\ r.prm = prm /\ r.eff = eff
    BY <2>2 DEF FieldNames
  <2> HIDE DEF r
  <2> QED
    BY <2>1, <2>3, <2>4 DEF r
<1>2. PICK a, b, c :
        /\ SetIds(q, call, u) = WithIds(q, a, b, c)
        /\ call = "seteuid" => a = q.uid.r /\ b = u /\ c = q.uid.s
        /\ call = "setresuid" => a = u /\ b = u /\ c = u
        /\ call = "setuid" => IF q.eff THEN a = u /\ b = u /\ c = u
                              ELSE a = q.uid.r /\ b = u /\ c = q.uid.s
  BY DEF SetIds
<1> DEFINE r == WithIds(q, a, b, c)
<1>3. /\ DOMAIN r = FieldNames
      /\ \A f \in FieldNames \ {"uid", "eff", "prm"} : r[f] = q[f]
  BY WithIdsSame
<1>4. /\ r.uid = [r |-> a, e |-> b, s |-> c]
      /\ r.eff \in BOOLEAN /\ r.prm \in BOOLEAN /\ (r.eff => r.prm) /\ (r.prm => q.prm)
      /\ r.prm /\ 0 \in {q.uid.r, q.uid.e, q.uid.s} => 0 \in {a, b, c}
  BY <1>1
<1>5. r.uid.r = a /\ r.uid.e = b /\ r.uid.s = c
  BY <1>4
<1> HIDE DEF r
<1>6. /\ call = "seteuid" => r.uid = [r |-> q.uid.r, e |-> u, s |-> q.uid.s]
      /\ call = "setresuid" => r.uid = [r |-> u, e |-> u, s |-> u]
      /\ call = "setuid" => r.uid = IF q.eff THEN [r |-> u, e |-> u, s |-> u]
                                    ELSE [r |-> q.uid.r, e |-> u, s |-> q.uid.s]
  BY <1>2, <1>4
<1>7. SetIds(q, call, u) = r
  BY <1>2 DEF r
<1>8. r.prm /\ 0 \in {q.uid.r, q.uid.e, q.uid.s} => 0 \in {r.uid.r, r.uid.e, r.uid.s}
  BY <1>4, <1>5
<1> QED
  BY <1>3, <1>4, <1>6, <1>7, <1>8, Zenon

\* The process of a demo goes on n instructions further.
LEMMA DemoGoes ==
  ASSUME ProcInv, CredInv, prog \in CredentialDemos, NEW n, NEW v,
         Becomes(1, Return(ps[1], n, v)), prog' = prog,
         Len(ps[1].stk) = 1 =>
           IdsOK(prog, ps[1].stk[1].pc + 1 + n, ps[1].how, ps[1].uid, ps[1].eff, ps[1].prm)
  PROVE  CredInv'
<1>1. ProcOK(prog, ps[1]) /\ DemoOK(prog, ps[1])
  BY DemoAt
<1>2. DemoOK(prog, Return(ps[1], n, v))
  BY <1>1, DemoReturn
<1> QED
  BY <1>2, DemoStep

\* What boing does not execute, main does.
LEMMA MainRuns ==
  ASSUME ProcInv, CredInv, prog \in CredentialDemos, Ins(1)[1] \notin {"io", "return"}
  PROVE  Len(ps[1].stk) = 1 /\ DemoIns(prog, ps[1].stk[1].pc, Ins(1))
<1> DEFINE k == Len(ps[1].stk)
<1>1. k \in Nat /\ k >= 1 /\ ~(k > 1)
  BY DemoAt
<1> HIDE DEF k
<1>2. k = 1
  BY <1>1
<1> QED
  BY <1>2, DemoAt DEF k

\* Calls of set_pcap.c that have nothing to do with credentials, and boing.
LEMMA DemoPlain ==
  ASSUME ProcInv, CredInv, prog \in CredentialDemos, Plain(1) \/ Sigaction(1)
  PROVE  CredInv'
<1> DEFINE q == ps[1]
           pc == q.stk[1].pc
<1>1. /\ 1 \in Procs /\ ProcOK(prog, q) /\ DemoOK(prog, q) /\ Len(q.stk) \in Nat
      /\ Len(q.stk) >= 1 /\ (Len(q.stk) = 1 => DemoIns(prog, pc, Ins(1)))
  BY DemoAt
<1>2. Ins(1)[1] \in {"io", "mayfail", "sigaction"} /\ prog' = prog
  BY <1>1, AtIns DEF Plain, Sigaction, Step
<1>3. ASSUME Len(q.stk) = 1
      PROVE  IdsOK(prog, pc + 1 + 0, q.how, q.uid, q.eff, q.prm)
  <2>1. prog = "set_pcap" /\ pc \in {1, 2, 3, 7}
    BY <1>1, <1>2, <1>3, SetuidDemoCode, SavedsetCode, SetPcapCode DEF DemoIns, CredentialDemos
  <2>2. q.uid.s = q.uid.r
    BY <1>1, <2>1 DEF DemoOK, IdsOK
  <2> HIDE DEF pc, q
  <2>3. pc + 1 + 0 \notin 9 .. 12 /\ pc + 1 + 0 \notin 10 .. 12
    BY <2>1
  <2> QED
    BY <2>1, <2>2, <2>3 DEF IdsOK
<1>4. PICK v : Go(q) = Return(q, 0, v)
  BY DEF Go, Skip
<1>5. CASE Plain(1)
  BY <1>2, <1>3, <1>4, <1>5, DemoGoes DEF Plain, Step
<1>6. CASE Sigaction(1)
  <2> DEFINE w == Return(q, 0, v)
  <2>1. DemoOK(prog, w) /\ DOMAIN w = FieldNames
    BY <1>1, <1>3, DemoReturn, ReturnMain
  <2> HIDE DEF w
  <2>2. PICK d : Becomes(1, [w EXCEPT !.disp = d])
    BY <1>4, <1>6 DEF Sigaction, Step, w
  <2> DEFINE r == [w EXCEPT !.disp = d]
  <2>3. /\ r.st = w.st /\ r.how = w.how /\ r.parent = w.parent /\ r.tmr = w.tmr
        /\ r.stk = w.stk /\ r.uid = w.uid /\ r.eff = w.eff /\ r.prm = w.prm
    BY <2>1 DEF FieldNames
  <2> HIDE DEF r
  <2>4. DemoOK(prog, r)
    BY <2>1, <2>3, DemoSame
  <2>5. Becomes(1, r)
    BY <2>2 DEF r
  <2> QED
    BY <1>2, <2>4, <2>5, DemoStep
<1> QED
  BY <1>5, <1>6

\* The end of a demo.
LEMMA DemoExit ==
  ASSUME ProcInv, CredInv, prog \in CredentialDemos, Exit(1) \/ CallFails(1)
  PROVE  CredInv'
<1> DEFINE q == ps[1]
           pc == q.stk[1].pc
<1>1. /\ 1 \in Procs /\ DemoOK(prog, q) /\ Len(q.stk) \in Nat /\ Len(q.stk) >= 1
      /\ Len(q.stk) = 1 => DemoIns(prog, pc, Ins(1))
      /\ Len(q.stk) > 1 => Ins(1)[1] \in {"io", "return"}
  BY DemoAt
<1>2. Ins(1)[1] \in {"exit", "fork", "mayfail"}
  BY <1>1, AtIns DEF Exit, CallFails
<1>3. DemoIns(prog, pc, Ins(1))
  BY <1>2, MainRuns
<1>4. CASE Exit(1)
  <2>1. Ends(1, Ins(1)[2]) /\ Ins(1)[1] = "exit"
    BY <1>1, <1>4, AtIns DEF Exit
  <2>2. ASSUME Ins(1)[2] = "ok" PROVE IdsOK(prog, pc, "ok", q.uid, q.eff, q.prm)
    <3>1. IdsOK(prog, pc, q.how, q.uid, q.eff, q.prm)
      BY <1>1 DEF DemoOK
    <3>2. (prog = "setuid_demo" => pc = 6) /\ (prog = "savedset" => pc = 6)
      BY <1>3, <2>1, <2>2, SetuidDemoCode, SavedsetCode DEF DemoIns
    <3> HIDE DEF pc, q
    <3> QED
      BY <3>1, <3>2 DEF IdsOK
  <2> QED
    BY <2>1, <2>2, DemoEnds
<1>5. CASE CallFails(1)
  <2>1. Ins(1)[1] \in {"fork", "mayfail"}
    BY <1>1, <1>5, AtIns DEF CallFails
  <2>2. Ins(1) = <<"mayfail", "fail">>
    <3>1. prog = "set_pcap" /\ pc \in {1, 3, 7}
      BY <1>3, <2>1, SetuidDemoCode, SavedsetCode, SetPcapCode DEF DemoIns, CredentialDemos
    <3> QED
      BY <1>3, <3>1, SetPcapCode DEF DemoIns
  <2>3. Last(Ins(1)) = "fail"
    BY <2>2 DEF Last
  <2>4. Ends(1, "fail")
    BY <1>5, <2>3 DEF CallFails
  <2> QED
    BY <2>4, DemoEnds
<1> QED
  BY <1>4, <1>5

\* pause, and signals that arrive.
LEMMA DemoQuiet ==
  ASSUME ProcInv, CredInv, prog \in CredentialDemos, Block(1) \/ UserSignal
  PROVE  CredInv'
<1> DEFINE q == ps[1]
<1>1. 1 \in Procs /\ ProcOK(prog, q) /\ DemoOK(prog, q) /\ DOMAIN q = FieldNames /\ prog' = prog
  BY DemoAt DEF ProcOK, Block, UserSignal, Step
<1>2. CASE Block(1)
  <2> DEFINE r == [q EXCEPT !.blk = TRUE]
  <2>1. /\ r.st = q.st /\ r.how = q.how /\ r.parent = q.parent /\ r.tmr = q.tmr
        /\ r.stk = q.stk /\ r.uid = q.uid /\ r.eff = q.eff /\ r.prm = q.prm
    BY <1>1 DEF FieldNames
  <2>2. Becomes(1, r)
    BY <1>2 DEF Block, Step
  <2> HIDE DEF r, q
  <2>3. DemoOK(prog, r)
    BY <1>1, <2>1, DemoSame
  <2> QED
    BY <1>1, <2>2, <2>3, DemoStep
<1>3. CASE UserSignal
  <2>1. PICK s \in UserSignals[prog] : Becomes(1, Signalled(q, s))
    BY <1>3 DEF UserSignal
  <2>2. s \in Signals
    BY <2>1, ProgramsClosed DEF ProcInv
  <2> DEFINE r == Signalled(q, s)
  <2> HIDE DEF q
  <2>3. \A f \in FieldNames \ {"pend"} : r[f] = q[f]
    BY <1>1, <2>2, SignalledOK
  <2>4. /\ r.st = q.st /\ r.how = q.how /\ r.parent = q.parent /\ r.tmr = q.tmr
        /\ r.stk = q.stk /\ r.uid = q.uid /\ r.eff = q.eff /\ r.prm = q.prm
    BY <2>3 DEF FieldNames
  <2> HIDE DEF r
  <2>5. DemoOK(prog, r)
    BY <1>1, <2>4, DemoSame
  <2> QED
    BY <1>1, <2>1, <2>5, DemoStep DEF r
<1> QED
  BY <1>2, <1>3

\* cap_set_proc and geteuid.
LEMMA DemoCaps ==
  ASSUME ProcInv, CredInv, prog \in CredentialDemos, DropCaps(1) \/ RaiseCap(1) \/ NeedRoot(1)
  PROVE  CredInv'
<1> DEFINE q == ps[1]
           pc == q.stk[1].pc
<1>1. /\ 1 \in Procs /\ ProcOK(prog, q) /\ DemoOK(prog, q) /\ Len(q.stk) \in Nat
      /\ Len(q.stk) >= 1 /\ (Len(q.stk) = 1 => DemoIns(prog, pc, Ins(1)))
      /\ Len(q.stk) > 1 => Ins(1)[1] \in {"io", "return"}
  BY DemoAt
<1>2. Ins(1)[1] \in {"dropcaps", "raisecap", "needroot"} /\ prog' = prog
  BY <1>1, AtIns DEF DropCaps, RaiseCap, NeedRoot, Step
<1>3. DemoIns(prog, pc, Ins(1)) /\ Len(q.stk) = 1
  BY <1>2, MainRuns
<1>4. IdsOK(prog, pc, q.how, q.uid, q.eff, q.prm) /\ q.st = "ready" /\ q.how = "none"
  BY <1>1, AtIns DEF DemoOK, DropCaps, RaiseCap, NeedRoot
<1>5. PICK v : \A n : Skip(q, n) = Return(q, n, v)
  BY DEF Skip
<1>6. ASSUME NEW e \in BOOLEAN, NEW m \in BOOLEAN, prog = "set_pcap",
             pc \notin 8 .. 11 \/ (~e /\ ~m), pc \notin 9 .. 11,
             Becomes(1, [Return(q, 0, v) EXCEPT !.eff = e, !.prm = m])
      PROVE  CredInv'
  <2> DEFINE w == Return(q, 0, v)
             r == [w EXCEPT !.eff = e, !.prm = m]
  <2>1. /\ DOMAIN w = FieldNames /\ Len(w.stk) = 1 /\ w.stk[1].pc = pc + 1 + 0
        /\ w.stk[1].r = q.stk[1].r
    BY <1>1, <1>3, ReturnMain
  <2>2. \A f \in FieldNames \ {"stk", "blk"} : w[f] = q[f]
    BY <1>1, ReturnMain
  <2>3. /\ w.st = q.st /\ w.how = q.how /\ w.parent = q.parent /\ w.tmr = q.tmr
        /\ w.uid = q.uid
    BY <2>2 DEF FieldNames
  <2> HIDE DEF w
  <2>4. /\ r.st = w.st /\ r.how = w.how /\ r.parent = w.parent /\ r.tmr = w.tmr
        /\ r.stk = w.stk /\ r.uid = w.uid /\ r.eff = e /\ r.prm = m
    BY <2>1 DEF FieldNames
  <2>5. pc \in 1 .. 13 /\ q.uid.s = q.uid.r
    BY <1>3, <1>4, <1>6 DEF DemoIns, IdsOK
  <2> DEFINE next == pc + 1 + 0
  <2> HIDE DEF r, pc, q
  <2>6. (next \in 9 .. 12 => ~e /\ ~m) /\ next \notin 10 .. 12
    BY <1>6, <2>5
  <2>7. IdsOK(prog, next, r.how, r.uid, e, m)
    <3> HIDE DEF next
    <3> QED
      BY <1>6, <2>3, <2>4, <2>5, <2>6 DEF IdsOK
  <2>8. DemoOK(prog, r)
    <3>1. \A i \in 2 .. Len(r.stk) : r.stk[i].r = "boing"
      BY <2>1, <2>4
    <3> QED
      BY <1>1, <1>6, <2>1, <2>3, <2>4, <2>7, <3>1 DEF DemoOK
  <2> QED
    BY <1>2, <1>6, <2>8, DemoStep DEF r, w
<1>7. CASE DropCaps(1)
  <2>1. Ins(1)[1] = "dropcaps"
    BY <1>1, <1>7, AtIns DEF DropCaps
  <2>2. prog = "set_pcap" /\ pc = 8
    BY <1>3, <2>1, SetuidDemoCode, SavedsetCode, SetPcapCode DEF DemoIns, CredentialDemos
  <2>3. Becomes(1, [Return(q, 0, v) EXCEPT !.eff = FALSE, !.prm = FALSE])
    BY <1>5, <1>7 DEF DropCaps, Step, Go
  <2> HIDE DEF pc, q
  <2>4. pc \notin 9 .. 11
    BY <2>2
  <2> QED
    BY <1>6, <2>2, <2>3, <2>4
<1>8. CASE RaiseCap(1)
  <2>1. Ins(1)[1] = "raisecap"
    BY <1>1, <1>8, AtIns DEF RaiseCap
  <2>2. prog = "set_pcap" /\ pc = 4 /\ Ins(1)[2] = 8
    BY <1>3, <2>1, SetuidDemoCode, SavedsetCode, SetPcapCode DEF DemoIns, CredentialDemos
  <2>3. CASE q.prm
    <3>1. Becomes(1, [Return(q, 0, v) EXCEPT !.eff = TRUE])
      BY <1>5, <1>8, <2>3 DEF RaiseCap, Step, Go
    <3>2. DOMAIN Return(q, 0, v) = FieldNames /\ Return(q, 0, v).prm = q.prm /\ q.prm = TRUE
      <4>1. DOMAIN Return(q, 0, v) = FieldNames
        BY <1>1, ReturnMain
      <4>2. Return(q, 0, v)["prm"] = q["prm"]
        BY <1>1, ReturnMain DEF FieldNames
      <4>3. q.prm = TRUE
        BY <1>1, <2>3 DEF DemoOK
      <4> QED
        BY <4>1, <4>2, <4>3
    <3> DEFINE w == Return(q, 0, v)
    <3> HIDE DEF w
    <3>3. [w EXCEPT !.eff = TRUE] = [w EXCEPT !.eff = TRUE, !.prm = TRUE]
      BY <3>2 DEF FieldNames, w
    <3>4. Becomes(1, [w EXCEPT !.eff = TRUE, !.prm = TRUE])
      BY <3>1, <3>3 DEF w
    <3> HIDE DEF pc
    <3>5. pc \notin 9 .. 11 /\ pc \notin 8 .. 11
      BY <2>2
    <3> QED
      BY <1>6, <2>2, <3>4, <3>5 DEF w
  <2>4. CASE ~q.prm
    <3>1. Becomes(1, Return(q, 8, v))
      BY <1>5, <1>8, <2>2, <2>4 DEF RaiseCap, Step
    <3>2. pc + 1 + 8 = 13
      BY <2>2
    <3>3. IdsOK(prog, 13, q.how, q.uid, q.eff, q.prm)
      BY <1>4, <2>2 DEF IdsOK
    <3> QED
      BY <1>2, <3>1, <3>2, <3>3, DemoGoes
  <2> QED
    BY <2>3, <2>4
<1>9. CASE NeedRoot(1)
  <2>1. Ins(1)[1] = "needroot"
    BY <1>1, <1>9, AtIns DEF NeedRoot
  <2>2. prog = "savedset" /\ ((pc = 1 /\ Ins(1)[2] = 5) \/ (pc = 4 /\ Ins(1)[2] = 2))
    <3>1. prog = "savedset" /\ pc \in {1, 4}
      BY <1>3, <2>1, SetuidDemoCode, SavedsetCode, SetPcapCode DEF DemoIns, CredentialDemos
    <3> QED
      BY <1>3, <3>1, SavedsetCode DEF DemoIns
  <2> DEFINE n == IF q.uid.e = 0 THEN 0 ELSE Ins(1)[2]
  <2>3. Becomes(1, Return(q, n, v))
    BY <1>5, <1>9 DEF NeedRoot, Step
  <2>4. IdsOK(prog, pc + 1 + n, q.how, q.uid, q.eff, q.prm)
    <3> DEFINE next == pc + 1 + n
    <3>1. (q.uid.e = 0 => next \in {2, 5}) /\ (q.uid.e # 0 => next = 7)
      BY <2>2
    <3>2. next \in 2 .. 6 => q.uid.s = 0
      <4>1. (pc = 1 => q.uid.s = q.uid.e) /\ (pc = 4 => q.uid.s = 0)
        BY <1>4, <2>2 DEF IdsOK
      <4> QED
        BY <2>2, <3>1, <4>1
    <3> HIDE DEF next
    <3>3. next # 1 /\ next # 6
      BY <3>1
    <3> QED
      BY <1>4, <2>2, <3>2, <3>3 DEF IdsOK, next
  <2> HIDE DEF n
  <2> QED
    BY <1>2, <2>3, <2>4, DemoGoes
<1> QED
  BY <1>7, <1>8, <1>9

\* Main, whose ids have changed, goes on.
LEMMA DemoChanged ==
  ASSUME NEW g, NEW q, ProcOK(g, q), Len(q.stk) = 1, q.st = "ready", q.how = "none",
         q.parent = 0, q.tmr = {}, q.stk[1].r = "main", q.eff \in BOOLEAN, q.prm \in BOOLEAN,
         NEW n, NEW v, IdsOK(g, q.stk[1].pc + 1 + n, "none", q.uid, q.eff, q.prm)
  PROVE  DemoOK(g, Return(q, n, v))
<1> DEFINE r == Return(q, n, v)
<1>1. Len(r.stk) = 1 /\ r.stk[1].r = "main" /\ r.stk[1].pc = q.stk[1].pc + 1 + n
  BY ReturnMain
<1>2. \A f \in FieldNames \ {"stk", "blk"} : r[f] = q[f]
  BY ReturnMain
<1>3. /\ r.st = "ready" /\ r.how = "none" /\ r.parent = 0 /\ r.tmr = {} /\ r.uid = q.uid
      /\ r.eff = q.eff /\ r.prm = q.prm
  BY <1>2 DEF FieldNames
<1> HIDE DEF r
<1>4. \A i \in 2 .. Len(r.stk) : r.stk[i].r = "boing"
  BY <1>1
<1>5. IdsOK(g, r.stk[1].pc, "none", r.uid, r.eff, r.prm)
  BY <1>1, <1>3, Zenon
<1>6. DemoOK(g, r)
  BY <1>1, <1>3, <1>4, <1>5 DEF DemoOK
<1> QED
  BY <1>6 DEF r

\* The ids after a call that changes them, or after one that is refused.
LEMMA IdsAfter ==
  ASSUME NEW g, NEW pc, NEW ins, DemoIns(g, pc, ins), g \in CredentialDemos,
         ins[1] \in {"seteuid", "setuid", "setresuid"},
         NEW q, DOMAIN q = FieldNames, q.eff \in BOOLEAN, q.prm \in BOOLEAN,
         IdsOK(g, pc, "none", q.uid, q.eff, q.prm)
  PROVE  LET u == IdOf(q, ins[2])
             w == SetIds(q, ins[1], u)
         IN  /\ Permitted(q, u) => IdsOK(g, pc + 1 + 0, "none", w.uid, w.eff, w.prm)
             /\ ~Permitted(q, u) => IdsOK(g, pc + 1 + ins[3], "none", q.uid, q.eff, q.prm)
<1> DEFINE u == IdOf(q, ins[2])
           w == SetIds(q, ins[1], u)
<1>1. /\ w.eff \in BOOLEAN /\ w.prm \in BOOLEAN /\ (w.eff => w.prm) /\ (w.prm => q.prm)
      /\ w.prm /\ 0 \in {q.uid.r, q.uid.e, q.uid.s} => 0 \in {w.uid.r, w.uid.e, w.uid.s}
  BY SetIdsEffect
<1>2. /\ ins[1] = "seteuid" => w.uid = [r |-> q.uid.r, e |-> u, s |-> q.uid.s]
      /\ ins[1] = "setresuid" => w.uid = [r |-> u, e |-> u, s |-> u]
      /\ ins[1] = "setuid" => w.uid = IF q.eff THEN [r |-> u, e |-> u, s |-> u]
                                      ELSE [r |-> q.uid.r, e |-> u, s |-> q.uid.s]
  BY SetIdsEffect
<1>3. (ins[2] = -1 => u = q.uid.r) /\ (ins[2] = 0 => u = 0)
  BY DEF IdOf, Self
<1>4. Permitted(q, u) <=> q.eff \/ u \in {q.uid.r, q.uid.e, q.uid.s}
  BY DEF Permitted
<1> HIDE DEF u, w
<1>5. CASE g = "setuid_demo"
  <2>1. /\ pc \in 1 .. 5 /\ ins = setuid_demo_main[pc]
        /\ q.eff => q.prm
        /\ q.prm => 0 \in {q.uid.r, q.uid.e, q.uid.s}
        /\ pc = 5 => q.uid.e = q.uid.r /\ q.uid.s = q.uid.r
    BY <1>5, SetuidDemoCode DEF DemoIns, IdsOK
  <2>2. /\ pc = 4 => ins[1] = "setresuid" /\ ins[2] = -1
        /\ pc = 5 => ins[1] = "setuid" /\ ins[2] = 0
        /\ ins[3] = 6 - pc
    BY <2>1, SetuidDemoCode
  <2>3. ASSUME Permitted(q, u) PROVE IdsOK(g, pc + 1 + 0, "none", w.uid, w.eff, w.prm)
    <3>1. w.prm => 0 \in {w.uid.r, w.uid.e, w.uid.s}
      BY <1>1, <2>1
    <3>2. pc = 4 => w.uid.e = w.uid.r /\ w.uid.s = w.uid.r
      BY <1>2, <2>2
    <3>3. pc = 5 => w.uid.r = 0
      BY <1>2, <1>3, <1>4, <2>1, <2>2, <2>3
    <3>4. (pc + 1 + 0 = 5 => pc = 4) /\ (pc + 1 + 0 = 6 => pc = 5)
      BY <2>1
    <3> QED
      BY <1>1, <1>5, <3>1, <3>2, <3>3, <3>4 DEF IdsOK
  <2>4. IdsOK(g, pc + 1 + ins[3], "none", q.uid, q.eff, q.prm)
    <3>1. pc + 1 + ins[3] = 7
      BY <2>1, <2>2
    <3> QED
      BY <1>5, <2>1, <3>1 DEF IdsOK
  <2> QED
    BY <2>3, <2>4 DEF u, w
<1>6. CASE g = "savedset"
  <2>1. pc \in {2, 3, 5} /\ ins = savedset_main[pc] /\ q.uid.s = 0
    BY <1>6, SavedsetCode DEF DemoIns, IdsOK
  <2>2. ins[1] = "seteuid" /\ (pc = 5 => ins[2] = -1) /\ ins[3] = 6 - pc
    BY <2>1, SavedsetCode
  <2>3. IdsOK(g, pc + 1 + 0, "none", w.uid, w.eff, w.prm)
    <3>1. w.uid.s = 0 /\ (pc = 5 => w.uid.e = w.uid.r)
      BY <1>2, <1>3, <2>1, <2>2
    <3>2. pc + 1 + 0 # 1 /\ (pc + 1 + 0 = 6 => pc = 5)
      BY <2>1
    <3> QED
      BY <1>6, <3>1, <3>2 DEF IdsOK
  <2>4. IdsOK(g, pc + 1 + ins[3], "none", q.uid, q.eff, q.prm)
    <3>1. pc + 1 + ins[3] = 7
      BY <2>1, <2>2
    <3> QED
      BY <1>6, <3>1 DEF IdsOK
  <2> QED
    BY <2>3, <2>4 DEF u, w
<1>7. CASE g = "set_pcap"
  <2>1. /\ pc \in {6, 9, 10} /\ ins = set_pcap_main[pc] /\ q.uid.s = q.uid.r
        /\ pc \in {9, 10} => ~q.eff /\ ~q.prm
        /\ pc = 10 => q.uid.e = q.uid.r
    BY <1>7, SetPcapCode DEF DemoIns, IdsOK
  <2>2. /\ pc # 9 => ins[1] = "seteuid" /\ ins[2] = 0 /\ ins[3] = 0
        /\ pc = 9 => ins[1] = "setuid" /\ ins[2] = -1 /\ ins[3] = 3
    BY <2>1, SetPcapCode
  <2>3. ASSUME Permitted(q, u) PROVE IdsOK(g, pc + 1 + 0, "none", w.uid, w.eff, w.prm)
    <3>1. w.uid.s = w.uid.r
      BY <1>2, <2>1, <2>2
    <3>2. pc \in {9, 10} => ~w.eff /\ ~w.prm
      BY <1>1, <2>1
    <3>3. pc = 9 => w.uid.e = w.uid.r
      BY <1>2, <1>3, <2>1, <2>2
    <3>4. pc = 10 => w.uid.e = w.uid.r
      BY <1>2, <1>3, <1>4, <2>1, <2>2, <2>3
    <3>5. pc + 1 + 0 \in 9 .. 12 => pc \in {9, 10}
      BY <2>1
    <3> QED
      BY <1>7, <3>1, <3>2, <3>3, <3>4, <3>5 DEF IdsOK
  <2>4. IdsOK(g, pc + 1 + ins[3], "none", q.uid, q.eff, q.prm)
    <3>1. pc + 1 + ins[3] \in 9 .. 12 => pc = 10
      BY <2>1, <2>2
    <3> QED
      BY <1>7, <2>1, <3>1 DEF IdsOK
  <2> QED
    BY <2>3, <2>4 DEF u, w
<1> QED
  BY <1>5, <1>6, <1>7 DEF CredentialDemos

LEMMA DemoSetUid ==
  ASSUME ProcInv, CredInv, prog \in CredentialDemos, SetUid(1)
  PROVE  CredInv'
<1> DEFINE q == ps[1]
           pc == q.stk[1].pc
           u == IdOf(q, Ins(1)[2])
           w == SetIds(q, Ins(1)[1], u)
<1>1. /\ 1 \in Procs /\ ProcOK(prog, q) /\ DemoOK(prog, q) /\ DOMAIN q = FieldNames
  BY DemoAt DEF ProcOK
<1>2. /\ Ins(1)[1] \in {"seteuid", "setuid", "setresuid"} /\ prog' = prog /\ q.st = "ready"
      /\ Becomes(1, IF Permitted(q, u) THEN Go(w) ELSE Skip(q, Ins(1)[3]))
  BY <1>1, AtIns DEF SetUid, Step
<1>3. DemoIns(prog, pc, Ins(1)) /\ Len(q.stk) = 1
  BY <1>2, MainRuns
<1>4. /\ IdsOK(prog, pc, "none", q.uid, q.eff, q.prm) /\ q.eff \in BOOLEAN /\ q.prm \in BOOLEAN
      /\ q.how = "none" /\ q.parent = 0 /\ q.tmr = {} /\ q.stk[1].r = "main"
  BY <1>1, <1>2 DEF DemoOK
<1>5. /\ Permitted(q, u) => IdsOK(prog, pc + 1 + 0, "none", w.uid, w.eff, w.prm)
      /\ ~Permitted(q, u) => IdsOK(prog, pc + 1 + Ins(1)[3], "none", q.uid, q.eff, q.prm)
  BY <1>1, <1>2, <1>3, <1>4, IdsAfter
<1>6. CASE Permitted(q, u)
  <2>1. DOMAIN w = FieldNames /\ \A f \in FieldNames \ {"uid", "eff", "prm"} : w[f] = q[f]
    <3>1. PICK a, b, c : w = WithIds(q, a, b, c)
      BY <1>2 DEF SetIds
    <3> HIDE DEF w, q
    <3> QED
      BY <1>1, <3>1, WithIdsSame
  <2>2. w.eff \in BOOLEAN /\ w.prm \in BOOLEAN
    BY <1>1, <1>2, <1>4, SetIdsEffect
  <2> HIDE DEF w, u
  <2>3. PICK v : Go(w) = Return(w, 0, v)
    BY DEF Go, Skip
  <2>4. /\ w.st = q.st /\ w.how = q.how /\ w.parent = q.parent /\ w.stk = q.stk
        /\ w.blk = q.blk /\ w.pend = q.pend /\ w.disp = q.disp /\ w.tmr = q.tmr
    BY <2>1 DEF FieldNames
  <2>5. ProcOK(prog, w)
    BY <1>1, <2>1, <2>4, SameProc
  <2>6. DemoOK(prog, Return(w, 0, v))
    BY <1>2, <1>3, <1>4, <1>5, <1>6, <2>2, <2>4, <2>5, DemoChanged
  <2>7. Becomes(1, Return(w, 0, v))
    BY <1>2, <1>6, <2>3
  <2> QED
    BY <1>2, <2>6, <2>7, DemoStep
<1>7. CASE ~Permitted(q, u)
  <2>1. PICK v : Becomes(1, Return(q, Ins(1)[3], v))
    BY <1>2, <1>7 DEF Skip
  <2> QED
    BY <1>2, <1>4, <1>5, <1>7, <2>1, DemoGoes
<1> QED
  BY <1>6, <1>7

\* boing returns.
LEMMA DemoHandlerReturns ==
  ASSUME ProcInv, CredInv, prog \in CredentialDemos, HandlerReturns(1)
  PROVE  CredInv'
<1> DEFINE q == ps[1]
           s == q.stk
           k == Len(s)
           t == SubSeq(s, 1, k - 1)
<1>1. /\ 1 \in Procs /\ ProcOK(prog, q) /\ DemoOK(prog, q) /\ DOMAIN q = FieldNames
      /\ k \in Nat /\ k >= 1 /\ (k = 1 => DemoIns(prog, s[1].pc, Ins(1)))
  BY DemoAt DEF ProcOK
<1>2. Ins(1)[1] = "return" /\ prog' = prog
  BY <1>1, AtIns DEF HandlerReturns, Step
<1>3. k # 1
  <2> SUFFICES ASSUME k = 1 PROVE FALSE
    OBVIOUS
  <2> DEFINE pc == s[1].pc
  <2>1. DemoIns(prog, pc, Ins(1))
    BY <1>1
  <2> HIDE DEF pc
  <2>2. CASE prog = "setuid_demo"
    BY <1>2, <2>1, <2>2, SetuidDemoCode DEF DemoIns
  <2>3. CASE prog = "savedset"
    BY <1>2, <2>1, <2>3, SavedsetCode DEF DemoIns
  <2>4. CASE prog = "set_pcap"
    BY <1>2, <2>1, <2>4, SetPcapCode DEF DemoIns
  <2> QED
    BY <2>2, <2>3, <2>4 DEF CredentialDemos
<1>4. s \in Seq(Range(s))
  BY <1>1 DEF ProcOK, StackOK
<1>5. PICK n : Becomes(1, [q EXCEPT !.mask = n, !.stk = t])
  BY <1>1 DEF HandlerReturns, Step, Front, FieldNames
<1>6. Len(t) = k - 1 /\ \A i \in 1 .. k - 1 : t[i] = s[i]
  BY <1>1, <1>3, <1>4, SubSeqProperties
<1>7. 1 \in 1 .. k - 1 /\ (\A i \in 2 .. k - 1 : i \in 2 .. k)
  <2>1. k \in Nat /\ k >= 1 /\ k # 1
    BY <1>1, <1>3
  <2> HIDE DEF k
  <2> QED
    BY <2>1
<1> DEFINE r == [q EXCEPT !.mask = n, !.stk = t]
<1> HIDE DEF t
<1>8. /\ r.st = q.st /\ r.how = q.how /\ r.parent = q.parent /\ r.tmr = q.tmr /\ r.stk = t
      /\ r.uid = q.uid /\ r.eff = q.eff /\ r.prm = q.prm
  BY <1>1 DEF FieldNames
<1> HIDE DEF r
<1>9. t[1] = s[1] /\ \A i \in 2 .. Len(t) : t[i].r = "boing"
  <2>1. \A i \in 2 .. k - 1 : i \in 1 .. k - 1
    BY <1>1
  <2> QED
    BY <1>1, <1>6, <1>7, <2>1 DEF DemoOK
<1>10. DemoOK(prog, r)
  BY <1>1, <1>8, <1>9 DEF DemoOK
<1> QED
  BY <1>2, <1>5, <1>10, DemoStep DEF r

\* boing starts, on top of main or of itself; it ends pause.
LEMMA DemoHandles ==
  ASSUME ProcInv, CredInv, prog \in CredentialDemos, NEW q, ProcOK(prog, q), DemoOK(prog, q),
         q.st = "ready", q.stk = ps[1].stk, q.blk = ps[1].blk, NEW s \in Signals,
         q.disp[s].h \notin {"DFL", "IGN"}
  PROVE  DemoOK(prog, Handles(q, s, Ins(1)))
<1> DEFINE ins == Ins(1)
           h == q.disp[s].h
           w == Interrupted(q, ins)
           pc == q.stk[1].pc
<1>1. /\ prog \in Programs /\ h \in DOMAIN Code[prog] \ {"main"} /\ DOMAIN q = FieldNames
      /\ ins = TopIns(prog, q.stk) /\ (q.blk => ins[1] \in Blocking)
  BY DemoAt, Known DEF ProcOK, Dispositions
<1>2. prog = "set_pcap" /\ h = "boing"
  BY <1>1, CredentialPrograms DEF CredentialDemos
<1>3. DemoOK(prog, w) /\ ProcOK(prog, w)
  <2>1. CASE ~q.blk
    BY <2>1 DEF Interrupted
  <2>2. CASE q.blk
    <3>1. ins[1] \in Blocking /\ ins[1] \notin {"io", "return"}
      BY <1>1, <2>2 DEF Blocking
    <3>2. Len(q.stk) = 1 /\ DemoIns(prog, pc, ins)
      BY <3>1, MainRuns
    <3>3. pc \in {5, 11} /\ ins = <<"pause">>
      <4>1. pc \in {5, 11}
        BY <1>2, <3>1, <3>2, SetPcapCode DEF DemoIns, Blocking
      <4> QED
        BY <1>2, <3>2, <4>1, SetPcapCode DEF DemoIns
    <3>4. w = Return(q, 0, -1)
      BY <2>2, <3>3 DEF Interrupted
    <3>5. IdsOK(prog, pc + 1 + 0, q.how, q.uid, q.eff, q.prm)
      <4>1. IdsOK(prog, pc, q.how, q.uid, q.eff, q.prm)
        BY DEF DemoOK
      <4> HIDE DEF pc
      <4>2. pc + 1 + 0 \in 9 .. 12 => pc \in 10 .. 12 /\ pc \in 9 .. 12
        BY <3>3
      <4>3. pc + 1 + 0 \in 10 .. 12 => pc \in 10 .. 12
        BY <3>3
      <4> QED
        BY <1>2, <4>1, <4>2, <4>3 DEF IdsOK
    <3>6. DemoOK(prog, Return(q, 0, -1))
      BY <3>5, DemoReturn
    <3>7. 0 \in Offsets(TopIns(prog, q.stk)) /\ TopIns(prog, q.stk)[1] # "execd"
      BY <1>1, <3>3 DEF Offsets
    <3>8. ProcOK(prog, Return(q, 0, -1))
      BY <1>1, <3>7, ReturnOK
    <3> QED
      BY <3>4, <3>6, <3>8
  <2> QED
    BY <2>1, <2>2
<1> HIDE DEF w
<1>4. DOMAIN w = FieldNames /\ w.stk \in Seq(Range(w.stk))
  BY <1>3 DEF ProcOK, StackOK
<1>5. PICK m, n : Handles(q, s, ins) = [w EXCEPT !.stk = Append(w.stk, Frame(h, m)), !.mask = n]
  BY <1>4 DEF Handles, w, FieldNames
<1> DEFINE e == Frame("boing", m)
           k == Len(w.stk)
           t == Append(w.stk, e)
           r == [w EXCEPT !.stk = t, !.mask = n]
<1>6. e.r = "boing"
  BY DEF Frame
<1> HIDE DEF e
<1>7. k \in Nat /\ k >= 1
  BY <1>3, LenProperties DEF ProcOK, StackOK
<1>8. Len(t) = k + 1 /\ t[k + 1] = e /\ \A i \in 1 .. k : t[i] = w.stk[i]
  <2>1. w.stk \in Seq(Range(w.stk) \cup {e})
    BY <1>4, SeqMonotonic
  <2> QED
    BY <2>1, AppendProperties
<1> HIDE DEF t
<1>9. t[1] = w.stk[1] /\ \A i \in 2 .. Len(t) : t[i].r = "boing"
  <2>1. w.stk[1] = w.stk[1] /\ \A i \in 2 .. k : w.stk[i].r = "boing"
    BY <1>3 DEF DemoOK
  <2> HIDE DEF k
  <2>2. ASSUME NEW i \in 2 .. Len(t) PROVE t[i].r = "boing"
    <3>1. i = k + 1 \/ (i \in 2 .. k /\ i \in 1 .. k)
      BY <1>7, <1>8
    <3> QED
      BY <1>6, <1>8, <2>1, <3>1
  <2>3. 1 \in 1 .. k
    BY <1>7
  <2> QED
    BY <1>8, <2>2, <2>3
<1>10. /\ r.st = w.st /\ r.how = w.how /\ r.parent = w.parent /\ r.tmr = w.tmr /\ r.stk = t
       /\ r.uid = w.uid /\ r.eff = w.eff /\ r.prm = w.prm
  BY <1>4 DEF FieldNames
<1> HIDE DEF r
<1>11. DemoOK(prog, r)
  BY <1>3, <1>9, <1>10 DEF DemoOK
<1> QED
  BY <1>2, <1>5, <1>11 DEF r, t, e

LEMMA DemoDeliver ==
  ASSUME ProcInv, CredInv, prog \in CredentialDemos, Deliver(1)
  PROVE  CredInv'
<1>1. /\ 1 \in Procs /\ ProcOK(prog, ps[1]) /\ DemoOK(prog, ps[1]) /\ DOMAIN ps[1] = FieldNames
      /\ ps[1].pend \in Seq(Signals) /\ ps[1].st = "ready"
  BY DemoAt DEF ProcOK, Deliver
<1>2. PICK i \in DOMAIN ps[1].pend :
        LET s == ps[1].pend[i]
            q == [ps[1] EXCEPT !.pend = Without(@, i)]
        IN  IF Ignores(q, s) THEN Step(1, q)
            ELSE IF q.disp[s].h = "DFL"
            THEN Ends(1, IF s \in CoreDump THEN "core" ELSE "killed")
            ELSE Step(1, Handles(q, s, Ins(1)))
  BY DEF Deliver, NextSignals, Deliverable
<1> DEFINE s == ps[1].pend[i]
           q == [ps[1] EXCEPT !.pend = Without(ps[1].pend, i)]
<1>3. q = [ps[1] EXCEPT !.pend = Without(@, i)]
  BY <1>1 DEF FieldNames
<1>4. ProcOK(prog, q)
  BY <1>1, TakenOK
<1>5. /\ q.st = ps[1].st /\ q.how = ps[1].how /\ q.parent = ps[1].parent /\ q.tmr = ps[1].tmr
      /\ q.stk = ps[1].stk /\ q.uid = ps[1].uid /\ q.eff = ps[1].eff /\ q.prm = ps[1].prm
      /\ q.blk = ps[1].blk
  BY <1>1 DEF FieldNames
<1>6. s \in Signals
  BY <1>1, ElementOfSeq
<1> HIDE DEF q, s
<1>7. DemoOK(prog, q)
  BY <1>1, <1>5, DemoSame
<1>8. IF Ignores(q, s) THEN Step(1, q)
      ELSE IF q.disp[s].h = "DFL"
      THEN Ends(1, IF s \in CoreDump THEN "core" ELSE "killed")
      ELSE Step(1, Handles(q, s, Ins(1)))
  BY <1>2, <1>3 DEF s
<1>9. CASE Ignores(q, s)
  BY <1>7, <1>8, <1>9, DemoStep DEF Step
<1>10. CASE ~Ignores(q, s) /\ q.disp[s].h = "DFL"
  <2>1. PICK how \in {"core", "killed"} : Ends(1, how)
    BY <1>8, <1>10
  <2> QED
    BY <2>1, DemoEnds
<1>11. CASE ~Ignores(q, s) /\ q.disp[s].h # "DFL"
  <2>1. q.disp[s].h \notin {"DFL", "IGN"}
    BY <1>11 DEF Ignores
  <2>2. DemoOK(prog, Handles(q, s, Ins(1)))
    BY <1>1, <1>4, <1>5, <1>6, <1>7, <2>1, DemoHandles
  <2> QED
    BY <1>8, <1>11, <2>2, DemoStep DEF Step
<1> QED
  BY <1>9, <1>10, <1>11

\* The demos make no other call.
LEMMA DemoOps ==
  ASSUME ProcInv, CredInv, prog \in CredentialDemos
  PROVE  Ins(1)[1] \in {"seteuid", "setuid", "setresuid", "exit", "needroot", "mayfail",
                        "sigaction", "raisecap", "pause", "dropcaps", "io", "return"}
<1>1. CASE Ins(1)[1] \in {"io", "return"}
  BY <1>1
<1>2. CASE Ins(1)[1] \notin {"io", "return"}
  <2>1. DemoIns(prog, ps[1].stk[1].pc, Ins(1))
    BY <1>2, MainRuns
  <2> DEFINE pc == ps[1].stk[1].pc
  <2>2. CASE prog = "setuid_demo"
    <3>1. pc \in 1 .. 7 /\ Ins(1) = setuid_demo_main[pc]
      BY <2>1, <2>2 DEF DemoIns
    <3> HIDE DEF pc
    <3> QED
      BY <3>1, SetuidDemoCode
  <2>3. CASE prog = "savedset"
    <3>1. pc \in 1 .. 7 /\ Ins(1) = savedset_main[pc]
      BY <2>1, <2>3 DEF DemoIns
    <3> HIDE DEF pc
    <3> QED
      BY <3>1, SavedsetCode
  <2>4. CASE prog = "set_pcap"
    <3>1. pc \in 1 .. 13 /\ Ins(1) = set_pcap_main[pc]
      BY <2>1, <2>4 DEF DemoIns
    <3> HIDE DEF pc
    <3> QED
      BY <3>1, SetPcapCode
  <2> QED
    BY <2>2, <2>3, <2>4 DEF CredentialDemos
<1> QED
  BY <1>1, <1>2

LEMMA CredInit == Init => CredInv
<1> SUFFICES ASSUME Init, prog \in CredentialDemos
             PROVE  /\ DemoOK(prog, ps[1])
                    /\ \A p \in Procs \ {1} : ps[p].st = "none" /\ ps[p].stk[1].r = "main"
  BY DEF CredInv
<1>1. PICK start \in Starts[prog] : ps = [p \in Procs |-> IF p = 1 THEN start ELSE NoProcess]
  BY DEF Init
<1>2. prog \in Programs /\ 1 \in Procs
  BY ProcessesConstants DEF Init, Procs
<1>3. ps[1] = start /\ \A p \in Procs \ {1} : ps[p] = NoProcess
  BY <1>1, <1>2
<1>4. /\ NoProcess.st = "none" /\ NoProcess.stk = <<Frame("main", {})>>
      /\ Len(NoProcess.stk) = 1 /\ NoProcess.stk[1].r = "main" /\ NoProcess.stk[1].pc = 1
  BY DEF NoProcess, Frame
<1>5. Startable(start)
  BY <1>1, <1>2, ProgramsClosed
<1>6. /\ start.st = "ready" /\ start.how = "none" /\ start.parent = 0 /\ start.tmr = {}
      /\ Len(start.stk) = 1 /\ start.stk[1].r = "main" /\ start.stk[1].pc = 1
  BY <1>4, <1>5 DEF Startable
<1>7. /\ start.eff \in BOOLEAN /\ start.prm \in BOOLEAN
      /\ IdsOK(prog, 1, "none", start.uid, start.eff, start.prm)
  <2>1. CASE prog \in {"setuid_demo", "savedset"}
    <3>1. ExecIds(start)
      BY <1>1, <1>2, <2>1, CredentialPrograms
    <3>2. /\ start.uid.s = start.uid.e /\ start.eff \in BOOLEAN /\ start.prm \in BOOLEAN
          /\ (start.eff => start.prm) /\ (start.prm => start.uid.e = 0)
      BY <3>1 DEF ExecIds
    <3> QED
      BY <2>1, <3>2 DEF IdsOK
  <2>2. CASE prog = "set_pcap"
    <3>1. ExecCaps(start)
      BY <1>1, <1>2, <2>2, CredentialPrograms
    <3> QED
      BY <2>2, <3>1 DEF ExecCaps, IdsOK
  <2> QED
    BY <2>1, <2>2 DEF CredentialDemos
<1>8. DemoOK(prog, start)
  BY <1>6, <1>7 DEF DemoOK
<1> QED
  BY <1>3, <1>4, <1>8

\* No step starts another program.
LEMMA ProgKept == [Next]_vars => prog' = prog
<1> SUFFICES ASSUME [Next]_vars PROVE prog' = prog
  OBVIOUS
<1>1. ASSUME NEW p \in Procs, ProcStep(p) PROVE prog' = prog
  <2>1. CASE \/ Fork(p) \/ NoProcessLeft(p) \/ Exit(p) \/ Exec(p) \/ Wait(p)
             \/ Setsid(p) \/ Limit(p)
    BY <2>1 DEF Fork, NoProcessLeft, Exit, Exec, Wait, Setsid, Limit, Step, Ends
  <2>2. CASE \/ Branch(p) \/ Plain(p) \/ SkipIf(p) \/ SkipRet(p) \/ Load(p) \/ Store(p)
             \/ Lseek(p) \/ Write(p)
    BY <2>2 DEF Branch, Plain, SkipIf, SkipRet, Load, Store, Lseek, Write, Step
  <2>3. CASE \/ Block(p) \/ Wake(p) \/ Sigaction(p) \/ SigDefaults(p) \/ Sigprocmask(p)
             \/ Sigwait(p) \/ Kill(p) \/ Fault(p) \/ Arm(p)
    BY <2>3 DEF Block, Wake, Sigaction, SigDefaults, Sigprocmask, Sigwait, Kill, Fault, Arm, Step
  <2>4. CASE Deliver(p)
    BY <2>4 DEF Deliver, Step, Ends
  <2>5. CASE \/ HandlerReturns(p) \/ SetUid(p) \/ DropCaps(p) \/ RaiseCap(p) \/ NeedRoot(p)
    BY <2>5 DEF HandlerReturns, SetUid, DropCaps, RaiseCap, NeedRoot, Step
  <2> QED
    BY <1>1, <2>1, <2>2, <2>3, <2>4, <2>5 DEF ProcStep
<1>2. ASSUME NEW p \in Procs, CallFails(p) \/ Execd(p) PROVE prog' = prog
  BY <1>2 DEF CallFails, Execd, Step, Ends
<1>3. ASSUME NEW s \in TimerSignals, Expire(1, s) PROVE prog' = prog
  BY <1>3 DEF Expire, Step
<1>4. CASE UserSignal
  BY <1>4 DEF UserSignal
<1>5. CASE UNCHANGED vars
  BY <1>5 DEF vars
<1> QED
  BY <1>1, <1>2, <1>3, <1>4, <1>5 DEF Next

LEMMA CredNext == ProcInv /\ CredInv /\ [Next]_vars => CredInv'
<1> SUFFICES ASSUME ProcInv, CredInv, [Next]_vars PROVE CredInv'
  OBVIOUS
<1>1. CASE prog \notin CredentialDemos
  <2>1. prog' = prog
    BY ProgKept
  <2> QED
    BY <1>1, <2>1 DEF CredInv
<1>2. CASE prog \in CredentialDemos
  <2>1. ASSUME NEW p \in Procs, p # 1, ProcStep(p) \/ CallFails(p) \/ Execd(p) PROVE FALSE
    <3>1. ps[p].st = "none" /\ ps[p].stk[1].r = "main"
      BY <1>2, <2>1 DEF CredInv
    <3> QED
      BY <2>1, <3>1 DEF ProcStep, CallFails, Execd, At
  <2>2. ASSUME ProcStep(1) PROVE CredInv'
    <3>1. 1 \in Procs
      BY ProcessesConstants DEF Procs
    <3>2. Ins(1)[1] \in {"seteuid", "setuid", "setresuid", "exit", "needroot", "mayfail",
                         "sigaction", "raisecap", "pause", "dropcaps", "io", "return"}
      BY <1>2, DemoOps
    <3>3. /\ ~Fork(1) /\ ~NoProcessLeft(1) /\ ~Exec(1) /\ ~Wait(1) /\ ~Setsid(1) /\ ~Limit(1)
          /\ ~Branch(1) /\ ~SkipIf(1) /\ ~SkipRet(1) /\ ~Load(1) /\ ~Store(1) /\ ~Lseek(1)
          /\ ~Write(1) /\ ~Wake(1) /\ ~SigDefaults(1) /\ ~Sigprocmask(1) /\ ~Sigwait(1)
          /\ ~Kill(1) /\ ~Fault(1) /\ ~Arm(1)
      BY <3>2 DEF Fork, NoProcessLeft, Exec, Wait, Setsid, Limit, Branch, SkipIf, SkipRet, Load,
                  Store, Lseek, Write, Wake, SigDefaults, Sigprocmask, Sigwait, Kill, Fault, Arm,
                  At, Within
    <3> QED
      BY <1>2, <2>2, <3>3, DemoPlain, DemoExit, DemoQuiet, DemoCaps, DemoSetUid, DemoDeliver,
         DemoHandlerReturns DEF ProcStep
  <2>3. ASSUME CallFails(1) \/ UserSignal PROVE CredInv'
    BY <1>2, <2>3, DemoExit, DemoQuiet
  <2>4. ~Execd(1) /\ \A s \in TimerSignals : ~Expire(1, s)
    BY <1>2 DEF CredInv, DemoOK, Execd, Expire
  <2>5. CASE UNCHANGED vars
    BY <2>5 DEF vars, CredInv
  <2> QED
    BY <2>1, <2>2, <2>3, <2>4, <2>5 DEF Next
<1> QED
  BY <1>1, <1>2

\* Privileges that setuid_demo.c, savedset_demo.c and set_pcap.c drop for
\* good stay dropped (PrivilegeDropPermanent), for every user who starts
\* them, wherever a signal interrupts them and whichever call fails.
THEOREM PrivilegesStayDropped == Spec => []PrivilegeDropPermanent
<1>1. CredInv => PrivilegeDropPermanent
  <2> SUFFICES ASSUME CredInv, prog \in CredentialDemos PROVE PrivilegeDropPermanent
    BY DEF PrivilegeDropPermanent, CredentialDemos
  <2> DEFINE q == ps[1]
             pc == q.stk[1].pc
  <2>1. IdsOK(prog, pc, q.how, q.uid, q.eff, q.prm)
    BY DEF CredInv, DemoOK
  <2> HIDE DEF pc, q
  <2>2. /\ \/ prog = "setuid_demo" /\ pc = T5
           \/ prog = "set_pcap" /\ pc \in 10 .. 12
           => (q.uid.r # 0 => 0 \notin {q.uid.e, q.uid.s} /\ ~q.eff /\ ~q.prm)
        /\ prog = "setuid_demo" /\ q.how = "ok" => q.uid.r = 0
        /\ prog = "savedset" /\ q.how = "ok" => q.uid.e = q.uid.r /\ q.uid.s = 0
    BY <2>1 DEF IdsOK, T5
  <2> QED
    BY <2>2 DEF PrivilegeDropPermanent, pc, q
<1> QED
  BY <1>1, ProcInit, ProcNext, CredInit, CredNext, PTL DEF Spec
=============================================================================
