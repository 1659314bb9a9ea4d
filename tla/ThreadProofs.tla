----------------------------- MODULE ThreadProofs -----------------------------
(***************************************************************************)
(* Proofs about the threaded programs: no thread runs off its code, and a  *)
(* certified program has no data race and uses memory and mutexes within   *)
(* their lifetime.                                                         *)
(***************************************************************************)
EXTENDS ThreadOutlines, TLAPS

-----------------------------------------------------------------------------
(* Type correctness                                                        *)

Fields == {"st", "pc", "reg", "hdl", "fin", "cancel", "nocancel", "mask"}

Shaped(f) == DOMAIN f = Threads /\ \A t \in Threads : DOMAIN f[t] = Fields

\* the record of a thread that keeps within len instructions
WithinCode(r, len) ==
    /\ r.st \in Statuses
    /\ r.pc \in 1 .. len \/ (r.st = "none" /\ r.pc = 1)
    /\ r.hdl \in 0 .. len
    /\ r.fin \in {"ended", "cancelled"}
    /\ r.cancel \in BOOLEAN /\ r.nocancel \in BOOLEAN /\ r.mask \in BOOLEAN

ThreadInv ==
    /\ prog \in Programs
    /\ Shaped(th)
    /\ \A t \in Threads :
         /\ WithinCode(th[t], Len(Code[prog][t]))
         /\ Waiting(t) => Ins(t)[1] = "cvwait"

OtherInv ==
    /\ \A m \in DOMAIN mtx : mtx[m] \in Threads \cup {Nobody, Gone}
    /\ pend \in 0 .. sent /\ sent \in 0 .. NSignals
    /\ proc \in {"running", "exited", "failed", "crashed", "killed"}

TypeInv == ThreadInv /\ OtherInv

LEMMA LenNat ==
    ASSUME NEW p \in Programs, NEW t \in Threads
    PROVE  Len(Code[p][t]) \in Nat
BY CodeClosed

LEMMA ZeroThread == 0 \in Threads
BY ThreadsConstants DEF Threads

\* thread t's record moved on
LEMMA SkipFields ==
    ASSUME Shaped(th), NEW t \in Threads, NEW n
    PROVE  /\ Shaped(Skip(t, n))
           /\ Skip(t, n)[t].pc = th[t].pc + 1 + n
           /\ Skip(t, n)[t].st = th[t].st
           /\ Skip(t, n)[t].reg = th[t].reg
           /\ Skip(t, n)[t].hdl = th[t].hdl
           /\ Skip(t, n)[t].fin = th[t].fin
           /\ Skip(t, n)[t].cancel = th[t].cancel
           /\ Skip(t, n)[t].nocancel = th[t].nocancel
           /\ Skip(t, n)[t].mask = th[t].mask
           /\ \A u \in Threads \ {t} : Skip(t, n)[u] = th[u]
BY DEF Skip, Shaped, Fields

\* what one step of thread t may do to the threads: it moves t within its
\* code, and leaves the others where they are
LEMMA ThreadMoves ==
    ASSUME ThreadInv, NEW t \in Threads, prog' = prog, Shaped(th'),
           WithinCode(th'[t], Len(Code[prog][t])),
           th'[t].st \notin {"cvwait", "relock"} \/ (th'[t].pc = th[t].pc /\ Ins(t)[1] = "cvwait"),
           \A u \in Threads \ {t} :
              /\ th'[u].pc = th[u].pc /\ th'[u].hdl = th[u].hdl
              /\ th'[u].fin = th[u].fin /\ th'[u].nocancel = th[u].nocancel
              /\ th'[u].cancel \in BOOLEAN /\ th'[u].mask \in BOOLEAN
              /\ \/ th'[u].st = th[u].st
                 \/ th[u].st = "cvwait" /\ th'[u].st = "relock"
                 \/ th'[u].st = "ready" /\ Len(Code[prog][u]) > 0
    PROVE  ThreadInv'
<1>1. \A u \in Threads : WithinCode(th'[u], Len(Code[prog][u]))
  <2> SUFFICES ASSUME NEW u \in Threads \ {t} PROVE WithinCode(th'[u], Len(Code[prog][u]))
    OBVIOUS
  <2>1. prog \in Programs /\ Len(Code[prog][u]) \in Nat
    BY LenNat DEF ThreadInv
  <2> HIDE DEF Closed
  <2>2. WithinCode(th[u], Len(Code[prog][u]))
    BY DEF ThreadInv
  <2> QED BY <2>1, <2>2 DEF WithinCode, Statuses
<1>2. \A u \in Threads : Waiting(u)' => Ins(u)'[1] = "cvwait"
  <2> SUFFICES ASSUME NEW u \in Threads, Waiting(u)' PROVE Ins(u)'[1] = "cvwait"
    OBVIOUS
  <2>1. CASE u = t
    BY <2>1 DEF Waiting, Ins, TheCode
  <2>2. CASE u # t
    <3>1. Waiting(u) /\ th'[u].pc = th[u].pc
      BY <2>2 DEF Waiting
    <3> QED BY <3>1 DEF Ins, TheCode, ThreadInv
  <2> QED BY <2>1, <2>2
<1> QED BY <1>1, <1>2 DEF ThreadInv

\* a step of t that only moves it on
LEMMA SkipMoves ==
    ASSUME ThreadInv, NEW t \in Threads, NEW n, th' = Skip(t, n), prog' = prog,
           th[t].st = "ready", th[t].pc + 1 + n \in 1 .. Len(Code[prog][t])
    PROVE  ThreadInv'
<1>1. Shaped(th) /\ WithinCode(th[t], Len(Code[prog][t]))
  BY DEF ThreadInv
<1>2. /\ Shaped(th') /\ th'[t].pc = th[t].pc + 1 + n
      /\ th'[t].st = th[t].st /\ th'[t].hdl = th[t].hdl /\ th'[t].fin = th[t].fin
      /\ th'[t].cancel = th[t].cancel /\ th'[t].nocancel = th[t].nocancel
      /\ th'[t].mask = th[t].mask
      /\ \A u \in Threads \ {t} : th'[u] = th[u]
  BY <1>1, SkipFields
<1>3. WithinCode(th'[t], Len(Code[prog][t]))
  BY <1>1, <1>2 DEF WithinCode
<1>4. \A u \in Threads \ {t} : th'[u].cancel \in BOOLEAN /\ th'[u].mask \in BOOLEAN
  BY <1>2 DEF ThreadInv, WithinCode
<1> QED BY <1>2, <1>3, <1>4, ThreadMoves

LEMMA InCode ==
    ASSUME ThreadInv, NEW t \in Threads, th[t].st # "none"
    PROVE  /\ th[t].pc \in 1 .. Len(Code[prog][t]) /\ Len(Code[prog][t]) \in Nat
           /\ Closed(prog, t, th[t].pc) /\ Ins(t) = Code[prog][t][th[t].pc]
<1>1. prog \in Programs /\ WithinCode(th[t], Len(Code[prog][t]))
  BY DEF ThreadInv
<1>2. th[t].pc \in 1 .. Len(Code[prog][t])
  BY <1>1 DEF WithinCode
<1> QED BY <1>1, <1>2, CodeClosed DEF Ins, TheCode

\* the instructions that go on with the next one
LEMMA NextInCode ==
    ASSUME ThreadInv, NEW t \in Threads, th[t].st # "none",
           Ins(t)[1] \notin {"goto", "texit", "exit", "handler_end", "pause"}
    PROVE  th[t].pc + 1 + 0 \in 1 .. Len(Code[prog][t])
<1>1. PICK i, n : i = th[t].pc /\ n = Len(Code[prog][t])
  OBVIOUS
<1>2. i \in 1 .. n /\ n \in Nat
  BY <1>1, InCode
<1>3. i < n
  BY <1>1, InCode DEF Closed
<1>4. i + 1 + 0 \in 1 .. n
  BY <1>2, <1>3
<1> QED BY <1>1, <1>4

LEMMA NextPlace ==
    ASSUME ThreadInv, NEW t \in Threads, th[t].st # "none"
    PROVE  th[t].pc + 1 + 0 = th[t].pc + 1 /\ th[t].pc + 1 # 0
<1>1. PICK i, n : i = th[t].pc /\ n = Len(Code[prog][t])
  OBVIOUS
<1>2. i \in 1 .. n /\ n \in Nat
  BY <1>1, InCode
<1>3. i + 1 + 0 = i + 1 /\ i + 1 # 0
  BY <1>2
<1> QED BY <1>1, <1>3

\* thread u's record is as it was but for the value it read, its mask and a
\* cancellation that was asked for
Frame(u) ==
    /\ th'[u].st = th[u].st /\ th'[u].pc = th[u].pc /\ th'[u].hdl = th[u].hdl
    /\ th'[u].fin = th[u].fin /\ th'[u].nocancel = th[u].nocancel
    /\ th'[u].cancel = th[u].cancel /\ th'[u].mask = th[u].mask

\* thread t is ready and at place pc with the clean-up handler hdl and the
\* cancellation state nocancel; the others are where they were
GoesTo(t, pc, hdl, nocancel) ==
    /\ Shaped(th')
    /\ th'[t].st = "ready" /\ th'[t].pc = pc /\ th'[t].hdl = hdl
    /\ th'[t].nocancel = nocancel /\ th'[t].fin = th[t].fin /\ th'[t].cancel = th[t].cancel
    /\ th'[t].mask \in {th[t].mask, TRUE}
    /\ \A u \in Threads \ {t} : Frame(u)

\* function g is th with thread t moved on to place pc
GoneOn(g, t, pc) ==
    /\ Shaped(g) /\ g[t].pc = pc /\ g[t].st = th[t].st /\ g[t].hdl = th[t].hdl
    /\ g[t].fin = th[t].fin /\ g[t].cancel = th[t].cancel /\ g[t].nocancel = th[t].nocancel
    /\ g[t].mask = th[t].mask /\ \A u \in Threads \ {t} : g[u] = th[u]

LEMMA GoFields ==
    ASSUME Shaped(th), NEW t \in Threads
    PROVE  GoneOn(Go(t), t, th[t].pc + 1 + 0)
BY SkipFields DEF Go, GoneOn

LEMMA SkipGoes ==
    ASSUME Shaped(th), NEW t \in Threads, th[t].st = "ready", NEW n, th' = Skip(t, n)
    PROVE  GoesTo(t, th[t].pc + 1 + n, th[t].hdl, th[t].nocancel)
<1>1. PICK j : j = th[t].pc + 1 + n
  OBVIOUS
<1>2. /\ Shaped(th') /\ th'[t].pc = j /\ th'[t].st = "ready" /\ th'[t].hdl = th[t].hdl
      /\ th'[t].fin = th[t].fin /\ th'[t].cancel = th[t].cancel
      /\ th'[t].nocancel = th[t].nocancel /\ th'[t].mask = th[t].mask
      /\ \A u \in Threads \ {t} : th'[u] = th[u]
  BY <1>1, SkipFields
<1>3. GoesTo(t, j, th[t].hdl, th[t].nocancel)
  BY <1>2 DEF GoesTo, Frame
<1> QED BY <1>1, <1>3

LEMMA LoadGoes ==
    ASSUME Shaped(th), NEW t \in Threads, th[t].st = "ready", NEW v,
           th' = [Go(t) EXCEPT ![t].reg = v]
    PROVE  GoesTo(t, th[t].pc + 1 + 0, th[t].hdl, th[t].nocancel)
<1> DEFINE g == Go(t)
<1>1. PICK j : j = th[t].pc + 1 + 0
  OBVIOUS
<1>2. GoneOn(g, t, j)
  BY <1>1, GoFields
<1>3. th' = [g EXCEPT ![t].reg = v]
  OBVIOUS
<1> HIDE DEF g
<1>4. Shaped(th')
  BY <1>2, <1>3 DEF GoneOn, Shaped, Fields
<1>5. \A u \in Threads \ {t} : Frame(u)
  BY <1>2, <1>3 DEF GoneOn, Frame, Shaped
<1>6. /\ th'[t].st = "ready" /\ th'[t].pc = j /\ th'[t].hdl = th[t].hdl
      /\ th'[t].nocancel = th[t].nocancel
  BY <1>2, <1>3 DEF GoneOn, Shaped, Fields
<1>7. /\ th'[t].fin = th[t].fin /\ th'[t].cancel = th[t].cancel
      /\ th'[t].mask \in {th[t].mask, TRUE}
  BY <1>2, <1>3 DEF GoneOn, Shaped, Fields
<1>8. GoesTo(t, j, th[t].hdl, th[t].nocancel)
  BY <1>4, <1>5, <1>6, <1>7 DEF GoesTo
<1> QED BY <1>1, <1>8

LEMMA HdlGoes ==
    ASSUME Shaped(th), NEW t \in Threads, th[t].st = "ready", NEW v,
           th' = [Go(t) EXCEPT ![t].hdl = v]
    PROVE  GoesTo(t, th[t].pc + 1 + 0, v, th[t].nocancel)
<1> DEFINE g == Go(t)
<1>1. PICK j : j = th[t].pc + 1 + 0
  OBVIOUS
<1>2. GoneOn(g, t, j)
  BY <1>1, GoFields
<1>3. th' = [g EXCEPT ![t].hdl = v]
  OBVIOUS
<1> HIDE DEF g
<1>4. Shaped(th')
  BY <1>2, <1>3 DEF GoneOn, Shaped, Fields
<1>5. \A u \in Threads \ {t} : Frame(u)
  BY <1>2, <1>3 DEF GoneOn, Frame, Shaped
<1>6. /\ th'[t].st = "ready" /\ th'[t].pc = j /\ th'[t].hdl = v
      /\ th'[t].nocancel = th[t].nocancel
  BY <1>2, <1>3 DEF GoneOn, Shaped, Fields
<1>7. /\ th'[t].fin = th[t].fin /\ th'[t].cancel = th[t].cancel
      /\ th'[t].mask \in {th[t].mask, TRUE}
  BY <1>2, <1>3 DEF GoneOn, Shaped, Fields
<1>8. GoesTo(t, j, v, th[t].nocancel)
  BY <1>4, <1>5, <1>6, <1>7 DEF GoesTo
<1> QED BY <1>1, <1>8

LEMMA NocancelGoes ==
    ASSUME Shaped(th), NEW t \in Threads, th[t].st = "ready", NEW v,
           th' = [Go(t) EXCEPT ![t].nocancel = v]
    PROVE  GoesTo(t, th[t].pc + 1 + 0, th[t].hdl, v)
<1> DEFINE g == Go(t)
<1>1. PICK j : j = th[t].pc + 1 + 0
  OBVIOUS
<1>2. GoneOn(g, t, j)
  BY <1>1, GoFields
<1>3. th' = [g EXCEPT ![t].nocancel = v]
  OBVIOUS
<1> HIDE DEF g
<1>4. Shaped(th')
  BY <1>2, <1>3 DEF GoneOn, Shaped, Fields
<1>5. \A u \in Threads \ {t} : Frame(u)
  BY <1>2, <1>3 DEF GoneOn, Frame, Shaped
<1>6. /\ th'[t].st = "ready" /\ th'[t].pc = j /\ th'[t].hdl = th[t].hdl
      /\ th'[t].nocancel = v
  BY <1>2, <1>3 DEF GoneOn, Shaped, Fields
<1>7. /\ th'[t].fin = th[t].fin /\ th'[t].cancel = th[t].cancel
      /\ th'[t].mask \in {th[t].mask, TRUE}
  BY <1>2, <1>3 DEF GoneOn, Shaped, Fields
<1>8. GoesTo(t, j, th[t].hdl, v)
  BY <1>4, <1>5, <1>6, <1>7 DEF GoesTo
<1> QED BY <1>1, <1>8

LEMMA MaskGoes ==
    ASSUME Shaped(th), NEW t \in Threads, th[t].st = "ready",
           th' = [Go(t) EXCEPT ![t].mask = TRUE]
    PROVE  GoesTo(t, th[t].pc + 1 + 0, th[t].hdl, th[t].nocancel)
<1> DEFINE g == Go(t)
<1>1. PICK j : j = th[t].pc + 1 + 0
  OBVIOUS
<1>2. GoneOn(g, t, j)
  BY <1>1, GoFields
<1>3. th' = [g EXCEPT ![t].mask = TRUE]
  OBVIOUS
<1> HIDE DEF g
<1>4. Shaped(th')
  BY <1>2, <1>3 DEF GoneOn, Shaped, Fields
<1>5. \A u \in Threads \ {t} : Frame(u)
  BY <1>2, <1>3 DEF GoneOn, Frame, Shaped
<1>6. /\ th'[t].st = "ready" /\ th'[t].pc = j /\ th'[t].hdl = th[t].hdl
      /\ th'[t].nocancel = th[t].nocancel
  BY <1>2, <1>3 DEF GoneOn, Shaped, Fields
<1>7. /\ th'[t].fin = th[t].fin /\ th'[t].cancel = th[t].cancel
      /\ th'[t].mask \in {th[t].mask, TRUE}
  BY <1>2, <1>3 DEF GoneOn, Shaped, Fields
<1>8. GoesTo(t, j, th[t].hdl, th[t].nocancel)
  BY <1>4, <1>5, <1>6, <1>7 DEF GoesTo
<1> QED BY <1>1, <1>8

LEMMA RelockGoes ==
    ASSUME Shaped(th), NEW t \in Threads, th' = [Go(t) EXCEPT ![t].st = "ready"]
    PROVE  GoesTo(t, th[t].pc + 1 + 0, th[t].hdl, th[t].nocancel)
<1> DEFINE g == Go(t)
<1>1. PICK j : j = th[t].pc + 1 + 0
  OBVIOUS
<1>2. GoneOn(g, t, j)
  BY <1>1, GoFields
<1>3. th' = [g EXCEPT ![t].st = "ready"]
  OBVIOUS
<1> HIDE DEF g
<1>4. Shaped(th')
  BY <1>2, <1>3 DEF GoneOn, Shaped, Fields
<1>5. \A u \in Threads \ {t} : Frame(u)
  BY <1>2, <1>3 DEF GoneOn, Frame, Shaped
<1>6. /\ th'[t].st = "ready" /\ th'[t].pc = j /\ th'[t].hdl = th[t].hdl
      /\ th'[t].nocancel = th[t].nocancel
  BY <1>2, <1>3 DEF GoneOn, Shaped, Fields
<1>7. /\ th'[t].fin = th[t].fin /\ th'[t].cancel = th[t].cancel
      /\ th'[t].mask \in {th[t].mask, TRUE}
  BY <1>2, <1>3 DEF GoneOn, Shaped, Fields
<1>8. GoesTo(t, j, th[t].hdl, th[t].nocancel)
  BY <1>4, <1>5, <1>6, <1>7 DEF GoesTo
<1> QED BY <1>1, <1>8

\* pthread_create, pthread_cond_signal and pthread_cancel, which change the
\* record of another thread as well: t goes on at pc, and w is started by it ...
Created(t, w, pc) ==
    /\ Shaped(th')
    /\ th'[t].st = "ready" /\ th'[t].pc = pc /\ th'[t].hdl = th[t].hdl
    /\ th'[t].fin = th[t].fin /\ th'[t].nocancel = th[t].nocancel
    /\ th'[t].cancel = th[t].cancel /\ th'[t].mask = th[t].mask
    /\ w # t => /\ th'[w].st = "ready" /\ th'[w].pc = th[w].pc /\ th'[w].hdl = th[w].hdl
                /\ th'[w].fin = th[w].fin /\ th'[w].nocancel = th[w].nocancel
                /\ th'[w].cancel = th[w].cancel /\ th'[w].mask = th[t].mask
    /\ \A u \in Threads \ {t, w} : Frame(u)

\* ... or asked to end
CancelAsked(t, w, pc) ==
    /\ Shaped(th')
    /\ th'[t].st = "ready" /\ th'[t].pc = pc /\ th'[t].hdl = th[t].hdl
    /\ th'[t].fin = th[t].fin /\ th'[t].nocancel = th[t].nocancel
    /\ th'[t].mask = th[t].mask
    /\ th'[w].cancel = TRUE /\ \A u \in Threads \ {w} : th'[u].cancel = th[u].cancel
    /\ \A u \in Threads \ {t} :
         /\ th'[u].st = th[u].st /\ th'[u].pc = th[u].pc /\ th'[u].hdl = th[u].hdl
         /\ th'[u].fin = th[u].fin /\ th'[u].nocancel = th[u].nocancel
         /\ th'[u].mask = th[u].mask

LEMMA CreateGoes ==
    ASSUME Shaped(th), NEW t \in Threads, th[t].st = "ready", NEW w \in Threads, NEW v,
           th' = [Go(t) EXCEPT ![w].st = "ready", ![w].reg = v, ![w].mask = th[t].mask]
    PROVE  Created(t, w, th[t].pc + 1 + 0)
<1> DEFINE g == Go(t)
<1>1. GoneOn(g, t, th[t].pc + 1 + 0)
  BY GoFields
<1>2. th' = [g EXCEPT ![w].st = "ready", ![w].reg = v, ![w].mask = th[t].mask]
  OBVIOUS
<1> HIDE DEF g
<1>3. Shaped(th') /\ \A u \in Threads \ {w} : th'[u] = g[u]
  BY <1>1, <1>2 DEF GoneOn, Shaped, Fields
<1>4. /\ th'[w].st = "ready" /\ th'[w].pc = g[w].pc /\ th'[w].hdl = g[w].hdl
      /\ th'[w].fin = g[w].fin /\ th'[w].nocancel = g[w].nocancel
      /\ th'[w].cancel = g[w].cancel /\ th'[w].mask = th[t].mask
  BY <1>1, <1>2 DEF GoneOn, Shaped, Fields
<1> QED BY <1>1, <1>3, <1>4 DEF GoneOn, Created, Frame

LEMMA WakeGoes ==
    ASSUME Shaped(th), NEW t \in Threads, th[t].st = "ready", NEW w \in Threads,
           th[w].st = "cvwait", th' = [Go(t) EXCEPT ![w].st = "relock"]
    PROVE  /\ Shaped(th')
           /\ th'[t].st = "ready" /\ th'[t].pc = th[t].pc + 1 + 0 /\ th'[t].hdl = th[t].hdl
           /\ th'[t].fin = th[t].fin /\ th'[t].nocancel = th[t].nocancel
           /\ th'[t].cancel = th[t].cancel /\ th'[t].mask = th[t].mask
           /\ w # t /\ th'[w].st = "relock" /\ th'[w].pc = th[w].pc /\ th'[w].hdl = th[w].hdl
           /\ th'[w].fin = th[w].fin /\ th'[w].nocancel = th[w].nocancel
           /\ th'[w].cancel = th[w].cancel /\ th'[w].mask = th[w].mask
           /\ \A u \in Threads \ {t, w} : Frame(u)
<1> DEFINE g == Go(t)
<1>1. GoneOn(g, t, th[t].pc + 1 + 0)
  BY GoFields
<1>2. th' = [g EXCEPT ![w].st = "relock"]
  OBVIOUS
<1> HIDE DEF g
<1>3. Shaped(th') /\ \A u \in Threads \ {w} : th'[u] = g[u]
  BY <1>1, <1>2 DEF GoneOn, Shaped, Fields
<1>4. /\ th'[w].st = "relock" /\ th'[w].pc = g[w].pc /\ th'[w].hdl = g[w].hdl
      /\ th'[w].fin = g[w].fin /\ th'[w].nocancel = g[w].nocancel
      /\ th'[w].cancel = g[w].cancel /\ th'[w].mask = g[w].mask
  BY <1>1, <1>2 DEF GoneOn, Shaped, Fields
<1>5. w # t
  OBVIOUS
<1> QED BY <1>1, <1>3, <1>4, <1>5 DEF GoneOn, Frame

LEMMA CancelGoes ==
    ASSUME Shaped(th), NEW t \in Threads, th[t].st = "ready", NEW w \in Threads,
           th' = [Go(t) EXCEPT ![w].cancel = TRUE]
    PROVE  CancelAsked(t, w, th[t].pc + 1 + 0)
<1> DEFINE g == Go(t)
<1>1. GoneOn(g, t, th[t].pc + 1 + 0)
  BY GoFields
<1>2. th' = [g EXCEPT ![w].cancel = TRUE]
  OBVIOUS
<1> HIDE DEF g
<1>3. Shaped(th') /\ \A u \in Threads \ {w} : th'[u] = g[u]
  BY <1>1, <1>2 DEF GoneOn, Shaped, Fields
<1>4. /\ th'[w].cancel = TRUE /\ th'[w].pc = g[w].pc /\ th'[w].hdl = g[w].hdl
      /\ th'[w].fin = g[w].fin /\ th'[w].nocancel = g[w].nocancel
      /\ th'[w].st = g[w].st /\ th'[w].mask = g[w].mask
  BY <1>1, <1>2 DEF GoneOn, Shaped, Fields
<1> QED BY <1>1, <1>3, <1>4 DEF GoneOn, CancelAsked

\* a thread that ends, or goes to its clean-up handler first
LEMMA EndGoes ==
    ASSUME Shaped(th), NEW t \in Threads, NEW st, th' = EndOf(t, st)
    PROVE  /\ Shaped(th') /\ \A u \in Threads \ {t} : Frame(u)
           /\ th'[t].cancel = th[t].cancel /\ th'[t].mask = th[t].mask
           /\ th[t].hdl # 0 => /\ th'[t].pc = th[t].hdl /\ th'[t].hdl = 0 /\ th'[t].fin = st
                               /\ th'[t].nocancel = TRUE /\ th'[t].st = th[t].st
           /\ th[t].hdl = 0 => /\ th'[t].st = st /\ th'[t].pc = th[t].pc
                               /\ th'[t].hdl = th[t].hdl /\ th'[t].fin = th[t].fin
                               /\ th'[t].nocancel = th[t].nocancel
BY DEF EndOf, Frame, Shaped, Fields

LEMMA StatusGoes ==
    ASSUME Shaped(th), NEW t \in Threads, NEW st, th' = [th EXCEPT ![t].st = st]
    PROVE  /\ Shaped(th') /\ \A u \in Threads \ {t} : Frame(u)
           /\ th'[t].st = st /\ th'[t].pc = th[t].pc /\ th'[t].hdl = th[t].hdl
           /\ th'[t].fin = th[t].fin /\ th'[t].nocancel = th[t].nocancel
           /\ th'[t].cancel = th[t].cancel /\ th'[t].mask = th[t].mask
BY DEF Frame, Shaped, Fields

LEMMA GoesKeeps ==
    ASSUME ThreadInv, NEW t \in Threads, prog' = prog, NEW pc, NEW hdl, NEW nocancel,
           GoesTo(t, pc, hdl, nocancel), pc \in 1 .. Len(Code[prog][t]),
           hdl \in 0 .. Len(Code[prog][t]), nocancel \in BOOLEAN
    PROVE  ThreadInv'
<1>1. WithinCode(th[t], Len(Code[prog][t]))
  BY DEF ThreadInv
<1>2. WithinCode(th'[t], Len(Code[prog][t])) /\ th'[t].st = "ready" /\ Shaped(th')
  BY <1>1 DEF GoesTo, WithinCode, Statuses
<1>3. \A u \in Threads \ {t} : Frame(u) /\ th'[u].cancel \in BOOLEAN /\ th'[u].mask \in BOOLEAN
  BY DEF GoesTo, Frame, ThreadInv, WithinCode
<1> QED BY <1>2, <1>3, ThreadMoves DEF Frame

\* every step keeps every thread within its code
LEMMA StepThreadInv ==
    ASSUME ThreadInv, NEW t \in Threads, ThreadStep(t) \/ SpuriousWakeup(t)
    PROVE  ThreadInv'
<1> DEFINE len == Len(Code[prog][t])
<1>a. Shaped(th) /\ WithinCode(th[t], len) /\ prog \in Programs
  BY DEF ThreadInv
<1>b. /\ th[t].hdl \in 0 .. len /\ th[t].nocancel \in BOOLEAN /\ len \in Nat
      /\ th[t].fin \in {"ended", "cancelled"}
  BY <1>a, LenNat DEF WithinCode
<1>c. prog' = prog
  BY DEF ThreadStep, SpuriousWakeup, Create, Fatal, Join, TimedJoin, ThreadExit, Exit, Plain,
     Goto, Maybe, SkipIf, Load, Store, Alloc, Free, Overflow, Lock, Unlock, MutexLife, CondWait,
     CondSignal, Relock, Cleanup, CancelState, Cancel, Cancelled, HandlerEnd, SigMask, SigWait
<1>same. ASSUME UNCHANGED th PROVE ThreadInv'
  BY <1>same, <1>c DEF ThreadInv, Waiting, Ins
<1>skip. ASSUME NEW n, th[t].st = "ready", th' = Skip(t, n), th[t].pc + 1 + n \in 1 .. len
         PROVE ThreadInv'
  BY <1>skip, <1>c, SkipMoves
<1>go. ASSUME th[t].st = "ready", th' = Go(t),
              Ins(t)[1] \notin {"goto", "texit", "exit", "handler_end", "pause"}
       PROVE ThreadInv'
  <2>1. th[t].pc + 1 + 0 \in 1 .. len
    BY <1>go, NextInCode
  <2> QED BY <2>1, <1>go, <1>skip DEF Go
<1>next. ASSUME th[t].st # "none", Ins(t)[1] \notin {"goto", "texit", "exit", "handler_end", "pause"}
         PROVE  th[t].pc + 1 + 0 \in 1 .. len
  BY <1>next, NextInCode
<1>end. ASSUME NEW st \in {"ended", "cancelled"}, th[t].st = "ready", th' = EndOf(t, st)
        PROVE ThreadInv'
  <2>1. Shaped(th') /\ (\A u \in Threads \ {t} : Frame(u))
    BY <1>a, <1>end, EndGoes
  <2>2. WithinCode(th'[t], len) /\ ~Waiting(t)'
    <3>1. CASE th[t].hdl # 0
      <4>1. /\ th'[t].pc = th[t].hdl /\ th'[t].hdl = 0 /\ th'[t].fin = st
            /\ th'[t].nocancel = TRUE /\ th'[t].st = "ready"
            /\ th'[t].cancel = th[t].cancel /\ th'[t].mask = th[t].mask
        BY <3>1, <1>a, <1>end, EndGoes
      <4>2. th[t].hdl \in 1 .. len
        BY <3>1, <1>b
      <4>3. th'[t].nocancel \in BOOLEAN
        BY <4>1
      <4>4. /\ th'[t].pc = th[t].hdl /\ th'[t].hdl = 0 /\ th'[t].fin = st
            /\ th'[t].st = "ready" /\ th'[t].cancel = th[t].cancel /\ th'[t].mask = th[t].mask
        BY <4>1
      <4> QED BY <4>2, <4>3, <4>4, <1>a, <1>b DEF WithinCode, Waiting, Statuses
    <3>2. CASE th[t].hdl = 0
      BY <3>2, <1>a, <1>b, <1>end, EndGoes DEF WithinCode, Waiting, Statuses
    <3> QED BY <3>1, <3>2
  <2>3. \A u \in Threads \ {t} : th'[u].cancel \in BOOLEAN /\ th'[u].mask \in BOOLEAN
    BY <2>1 DEF Frame, ThreadInv, WithinCode
  <2> QED BY <2>1, <2>2, <2>3, <1>c, ThreadMoves DEF Frame, Waiting
<1>status. ASSUME NEW st \in Statuses, th' = [th EXCEPT ![t].st = st], th[t].st # "none",
                  st \notin {"cvwait", "relock"} \/ Ins(t)[1] = "cvwait"
           PROVE  ThreadInv'
  <2>1. /\ Shaped(th') /\ (\A u \in Threads \ {t} : Frame(u))
        /\ th'[t].st = st /\ th'[t].pc = th[t].pc /\ th'[t].hdl = th[t].hdl
        /\ th'[t].fin = th[t].fin /\ th'[t].nocancel = th[t].nocancel
        /\ th'[t].cancel = th[t].cancel /\ th'[t].mask = th[t].mask
    BY <1>a, <1>status, StatusGoes
  <2>2. WithinCode(th'[t], len)
    BY <2>1, <1>a, <1>status DEF WithinCode
  <2>3. \A u \in Threads \ {t} : th'[u].cancel \in BOOLEAN /\ th'[u].mask \in BOOLEAN
    BY <2>1 DEF Frame, ThreadInv, WithinCode
  <2> QED BY <2>1, <2>2, <2>3, <1>c, <1>status, ThreadMoves DEF Frame
<1> HIDE DEF len
<1>1. CASE Create(t)
  <2>1. PICK w : w = Ins(t)[2]
    OBVIOUS
  <2>2. th[t].st = "ready" /\ Ins(t)[1] = "create"
    BY <1>1 DEF Create, At
  <2>3. w \in Threads /\ Len(Code[prog][w]) > 0
    BY <2>1, <2>2, InCode DEF Closed
  <2>4. th[t].pc + 1 + 0 \in 1 .. len
    BY <2>2, <1>next
  <2>5. th' = [Go(t) EXCEPT ![w].st = "ready", ![w].reg = Ins(t)[3], ![w].mask = th[t].mask]
    BY <1>1, <2>1 DEF Create
  <2>6. /\ Shaped(th')
        /\ th'[t].st = "ready" /\ th'[t].pc = th[t].pc + 1 + 0 /\ th'[t].hdl = th[t].hdl
        /\ th'[t].fin = th[t].fin /\ th'[t].nocancel = th[t].nocancel
        /\ th'[t].cancel = th[t].cancel /\ th'[t].mask = th[t].mask
        /\ w # t => /\ th'[w].st = "ready" /\ th'[w].pc = th[w].pc /\ th'[w].hdl = th[w].hdl
                    /\ th'[w].fin = th[w].fin /\ th'[w].nocancel = th[w].nocancel
                    /\ th'[w].cancel = th[w].cancel /\ th'[w].mask = th[t].mask
        /\ \A u \in Threads \ {t, w} : Frame(u)
    BY <1>a, <2>2, <2>3, <2>5, CreateGoes DEF Created
  <2>7. WithinCode(th'[t], len)
    BY <2>4, <2>6, <1>a DEF WithinCode, Statuses
  <2>8. ASSUME NEW u \in Threads \ {t}
        PROVE  /\ th'[u].pc = th[u].pc /\ th'[u].hdl = th[u].hdl
               /\ th'[u].fin = th[u].fin /\ th'[u].nocancel = th[u].nocancel
               /\ th'[u].cancel \in BOOLEAN /\ th'[u].mask \in BOOLEAN
               /\ \/ th'[u].st = th[u].st
                  \/ th'[u].st = "ready" /\ Len(Code[prog][u]) > 0
    <3>1. th[u].cancel \in BOOLEAN /\ th[u].mask \in BOOLEAN /\ th[t].mask \in BOOLEAN
      BY DEF ThreadInv, WithinCode
    <3>2. CASE u = w
      BY <3>1, <3>2, <2>3, <2>6
    <3>3. CASE u # w
      BY <3>1, <3>3, <2>6 DEF Frame
    <3> QED BY <3>2, <3>3
  <2> QED BY <2>6, <2>7, <2>8, <1>c, ThreadMoves DEF len
<1>2. CASE Fatal(t)
  BY <1>2, <1>same DEF Fatal
<1>3. CASE Join(t)
  BY <1>3, <1>go DEF Join, At
<1>4. CASE TimedJoin(t)
  <2>1. th[t].st = "ready" /\ Ins(t)[1] = "timedjoin"
    BY <1>4 DEF TimedJoin, At
  <2>2. th[t].pc + 1 + Ins(t)[3] \in 1 .. len
    BY <2>1, InCode DEF Closed, len
  <2>3. th' = Go(t) \/ th' = Skip(t, Ins(t)[3])
    BY <1>4 DEF TimedJoin
  <2> QED BY <2>1, <2>2, <2>3, <1>go, <1>skip
<1>5. CASE ThreadExit(t)
  BY <1>5, <1>end DEF ThreadExit, At
<1>6. CASE Exit(t)
  BY <1>6, <1>same DEF Exit
<1>7. CASE Plain(t)
  BY <1>7, <1>go DEF Plain, At
<1>8. CASE Goto(t)
  <2>1. th[t].st = "ready" /\ Ins(t)[1] = "goto"
    BY <1>8 DEF Goto, At
  <2>2. th[t].pc + 1 + Ins(t)[2] \in 1 .. len
    BY <2>1, InCode DEF Closed, len
  <2> QED BY <1>8, <2>1, <2>2, <1>skip DEF Goto
<1>9. CASE Maybe(t)
  <2>1. th[t].st = "ready" /\ Ins(t)[1] = "maybe"
    BY <1>9 DEF Maybe, At
  <2>2. th[t].pc + 1 + Ins(t)[2] \in 1 .. len
    BY <2>1, InCode DEF Closed, len
  <2>3. th' = Go(t) \/ th' = Skip(t, Ins(t)[2])
    BY <1>9 DEF Maybe
  <2> QED BY <2>1, <2>2, <2>3, <1>go, <1>skip
<1>10. CASE SkipIf(t)
  <2>1. th[t].st = "ready" /\ Ins(t)[1] = "skipif"
    BY <1>10 DEF SkipIf, At
  <2>2. th[t].pc + 1 + Ins(t)[6] \in 1 .. len
    BY <2>1, InCode DEF Closed, len
  <2>3. th' = Go(t) \/ th' = Skip(t, Ins(t)[6])
    BY <1>10 DEF SkipIf
  <2> QED BY <2>1, <2>2, <2>3, <1>go, <1>skip
<1>goes. ASSUME NEW hdl \in 0 .. len, NEW nocancel \in BOOLEAN, th[t].st # "none",
                Ins(t)[1] \notin {"goto", "texit", "exit", "handler_end", "pause"},
                GoesTo(t, th[t].pc + 1 + 0, hdl, nocancel)
         PROVE  ThreadInv'
  <2>1. th[t].pc + 1 + 0 \in 1 .. len
    BY <1>goes, <1>next
  <2> QED BY <2>1, <1>goes, <1>c, GoesKeeps DEF len
<1>11. CASE Load(t)
  <2>1. th[t].st = "ready" /\ Ins(t)[1] = "load" /\ th' = [Go(t) EXCEPT ![t].reg = mem[Cell(t)]]
    BY <1>11 DEF Load, At
  <2>2. GoesTo(t, th[t].pc + 1 + 0, th[t].hdl, th[t].nocancel)
    BY <2>1, <1>a, LoadGoes
  <2> QED BY <2>1, <2>2, <1>b, <1>goes
<1>12. CASE Store(t)
  BY <1>12, <1>go DEF Store, At, Writes
<1>13. CASE Alloc(t)
  BY <1>13, <1>go DEF Alloc, At
<1>14. CASE Free(t)
  BY <1>14, <1>go DEF Free, At
<1>15. CASE Overflow(t)
  BY <1>15, <1>go, <1>same DEF Overflow, At
<1>16. CASE Lock(t)
  BY <1>16, <1>go DEF Lock, At
<1>17. CASE Unlock(t)
  BY <1>17, <1>go DEF Unlock, At
<1>18. CASE MutexLife(t)
  BY <1>18, <1>go DEF MutexLife, At
<1>19. CASE CondWait(t)
  BY <1>19, <1>status DEF CondWait, At, Statuses
<1>20. CASE CondSignal(t)
  <2>1. th[t].st = "ready" /\ Ins(t)[1] = "cvsignal"
    BY <1>20 DEF CondSignal, At
  <2>2. CASE th' = Go(t)
    BY <2>1, <2>2, <1>go
  <2>3. CASE \E w \in Threads : th[w].st = "cvwait" /\ th' = [Go(t) EXCEPT ![w].st = "relock"]
    <3>1. PICK w \in Threads : th[w].st = "cvwait" /\ th' = [Go(t) EXCEPT ![w].st = "relock"]
      BY <2>3
    <3>2. /\ Shaped(th')
          /\ th'[t].st = "ready" /\ th'[t].pc = th[t].pc + 1 + 0 /\ th'[t].hdl = th[t].hdl
          /\ th'[t].fin = th[t].fin /\ th'[t].nocancel = th[t].nocancel
          /\ th'[t].cancel = th[t].cancel /\ th'[t].mask = th[t].mask
          /\ w # t /\ th'[w].st = "relock" /\ th'[w].pc = th[w].pc /\ th'[w].hdl = th[w].hdl
          /\ th'[w].fin = th[w].fin /\ th'[w].nocancel = th[w].nocancel
          /\ th'[w].cancel = th[w].cancel /\ th'[w].mask = th[w].mask
          /\ \A u \in Threads \ {t, w} : Frame(u)
      BY <1>a, <2>1, <3>1, WakeGoes
    <3>3. WithinCode(th'[t], len)
      BY <2>1, <3>2, <1>a, <1>next DEF WithinCode, Statuses
    <3>4. ASSUME NEW u \in Threads \ {t}
          PROVE  /\ th'[u].pc = th[u].pc /\ th'[u].hdl = th[u].hdl
                 /\ th'[u].fin = th[u].fin /\ th'[u].nocancel = th[u].nocancel
                 /\ th'[u].cancel \in BOOLEAN /\ th'[u].mask \in BOOLEAN
                 /\ th'[u].st = th[u].st \/ (th[u].st = "cvwait" /\ th'[u].st = "relock")
      <4>1. th[u].cancel \in BOOLEAN /\ th[u].mask \in BOOLEAN
        BY DEF ThreadInv, WithinCode
      <4>2. CASE u = w
        BY <4>1, <4>2, <3>1, <3>2
      <4>3. CASE u # w
        BY <4>1, <4>3, <3>2 DEF Frame
      <4> QED BY <4>2, <4>3
    <3> QED BY <3>2, <3>3, <3>4, <1>c, ThreadMoves DEF len
  <2> QED BY <1>20, <2>2, <2>3 DEF CondSignal
<1>21. CASE Relock(t)
  <2>1. /\ th[t].st = "relock" /\ th' = [Go(t) EXCEPT ![t].st = "ready"]
    BY <1>21 DEF Relock
  <2>2. Ins(t)[1] = "cvwait"
    BY <2>1 DEF ThreadInv, Waiting
  <2>3. GoesTo(t, th[t].pc + 1 + 0, th[t].hdl, th[t].nocancel)
    BY <2>1, <1>a, RelockGoes
  <2> QED BY <2>1, <2>2, <2>3, <1>b, <1>goes
<1>22. CASE Cleanup(t)
  <2>1. PICK v : v = IF Ins(t)[1] = "push" THEN Ins(t)[2] ELSE 0
    OBVIOUS
  <2>2. /\ th[t].st = "ready" /\ Ins(t)[1] \in {"push", "pop"}
        /\ th' = [Go(t) EXCEPT ![t].hdl = v]
    BY <1>22, <2>1 DEF Cleanup, At
  <2>3. GoesTo(t, th[t].pc + 1 + 0, v, th[t].nocancel)
    BY <2>2, <1>a, HdlGoes
  <2>4. Closed(prog, t, th[t].pc) /\ Ins(t) = Code[prog][t][th[t].pc]
    BY <2>2, InCode
  <2>5. Ins(t)[1] = "push" => Ins(t)[2] \in 1 .. len
    BY <2>4 DEF Closed, len
  <2>6. v \in 0 .. len
    BY <2>1, <2>5, <1>b
  <2> QED BY <2>2, <2>3, <2>6, <1>b, <1>goes
<1>23. CASE CancelState(t)
  <2>1. PICK v \in BOOLEAN : v = (Ins(t)[1] = "cancel_off")
    OBVIOUS
  <2>2. /\ th[t].st = "ready" /\ Ins(t)[1] \in {"cancel_off", "cancel_on"}
        /\ th' = [Go(t) EXCEPT ![t].nocancel = v]
    BY <1>23, <2>1 DEF CancelState, At
  <2>3. GoesTo(t, th[t].pc + 1 + 0, th[t].hdl, v)
    BY <2>2, <1>a, NocancelGoes
  <2> QED BY <2>2, <2>3, <1>b, <1>goes
<1>24. CASE Cancel(t)
  <2>1. PICK w : w = Ins(t)[2]
    OBVIOUS
  <2>2. /\ th[t].st = "ready" /\ Ins(t)[1] = "cancel"
        /\ th' = [Go(t) EXCEPT ![w].cancel = TRUE]
    BY <1>24, <2>1 DEF Cancel, At
  <2>3. w \in Threads
    BY <2>1, <2>2, InCode DEF Closed
  <2>4. /\ Shaped(th')
        /\ th'[t].st = "ready" /\ th'[t].pc = th[t].pc + 1 + 0 /\ th'[t].hdl = th[t].hdl
        /\ th'[t].fin = th[t].fin /\ th'[t].nocancel = th[t].nocancel
        /\ th'[t].mask = th[t].mask
        /\ th'[w].cancel = TRUE /\ (\A u \in Threads \ {w} : th'[u].cancel = th[u].cancel)
        /\ \A u \in Threads \ {t} :
             /\ th'[u].st = th[u].st /\ th'[u].pc = th[u].pc /\ th'[u].hdl = th[u].hdl
             /\ th'[u].fin = th[u].fin /\ th'[u].nocancel = th[u].nocancel
             /\ th'[u].mask = th[u].mask
    BY <2>2, <2>3, <1>a, CancelGoes DEF CancelAsked
  <2>5. \A u \in Threads : th'[u].cancel \in BOOLEAN /\ th[u].mask \in BOOLEAN
    BY <2>3, <2>4 DEF ThreadInv, WithinCode
  <2>6. WithinCode(th'[t], len)
    BY <2>2, <2>4, <2>5, <1>a, <1>next DEF WithinCode, Statuses
  <2> QED BY <2>4, <2>5, <2>6, <1>c, ThreadMoves DEF len
<1>25. CASE Cancelled(t)
  BY <1>25, <1>end DEF Cancelled, At
<1>26. CASE HandlerEnd(t)
  <2>1. th[t].st = "ready" /\ th' = [th EXCEPT ![t].st = th[t].fin]
    BY <1>26 DEF HandlerEnd, At
  <2>2. th[t].fin \in Statuses /\ th[t].fin \notin {"cvwait", "relock"}
    BY <1>b DEF Statuses
  <2> QED BY <2>1, <2>2, <1>status
<1>27. CASE SigMask(t)
  <2>1. /\ th[t].st = "ready" /\ Ins(t)[1] = "sigmask"
        /\ th' = [Go(t) EXCEPT ![t].mask = TRUE]
    BY <1>27 DEF SigMask, At
  <2>2. GoesTo(t, th[t].pc + 1 + 0, th[t].hdl, th[t].nocancel)
    BY <2>1, <1>a, MaskGoes
  <2> QED BY <2>1, <2>2, <1>b, <1>goes
<1>28. CASE SigWait(t)
  BY <1>28, <1>go DEF SigWait, At
<1>29. CASE SpuriousWakeup(t)
  <2>1. th[t].st = "cvwait" /\ th' = [th EXCEPT ![t].st = "relock"]
    BY <1>29 DEF SpuriousWakeup
  <2>2. Ins(t)[1] = "cvwait"
    BY <2>1 DEF ThreadInv, Waiting
  <2> QED BY <2>1, <2>2, <1>status DEF Statuses
<1> QED
  BY <1>1, <1>2, <1>3, <1>4, <1>5, <1>6, <1>7, <1>8, <1>9, <1>10, <1>11, <1>12, <1>13, <1>14,
     <1>15, <1>16, <1>17, <1>18, <1>19, <1>20, <1>21, <1>22, <1>23, <1>24, <1>25, <1>26, <1>27,
     <1>28, <1>29 DEF ThreadStep

LEMMA StepOtherInv ==
    ASSUME OtherInv, NEW t \in Threads, ThreadStep(t) \/ SpuriousWakeup(t)
    PROVE  OtherInv'
<1> USE ThreadsConstants
<1>mutex. ASSUME NEW owner \in Threads \cup {Nobody, Gone}, SetMutex(t, owner),
                 UNCHANGED <<pend, sent, proc>>
          PROVE  OtherInv'
  <2>1. mtx' = [mtx EXCEPT ![Ins(t)[2]] = owner]
    BY <1>mutex DEF SetMutex
  <2>2. DOMAIN mtx' = DOMAIN mtx
    BY <2>1
  <2>3. \A m \in DOMAIN mtx : mtx'[m] = mtx[m] \/ mtx'[m] = owner
    BY <2>1
  <2> QED BY <2>2, <2>3, <1>mutex DEF OtherInv
<1>same. ASSUME UNCHANGED <<mtx, pend, sent>>, proc' \in {proc, "exited", "failed", "crashed"}
         PROVE  OtherInv'
  BY <1>same DEF OtherInv
<1>1. CASE Fatal(t) \/ Exit(t) \/ Overflow(t)
  BY <1>1, <1>same DEF Fatal, Exit, Overflow
<1>2. CASE \/ Create(t) \/ Join(t) \/ TimedJoin(t) \/ ThreadExit(t) \/ Plain(t) \/ Goto(t)
           \/ Maybe(t) \/ SkipIf(t) \/ Load(t) \/ Store(t) \/ Alloc(t) \/ Free(t)
           \/ CondSignal(t) \/ Cleanup(t) \/ CancelState(t) \/ Cancel(t) \/ Cancelled(t)
           \/ HandlerEnd(t) \/ SigMask(t)
  BY <1>2, <1>same DEF Create, Join, TimedJoin, ThreadExit, Plain, Goto, Maybe, SkipIf, Load,
     Store, Alloc, Free, CondSignal, Cleanup, CancelState, Cancel, Cancelled, HandlerEnd,
     SigMask, shared
<1>3. CASE Lock(t) \/ Relock(t)
  BY <1>3, <1>mutex DEF Lock, Relock
<1>4. CASE Unlock(t) \/ CondWait(t)
  BY <1>4, <1>mutex DEF Unlock, CondWait
<1>5. CASE MutexLife(t)
  BY <1>5, <1>mutex DEF MutexLife
<1>6. CASE SigWait(t)
  BY <1>6 DEF SigWait, OtherInv
<1>7. CASE SpuriousWakeup(t)
  BY <1>7 DEF SpuriousWakeup, OtherInv
<1> QED BY <1>1, <1>2, <1>3, <1>4, <1>5, <1>6, <1>7 DEF ThreadStep

LEMMA InitTypeInv == Init => TypeInv
<1> SUFFICES ASSUME Init PROVE TypeInv
  OBVIOUS
<1> USE ThreadsConstants DEF Init
<1>1. prog \in Programs /\ Len(Code[prog][0]) > 0
  BY CodeClosed
<1>2. Shaped(th)
  BY DEF Shaped, Fields
<1>3. ASSUME NEW t \in Threads
      PROVE  WithinCode(th[t], Len(Code[prog][t])) /\ ~Waiting(t)
  <2>1. Len(Code[prog][t]) \in Nat
    BY <1>1, LenNat
  <2>2. /\ th[t].st = (IF t = 0 THEN "ready" ELSE "none") /\ th[t].pc = 1 /\ th[t].hdl = 0
        /\ th[t].fin = "ended" /\ th[t].cancel \in BOOLEAN /\ th[t].nocancel \in BOOLEAN
        /\ th[t].mask \in BOOLEAN
    OBVIOUS
  <2> HIDE DEF Init
  <2> QED BY <1>1, <2>1, <2>2 DEF WithinCode, Waiting, Statuses
<1>4. OtherInv
  BY <1>1, CodeClosed DEF OtherInv
<1> QED BY <1>1, <1>2, <1>3, <1>4 DEF TypeInv, ThreadInv

LEMMA StepTypeInv == TypeInv /\ [Next]_vars => TypeInv'
<1> SUFFICES ASSUME TypeInv, [Next]_vars PROVE TypeInv'
  OBVIOUS
<1>1. CASE Signal
  <2>1. ThreadInv'
    BY <1>1 DEF Signal, TypeInv, ThreadInv, Waiting, Ins
  <2>2. OtherInv'
    BY <1>1, ThreadsConstants DEF Signal, TypeInv, OtherInv
  <2> QED BY <2>1, <2>2 DEF TypeInv
<1>2. ASSUME NEW t \in Threads, ThreadStep(t) \/ SpuriousWakeup(t)
      PROVE  TypeInv'
  BY <1>2, StepThreadInv, StepOtherInv DEF TypeInv
<1>3. CASE UNCHANGED vars
  BY <1>3 DEF vars, TypeInv, ThreadInv, OtherInv, Waiting, Ins
<1> QED BY <1>1, <1>2, <1>3 DEF Next

LEMMA TypeInvTypeOK == TypeInv => TypeOK
<1> SUFFICES ASSUME TypeInv PROVE TypeOK
  OBVIOUS
<1>1. ASSUME NEW t \in Threads
      PROVE  /\ th[t].st \in Statuses
             /\ Alive(t) => th[t].pc \in 1 .. Len(Code[prog][t])
             /\ th[t].hdl \in 0 .. Len(Code[prog][t])
             /\ {th[t].cancel, th[t].nocancel, th[t].mask} \subseteq BOOLEAN
  BY DEF TypeInv, ThreadInv, WithinCode, Alive
<1> QED BY <1>1 DEF TypeInv, ThreadInv, OtherInv, TypeOK

\* No thread of a program whose jumps, handlers and created threads lie within
\* its code ever leaves it, whatever the interleaving, the failing calls, the
\* cancellations and the signals; owners of mutexes are threads, and no signal
\* is taken that was not sent.
THEOREM ThreadsTypeCorrect == Spec => []TypeOK
<1>1. Spec => []TypeInv
  BY InitTypeInv, StepTypeInv, PTL DEF Spec
<1> QED BY <1>1, TypeInvTypeOK, PTL

-----------------------------------------------------------------------------
(* Facts: what an instruction does to the cells, the heap and the mutexes  *)

Effect(ins) ==
    /\ ins[1] \in Writes =>
         \E v : mem' = [mem EXCEPT ![Target(ins)] = v] /\ (ins[1] = "store" => v = ins[4])
    /\ ins[1] \notin Writes => mem' = mem
    /\ ins[1] = "alloc" => heap' = heap \cup {Target(ins)}
    /\ ins[1] = "free" => heap' = heap \ {Target(ins)}
    /\ ins[1] \notin {"alloc", "free"} => heap' = heap
    /\ \A m \in DOMAIN mtx :
         mtx'[m] = Gone => mtx[m] = Gone \/ (ins[1] = "destroymutex" /\ ins[2] = m)

LEMMA WithinSound ==
    ASSUME NEW F, NEW c, NEW lo, NEW hi, Within(F, c, lo, hi), lo \in Int, hi \in Int,
           \A g \in F : Known(g) /\ Formed(g, mem, mtx)
    PROVE  mem[c] \in lo .. hi
<1>1. PICK g \in F : g[1] = "val" /\ g[2] = c /\ lo <= g[3] /\ g[4] <= hi
  BY DEF Within
<1>2. mem[g[2]] \in g[3] .. g[4]
  BY <1>1 DEF Known, KnownIn
<1>3. g[3] \in Int /\ g[4] \in Int
  BY <1>1 DEF Formed
<1> QED BY <1>1, <1>2, <1>3

LEMMA OutsideSound ==
    ASSUME NEW F, NEW c, NEW lo, NEW hi, Outside(F, c, lo, hi), lo \in Int, hi \in Int,
           \A g \in F : Known(g) /\ Formed(g, mem, mtx)
    PROVE  mem[c] \notin lo .. hi
<1>1. PICK g \in F : g[1] = "val" /\ g[2] = c /\ (g[4] < lo \/ hi < g[3])
  BY DEF Outside
<1>2. mem[g[2]] \in g[3] .. g[4]
  BY <1>1 DEF Known, KnownIn
<1>3. g[3] \in Int /\ g[4] \in Int
  BY <1>1 DEF Formed
<1> QED BY <1>1, <1>2, <1>3

LEMMA KeepsSound ==
    ASSUME NEW ins, NEW F, NEW f, Effect(ins), Keeps(ins, F, f), Known(f), Formed(f, mem, mtx),
           \A g \in F : Known(g) /\ Formed(g, mem, mtx)
    PROVE  Known(f)'
<1> USE DEF Known, KnownIn
<1>a. ins[1] \notin Writes => mem' = mem
  BY DEF Effect
<1>b. f[1] \in {"val", "heap", "free", "init", "unless"}
  OBVIOUS
<1>1. ASSUME f[1] = "val" PROVE Known(f)'
  <2>1. CASE ins[1] \in Writes /\ f[2] = Target(ins)
    <3>1. ins[1] = "store" /\ ins[4] \in f[3] .. f[4]
      BY <1>1, <2>1 DEF Keeps, Writes
    <3>2. mem' = [mem EXCEPT ![Target(ins)] = ins[4]]
      BY <2>1, <3>1 DEF Effect
    <3> QED BY <1>1, <2>1, <3>1, <3>2 DEF Formed
  <2>2. CASE ins[1] \in Writes /\ f[2] # Target(ins)
    <3>1. PICK v : mem' = [mem EXCEPT ![Target(ins)] = v]
      BY <2>2 DEF Effect
    <3>2. mem'[f[2]] = mem[f[2]]
      BY <1>1, <2>2, <3>1 DEF Formed
    <3> QED BY <1>1, <3>2
  <2>3. CASE ins[1] \notin Writes
    BY <1>1, <2>3, <1>a
  <2> QED BY <2>1, <2>2, <2>3
<1>2. ASSUME f[1] = "heap" PROVE Known(f)'
  <2>1. CASE ins[1] = "free"
    <3>1. f[2] # Target(ins) /\ heap' = heap \ {Target(ins)}
      BY <1>2, <2>1 DEF Keeps, Effect, Writes
    <3> QED BY <1>2, <3>1
  <2>2. CASE ins[1] # "free"
    <3>1. f[2] \in heap'
      BY <1>2, <2>2 DEF Effect
    <3> QED BY <1>2, <3>1
  <2> QED BY <2>1, <2>2
<1>3. ASSUME f[1] = "free" PROVE Known(f)'
  <2>1. CASE ins[1] = "alloc"
    <3>1. f[2] # Target(ins) /\ heap' = heap \cup {Target(ins)}
      BY <1>3, <2>1 DEF Keeps, Effect, Writes
    <3> QED BY <1>3, <3>1
  <2>2. CASE ins[1] # "alloc"
    <3>1. f[2] \notin heap'
      BY <1>3, <2>2 DEF Effect
    <3> QED BY <1>3, <3>1
  <2> QED BY <2>1, <2>2
<1>4. ASSUME f[1] = "init" PROVE Known(f)'
  <2>1. ~(ins[1] = "destroymutex" /\ ins[2] = f[2])
    BY <1>4 DEF Keeps, Writes
  <2>2. f[2] \in DOMAIN mtx /\ mtx[f[2]] # Gone
    BY <1>4 DEF Formed
  <2>3. mtx'[f[2]] # Gone
    BY <2>1, <2>2 DEF Effect
  <2> QED BY <1>4, <2>3
<1>5. ASSUME f[1] = "unless" PROVE Known(f)'
  <2>0. f[2] \in heap \/ mem[f[3]] \in f[4] .. f[5]
    BY <1>5
  <2>1. CASE ins[1] \in Writes
    <3>1. heap' = heap
      BY <2>1 DEF Effect, Writes
    <3>2. CASE f[3] = Target(ins)
      <4>1. ins[1] = "store" /\ ins[4] \in f[4] .. f[5]
        BY <1>5, <2>1, <3>2 DEF Keeps, Writes
      <4>2. mem' = [mem EXCEPT ![Target(ins)] = ins[4]]
        BY <2>1, <4>1 DEF Effect
      <4>3. mem'[f[3]] \in f[4] .. f[5]
        BY <1>5, <3>2, <4>1, <4>2 DEF Formed
      <4> QED BY <1>5, <4>3
    <3>3. CASE f[3] # Target(ins)
      <4>1. PICK v : mem' = [mem EXCEPT ![Target(ins)] = v]
        BY <2>1 DEF Effect
      <4>2. mem'[f[3]] = mem[f[3]]
        BY <1>5, <3>3, <4>1 DEF Formed
      <4> QED BY <1>5, <2>0, <3>1, <4>2
    <3> QED BY <3>2, <3>3
  <2>2. CASE ins[1] = "free" /\ f[2] = Target(ins)
    <3>1. Within(F, f[3], f[4], f[5]) /\ f[4] \in Int /\ f[5] \in Int
      BY <1>5, <2>2 DEF Keeps, Writes, Formed
    <3>2. mem[f[3]] \in f[4] .. f[5]
      BY <3>1, WithinSound
    <3>3. mem' = mem
      BY <2>2, <1>a DEF Writes
    <3> QED BY <1>5, <3>2, <3>3
  <2>3. CASE ins[1] \notin Writes /\ ~(ins[1] = "free" /\ f[2] = Target(ins))
    <3>1. mem' = mem /\ (f[2] \in heap => f[2] \in heap')
      BY <2>3, <1>a DEF Effect
    <3> QED BY <1>5, <2>0, <3>1
  <2> QED BY <2>1, <2>2, <2>3
<1> QED BY <1>b, <1>1, <1>2, <1>3, <1>4, <1>5

LEMMA GivesSound ==
    ASSUME NEW p, NEW ins, NEW f \in Gives(p, ins), Effect(ins),
           ins[1] = "store" => Target(ins) \in DOMAIN mem /\ ins[4] \in Int,
           ins[1] = "initmutex" => mtx'[ins[2]] # Gone
    PROVE  Known(f)'
<1>1. CASE ins[1] = "store"
  <2>1. f = <<"val", Target(ins), ins[4], ins[4]>>
    BY <1>1 DEF Gives
  <2>2. mem' = [mem EXCEPT ![Target(ins)] = ins[4]]
    BY <1>1 DEF Effect, Writes
  <2>3. mem'[Target(ins)] \in ins[4] .. ins[4]
    BY <1>1, <2>2
  <2> QED BY <2>1, <2>3 DEF Known, KnownIn
<1>2. CASE ins[1] = "alloc"
  <2>1. Target(ins) \in heap'
    BY <1>2 DEF Effect
  <2>2. CASE f = <<"heap", Target(ins)>>
    BY <2>1, <2>2 DEF Known, KnownIn
  <2>3. CASE \E g \in Guards(p, Target(ins)) : f = <<"unless", Target(ins), g[1], g[2], g[3]>>
    BY <2>1, <2>3 DEF Known, KnownIn
  <2> QED BY <1>2, <2>2, <2>3 DEF Gives
<1>3. CASE ins[1] = "free"
  <2>1. f = <<"free", Target(ins)>> /\ Target(ins) \notin heap'
    BY <1>3 DEF Effect, Gives
  <2> QED BY <2>1 DEF Known, KnownIn
<1>4. CASE ins[1] = "initmutex"
  <2>1. f = <<"init", ins[2]>>
    BY <1>4 DEF Gives
  <2> QED BY <1>4, <2>1 DEF Known, KnownIn
<1>5. CASE ins[1] \notin {"store", "alloc", "free", "initmutex"}
  BY <1>5 DEF Gives
<1> QED BY <1>1, <1>2, <1>3, <1>4, <1>5

-----------------------------------------------------------------------------
(* A certified outline is one of every execution                           *)

OInv(o, cs) == ControlInv(o) /\ LockInv(o) /\ FactInv(o, cs)

LEMMA CertifiedPlace ==
    ASSUME NEW o, NEW p, NEW cs, Certified(o, p, cs), NEW t \in Threads, NEW i \in DOMAIN o[t]
    PROVE  /\ i # 0 => PlaceCertified(o, p, cs, t, i)
           /\ DOMAIN o[t][i] = Parts /\ o[t][i].held \subseteq DOMAIN Mutexes[p]
           /\ \A f \in o[t][i].facts : Formed(f, cs, Mutexes[p])
           /\ i = 0 => o[t][i].held = {}
BY DEF Certified

LEMMA CertifiedFacts ==
    ASSUME NEW o, NEW p, NEW cs, Certified(o, p, cs), NEW t \in Threads, NEW u \in Threads \ {t},
           NEW i \in DOMAIN o[t] \ {0}, NEW j \in DOMAIN o[u], Together(o, p, t, i, u, j),
           NEW f \in o[u][j].facts
    PROVE  Keeps(TheCode[p][t][i], o[t][i].facts, f)
<1>1. FactsCertified(o, p, t, u)
  BY DEF Certified
<1> QED BY <1>1 DEF FactsCertified

LEMMA FormedNow ==
    ASSUME NEW o, NEW cs, Certified(o, prog, cs), LockInv(o), FactInv(o, cs),
           NEW t \in Threads, NEW i \in DOMAIN o[t], NEW f \in o[t][i].facts
    PROVE  Formed(f, mem, mtx)
<1>1. Formed(f, cs, Mutexes[prog])
  BY CertifiedPlace
<1>2. DOMAIN mem = DOMAIN cs /\ DOMAIN mtx = DOMAIN Mutexes[prog]
  BY DEF LockInv, FactInv
<1> QED BY <1>1, <1>2 DEF Formed

\* a running thread is at a place of its code, and what it relies on is so
LEMMA AtPlace ==
    ASSUME NEW o, NEW cs, Certified(o, prog, cs), ThreadInv, OInv(o, cs),
           NEW t \in Threads, Alive(t)
    PROVE  /\ Place(t) = th[t].pc /\ th[t].pc \in DOMAIN o[t] \ {0}
           /\ th[t].pc \in 1 .. Len(TheCode[prog][t])
           /\ Ins(t) = TheCode[prog][t][th[t].pc]
           /\ PlaceCertified(o, prog, cs, t, th[t].pc)
           /\ th[t].hdl = o[t][th[t].pc].hdl /\ th[t].nocancel = o[t][th[t].pc].nocancel
           /\ \A f \in o[t][th[t].pc].facts : Known(f) /\ Formed(f, mem, mtx)
           /\ t # 0 => t \in o[0][Place(0)].live
<1>1. Place(t) = th[t].pc /\ th[t].st # "none"
  BY DEF Place, Alive, Done
<1>2. th[t].pc \in DOMAIN o[t] /\ th[t].hdl = o[t][th[t].pc].hdl
         /\ th[t].nocancel = o[t][th[t].pc].nocancel /\ (t # 0 => t \in o[0][Place(0)].live)
  BY <1>1 DEF OInv, ControlInv
<1>3. th[t].pc \in 1 .. Len(TheCode[prog][t]) /\ Ins(t) = TheCode[prog][t][th[t].pc]
  BY <1>1, InCode DEF TheCode
<1>4. th[t].pc # 0
  BY <1>1, InCode
<1>5. PlaceCertified(o, prog, cs, t, th[t].pc)
  BY <1>2, <1>4, CertifiedPlace
<1>6. \A f \in o[t][th[t].pc].facts : Known(f)
  BY <1>1 DEF OInv, FactInv, Relied
<1>7. \A f \in o[t][th[t].pc].facts : Formed(f, mem, mtx)
  BY <1>2, FormedNow DEF OInv
<1> QED BY <1>1, <1>2, <1>3, <1>4, <1>5, <1>6, <1>7

\* what a thread surely holds at its place it owns
LEMMA HoldingOwned ==
    ASSUME NEW o, NEW cs, Certified(o, prog, cs), ThreadInv, OInv(o, cs),
           NEW t \in Threads, th[t].st # "none", NEW m \in Holding(o, prog, t, Place(t))
    PROVE  m \in DOMAIN mtx /\ mtx[m] = t
<1>1. Place(t) \in DOMAIN o[t]
  BY DEF OInv, ControlInv
<1>2. m \in o[t][Place(t)].held
  BY DEF Holding
<1>3. m \in DOMAIN mtx
  BY <1>1, <1>2, CertifiedPlace DEF OInv, LockInv
<1>4. m \in HeldNow(o, t)
  <2>1. CASE Waiting(t)
    <3>1. Alive(t) /\ Ins(t)[1] = "cvwait"
      BY <2>1 DEF Waiting, Alive, ThreadInv
    <3>2. Place(t) = th[t].pc /\ Place(t) # 0 /\ Ins(t) = TheCode[prog][t][Place(t)]
      BY <3>1, AtPlace
    <3>3. m # Ins(t)[2]
      BY <3>1, <3>2 DEF Holding
    <3> QED BY <1>2, <3>3 DEF HeldNow
  <2>2. CASE ~Waiting(t)
    BY <1>2, <2>2 DEF HeldNow
  <2> QED BY <2>1, <2>2
<1> QED BY <1>3, <1>4 DEF OInv, LockInv

\* two threads whose facts matter are at places that may be taken together
LEMMA NowTogether ==
    ASSUME NEW o, NEW cs, Certified(o, prog, cs), ThreadInv, OInv(o, cs),
           NEW t \in Threads, NEW u \in Threads \ {t}, Alive(t), Relied(o, u)
    PROVE  Together(o, prog, t, Place(t), u, Place(u))
<1>1. th[t].st # "none" /\ th[u].st # "none"
  BY DEF Alive, Relied, Done
<1>2. Holding(o, prog, t, Place(t)) \cap Holding(o, prog, u, Place(u)) = {}
  BY <1>1, HoldingOwned
<1>3. Coexist(o, t, Place(t), u, Place(u))
  <2>1. CASE t = 0 /\ Alive(u)
    <3>1. Place(u) # 0 /\ u \in o[0][Place(0)].live
      BY <2>1, AtPlace
    <3> QED BY <2>1, <3>1 DEF Coexist
  <2>2. CASE t = 0 /\ ~Alive(u)
    <3>1. Place(u) = 0 /\ u \in o[0][Place(0)].owed
      BY <2>2 DEF Relied, Place
    <3> QED BY <2>2, <3>1 DEF Coexist
  <2>3. CASE t # 0
    <3>1. t \in o[0][Place(0)].live
      BY <2>3, AtPlace
    <3> QED BY <2>3, <3>1 DEF Coexist
  <2> QED BY <2>1, <2>2, <2>3
<1> QED BY <1>2, <1>3 DEF Together

\* so another thread's step keeps what a thread relies on
LEMMA OthersFactsKept ==
    ASSUME NEW o, NEW cs, Certified(o, prog, cs), ThreadInv, OInv(o, cs),
           NEW t \in Threads, Alive(t), Effect(Ins(t)),
           NEW u \in Threads \ {t}, Relied(o, u), NEW f \in o[u][Place(u)].facts
    PROVE  Known(f)'
<1>1. Together(o, prog, t, Place(t), u, Place(u))
  BY NowTogether
<1>2. /\ Place(t) = th[t].pc /\ th[t].pc \in DOMAIN o[t] \ {0}
      /\ Ins(t) = TheCode[prog][t][th[t].pc]
      /\ \A g \in o[t][th[t].pc].facts : Known(g) /\ Formed(g, mem, mtx)
  BY AtPlace
<1>3. Place(u) \in DOMAIN o[u]
  BY DEF OInv, ControlInv, Relied, Alive, Done
<1>4. Keeps(Ins(t), o[t][th[t].pc].facts, f)
  BY <1>1, <1>2, <1>3, CertifiedFacts
<1>5. Known(f) /\ Formed(f, mem, mtx)
  BY <1>3, FormedNow DEF OInv, FactInv
<1> QED BY <1>2, <1>4, <1>5, KeepsSound

\* thread u stays where it is; a waiting one may be woken
Stays(u) ==
    /\ th'[u].pc = th[u].pc /\ th'[u].hdl = th[u].hdl /\ th'[u].nocancel = th[u].nocancel
    /\ th'[u].st = th[u].st \/ (th[u].st = "cvwait" /\ th'[u].st = "relock")

\* thread t goes to place j, annotated x
Lands(t, j, x) ==
    IF j = 0 THEN Done(t)'
    ELSE /\ th'[t].st = "ready" /\ th'[t].pc = j
         /\ th'[t].hdl = x.hdl /\ th'[t].nocancel = x.nocancel

\* afterwards thread t owns the mutexes in held, and the others what they did
Owners(t, held) ==
    /\ DOMAIN mtx' = DOMAIN mtx
    /\ \A m \in DOMAIN mtx : mtx'[m] = t <=> m \in held
    /\ \A m \in DOMAIN mtx : \A u \in Threads \ {t} : mtx'[m] = u <=> mtx[m] = u

NewCancels == \A u \in Threads : th'[u].cancel => th[u].cancel \/ Cancels(prog, u)

\* what main knows of the others is so: i is its place
MainKnows(o, i, x) ==
    \A u \in Threads \ {0} :
        /\ Alive(u)' => u \in x.live
        /\ u \in x.fresh => th'[u].st = "none"
        /\ u \in x.owed /\ Done(u)' => u \in o[0][i].owed

LEMMA StaysPlace ==
    ASSUME NEW u \in Threads, Stays(u)
    PROVE  /\ Place(u)' = Place(u) /\ (Alive(u)' <=> Alive(u)) /\ (Done(u)' <=> Done(u))
           /\ (th'[u].st = "none") <=> (th[u].st = "none")
BY DEF Stays, Place, Alive, Done

LEMMA LandsPlace ==
    ASSUME NEW t \in Threads, NEW j, NEW x, Lands(t, j, x)
    PROVE  /\ Place(t)' = j /\ th'[t].st # "none" /\ ~Waiting(t)'
           /\ j # 0 => Alive(t)' /\ th'[t].hdl = x.hdl /\ th'[t].nocancel = x.nocancel
           /\ j = 0 => Done(t)' /\ ~Alive(t)'
BY DEF Lands, Place, Alive, Done, Waiting

LEMMA ControlKept ==
    ASSUME NEW o, NEW cs, Certified(o, prog, cs), ThreadInv, OInv(o, cs), prog' = prog,
           NEW t \in Threads, Alive(t), NEW j \in DOMAIN o[t], NEW x, Entails(x, o[t][j]),
           Lands(t, j, x), \A u \in Threads \ {t} : Stays(u), NewCancels,
           t = 0 => MainKnows(o, Place(0), x)
    PROVE  ControlInv(o)'
<1> USE ZeroThread
<1>1. ASSUME NEW u \in Threads
      PROVE  /\ th'[u].st = "none" => th'[u].pc = 1 /\ th'[u].hdl = 0 /\ ~th'[u].nocancel
             /\ th'[u].st # "none" => Place(u)' \in DOMAIN o[u]
             /\ Alive(u)' => /\ th'[u].hdl = o[u][Place(u)'].hdl
                             /\ th'[u].nocancel = o[u][Place(u)'].nocancel
             /\ th'[u].cancel => Cancels(prog', u)
  <2>1. th'[u].cancel => Cancels(prog', u)
    BY DEF NewCancels, OInv, ControlInv
  <2>2. CASE u = t
    <3>1. x.hdl = o[t][j].hdl /\ x.nocancel = o[t][j].nocancel
      BY DEF Entails
    <3> QED BY <2>1, <2>2, <3>1, LandsPlace
  <2>3. CASE u # t
    <3>1. /\ th[u].st = "none" => th[u].pc = 1 /\ th[u].hdl = 0 /\ ~th[u].nocancel
          /\ th[u].st # "none" => Place(u) \in DOMAIN o[u]
          /\ Alive(u) => /\ th[u].hdl = o[u][Place(u)].hdl
                         /\ th[u].nocancel = o[u][Place(u)].nocancel
      BY DEF OInv, ControlInv
    <3>2. /\ Place(u)' = Place(u) /\ (Alive(u)' <=> Alive(u))
          /\ (th'[u].st = "none") <=> (th[u].st = "none")
      BY <2>3, StaysPlace
    <3>3. th'[u].pc = th[u].pc /\ th'[u].hdl = th[u].hdl /\ th'[u].nocancel = th[u].nocancel
      BY <2>3 DEF Stays
    <3> QED BY <2>1, <3>1, <3>2, <3>3
  <2> QED BY <2>2, <2>3
<1>2. th'[0].st # "none"
  <2>1. CASE t = 0
    BY <2>1, LandsPlace
  <2>2. CASE t # 0
    BY <2>2, StaysPlace DEF OInv, ControlInv
  <2> QED BY <2>1, <2>2
<1>3. ASSUME NEW u \in Threads \ {0}
      PROVE  /\ Alive(u)' => u \in o[0][Place(0)'].live
             /\ u \in o[0][Place(0)'].fresh => th'[u].st = "none"
  <2>1. CASE t = 0
    <3>1. Place(0)' = j
      BY <2>1, LandsPlace
    <3>2. x.live \subseteq o[0][j].live /\ o[0][j].fresh \subseteq x.fresh
      BY <2>1 DEF Entails
    <3> QED BY <2>1, <3>1, <3>2 DEF MainKnows
  <2>2. CASE t # 0
    <3>1. Place(0)' = Place(0)
      BY <2>2, StaysPlace
    <3>2. Alive(u) => u \in o[0][Place(0)].live
      BY DEF OInv, ControlInv
    <3>3. u \in o[0][Place(0)].fresh => th[u].st = "none"
      BY DEF OInv, ControlInv
    <3>4. CASE u = t
      <4>1. th[u].st # "none"
        BY <3>4 DEF Alive
      <4> QED BY <3>1, <3>2, <3>3, <3>4, <4>1
    <3>5. CASE u # t
      BY <3>1, <3>2, <3>3, <3>5, StaysPlace
    <3> QED BY <3>4, <3>5
  <2> QED BY <2>1, <2>2
<1>4. ASSUME NEW u \in Threads
      PROVE  (Cancels(prog, u))' <=> Cancels(prog', u)
  BY DEF Cancels, TheCode
<1> QED BY <1>1, <1>2, <1>3, <1>4 DEF ControlInv

LEMMA LocksKept ==
    ASSUME NEW o, NEW cs, Certified(o, prog, cs), ThreadInv, OInv(o, cs), prog' = prog,
           NEW t \in Threads, Alive(t), NEW j \in DOMAIN o[t], NEW x, Entails(x, o[t][j]),
           Lands(t, j, x), \A u \in Threads \ {t} : Stays(u), Owners(t, x.held)
    PROVE  LockInv(o)'
<1>1. DOMAIN mtx' = DOMAIN Mutexes[prog']
  BY DEF Owners, OInv, LockInv
<1>2. ASSUME NEW u \in Threads, NEW m \in DOMAIN mtx'
      PROVE  mtx'[m] = u <=> th'[u].st # "none" /\ m \in HeldNow(o, u)'
  <2>0. m \in DOMAIN mtx
    BY DEF Owners
  <2>1. CASE u = t
    <3>1. HeldNow(o, t)' = o[t][j].held /\ th'[t].st # "none"
      BY LandsPlace DEF HeldNow
    <3>2. x.held = o[t][j].held
      BY DEF Entails
    <3> QED BY <2>0, <2>1, <3>1, <3>2 DEF Owners
  <2>2. CASE u # t
    <3>1. Place(u)' = Place(u) /\ ((th'[u].st = "none") <=> (th[u].st = "none"))
      BY <2>2, StaysPlace
    <3>2. (Waiting(u)' <=> Waiting(u)) /\ Ins(u)' = Ins(u)
      BY <2>2 DEF Stays, Waiting, Ins, TheCode
    <3>3. HeldNow(o, u)' = HeldNow(o, u)
      BY <3>1, <3>2 DEF HeldNow
    <3>4. mtx[m] = u <=> th[u].st # "none" /\ m \in HeldNow(o, u)
      BY <2>0 DEF OInv, LockInv
    <3> QED BY <2>0, <2>2, <3>1, <3>3, <3>4 DEF Owners
  <2> QED BY <2>1, <2>2
<1> QED BY <1>1, <1>2 DEF LockInv

LEMMA MemoryKept ==
    ASSUME NEW o, NEW cs, Certified(o, prog, cs), ThreadInv, OInv(o, cs), prog' = prog,
           NEW t \in Threads, Alive(t), Effect(Ins(t))
    PROVE  DOMAIN mem' = DOMAIN cs /\ heap' \subseteq HeapCells[prog']
<1>1. DOMAIN mem = DOMAIN cs /\ heap \subseteq HeapCells[prog]
  BY DEF OInv, FactInv
<1>2. DOMAIN mem' = DOMAIN mem
  BY DEF Effect
<1>3. Ins(t)[1] = "alloc" => Target(Ins(t)) \in HeapCells[prog]
  <2>1. /\ Ins(t) = TheCode[prog][t][th[t].pc]
        /\ PlaceCertified(o, prog, cs, t, th[t].pc)
    BY AtPlace
  <2> QED BY <2>1 DEF PlaceCertified
<1>4. heap' \subseteq heap \cup (IF Ins(t)[1] = "alloc" THEN {Target(Ins(t))} ELSE {})
  BY DEF Effect
<1> QED BY <1>1, <1>2, <1>3, <1>4

LEMMA FactsKept ==
    ASSUME NEW o, NEW cs, Certified(o, prog, cs), ThreadInv, OInv(o, cs), prog' = prog,
           NEW t \in Threads, Alive(t), NEW j \in DOMAIN o[t], NEW x, Entails(x, o[t][j]),
           Lands(t, j, x), \A u \in Threads \ {t} : Stays(u), Effect(Ins(t)),
           \A f \in x.facts : Known(f)',
           t = 0 => MainKnows(o, Place(0), x)
    PROVE  FactInv(o, cs)'
<1> USE ZeroThread
<1>1. DOMAIN mem' = DOMAIN cs /\ heap' \subseteq HeapCells[prog']
  BY MemoryKept
<1>2. ASSUME NEW u \in Threads, Relied(o, u)', NEW f \in o[u][Place(u)'].facts
      PROVE  Known(f)'
  <2>1. CASE u = t
    <3>1. Place(t)' = j /\ o[t][j].facts \subseteq x.facts
      BY LandsPlace DEF Entails
    <3> QED BY <1>2, <2>1, <3>1
  <2>2. CASE u # t
    <3>1. Place(u)' = Place(u) /\ (Alive(u)' <=> Alive(u)) /\ (Done(u)' <=> Done(u))
      BY <2>2, StaysPlace
    <3>2. Relied(o, u)
      <4>1. CASE Alive(u)'
        BY <3>1, <4>1 DEF Relied
      <4>2. CASE Done(u)' /\ u = 0
        BY <3>1, <4>2 DEF Relied
      <4>3. CASE Done(u)' /\ u # 0 /\ u \in o[0][Place(0)'].owed
        <5>1. u \in o[0][Place(0)].owed
          <6>1. CASE t = 0
            <7>1. Place(0)' = j /\ o[0][j].owed \subseteq x.owed
              BY <6>1, LandsPlace DEF Entails
            <7> QED BY <4>3, <6>1, <7>1 DEF MainKnows
          <6>2. CASE t # 0
            BY <4>3, <6>2, StaysPlace
          <6> QED BY <6>1, <6>2
        <5> QED BY <3>1, <4>3, <5>1 DEF Relied
      <4> QED BY <1>2, <4>1, <4>2, <4>3 DEF Relied
    <3> QED BY <1>2, <2>2, <3>1, <3>2, OthersFactsKept
  <2> QED BY <2>1, <2>2
<1> QED BY <1>1, <1>2 DEF FactInv

\* A step of thread t along an edge of the outline keeps to the outline.
LEMMA EdgeKept ==
    ASSUME NEW o, NEW cs, Certified(o, prog, cs), ThreadInv, OInv(o, cs), prog' = prog,
           NEW t \in Threads, Alive(t), NEW j, NEW x,
           <<j, x>> \in Follows(o, prog, t, th[t].pc), Lands(t, j, x),
           \A u \in Threads \ {t} : Stays(u), NewCancels, Effect(Ins(t)),
           Owners(t, x.held), \A f \in x.facts : Known(f)',
           t = 0 => MainKnows(o, Place(0), x)
    PROVE  OInv(o, cs)'
<1>1. j \in DOMAIN o[t] /\ Entails(x, o[t][j])
  <2>1. PlaceCertified(o, prog, cs, t, th[t].pc)
    BY AtPlace
  <2>2. \A s \in Follows(o, prog, t, th[t].pc) : s[1] \in DOMAIN o[t] /\ Entails(s[2], o[t][s[1]])
    BY <2>1 DEF PlaceCertified
  <2> QED BY <2>2
<1>2. ControlInv(o)'
  BY <1>1, ControlKept
<1>3. LockInv(o)'
  BY <1>1, LocksKept
<1>4. FactInv(o, cs)'
  BY <1>1, FactsKept
<1> QED BY <1>2, <1>3, <1>4 DEF OInv

Special == {"goto", "maybe", "skipif", "join", "timedjoin", "texit", "handler_end", "exit", "pause"}

LEMMA FollowsGo ==
    ASSUME NEW o, NEW p, NEW t, NEW i, TheCode[p][t][i][1] \notin Special
    PROVE  <<i + 1, After(p, TheCode[p][t][i], o[t][i])>> \in Follows(o, p, t, i)
BY DEF Special, Follows

LEMMA FollowsGoto ==
    ASSUME NEW o, NEW p, NEW t, NEW i, TheCode[p][t][i][1] = "goto"
    PROVE  <<i + 1 + TheCode[p][t][i][2], After(p, TheCode[p][t][i], o[t][i])>>
              \in Follows(o, p, t, i)
BY DEF Follows

LEMMA FollowsMaybe ==
    ASSUME NEW o, NEW p, NEW t, NEW i, TheCode[p][t][i][1] = "maybe"
    PROVE  /\ <<i + 1, After(p, TheCode[p][t][i], o[t][i])>> \in Follows(o, p, t, i)
           /\ <<i + 1 + TheCode[p][t][i][2], After(p, TheCode[p][t][i], o[t][i])>>
                 \in Follows(o, p, t, i)
BY DEF Follows

LEMMA FollowsSkip ==
    ASSUME NEW o, NEW p, NEW t, NEW i, NEW ins, ins = TheCode[p][t][i], ins[1] = "skipif",
           NEW x, x = After(p, ins, o[t][i]), ~Outside(o[t][i].facts, Target(ins), ins[4], ins[5])
    PROVE  <<i + 1 + ins[6],
             [x EXCEPT !.facts = x.facts \cup {<<"val", Target(ins), ins[4], ins[5]>>}]>>
              \in Follows(o, p, t, i)
BY DEF Follows

\* the facts that a condition which does not hold makes certain
Freed(x, ins) ==
    {<<"heap", f[2]>> : f \in {g \in x.facts :
        g[1] = "unless" /\ g[3] = Target(ins) /\ g[4] = ins[4] /\ g[5] = ins[5]}}

LEMMA FollowsFall ==
    ASSUME NEW o, NEW p, NEW t, NEW i, NEW ins, ins = TheCode[p][t][i], ins[1] = "skipif",
           NEW x, x = After(p, ins, o[t][i]), ~Within(o[t][i].facts, Target(ins), ins[4], ins[5])
    PROVE  <<i + 1, [x EXCEPT !.facts = x.facts \cup Freed(x, ins)]>> \in Follows(o, p, t, i)
BY DEF Follows, Freed

LEMMA FollowsJoin ==
    ASSUME NEW o, NEW p, NEW t, NEW i, NEW ins, ins = TheCode[p][t][i],
           ins[1] \in {"join", "timedjoin"}, 0 \in DOMAIN o[ins[2]]
    PROVE  <<i + 1, Joined(o, After(p, ins, o[t][i]), ins[2])>> \in Follows(o, p, t, i)
BY DEF Follows

LEMMA FollowsLate ==
    ASSUME NEW o, NEW p, NEW t, NEW i, TheCode[p][t][i][1] = "timedjoin"
    PROVE  <<i + 1 + TheCode[p][t][i][3], After(p, TheCode[p][t][i], o[t][i])>>
              \in Follows(o, p, t, i)
BY DEF Follows

LEMMA FollowsEnd ==
    ASSUME NEW o, NEW p, NEW t, NEW i, NEW s \in Ending(o[t][i]),
           \/ TheCode[p][t][i][1] = "texit"
           \/ /\ TheCode[p][t][i][1] \in CancellationPoints /\ Cancels(p, t)
              /\ ~o[t][i].nocancel
    PROVE  s \in Follows(o, p, t, i)
BY DEF Follows

LEMMA FollowsHandlerEnd ==
    ASSUME NEW o, NEW p, NEW t, NEW i, TheCode[p][t][i][1] = "handler_end"
    PROVE  <<0, [o[t][i] EXCEPT !.hdl = 0, !.nocancel = FALSE]>> \in Follows(o, p, t, i)
BY DEF Follows

\* what is known after an instruction is so
LEMMA AfterKnown ==
    ASSUME NEW o, NEW cs, Certified(o, prog, cs), ThreadInv, OInv(o, cs), NEW t \in Threads,
           Alive(t), Effect(Ins(t)), Ins(t)[1] = "initmutex" => mtx'[Ins(t)[2]] # Gone,
           NEW f \in After(prog, Ins(t), o[t][th[t].pc]).facts
    PROVE  Known(f)'
<1> DEFINE F == o[t][th[t].pc].facts
<1>1. /\ \A g \in F : Known(g) /\ Formed(g, mem, mtx)
      /\ PlaceCertified(o, prog, cs, t, th[t].pc)
      /\ Ins(t) = TheCode[prog][t][th[t].pc]
  BY AtPlace
<1>2. f \in {g \in F : Keeps(Ins(t), F, g)} \cup Gives(prog, Ins(t))
  BY DEF After
<1>3. CASE f \in F /\ Keeps(Ins(t), F, f)
  BY <1>1, <1>3, KeepsSound
<1>4. CASE f \in Gives(prog, Ins(t))
  <2>1. Ins(t)[1] = "store" => Target(Ins(t)) \in DOMAIN mem /\ Ins(t)[4] \in Int
    BY <1>1 DEF PlaceCertified, OInv, FactInv
  <2> QED BY <1>4, <2>1, GivesSound
<1> QED BY <1>2, <1>3, <1>4

\* the parts of an annotation that most instructions leave alone
LEMMA AfterParts ==
    ASSUME NEW p, NEW ins, NEW a
    PROVE  /\ DOMAIN After(p, ins, a) = Parts
           /\ ins[1] \notin {"lock", "unlock"} => After(p, ins, a).held = a.held
           /\ ins[1] \notin {"push", "pop"} => After(p, ins, a).hdl = a.hdl
           /\ ins[1] \notin {"cancel_off", "cancel_on"} => After(p, ins, a).nocancel = a.nocancel
           /\ ins[1] # "create" => /\ After(p, ins, a).live = a.live
                                   /\ After(p, ins, a).owed = a.owed
                                   /\ After(p, ins, a).fresh = a.fresh
BY DEF After, Parts

\* a thread that is ready owns the mutexes of its place
LEMMA ReadyOwns ==
    ASSUME NEW o, NEW cs, Certified(o, prog, cs), ThreadInv, OInv(o, cs), NEW t \in Threads,
           th[t].st = "ready", NEW m \in DOMAIN mtx
    PROVE  mtx[m] = t <=> m \in o[t][th[t].pc].held
<1>1. Alive(t) /\ ~Waiting(t)
  BY DEF Alive, Waiting
<1>2. HeldNow(o, t) = o[t][th[t].pc].held
  BY <1>1, AtPlace DEF HeldNow
<1> QED BY <1>2 DEF OInv, LockInv

LEMMA SameOwners ==
    ASSUME NEW o, NEW cs, Certified(o, prog, cs), ThreadInv, OInv(o, cs), NEW t \in Threads,
           th[t].st = "ready", mtx' = mtx
    PROVE  Owners(t, o[t][th[t].pc].held)
BY ReadyOwns DEF Owners

\* main's step that leaves its annotation's threads alone
LEMMA SameKnown ==
    ASSUME NEW o, NEW cs, Certified(o, prog, cs), ThreadInv, OInv(o, cs), NEW x, Alive(0),
           \A u \in Threads \ {0} : Stays(u),
           x.live = o[0][th[0].pc].live, x.owed = o[0][th[0].pc].owed,
           x.fresh = o[0][th[0].pc].fresh
    PROVE  MainKnows(o, Place(0), x)
<1>1. Place(0) = th[0].pc
  BY ZeroThread, AtPlace
<1>2. ASSUME NEW u \in Threads \ {0}
      PROVE  /\ Alive(u)' => u \in x.live
             /\ u \in x.fresh => th'[u].st = "none"
  <2>1. (Alive(u)' <=> Alive(u)) /\ ((th'[u].st = "none") <=> (th[u].st = "none"))
    BY StaysPlace
  <2>2. /\ Alive(u) => u \in o[0][Place(0)].live
        /\ u \in o[0][Place(0)].fresh => th[u].st = "none"
    BY DEF OInv, ControlInv
  <2> QED BY <1>1, <2>1, <2>2
<1> QED BY <1>1, <1>2 DEF MainKnows

\* A step that changes neither the mutexes nor what main knows of the others.
LEMMA QuietKept ==
    ASSUME NEW o, NEW cs, Certified(o, prog, cs), ThreadInv, OInv(o, cs), prog' = prog,
           NEW t \in Threads, th[t].st = "ready", NEW j, NEW x,
           <<j, x>> \in Follows(o, prog, t, th[t].pc), Lands(t, j, x),
           \A u \in Threads \ {t} : Stays(u), NewCancels, Effect(Ins(t)), mtx' = mtx,
           x.held = o[t][th[t].pc].held, x.live = o[t][th[t].pc].live,
           x.owed = o[t][th[t].pc].owed, x.fresh = o[t][th[t].pc].fresh,
           \A f \in x.facts : Known(f)'
    PROVE  OInv(o, cs)'
<1>1. Alive(t)
  BY DEF Alive
<1>2. Owners(t, x.held)
  BY SameOwners
<1>3. t = 0 => MainKnows(o, Place(0), x)
  BY <1>1, SameKnown
<1> QED BY <1>1, <1>2, <1>3, EdgeKept

LEMMA GoesStay ==
    ASSUME NEW t \in Threads, NEW pc, NEW hdl, NEW nocancel, GoesTo(t, pc, hdl, nocancel)
    PROVE  (\A u \in Threads \ {t} : Stays(u)) /\ NewCancels
BY DEF GoesTo, Frame, Stays, NewCancels

\* ... and that goes on along an edge with the annotation After
LEMMA PlainKept ==
    ASSUME NEW o, NEW cs, Certified(o, prog, cs), ThreadInv, OInv(o, cs), prog' = prog,
           NEW t \in Threads, th[t].st = "ready", NEW j, NEW x,
           x = After(prog, Ins(t), o[t][th[t].pc]), <<j, x>> \in Follows(o, prog, t, th[t].pc),
           j \in 1 .. Len(Code[prog][t]), GoesTo(t, j, x.hdl, x.nocancel),
           Effect(Ins(t)), mtx' = mtx,
           Ins(t)[1] \notin {"lock", "unlock", "create", "initmutex"}
    PROVE  OInv(o, cs)'
<1>1. Alive(t)
  BY DEF Alive
<1>2. /\ x.held = o[t][th[t].pc].held /\ x.live = o[t][th[t].pc].live
      /\ x.owed = o[t][th[t].pc].owed /\ x.fresh = o[t][th[t].pc].fresh
  BY AfterParts
<1>3. \A f \in x.facts : Known(f)'
  BY <1>1, AfterKnown
<1>4. j # 0
  BY LenNat DEF ThreadInv
<1>5. Lands(t, j, x)
  BY <1>4 DEF Lands, GoesTo
<1>6. (\A u \in Threads \ {t} : Stays(u)) /\ NewCancels
  BY GoesStay
<1> QED BY <1>2, <1>3, <1>5, <1>6, QuietKept

LEMMA NoEffect ==
    ASSUME NEW t, mem' = mem, heap' = heap, mtx' = mtx,
           Ins(t)[1] \notin Writes \cup {"alloc", "free"}
    PROVE  Effect(Ins(t))
BY DEF Effect

\* the steps that go on with the next instruction and only change fields of t
LEMMA GoKept ==
    ASSUME NEW o, NEW cs, Certified(o, prog, cs), ThreadInv, OInv(o, cs), prog' = prog,
           NEW t \in Threads, th[t].st = "ready", Ins(t)[1] \notin Special,
           NEW x, x = After(prog, Ins(t), o[t][th[t].pc]),
           GoesTo(t, th[t].pc + 1 + 0, x.hdl, x.nocancel),
           Effect(Ins(t)), mtx' = mtx,
           Ins(t)[1] \notin {"lock", "unlock", "create", "initmutex"}
    PROVE  OInv(o, cs)'
<1>1. /\ th[t].pc \in 1 .. Len(Code[prog][t]) /\ Len(Code[prog][t]) \in Nat
      /\ Ins(t) = TheCode[prog][t][th[t].pc]
  BY InCode DEF TheCode
<1>2. th[t].pc + 1 + 0 \in 1 .. Len(Code[prog][t])
  BY NextInCode DEF Special
<1>3. <<th[t].pc + 1, x>> \in Follows(o, prog, t, th[t].pc)
  BY <1>1, FollowsGo
<1>4. th[t].pc + 1 + 0 = th[t].pc + 1
  BY NextPlace
<1> QED BY <1>2, <1>3, <1>4, PlainKept

\* a step that changes nothing an outline is about
LEMMA NothingKept ==
    ASSUME NEW o, NEW cs, OInv(o, cs), UNCHANGED <<prog, th, mem, heap, mtx>>
    PROVE  OInv(o, cs)'
<1>1. ControlInv(o)'
  BY DEF OInv, ControlInv, Alive, Done, Place, Cancels
<1>2. LockInv(o)'
  BY DEF OInv, LockInv, HeldNow, Waiting, Place, Done, Ins
<1>3. FactInv(o, cs)'
  BY DEF OInv, FactInv, Relied, Alive, Done, Place, Known
<1> QED BY <1>1, <1>2, <1>3 DEF OInv

\* ... and that only move t on
LEMMA NextKept ==
    ASSUME NEW o, NEW cs, Certified(o, prog, cs), ThreadInv, OInv(o, cs), prog' = prog,
           NEW t \in Threads, th[t].st = "ready",
           Ins(t)[1] \notin Special \cup {"lock", "unlock", "create", "initmutex", "push", "pop",
                                          "cancel_off", "cancel_on"},
           GoesTo(t, th[t].pc + 1 + 0, th[t].hdl, th[t].nocancel), Effect(Ins(t)), mtx' = mtx
    PROVE  OInv(o, cs)'
<1>1. PICK x : x = After(prog, Ins(t), o[t][th[t].pc])
  OBVIOUS
<1>2. Alive(t)
  BY DEF Alive
<1>3. th[t].hdl = o[t][th[t].pc].hdl /\ th[t].nocancel = o[t][th[t].pc].nocancel
  BY <1>2, AtPlace
<1>4. x.hdl = th[t].hdl /\ x.nocancel = th[t].nocancel
  BY <1>1, <1>3, AfterParts
<1> QED BY <1>1, <1>4, GoKept

LEMMA GoGoes ==
    ASSUME ThreadInv, NEW t \in Threads, th[t].st = "ready", th' = Go(t)
    PROVE  GoesTo(t, th[t].pc + 1 + 0, th[t].hdl, th[t].nocancel)
BY SkipGoes DEF Go, ThreadInv

\* the calls that touch neither a mutex nor another thread
LEMMA StraightKept ==
    ASSUME NEW o, NEW cs, Certified(o, prog, cs), ThreadInv, OInv(o, cs), prog' = prog,
           NEW t \in Threads,
           \/ Plain(t) \/ Load(t) \/ Store(t) \/ Alloc(t) \/ Free(t) \/ Overflow(t)
           \/ Cleanup(t) \/ CancelState(t) \/ SigMask(t) \/ SigWait(t)
    PROVE  OInv(o, cs)'
<1>a. Shaped(th)
  BY DEF ThreadInv
<1>1. CASE Plain(t)
  <2>1. /\ th[t].st = "ready" /\ Ins(t)[1] \in {"io", "sleep", "mayfail"} /\ th' = Go(t)
        /\ mem' = mem /\ heap' = heap /\ mtx' = mtx
    BY <1>1 DEF Plain, At, shared
  <2>2. Effect(Ins(t))
    BY <2>1, NoEffect DEF Writes
  <2> QED BY <2>1, <2>2, GoGoes, NextKept DEF Special
<1>2. CASE Load(t)
  <2>1. /\ th[t].st = "ready" /\ Ins(t)[1] = "load" /\ th' = [Go(t) EXCEPT ![t].reg = mem[Cell(t)]]
        /\ mem' = mem /\ heap' = heap /\ mtx' = mtx
    BY <1>2 DEF Load, At, shared
  <2>2. Effect(Ins(t))
    BY <2>1, NoEffect DEF Writes
  <2>3. GoesTo(t, th[t].pc + 1 + 0, th[t].hdl, th[t].nocancel)
    BY <2>1, <1>a, LoadGoes
  <2> QED BY <2>1, <2>2, <2>3, NextKept DEF Special
<1>3. CASE Store(t)
  <2>1. /\ th[t].st = "ready" /\ Ins(t)[1] \in Writes /\ th' = Go(t)
        /\ mem' = [mem EXCEPT ![Target(Ins(t))] = Stored(t)] /\ heap' = heap /\ mtx' = mtx
    BY <1>3 DEF Store, At, Cell, Target
  <2>2. Ins(t)[1] = "store" => Stored(t) = Ins(t)[4]
    BY DEF Stored
  <2>3. Effect(Ins(t))
    BY <2>1, <2>2 DEF Effect, Writes
  <2> QED BY <2>1, <2>3, GoGoes, NextKept DEF Special, Writes
<1>4. CASE Alloc(t)
  <2>1. /\ th[t].st = "ready" /\ Ins(t)[1] = "alloc" /\ th' = Go(t)
        /\ heap' = heap \cup {Target(Ins(t))} /\ mem' = mem /\ mtx' = mtx
    BY <1>4 DEF Alloc, At, Cell, Target
  <2>3. Effect(Ins(t))
    BY <2>1 DEF Effect, Writes
  <2> QED BY <2>1, <2>3, GoGoes, NextKept DEF Special
<1>5. CASE Free(t)
  <2>1. /\ th[t].st = "ready" /\ Ins(t)[1] = "free" /\ th' = Go(t)
        /\ heap' = heap \ {Target(Ins(t))} /\ mem' = mem /\ mtx' = mtx
    BY <1>5 DEF Free, At, Cell, Target
  <2>3. Effect(Ins(t))
    BY <2>1 DEF Effect, Writes
  <2> QED BY <2>1, <2>3, GoGoes, NextKept DEF Special
<1>6. CASE Overflow(t)
  <2>1. /\ th[t].st = "ready" /\ Ins(t)[1] = "stack" /\ (th' = Go(t) \/ th' = th)
        /\ mem' = mem /\ heap' = heap /\ mtx' = mtx
    BY <1>6 DEF Overflow, At
  <2>2. Effect(Ins(t))
    BY <2>1, NoEffect DEF Writes
  <2>3. CASE th' = Go(t)
    BY <2>1, <2>2, <2>3, GoGoes, NextKept DEF Special
  <2>4. CASE th' = th
    BY <2>1, <2>4, NothingKept
  <2> QED BY <2>1, <2>3, <2>4
<1>7. CASE Cleanup(t)
  <2>1. PICK v : v = IF Ins(t)[1] = "push" THEN Ins(t)[2] ELSE 0
    OBVIOUS
  <2>2. /\ th[t].st = "ready" /\ Ins(t)[1] \in {"push", "pop"}
        /\ th' = [Go(t) EXCEPT ![t].hdl = v] /\ mem' = mem /\ heap' = heap /\ mtx' = mtx
    BY <1>7, <2>1 DEF Cleanup, At, shared
  <2>3. Effect(Ins(t))
    BY <2>2, NoEffect DEF Writes
  <2>4. GoesTo(t, th[t].pc + 1 + 0, v, th[t].nocancel)
    BY <2>2, <1>a, HdlGoes
  <2>5. PICK x : x = After(prog, Ins(t), o[t][th[t].pc])
    OBVIOUS
  <2>6. Alive(t) /\ th[t].nocancel = o[t][th[t].pc].nocancel
    BY <2>2, AtPlace DEF Alive
  <2>7. x.nocancel = th[t].nocancel
    BY <2>2, <2>5, <2>6, AfterParts
  <2>8. x.hdl = v
    BY <2>1, <2>2, <2>5 DEF After
  <2> QED BY <2>2, <2>3, <2>4, <2>5, <2>7, <2>8, GoKept DEF Special
<1>8. CASE CancelState(t)
  <2>1. PICK v \in BOOLEAN : v = (Ins(t)[1] = "cancel_off")
    OBVIOUS
  <2>2. /\ th[t].st = "ready" /\ Ins(t)[1] \in {"cancel_off", "cancel_on"}
        /\ th' = [Go(t) EXCEPT ![t].nocancel = v] /\ mem' = mem /\ heap' = heap /\ mtx' = mtx
    BY <1>8, <2>1 DEF CancelState, At, shared
  <2>3. Effect(Ins(t))
    BY <2>2, NoEffect DEF Writes
  <2>4. GoesTo(t, th[t].pc + 1 + 0, th[t].hdl, v)
    BY <2>2, <1>a, NocancelGoes
  <2>5. PICK x : x = After(prog, Ins(t), o[t][th[t].pc])
    OBVIOUS
  <2>6. Alive(t) /\ th[t].hdl = o[t][th[t].pc].hdl
    BY <2>2, AtPlace DEF Alive
  <2>7. x.hdl = th[t].hdl
    BY <2>2, <2>5, <2>6, AfterParts
  <2>8. x.nocancel = v
    BY <2>1, <2>2, <2>5 DEF After
  <2> QED BY <2>2, <2>3, <2>4, <2>5, <2>7, <2>8, GoKept DEF Special
<1>9. CASE SigMask(t)
  <2>1. /\ th[t].st = "ready" /\ Ins(t)[1] = "sigmask" /\ th' = [Go(t) EXCEPT ![t].mask = TRUE]
        /\ mem' = mem /\ heap' = heap /\ mtx' = mtx
    BY <1>9 DEF SigMask, At, shared
  <2>2. Effect(Ins(t))
    BY <2>1, NoEffect DEF Writes
  <2>3. GoesTo(t, th[t].pc + 1 + 0, th[t].hdl, th[t].nocancel)
    BY <2>1, <1>a, MaskGoes
  <2> QED BY <2>1, <2>2, <2>3, NextKept DEF Special
<1>10. CASE SigWait(t)
  <2>1. /\ th[t].st = "ready" /\ Ins(t)[1] = "sigwait" /\ th' = Go(t)
        /\ mem' = mem /\ heap' = heap /\ mtx' = mtx
    BY <1>10 DEF SigWait, At
  <2>2. Effect(Ins(t))
    BY <2>1, NoEffect DEF Writes
  <2> QED BY <2>1, <2>2, GoGoes, NextKept DEF Special
<1> QED BY <1>1, <1>2, <1>3, <1>4, <1>5, <1>6, <1>7, <1>8, <1>9, <1>10

LEMMA SkipKept ==
    ASSUME NEW o, NEW cs, Certified(o, prog, cs), ThreadInv, OInv(o, cs), prog' = prog,
           NEW t \in Threads, th[t].st = "ready", NEW n, th' = Skip(t, n),
           mem' = mem, heap' = heap, mtx' = mtx,
           Ins(t)[1] \in {"goto", "maybe", "timedjoin"},
           th[t].pc + 1 + n \in 1 .. Len(Code[prog][t]),
           <<th[t].pc + 1 + n, After(prog, Ins(t), o[t][th[t].pc])>>
              \in Follows(o, prog, t, th[t].pc)
    PROVE  OInv(o, cs)'
<1>1. PICK x : x = After(prog, Ins(t), o[t][th[t].pc])
  OBVIOUS
<1>2. Alive(t)
  BY DEF Alive
<1>3. th[t].hdl = o[t][th[t].pc].hdl /\ th[t].nocancel = o[t][th[t].pc].nocancel
  BY <1>2, AtPlace
<1>4. x.hdl = th[t].hdl /\ x.nocancel = th[t].nocancel
  BY <1>1, <1>3, AfterParts
<1>5. GoesTo(t, th[t].pc + 1 + n, th[t].hdl, th[t].nocancel)
  BY SkipGoes DEF ThreadInv
<1>6. Effect(Ins(t))
  BY NoEffect DEF Writes
<1> QED BY <1>1, <1>4, <1>5, <1>6, PlainKept

\* jumps, calls that may fail, and the join whose time is up
LEMMA JumpKept ==
    ASSUME NEW o, NEW cs, Certified(o, prog, cs), ThreadInv, OInv(o, cs), prog' = prog,
           NEW t \in Threads,
           \/ Goto(t) \/ Maybe(t)
           \/ At(t, {"timedjoin"}) /\ th' = Skip(t, Ins(t)[3]) /\ UNCHANGED shared
    PROVE  OInv(o, cs)'
<1>a. ASSUME th[t].st = "ready"
      PROVE  /\ Closed(prog, t, th[t].pc) /\ Ins(t) = Code[prog][t][th[t].pc]
             /\ Ins(t) = TheCode[prog][t][th[t].pc] /\ th[t].pc \in Nat
  BY <1>a, InCode DEF TheCode
<1>1. CASE Goto(t)
  <2>1. /\ th[t].st = "ready" /\ Ins(t)[1] = "goto" /\ th' = Skip(t, Ins(t)[2])
        /\ mem' = mem /\ heap' = heap /\ mtx' = mtx
    BY <1>1 DEF Goto, At, shared
  <2>2. th[t].pc + 1 + Ins(t)[2] \in 1 .. Len(Code[prog][t])
    BY <2>1, <1>a DEF Closed
  <2>3. <<th[t].pc + 1 + Ins(t)[2], After(prog, Ins(t), o[t][th[t].pc])>>
          \in Follows(o, prog, t, th[t].pc)
    BY <2>1, <1>a, FollowsGoto
  <2> QED BY <2>1, <2>2, <2>3, SkipKept
<1>2. CASE Maybe(t)
  <2>1. /\ th[t].st = "ready" /\ Ins(t)[1] = "maybe"
        /\ th' = Skip(t, 0) \/ th' = Skip(t, Ins(t)[2])
        /\ mem' = mem /\ heap' = heap /\ mtx' = mtx
    BY <1>2 DEF Maybe, At, shared, Go
  <2>2. th[t].pc + 1 + Ins(t)[2] \in 1 .. Len(Code[prog][t])
    BY <2>1, <1>a DEF Closed
  <2>3. th[t].pc + 1 + 0 \in 1 .. Len(Code[prog][t])
    BY <2>1, NextInCode
  <2>4. th[t].pc + 1 + 0 = th[t].pc + 1
    BY <2>1, <1>a
  <2>5. /\ <<th[t].pc + 1, After(prog, Ins(t), o[t][th[t].pc])>> \in Follows(o, prog, t, th[t].pc)
        /\ <<th[t].pc + 1 + Ins(t)[2], After(prog, Ins(t), o[t][th[t].pc])>>
             \in Follows(o, prog, t, th[t].pc)
    BY <2>1, <1>a, FollowsMaybe
  <2>6. CASE th' = Skip(t, 0)
    BY <2>1, <2>3, <2>4, <2>5, <2>6, SkipKept
  <2>7. CASE th' = Skip(t, Ins(t)[2])
    BY <2>1, <2>2, <2>5, <2>7, SkipKept
  <2> QED BY <2>1, <2>6, <2>7
<1>3. CASE At(t, {"timedjoin"}) /\ th' = Skip(t, Ins(t)[3]) /\ UNCHANGED shared
  <2>1. /\ th[t].st = "ready" /\ Ins(t)[1] = "timedjoin" /\ th' = Skip(t, Ins(t)[3])
        /\ mem' = mem /\ heap' = heap /\ mtx' = mtx
    BY <1>3 DEF At, shared
  <2>2. th[t].pc + 1 + Ins(t)[3] \in 1 .. Len(Code[prog][t])
    BY <2>1, <1>a DEF Closed
  <2>3. <<th[t].pc + 1 + Ins(t)[3], After(prog, Ins(t), o[t][th[t].pc])>>
          \in Follows(o, prog, t, th[t].pc)
    BY <2>1, <1>a, FollowsLate
  <2> QED BY <2>1, <2>2, <2>3, SkipKept
<1> QED BY <1>1, <1>2, <1>3

\* a condition: what it tests is known where it leads
LEMMA ConditionKept ==
    ASSUME NEW o, NEW cs, Certified(o, prog, cs), ThreadInv, OInv(o, cs), prog' = prog,
           NEW t \in Threads, SkipIf(t)
    PROVE  OInv(o, cs)'
<1>1. PICK ins : ins = Ins(t)
  OBVIOUS
<1>2. PICK a : a = o[t][th[t].pc]
  OBVIOUS
<1>3. PICK x : x = After(prog, ins, a)
  OBVIOUS
<1>4. /\ th[t].st = "ready" /\ ins[1] = "skipif" /\ Alive(t)
      /\ mem' = mem /\ heap' = heap /\ mtx' = mtx
      /\ th' = IF mem[Target(ins)] \in ins[4] .. ins[5] THEN Skip(t, ins[6]) ELSE Skip(t, 0)
  BY <1>1 DEF SkipIf, At, shared, Go, Alive, Cell, Target
<1>5. /\ ins = TheCode[prog][t][th[t].pc] /\ PlaceCertified(o, prog, cs, t, th[t].pc)
      /\ \A f \in a.facts : Known(f) /\ Formed(f, mem, mtx)
      /\ th[t].hdl = a.hdl /\ th[t].nocancel = a.nocancel
  BY <1>1, <1>2, <1>4, AtPlace
<1>6. ins[4] \in Int /\ ins[5] \in Int
  BY <1>4, <1>5 DEF PlaceCertified
<1>7. /\ DOMAIN x = Parts /\ x.held = a.held /\ x.hdl = a.hdl /\ x.nocancel = a.nocancel
      /\ x.live = a.live /\ x.owed = a.owed /\ x.fresh = a.fresh
  BY <1>3, <1>4, AfterParts
<1>8. Effect(Ins(t))
  BY <1>1, <1>4, NoEffect DEF Writes
<1>9. \A f \in x.facts : Known(f)'
  BY <1>1, <1>2, <1>3, <1>4, <1>8, AfterKnown
<1>10. th[t].pc \in Nat /\ th[t].pc + 1 + 0 \in 1 .. Len(Code[prog][t])
  BY <1>1, <1>4, NextInCode, InCode
<1>11. th[t].pc + 1 + ins[6] \in 1 .. Len(Code[prog][t])
  BY <1>1, <1>4, InCode DEF Closed
<1>12. ASSUME NEW G, NEW n, th' = Skip(t, n), th[t].pc + 1 + n \in 1 .. Len(Code[prog][t]),
              <<th[t].pc + 1 + n, [x EXCEPT !.facts = x.facts \cup G]>>
                 \in Follows(o, prog, t, th[t].pc),
              \A f \in G : Known(f)'
       PROVE  OInv(o, cs)'
  <2>1. PICK y : y = [x EXCEPT !.facts = x.facts \cup G]
    OBVIOUS
  <2>2. /\ y.held = a.held /\ y.hdl = a.hdl /\ y.nocancel = a.nocancel
        /\ y.live = a.live /\ y.owed = a.owed /\ y.fresh = a.fresh
        /\ y.facts = x.facts \cup G
    BY <2>1, <1>7 DEF Parts
  <2>3. GoesTo(t, th[t].pc + 1 + n, th[t].hdl, th[t].nocancel)
    BY <1>4, <1>12, SkipGoes DEF ThreadInv
  <2>4. (\A u \in Threads \ {t} : Stays(u)) /\ NewCancels
    BY <2>3, GoesStay
  <2>5. th[t].pc + 1 + n # 0
    BY <1>12, LenNat DEF ThreadInv
  <2>6. Lands(t, th[t].pc + 1 + n, y)
    BY <2>2, <2>3, <2>5, <1>5 DEF Lands, GoesTo
  <2>7. \A f \in y.facts : Known(f)'
    BY <2>2, <1>9, <1>12
  <2> QED BY <2>1, <2>2, <2>4, <2>6, <2>7, <1>2, <1>4, <1>8, <1>12, QuietKept
<1>13. CASE mem[Target(ins)] \in ins[4] .. ins[5]
  <2>1. ~Outside(a.facts, Target(ins), ins[4], ins[5])
    BY <1>13, <1>5, <1>6, OutsideSound
  <2>2. PICK f : f = <<"val", Target(ins), ins[4], ins[5]>>
    OBVIOUS
  <2>3. Known(f)'
    BY <2>2, <1>4, <1>13 DEF Known, KnownIn
  <2>4. PICK G : G = {f}
    OBVIOUS
  <2>5. <<th[t].pc + 1 + ins[6], [x EXCEPT !.facts = x.facts \cup G]>>
           \in Follows(o, prog, t, th[t].pc)
    BY <2>1, <2>2, <2>4, <1>2, <1>3, <1>4, <1>5, FollowsSkip
  <2>6. th' = Skip(t, ins[6]) /\ \A g \in G : Known(g)'
    BY <2>3, <2>4, <1>4, <1>13
  <2> QED BY <2>5, <2>6, <1>11, <1>12
<1>14. CASE mem[Target(ins)] \notin ins[4] .. ins[5]
  <2>1. ~Within(a.facts, Target(ins), ins[4], ins[5])
    BY <1>14, <1>5, <1>6, WithinSound
  <2>2. ASSUME NEW f \in Freed(x, ins) PROVE Known(f)'
    <3>1. PICK g \in x.facts : /\ g[1] = "unless" /\ g[3] = Target(ins) /\ g[4] = ins[4]
                               /\ g[5] = ins[5] /\ f = <<"heap", g[2]>>
      BY <2>2 DEF Freed
    <3>2. Known(g)'
      BY <3>1, <1>9
    <3>3. g[2] \in heap' \/ mem'[g[3]] \in g[4] .. g[5]
      BY <3>1, <3>2 DEF Known, KnownIn
    <3>4. g[2] \in heap'
      BY <3>1, <3>3, <1>4, <1>14
    <3> QED BY <3>1, <3>4 DEF Known, KnownIn
  <2>3. <<th[t].pc + 1, [x EXCEPT !.facts = x.facts \cup Freed(x, ins)]>>
           \in Follows(o, prog, t, th[t].pc)
    BY <2>1, <1>2, <1>3, <1>4, <1>5, FollowsFall
  <2>4. th' = Skip(t, 0) /\ th[t].pc + 1 + 0 = th[t].pc + 1
    BY <1>4, <1>10, <1>14
  <2> QED BY <2>2, <2>3, <2>4, <1>10, <1>12
<1> QED BY <1>13, <1>14

\* the end of a thread, or the way to its clean-up handler
LEMMA EndKept ==
    ASSUME NEW o, NEW cs, Certified(o, prog, cs), ThreadInv, OInv(o, cs), prog' = prog,
           NEW t \in Threads, ThreadExit(t) \/ Cancelled(t)
    PROVE  OInv(o, cs)'
<1>1. PICK st \in {"ended", "cancelled"} : th' = EndOf(t, st)
  BY DEF ThreadExit, Cancelled
<1>2. /\ th[t].st = "ready" /\ Alive(t) /\ mem' = mem /\ heap' = heap /\ mtx' = mtx
      /\ Ins(t)[1] \in {"texit"} \cup CancellationPoints
      /\ Ins(t)[1] # "texit" => th[t].cancel /\ ~th[t].nocancel
  BY DEF ThreadExit, Cancelled, At, shared, Alive
<1>3. PICK a : a = o[t][th[t].pc]
  OBVIOUS
<1>4. /\ Ins(t) = TheCode[prog][t][th[t].pc] /\ th[t].pc \in DOMAIN o[t]
      /\ \A f \in a.facts : Known(f)
      /\ th[t].hdl = a.hdl /\ th[t].nocancel = a.nocancel
  BY <1>2, <1>3, AtPlace
<1>5. DOMAIN a = Parts
  BY <1>3, <1>4, CertifiedPlace
<1>6. th[t].cancel => Cancels(prog, t)
  BY DEF OInv, ControlInv
<1>7. Ending(a) \subseteq Follows(o, prog, t, th[t].pc)
  BY <1>2, <1>3, <1>4, <1>6, FollowsEnd
<1>8. Effect(Ins(t))
  BY <1>2, NoEffect DEF Writes, CancellationPoints
<1>9. \A f \in a.facts : Known(f)'
  BY <1>2, <1>4 DEF Known
<1>10. /\ \A u \in Threads \ {t} : Frame(u)
       /\ th'[t].cancel = th[t].cancel
       /\ th[t].hdl # 0 => /\ th'[t].pc = th[t].hdl /\ th'[t].hdl = 0
                           /\ th'[t].nocancel = TRUE /\ th'[t].st = th[t].st
       /\ th[t].hdl = 0 => th'[t].st = st
  BY <1>1, EndGoes DEF ThreadInv
<1>11. (\A u \in Threads \ {t} : Stays(u)) /\ NewCancels
  BY <1>10 DEF Frame, Stays, NewCancels
<1>12. CASE a.hdl # 0
  <2>1. PICK x : x = [a EXCEPT !.hdl = 0, !.nocancel = TRUE]
    OBVIOUS
  <2>2. /\ x.held = a.held /\ x.live = a.live /\ x.owed = a.owed /\ x.fresh = a.fresh
        /\ x.facts = a.facts /\ x.hdl = 0
    BY <2>1, <1>5 DEF Parts
  <2>3. x.nocancel = TRUE
    BY <2>1, <1>5 DEF Parts
  <2>4. <<a.hdl, x>> \in Follows(o, prog, t, th[t].pc)
    BY <2>1, <1>7, <1>12 DEF Ending
  <2>5. Lands(t, a.hdl, x)
    BY <2>2, <2>3, <1>2, <1>4, <1>10, <1>12 DEF Lands
  <2>6. \A f \in x.facts : Known(f)'
    BY <2>2, <1>9
  <2> QED BY <2>2, <2>4, <2>5, <2>6, <1>2, <1>3, <1>8, <1>11, QuietKept
<1>13. CASE a.hdl = 0
  <2>1. PICK x : x = [a EXCEPT !.nocancel = FALSE]
    OBVIOUS
  <2>2. /\ x.held = a.held /\ x.live = a.live /\ x.owed = a.owed /\ x.fresh = a.fresh
        /\ x.facts = a.facts
    BY <2>1, <1>5 DEF Parts
  <2>4. <<0, x>> \in Follows(o, prog, t, th[t].pc)
    BY <2>1, <1>7, <1>13 DEF Ending
  <2>5. Lands(t, 0, x)
    BY <1>1, <1>4, <1>10, <1>13 DEF Lands, Done
  <2>6. \A f \in x.facts : Known(f)'
    BY <2>2, <1>9
  <2> QED BY <2>2, <2>4, <2>5, <2>6, <1>2, <1>3, <1>8, <1>11, QuietKept
<1> QED BY <1>12, <1>13

LEMMA HandlerEndKept ==
    ASSUME NEW o, NEW cs, Certified(o, prog, cs), ThreadInv, OInv(o, cs), prog' = prog,
           NEW t \in Threads, HandlerEnd(t)
    PROVE  OInv(o, cs)'
<1>1. PICK st : st = th[t].fin
  OBVIOUS
<1>2. /\ th[t].st = "ready" /\ Alive(t) /\ mem' = mem /\ heap' = heap /\ mtx' = mtx
      /\ Ins(t)[1] = "handler_end" /\ th' = [th EXCEPT ![t].st = st]
  BY <1>1 DEF HandlerEnd, At, shared, Alive
<1>3. PICK a : a = o[t][th[t].pc]
  OBVIOUS
<1>4. /\ Ins(t) = TheCode[prog][t][th[t].pc] /\ th[t].pc \in DOMAIN o[t]
      /\ \A f \in a.facts : Known(f)
  BY <1>2, <1>3, AtPlace
<1>5. DOMAIN a = Parts
  BY <1>3, <1>4, CertifiedPlace
<1>6. PICK x : x = [a EXCEPT !.hdl = 0, !.nocancel = FALSE]
  OBVIOUS
<1>7. /\ x.held = a.held /\ x.live = a.live /\ x.owed = a.owed /\ x.fresh = a.fresh
      /\ x.facts = a.facts
  BY <1>5, <1>6 DEF Parts
<1>8. <<0, x>> \in Follows(o, prog, t, th[t].pc)
  BY <1>2, <1>3, <1>4, <1>6, FollowsHandlerEnd
<1>9. /\ \A u \in Threads \ {t} : Frame(u)
      /\ th'[t].st = st /\ th'[t].cancel = th[t].cancel
  BY <1>2, StatusGoes DEF ThreadInv
<1>10. (\A u \in Threads \ {t} : Stays(u)) /\ NewCancels
  BY <1>9 DEF Frame, Stays, NewCancels
<1>11. st \in {"ended", "cancelled"}
  BY <1>1 DEF ThreadInv, WithinCode
<1>12. Lands(t, 0, x)
  BY <1>9, <1>11 DEF Lands, Done
<1>13. \A f \in x.facts : Known(f)'
  BY <1>2, <1>4, <1>7 DEF Known
<1>14. Effect(Ins(t))
  BY <1>2, NoEffect DEF Writes
<1> QED BY <1>2, <1>3, <1>7, <1>8, <1>10, <1>12, <1>13, <1>14, QuietKept

\* pthread_cancel and a pthread_cond_signal that wakes a thread
LEMMA OthersKept ==
    ASSUME NEW o, NEW cs, Certified(o, prog, cs), ThreadInv, OInv(o, cs), prog' = prog,
           NEW t \in Threads, Cancel(t) \/ CondSignal(t)
    PROVE  OInv(o, cs)'
<1>1. /\ th[t].st = "ready" /\ Alive(t) /\ Ins(t)[1] \in {"cancel", "cvsignal"}
      /\ mem' = mem /\ heap' = heap /\ mtx' = mtx /\ Shaped(th)
  BY DEF Cancel, CondSignal, At, shared, Alive, ThreadInv
<1>2. Effect(Ins(t))
  BY <1>1, NoEffect DEF Writes
<1>3. ASSUME th'[t].st = "ready", th'[t].pc = th[t].pc + 1 + 0, th'[t].hdl = th[t].hdl,
             th'[t].nocancel = th[t].nocancel, \A u \in Threads \ {t} : Stays(u), NewCancels
      PROVE  OInv(o, cs)'
  <2>1. PICK x : x = After(prog, Ins(t), o[t][th[t].pc])
    OBVIOUS
  <2>2. /\ Ins(t) = TheCode[prog][t][th[t].pc]
        /\ th[t].hdl = o[t][th[t].pc].hdl /\ th[t].nocancel = o[t][th[t].pc].nocancel
    BY <1>1, AtPlace
  <2>3. /\ x.held = o[t][th[t].pc].held /\ x.live = o[t][th[t].pc].live
        /\ x.owed = o[t][th[t].pc].owed /\ x.fresh = o[t][th[t].pc].fresh
        /\ x.hdl = th[t].hdl /\ x.nocancel = th[t].nocancel
    <3>1. PICK ins, a : ins = Ins(t) /\ a = o[t][th[t].pc]
      OBVIOUS
    <3>2. ins[1] \in {"cancel", "cvsignal"}
      BY <1>1, <3>1
    <3>3. /\ x.held = a.held /\ x.live = a.live /\ x.owed = a.owed /\ x.fresh = a.fresh
          /\ x.hdl = a.hdl /\ x.nocancel = a.nocancel
      BY <2>1, <3>1, <3>2, AfterParts
    <3> QED BY <2>2, <3>1, <3>3
  <2>4. <<th[t].pc + 1, x>> \in Follows(o, prog, t, th[t].pc)
    BY <1>1, <2>1, <2>2, FollowsGo DEF Special
  <2>6. th[t].pc + 1 + 0 = th[t].pc + 1 /\ th[t].pc + 1 # 0
    BY <1>1, NextPlace
  <2>7. Lands(t, th[t].pc + 1, x)
    BY <1>3, <2>3, <2>6 DEF Lands
  <2>8. \A f \in x.facts : Known(f)'
    BY <1>1, <1>2, <2>1, AfterKnown
  <2> QED BY <1>1, <1>2, <1>3, <2>3, <2>4, <2>7, <2>8, QuietKept
<1>4. CASE Cancel(t)
  <2>1. PICK w : w = Ins(t)[2]
    OBVIOUS
  <2>2. Ins(t)[1] = "cancel" /\ th' = [Go(t) EXCEPT ![w].cancel = TRUE]
    BY <1>4, <2>1 DEF Cancel, At
  <2>3. /\ th[t].pc \in 1 .. Len(Code[prog][t]) /\ Closed(prog, t, th[t].pc)
        /\ Ins(t) = Code[prog][t][th[t].pc]
    BY <1>1, InCode
  <2>4. w \in Threads
    BY <2>1, <2>2, <2>3 DEF Closed
  <2>5. Cancels(prog, w)
    BY <2>1, <2>2, <2>3 DEF Cancels, TheCode
  <2>6. /\ th'[t].st = "ready" /\ th'[t].pc = th[t].pc + 1 + 0 /\ th'[t].hdl = th[t].hdl
        /\ th'[t].nocancel = th[t].nocancel
        /\ (\A u \in Threads \ {w} : th'[u].cancel = th[u].cancel)
        /\ \A u \in Threads \ {t} :
             /\ th'[u].st = th[u].st /\ th'[u].pc = th[u].pc /\ th'[u].hdl = th[u].hdl
             /\ th'[u].nocancel = th[u].nocancel
    <3>1. PICK j : j = th[t].pc + 1 + 0
      OBVIOUS
    <3>2. CancelAsked(t, w, j)
      BY <1>1, <2>2, <2>4, <3>1, CancelGoes
    <3> QED BY <3>1, <3>2 DEF CancelAsked
  <2>7. (\A u \in Threads \ {t} : Stays(u)) /\ NewCancels
    BY <2>5, <2>6 DEF Stays, NewCancels
  <2> QED BY <1>3, <2>6, <2>7
<1>5. CASE CondSignal(t) /\ th' = Go(t)
  <2>1. GoesTo(t, th[t].pc + 1 + 0, th[t].hdl, th[t].nocancel)
    BY <1>1, <1>5, GoGoes
  <2>2. (\A u \in Threads \ {t} : Stays(u)) /\ NewCancels
    BY <2>1, GoesStay
  <2> QED BY <1>3, <2>1, <2>2 DEF GoesTo
<1>6. CASE \E w \in Threads : th[w].st = "cvwait" /\ th' = [Go(t) EXCEPT ![w].st = "relock"]
  <2>1. PICK w \in Threads : th[w].st = "cvwait" /\ th' = [Go(t) EXCEPT ![w].st = "relock"]
    BY <1>6
  <2>2. /\ th'[t].st = "ready" /\ th'[t].pc = th[t].pc + 1 + 0 /\ th'[t].hdl = th[t].hdl
        /\ th'[t].nocancel = th[t].nocancel /\ th'[t].cancel = th[t].cancel
        /\ th'[w].st = "relock" /\ th'[w].pc = th[w].pc /\ th'[w].hdl = th[w].hdl
        /\ th'[w].nocancel = th[w].nocancel /\ th'[w].cancel = th[w].cancel
        /\ \A u \in Threads \ {t, w} : Frame(u)
    BY <1>1, <2>1, WakeGoes
  <2>3. (\A u \in Threads \ {t} : Stays(u)) /\ NewCancels
    BY <2>1, <2>2 DEF Stays, NewCancels, Frame
  <2> QED BY <1>3, <2>2, <2>3
<1>7. CondSignal(t) => \/ th' = Go(t)
                       \/ \E w \in Threads : th[w].st = "cvwait" /\ th' = [Go(t) EXCEPT ![w].st = "relock"]
  BY DEF CondSignal
<1> QED BY <1>4, <1>5, <1>6, <1>7

\* a thread that has ended is joined: what it left behind is main's to know
LEMMA JoinKept ==
    ASSUME NEW o, NEW cs, Certified(o, prog, cs), ThreadInv, OInv(o, cs), prog' = prog,
           NEW t \in Threads, At(t, {"join", "timedjoin"}), Done(Ins(t)[2]), th' = Go(t),
           UNCHANGED shared
    PROVE  OInv(o, cs)'
<1>1. PICK ins : ins = Ins(t)
  OBVIOUS
<1>2. PICK a : a = o[t][th[t].pc]
  OBVIOUS
<1>3. PICK w : w = ins[2]
  OBVIOUS
<1>4. /\ th[t].st = "ready" /\ ins[1] \in {"join", "timedjoin"} /\ Alive(t) /\ Done(w)
      /\ mem' = mem /\ heap' = heap /\ mtx' = mtx
  BY <1>1, <1>3 DEF At, shared, Alive
<1>5. /\ ins = TheCode[prog][t][th[t].pc] /\ PlaceCertified(o, prog, cs, t, th[t].pc)
      /\ th[t].hdl = a.hdl /\ th[t].nocancel = a.nocancel /\ Place(t) = th[t].pc
  BY <1>1, <1>2, <1>4, AtPlace
<1>6. t = 0 /\ w \in Threads \ {0}
  BY <1>3, <1>4, <1>5 DEF PlaceCertified
<1>7. Place(w) = 0 /\ 0 \in DOMAIN o[w]
  <2>1. Place(w) = 0 /\ th[w].st # "none"
    BY <1>4 DEF Place, Done
  <2> QED BY <1>6, <2>1 DEF OInv, ControlInv
<1>8. PICK y : y = After(prog, ins, a)
  OBVIOUS
<1>9. PICK x : x = Joined(o, y, w)
  OBVIOUS
<1>10. /\ DOMAIN y = Parts /\ y.held = a.held /\ y.hdl = a.hdl /\ y.nocancel = a.nocancel
       /\ y.live = a.live /\ y.owed = a.owed /\ y.fresh = a.fresh
  BY <1>4, <1>8, AfterParts
<1>11. /\ x.held = a.held /\ x.hdl = a.hdl /\ x.nocancel = a.nocancel
       /\ x.live = a.live \ {w} /\ x.owed = a.owed \ {w} /\ x.fresh = a.fresh
       /\ x.facts = y.facts \cup (IF w \in a.owed THEN o[w][0].facts ELSE {})
  BY <1>9, <1>10 DEF Joined, Parts
<1>12. <<th[t].pc + 1, x>> \in Follows(o, prog, t, th[t].pc)
  BY <1>2, <1>3, <1>4, <1>5, <1>7, <1>8, <1>9, FollowsJoin
<1>13. GoesTo(t, th[t].pc + 1 + 0, th[t].hdl, th[t].nocancel)
  BY <1>4, GoGoes
<1>14. (\A u \in Threads \ {t} : Stays(u)) /\ NewCancels
  BY <1>13, GoesStay
<1>15. th[t].pc + 1 + 0 = th[t].pc + 1 /\ th[t].pc + 1 # 0
  <2>1. th[t].pc \in 1 .. Len(Code[prog][t]) /\ Len(Code[prog][t]) \in Nat
    BY <1>4, InCode
  <2> QED BY <2>1
<1>16. Lands(t, th[t].pc + 1, x)
  BY <1>5, <1>11, <1>13, <1>15 DEF Lands, GoesTo
<1>17. Effect(Ins(t))
  BY <1>1, <1>4, NoEffect DEF Writes
<1>18. Owners(t, x.held)
  BY <1>2, <1>4, <1>11, SameOwners
<1>19. ASSUME NEW f \in x.facts PROVE Known(f)'
  <2>1. CASE f \in y.facts
    BY <2>1, <1>1, <1>2, <1>4, <1>8, <1>17, AfterKnown
  <2>2. CASE w \in a.owed /\ f \in o[w][0].facts
    <3>1. Relied(o, w)
      BY <2>2, <1>2, <1>4, <1>5, <1>6 DEF Relied
    <3>2. Known(f)
      BY <2>2, <3>1, <1>6, <1>7 DEF OInv, FactInv
    <3> QED BY <3>2, <1>4 DEF Known
  <2> QED BY <2>1, <2>2, <1>11
<1>20. MainKnows(o, Place(0), x)
  <2>1. MainKnows(o, Place(0), y)
    BY <1>2, <1>4, <1>6, <1>10, <1>14, SameKnown
  <2>2. Done(w)' /\ ~Alive(w)'
    BY <1>4, <1>6, <1>14, StaysPlace DEF Alive, Done
  <2> QED BY <2>1, <2>2, <1>10, <1>11 DEF MainKnows
<1> QED BY <1>4, <1>12, <1>14, <1>16, <1>17, <1>18, <1>19, <1>20, EdgeKept

\* nobody owns a mutex that may be initialised or destroyed
LEMMA NobodyOwns ==
    ASSUME NEW o, NEW cs, Certified(o, prog, cs), ThreadInv, OInv(o, cs), NEW t \in Threads,
           th[t].st = "ready", NEW m \in DOMAIN mtx, NotHeld(o, t, th[t].pc, m)
    PROVE  \A u \in Threads : mtx[m] # u
<1> SUFFICES ASSUME NEW u \in Threads, mtx[m] = u PROVE FALSE
  OBVIOUS
<1>1. Alive(t) /\ Place(t) = th[t].pc
  BY DEF Alive, Place, Done
<1>2. CASE u = t
  BY <1>2, ReadyOwns DEF NotHeld
<1>3. CASE u # t
  <2>1. th[u].st # "none" /\ m \in HeldNow(o, u)
    BY DEF OInv, LockInv
  <2>2. m \in o[u][Place(u)].held
    BY <2>1 DEF HeldNow
  <2>3. Place(u) \in DOMAIN o[u]
    BY <2>1 DEF OInv, ControlInv
  <2>4. Place(u) # 0
    BY <2>2, <2>3, CertifiedPlace
  <2>5. Alive(u)
    BY <2>1, <2>4 DEF Place, Alive, Done, ThreadInv, WithinCode, Statuses
  <2>6. Coexist(o, t, Place(t), u, Place(u))
    BY <1>1, <1>3, <2>5, NowTogether DEF Relied, Together
  <2> QED BY <1>1, <1>3, <2>2, <2>3, <2>6 DEF NotHeld
<1> QED BY <1>2, <1>3

LEMMA OwnersConstants == Nobody \notin Threads /\ Gone \notin Threads /\ Nobody # Gone
BY ThreadsConstants DEF Nobody, Gone, Threads

\* A step of t on mutex m, which becomes owned by owner
LEMMA MutexKept ==
    ASSUME NEW o, NEW cs, Certified(o, prog, cs), ThreadInv, OInv(o, cs), prog' = prog,
           NEW t \in Threads, Alive(t), Ins(t)[1] \in MutexOps,
           NEW owner \in Threads \cup {Nobody, Gone}, SetMutex(t, owner), mem' = mem, heap' = heap,
           GoesTo(t, th[t].pc + 1 + 0, th[t].hdl, th[t].nocancel),
           owner = Gone => Ins(t)[1] = "destroymutex",
           \A u \in Threads \ {t} : mtx[Ins(t)[2]] # u /\ owner # u,
           owner = t <=> Ins(t)[2] \in After(prog, Ins(t), o[t][th[t].pc]).held,
           \A m \in DOMAIN mtx \ {Ins(t)[2]} :
              mtx[m] = t <=> m \in After(prog, Ins(t), o[t][th[t].pc]).held
    PROVE  OInv(o, cs)'
<1>1. PICK ins : ins = Ins(t)
  OBVIOUS
<1>2. PICK x : x = After(prog, ins, o[t][th[t].pc])
  OBVIOUS
<1>3. PICK k : k = ins[2]
  OBVIOUS
<1>4. /\ ins = TheCode[prog][t][th[t].pc] /\ PlaceCertified(o, prog, cs, t, th[t].pc)
      /\ th[t].hdl = o[t][th[t].pc].hdl /\ th[t].nocancel = o[t][th[t].pc].nocancel
      /\ Place(t) = th[t].pc
  BY <1>1, AtPlace
<1>5. k \in DOMAIN mtx
  BY <1>1, <1>3, <1>4 DEF PlaceCertified, OInv, LockInv
<1>6. mtx' = [mtx EXCEPT ![k] = owner]
  BY <1>1, <1>3 DEF SetMutex
<1>a. ins[1] \notin {"push", "pop", "cancel_off", "cancel_on", "create"}
  BY <1>1 DEF MutexOps
<1>b. /\ x.hdl = o[t][th[t].pc].hdl /\ x.nocancel = o[t][th[t].pc].nocancel
      /\ x.live = o[t][th[t].pc].live
      /\ x.owed = o[t][th[t].pc].owed /\ x.fresh = o[t][th[t].pc].fresh
  BY <1>2, <1>a, AfterParts
<1>7. /\ x.hdl = th[t].hdl /\ x.nocancel = th[t].nocancel /\ x.live = o[t][th[t].pc].live
      /\ x.owed = o[t][th[t].pc].owed /\ x.fresh = o[t][th[t].pc].fresh
  BY <1>4, <1>b
<1>8. <<th[t].pc + 1, x>> \in Follows(o, prog, t, th[t].pc)
  BY <1>1, <1>2, <1>4, FollowsGo DEF Special, MutexOps
<1>9. th[t].pc + 1 + 0 = th[t].pc + 1 /\ th[t].pc + 1 # 0
  <2>1. th[t].pc \in 1 .. Len(Code[prog][t]) /\ Len(Code[prog][t]) \in Nat
    BY InCode DEF Alive
  <2> QED BY <2>1
<1>10. Lands(t, th[t].pc + 1, x)
  BY <1>7, <1>9 DEF Lands, GoesTo
<1>11. (\A u \in Threads \ {t} : Stays(u)) /\ NewCancels
  BY GoesStay
<1>12. \A m \in DOMAIN mtx : mtx'[m] = Gone => mtx[m] = Gone \/ (ins[1] = "destroymutex" /\ ins[2] = m)
  BY <1>1, <1>3, <1>5, <1>6
<1>13. Effect(Ins(t))
  BY <1>1, <1>12 DEF Effect, Writes, MutexOps
<1>14. Owners(t, x.held)
  <2>1. DOMAIN mtx' = DOMAIN mtx
    BY <1>6
  <2>2. ASSUME NEW m \in DOMAIN mtx
        PROVE  /\ mtx'[m] = t <=> m \in x.held
               /\ \A u \in Threads \ {t} : mtx'[m] = u <=> mtx[m] = u
    <3>1. CASE m = k
      <4>1. mtx'[m] = owner
        BY <3>1, <1>5, <1>6
      <4> QED BY <3>1, <4>1, <1>1, <1>2, <1>3
    <3>2. CASE m # k
      <4>1. mtx'[m] = mtx[m]
        BY <3>2, <1>6
      <4> QED BY <3>2, <4>1, <1>1, <1>2, <1>3
    <3> QED BY <3>1, <3>2
  <2> QED BY <2>1, <2>2 DEF Owners
<1>15. Ins(t)[1] = "initmutex" => mtx'[Ins(t)[2]] # Gone
  BY <1>1, <1>3, <1>5, <1>6
<1>16. \A f \in x.facts : Known(f)'
  BY <1>1, <1>2, <1>13, <1>15, AfterKnown
<1>17. t = 0 => MainKnows(o, Place(0), x)
  BY <1>7, <1>11, SameKnown
<1> QED BY <1>8, <1>10, <1>11, <1>13, <1>14, <1>16, <1>17, EdgeKept

\* what MutexOps do to the mutexes held
LEMMA AfterHeld ==
    ASSUME NEW p, NEW ins, NEW a
    PROVE  /\ ins[1] = "lock" => After(p, ins, a).held = a.held \cup {ins[2]}
           /\ ins[1] = "unlock" => After(p, ins, a).held = a.held \ {ins[2]}
           /\ ins[1] \notin {"lock", "unlock"} => After(p, ins, a).held = a.held
BY DEF After

\* pthread_mutex_lock, _unlock, _init and _destroy
LEMMA MutexStepKept ==
    ASSUME NEW o, NEW cs, Certified(o, prog, cs), ThreadInv, OInv(o, cs), prog' = prog,
           NEW t \in Threads, Lock(t) \/ Unlock(t) \/ MutexLife(t)
    PROVE  OInv(o, cs)'
<1> USE OwnersConstants
<1>1. PICK owner \in Threads \cup {Nobody, Gone} :
        /\ SetMutex(t, owner)
        /\ owner = (IF Ins(t)[1] = "lock" THEN t
                    ELSE IF Ins(t)[1] = "destroymutex" THEN Gone ELSE Nobody)
  BY DEF Lock, Unlock, MutexLife, At
<1>2. /\ th[t].st = "ready" /\ Alive(t) /\ th' = Go(t) /\ mem' = mem /\ heap' = heap
      /\ Ins(t)[1] \in {"lock", "unlock", "initmutex", "destroymutex"}
      /\ Ins(t)[1] = "lock" => mtx[Ins(t)[2]] = Nobody
  BY DEF Lock, Unlock, MutexLife, At, Alive
<1>3. PICK a : a = o[t][th[t].pc]
  OBVIOUS
<1>4. PICK k : k = Ins(t)[2]
  OBVIOUS
<1>5. Ins(t) = TheCode[prog][t][th[t].pc] /\ PlaceCertified(o, prog, cs, t, th[t].pc)
  BY <1>2, AtPlace
<1>6. k \in DOMAIN mtx
  BY <1>2, <1>4, <1>5 DEF PlaceCertified, MutexOps, OInv, LockInv
<1>7. \A m \in DOMAIN mtx : mtx[m] = t <=> m \in a.held
  BY <1>2, <1>3, ReadyOwns
<1>8. Ins(t)[1] = "unlock" => k \in a.held
  BY <1>3, <1>4, <1>5 DEF PlaceCertified
<1>9. ASSUME Ins(t)[1] \in {"initmutex", "destroymutex"}
      PROVE  \A u \in Threads : mtx[k] # u
  <2>1. NotHeld(o, t, th[t].pc, k)
    BY <1>4, <1>5, <1>9 DEF PlaceCertified
  <2> QED BY <2>1, <1>2, <1>6, NobodyOwns
<1>10. GoesTo(t, th[t].pc + 1 + 0, th[t].hdl, th[t].nocancel)
  BY <1>2, GoGoes
<1>11. \A u \in Threads \ {t} : mtx[Ins(t)[2]] # u /\ owner # u
  BY <1>1, <1>2, <1>4, <1>6, <1>7, <1>8, <1>9
<1>12. PICK h : h = After(prog, Ins(t), a).held
  OBVIOUS
<1>13. owner = t <=> Ins(t)[2] \in h
  BY <1>1, <1>2, <1>4, <1>6, <1>7, <1>8, <1>9, <1>12, AfterHeld
<1>14. \A m \in DOMAIN mtx \ {Ins(t)[2]} : mtx[m] = t <=> m \in h
  BY <1>2, <1>7, <1>12, AfterHeld
<1>15. owner = Gone => Ins(t)[1] = "destroymutex"
  BY <1>1
<1>16. Ins(t)[1] \in MutexOps
  BY <1>2 DEF MutexOps
<1> QED BY <1>1, <1>2, <1>3, <1>10, <1>11, <1>12, <1>13, <1>14, <1>15, <1>16, MutexKept

\* pthread_cond_wait takes the mutex again
LEMMA RelockKept ==
    ASSUME NEW o, NEW cs, Certified(o, prog, cs), ThreadInv, OInv(o, cs), prog' = prog,
           NEW t \in Threads, Relock(t)
    PROVE  OInv(o, cs)'
<1> USE OwnersConstants
<1>1. /\ th[t].st = "relock" /\ Alive(t) /\ th' = [Go(t) EXCEPT ![t].st = "ready"]
      /\ mem' = mem /\ heap' = heap /\ mtx[Ins(t)[2]] = Nobody /\ SetMutex(t, t)
  BY DEF Relock, Alive
<1>2. Ins(t)[1] = "cvwait" /\ Waiting(t)
  BY <1>1 DEF Waiting, ThreadInv
<1>3. PICK a : a = o[t][th[t].pc]
  OBVIOUS
<1>4. PICK k : k = Ins(t)[2]
  OBVIOUS
<1>5. /\ Ins(t) = TheCode[prog][t][th[t].pc] /\ PlaceCertified(o, prog, cs, t, th[t].pc)
      /\ Place(t) = th[t].pc
  BY <1>1, AtPlace
<1>6. k \in a.held
  BY <1>2, <1>3, <1>4, <1>5 DEF PlaceCertified
<1>7. HeldNow(o, t) = a.held \ {k}
  BY <1>2, <1>3, <1>4, <1>5 DEF HeldNow
<1>8. \A m \in DOMAIN mtx : mtx[m] = t <=> m \in a.held \ {k}
  BY <1>1, <1>7 DEF OInv, LockInv
<1>9. PICK h : h = After(prog, Ins(t), a).held
  OBVIOUS
<1>10. h = a.held
  BY <1>2, <1>9, AfterHeld
<1>11. GoesTo(t, th[t].pc + 1 + 0, th[t].hdl, th[t].nocancel)
  BY <1>1, RelockGoes DEF ThreadInv
<1>12. \A u \in Threads \ {t} : mtx[Ins(t)[2]] # u /\ t # u
  BY <1>1
<1>13. /\ t = t <=> Ins(t)[2] \in h
       /\ \A m \in DOMAIN mtx \ {Ins(t)[2]} : mtx[m] = t <=> m \in h
  BY <1>4, <1>6, <1>8, <1>10
<1>14. Ins(t)[1] \in MutexOps
  BY <1>2 DEF MutexOps
<1> QED BY <1>1, <1>3, <1>9, <1>11, <1>12, <1>13, <1>14, MutexKept

\* a step after which every thread is still at its place
LEMMA StillKept ==
    ASSUME NEW o, NEW cs, OInv(o, cs), prog' = prog, mem' = mem, heap' = heap,
           \A m \in DOMAIN mtx : mtx'[m] = Gone => mtx[m] = Gone, DOMAIN mtx' = DOMAIN mtx,
           \A u \in Threads :
              /\ Place(u)' = Place(u) /\ (Alive(u)' <=> Alive(u)) /\ (Done(u)' <=> Done(u))
              /\ (th'[u].st = "none") <=> (th[u].st = "none")
              /\ th'[u].pc = th[u].pc /\ th'[u].hdl = th[u].hdl
              /\ th'[u].nocancel = th[u].nocancel /\ th'[u].cancel = th[u].cancel,
           LockInv(o)', Certified(o, prog, cs)
    PROVE  OInv(o, cs)'
<1> USE ZeroThread
<1>1. ControlInv(o)'
  BY DEF OInv, ControlInv, Cancels
<1>2. ASSUME NEW u \in Threads, Relied(o, u)', NEW f \in o[u][Place(u)'].facts
      PROVE  Known(f)'
  <2>1. Relied(o, u)
    BY <1>2 DEF Relied
  <2>2. Known(f) /\ Place(u) \in DOMAIN o[u]
    BY <1>2, <2>1 DEF OInv, FactInv, ControlInv, Relied, Alive, Done
  <2>3. Formed(f, mem, mtx)
    BY <1>2, <2>2, FormedNow DEF OInv
  <2> QED BY <2>2, <2>3 DEF Known, KnownIn, Formed
<1>3. FactInv(o, cs)'
  BY <1>2 DEF OInv, FactInv
<1> QED BY <1>1, <1>3 DEF OInv

\* pthread_cond_wait releases the mutex and waits
LEMMA CondWaitKept ==
    ASSUME NEW o, NEW cs, Certified(o, prog, cs), ThreadInv, OInv(o, cs), prog' = prog,
           NEW t \in Threads, CondWait(t)
    PROVE  OInv(o, cs)'
<1> USE OwnersConstants
<1>1. PICK k : k = Ins(t)[2]
  OBVIOUS
<1>2. /\ th[t].st = "ready" /\ Alive(t) /\ Ins(t)[1] = "cvwait"
      /\ th' = [th EXCEPT ![t].st = "cvwait"] /\ mtx' = [mtx EXCEPT ![k] = Nobody]
      /\ mem' = mem /\ heap' = heap
  BY <1>1 DEF CondWait, At, Alive, SetMutex
<1>3. /\ \A u \in Threads \ {t} : Frame(u)
      /\ th'[t].st = "cvwait" /\ th'[t].pc = th[t].pc /\ th'[t].hdl = th[t].hdl
      /\ th'[t].nocancel = th[t].nocancel /\ th'[t].cancel = th[t].cancel
  BY <1>2, StatusGoes DEF ThreadInv
<1>4. \A u \in Threads :
        /\ Place(u)' = Place(u) /\ (Alive(u)' <=> Alive(u)) /\ (Done(u)' <=> Done(u))
        /\ (th'[u].st = "none") <=> (th[u].st = "none")
        /\ th'[u].pc = th[u].pc /\ th'[u].hdl = th[u].hdl
        /\ th'[u].nocancel = th[u].nocancel /\ th'[u].cancel = th[u].cancel
  BY <1>2, <1>3 DEF Frame, Place, Alive, Done
<1>5. /\ Ins(t) = TheCode[prog][t][th[t].pc] /\ PlaceCertified(o, prog, cs, t, th[t].pc)
      /\ Place(t) = th[t].pc
  BY <1>2, AtPlace
<1>6. k \in o[t][th[t].pc].held /\ k \in DOMAIN mtx
  BY <1>1, <1>2, <1>5 DEF PlaceCertified, MutexOps, OInv, LockInv
<1>7. ASSUME NEW u \in Threads, NEW m \in DOMAIN mtx
      PROVE  mtx'[m] = u <=> th'[u].st # "none" /\ m \in HeldNow(o, u)'
  <2>1. CASE u = t
    <3>1. HeldNow(o, t)' = o[t][th[t].pc].held \ {k}
      <4>1. Waiting(t)' /\ Ins(t)' = Ins(t)
        BY <1>3 DEF Waiting, Ins, TheCode
      <4> QED BY <4>1, <1>1, <1>4, <1>5 DEF HeldNow
    <3>2. mtx[m] = t <=> m \in o[t][th[t].pc].held
      BY <1>2, ReadyOwns
    <3> QED BY <2>1, <3>1, <3>2, <1>2, <1>3, <1>6
  <2>2. CASE u # t
    <3>1. HeldNow(o, u)' = HeldNow(o, u)
      <4>1. (Waiting(u)' <=> Waiting(u)) /\ Ins(u)' = Ins(u)
        BY <2>2, <1>3 DEF Waiting, Frame, Ins, TheCode
      <4> QED BY <4>1, <1>4 DEF HeldNow
    <3>2. mtx[m] = u <=> th[u].st # "none" /\ m \in HeldNow(o, u)
      BY DEF OInv, LockInv
    <3>3. mtx[k] = t
      BY <1>2, <1>6, ReadyOwns
    <3> QED BY <2>2, <3>1, <3>2, <3>3, <1>2, <1>4, <1>6
  <2> QED BY <2>1, <2>2
<1>8. LockInv(o)'
  BY <1>2, <1>7 DEF OInv, LockInv
<1>9. DOMAIN mtx' = DOMAIN mtx /\ \A m \in DOMAIN mtx : mtx'[m] = Gone => mtx[m] = Gone
  BY <1>2
<1> QED BY <1>2, <1>4, <1>8, <1>9, StillKept

LEMMA SpuriousKept ==
    ASSUME NEW o, NEW cs, Certified(o, prog, cs), ThreadInv, OInv(o, cs), prog' = prog,
           NEW t \in Threads, SpuriousWakeup(t)
    PROVE  OInv(o, cs)'
<1>1. /\ th[t].st = "cvwait" /\ th' = [th EXCEPT ![t].st = "relock"]
      /\ mem' = mem /\ heap' = heap /\ mtx' = mtx
  BY DEF SpuriousWakeup
<1>2. /\ \A u \in Threads \ {t} : Frame(u)
      /\ th'[t].st = "relock" /\ th'[t].pc = th[t].pc /\ th'[t].hdl = th[t].hdl
      /\ th'[t].nocancel = th[t].nocancel /\ th'[t].cancel = th[t].cancel
  BY <1>1, StatusGoes DEF ThreadInv
<1>3. \A u \in Threads :
        /\ Place(u)' = Place(u) /\ (Alive(u)' <=> Alive(u)) /\ (Done(u)' <=> Done(u))
        /\ (th'[u].st = "none") <=> (th[u].st = "none")
        /\ th'[u].pc = th[u].pc /\ th'[u].hdl = th[u].hdl
        /\ th'[u].nocancel = th[u].nocancel /\ th'[u].cancel = th[u].cancel
  BY <1>1, <1>2 DEF Frame, Place, Alive, Done
<1>4. \A u \in Threads : HeldNow(o, u)' = HeldNow(o, u)
  <2> SUFFICES ASSUME NEW u \in Threads PROVE HeldNow(o, u)' = HeldNow(o, u)
    OBVIOUS
  <2>1. (Waiting(u)' <=> Waiting(u)) /\ Ins(u)' = Ins(u)
    BY <1>1, <1>2 DEF Waiting, Frame, Ins, TheCode
  <2> QED BY <2>1, <1>3 DEF HeldNow
<1>5. LockInv(o)'
  BY <1>1, <1>3, <1>4 DEF OInv, LockInv
<1> QED BY <1>1, <1>3, <1>5, StillKept

\* a new thread starts where the outline says, without mutexes
LEMMA CreateKept ==
    ASSUME NEW o, NEW cs, Certified(o, prog, cs), ThreadInv, OInv(o, cs), prog' = prog,
           NEW t \in Threads, Create(t)
    PROVE  OInv(o, cs)'
<1> USE ZeroThread
<1>1. PICK ins : ins = Ins(t)
  OBVIOUS
<1>2. PICK w : w = ins[2]
  OBVIOUS
<1>3. /\ th[t].st = "ready" /\ Alive(t) /\ ins[1] = "create"
      /\ th' = [Go(t) EXCEPT ![w].st = "ready", ![w].reg = ins[3], ![w].mask = th[t].mask]
      /\ mem' = mem /\ heap' = heap /\ mtx' = mtx
  BY <1>1, <1>2 DEF Create, At, Alive, shared
<1>4. /\ ins = TheCode[prog][t][th[t].pc] /\ PlaceCertified(o, prog, cs, t, th[t].pc)
      /\ th[t].hdl = o[t][th[t].pc].hdl /\ th[t].nocancel = o[t][th[t].pc].nocancel
      /\ Place(t) = th[t].pc
  BY <1>1, <1>3, AtPlace
<1>5. t = 0 /\ w \in Threads \ {0}
  BY <1>2, <1>3, <1>4 DEF PlaceCertified
<1>6. PICK a : a = o[0][th[0].pc]
  OBVIOUS
<1>7. /\ w \in a.fresh /\ 1 \in DOMAIN o[w]
      /\ o[w][1].held = {} /\ o[w][1].hdl = 0 /\ o[w][1].nocancel = FALSE
      /\ o[w][1].facts \subseteq a.facts
  BY <1>2, <1>3, <1>4, <1>5, <1>6 DEF PlaceCertified
<1>8. th[w].st = "none" /\ th[w].pc = 1 /\ th[w].hdl = 0 /\ ~th[w].nocancel
  BY <1>4, <1>5, <1>6, <1>7 DEF OInv, ControlInv
<1>9. /\ th'[0].st = "ready" /\ th'[0].pc = th[0].pc + 1 + 0 /\ th'[0].hdl = th[0].hdl
      /\ th'[0].nocancel = th[0].nocancel /\ th'[0].cancel = th[0].cancel
      /\ th'[w].st = "ready" /\ th'[w].pc = th[w].pc /\ th'[w].hdl = th[w].hdl
      /\ th'[w].nocancel = th[w].nocancel /\ th'[w].cancel = th[w].cancel
      /\ \A u \in Threads \ {0, w} : Frame(u)
  <2>1. Shaped(th)
    BY DEF ThreadInv
  <2>2. PICK j : j = th[0].pc + 1 + 0
    OBVIOUS
  <2>3. Created(0, w, j)
    BY <1>3, <1>5, <2>1, <2>2, CreateGoes
  <2> QED BY <1>5, <2>2, <2>3 DEF Created
<1>10. PICK j : j = th[0].pc + 1
  OBVIOUS
<1>11. th[0].pc + 1 + 0 = j /\ j # 0
  <2>1. th[t].pc \in 1 .. Len(Code[prog][t]) /\ Len(Code[prog][t]) \in Nat
    BY <1>3, InCode
  <2> QED BY <2>1, <1>5, <1>10
<1>12. PICK x : x = After(prog, ins, a)
  OBVIOUS
<1>13. /\ x.held = a.held /\ x.hdl = a.hdl /\ x.nocancel = a.nocancel
       /\ x.live = a.live \cup {w} /\ x.owed = a.owed \cup {w} /\ x.fresh = a.fresh \ {w}
  <2>1. x.held = a.held /\ x.hdl = a.hdl /\ x.nocancel = a.nocancel
    BY <1>3, <1>12, AfterParts
  <2> QED BY <2>1, <1>2, <1>3, <1>12 DEF After
<1>14. j \in DOMAIN o[0] /\ Entails(x, o[0][j])
  <2>1. <<j, x>> \in Follows(o, prog, 0, th[0].pc)
    BY <1>3, <1>4, <1>5, <1>6, <1>10, <1>12, FollowsGo DEF Special
  <2>2. \A s \in Follows(o, prog, t, th[t].pc) : s[1] \in DOMAIN o[t] /\ Entails(s[2], o[t][s[1]])
    BY <1>4 DEF PlaceCertified
  <2> QED BY <2>1, <2>2, <1>5
<1>15. /\ Place(0)' = j /\ Alive(0)' /\ ~Done(0)' /\ ~Waiting(0)'
       /\ Place(w)' = 1 /\ Alive(w)' /\ ~Done(w)' /\ ~Waiting(w)'
  BY <1>8, <1>9, <1>11 DEF Place, Alive, Done, Waiting
<1>16. \A u \in Threads \ {0, w} :
         /\ Place(u)' = Place(u) /\ (Alive(u)' <=> Alive(u)) /\ (Done(u)' <=> Done(u))
         /\ (th'[u].st = "none") <=> (th[u].st = "none")
         /\ th'[u].pc = th[u].pc /\ th'[u].hdl = th[u].hdl
         /\ th'[u].nocancel = th[u].nocancel /\ th'[u].cancel = th[u].cancel
         /\ HeldNow(o, u)' = HeldNow(o, u)
  <2> SUFFICES ASSUME NEW u \in Threads \ {0, w}
               PROVE  /\ Place(u)' = Place(u) /\ (Alive(u)' <=> Alive(u)) /\ (Done(u)' <=> Done(u))
                      /\ (th'[u].st = "none") <=> (th[u].st = "none")
                      /\ th'[u].pc = th[u].pc /\ th'[u].hdl = th[u].hdl
                      /\ th'[u].nocancel = th[u].nocancel /\ th'[u].cancel = th[u].cancel
                      /\ HeldNow(o, u)' = HeldNow(o, u)
    OBVIOUS
  <2>1. /\ Place(u)' = Place(u) /\ (Alive(u)' <=> Alive(u)) /\ (Done(u)' <=> Done(u))
        /\ (Waiting(u)' <=> Waiting(u)) /\ Ins(u)' = Ins(u)
    BY <1>9 DEF Frame, Place, Alive, Done, Waiting, Ins, TheCode
  <2>2. HeldNow(o, u)' = HeldNow(o, u)
    BY <2>1 DEF HeldNow
  <2> QED BY <2>1, <2>2, <1>9 DEF Frame
<1>17. ControlInv(o)'
  <2>1. ASSUME NEW u \in Threads
        PROVE  /\ th'[u].st = "none" => th'[u].pc = 1 /\ th'[u].hdl = 0 /\ ~th'[u].nocancel
               /\ th'[u].st # "none" => Place(u)' \in DOMAIN o[u]
               /\ Alive(u)' => /\ th'[u].hdl = o[u][Place(u)'].hdl
                               /\ th'[u].nocancel = o[u][Place(u)'].nocancel
               /\ th'[u].cancel => (Cancels(prog, u))'
    <3>1. th[u].cancel => (Cancels(prog, u))'
      BY DEF OInv, ControlInv, Cancels
    <3>2. CASE u = 0
      <4>1. x.hdl = o[0][j].hdl /\ x.nocancel = o[0][j].nocancel
        BY <1>14 DEF Entails
      <4>2. th[0].hdl = a.hdl /\ th[0].nocancel = a.nocancel
        BY <1>4, <1>5, <1>6
      <4>3. th'[0].hdl = o[0][j].hdl /\ th'[0].nocancel = o[0][j].nocancel
        BY <4>1, <4>2, <1>9, <1>13
      <4> QED BY <3>1, <3>2, <4>3, <1>9, <1>14, <1>15
    <3>3. CASE u = w
      <4>1. th[w].nocancel \in BOOLEAN
        BY <1>5 DEF ThreadInv, WithinCode
      <4>2. th'[w].nocancel = o[w][1].nocancel
        BY <4>1, <1>7, <1>8, <1>9
      <4> QED BY <3>1, <3>3, <4>2, <1>7, <1>8, <1>9, <1>15
    <3>4. CASE u \notin {0, w}
      BY <3>1, <3>4, <1>16 DEF OInv, ControlInv
    <3> QED BY <3>2, <3>3, <3>4
  <2>2. ASSUME NEW u \in Threads \ {0}
        PROVE  /\ Alive(u)' => u \in o[0][Place(0)'].live
               /\ u \in o[0][Place(0)'].fresh => th'[u].st = "none"
    <3>1. x.live \subseteq o[0][j].live /\ o[0][j].fresh \subseteq x.fresh
      BY <1>14 DEF Entails
    <3>2. /\ Alive(u) => u \in a.live
          /\ u \in a.fresh => th[u].st = "none"
      BY <1>4, <1>5, <1>6 DEF OInv, ControlInv
    <3> QED BY <3>1, <3>2, <1>13, <1>15, <1>16
  <2> QED BY <2>1, <2>2, <1>9 DEF ControlInv
<1>18. LockInv(o)'
  <2>1. ASSUME NEW u \in Threads, NEW m \in DOMAIN mtx
        PROVE  mtx[m] = u <=> th'[u].st # "none" /\ m \in HeldNow(o, u)'
    <3>1. mtx[m] = u <=> th[u].st # "none" /\ m \in HeldNow(o, u)
      BY DEF OInv, LockInv
    <3>2. CASE u = 0
      <4>1. HeldNow(o, 0)' = o[0][j].held /\ o[0][j].held = a.held
        BY <1>13, <1>14, <1>15 DEF HeldNow, Entails
      <4>2. mtx[m] = 0 <=> m \in a.held
        BY <1>3, <1>5, <1>6, ReadyOwns
      <4> QED BY <3>2, <4>1, <4>2, <1>9
    <3>3. CASE u = w
      <4>1. HeldNow(o, w)' = {}
        BY <1>7, <1>15 DEF HeldNow
      <4> QED BY <3>1, <3>3, <4>1, <1>8
    <3>4. CASE u \notin {0, w}
      BY <3>1, <3>4, <1>16
    <3> QED BY <3>2, <3>3, <3>4
  <2> QED BY <2>1, <1>3 DEF OInv, LockInv
<1>19. FactInv(o, cs)'
  <2>1. ASSUME NEW u \in Threads, Relied(o, u)', NEW f \in o[u][Place(u)'].facts
        PROVE  Known(f)'
    <3>1. CASE u = 0
      <4>1. f \in x.facts
        BY <2>1, <3>1, <1>14, <1>15 DEF Entails
      <4>2. Effect(Ins(t))
        BY <1>1, <1>3, NoEffect DEF Writes
      <4> QED BY <4>1, <4>2, <1>1, <1>3, <1>5, <1>6, <1>12, AfterKnown
    <3>2. CASE u = w
      <4>1. f \in a.facts
        BY <2>1, <3>2, <1>7, <1>15
      <4>2. Known(f)
        BY <4>1, <1>3, <1>5, <1>6, AtPlace
      <4> QED BY <4>2, <1>3 DEF Known
    <3>3. CASE u \notin {0, w}
      <4>1. Relied(o, u)
        <5>1. o[0][j].owed \subseteq a.owed \cup {w}
          BY <1>13, <1>14 DEF Entails
        <5>2. Alive(u) \/ (Done(u) /\ u \in o[0][j].owed)
          BY <2>1, <3>3, <1>15, <1>16 DEF Relied
        <5> QED BY <5>1, <5>2, <3>3, <1>4, <1>5, <1>6 DEF Relied
      <4>2. Known(f)
        BY <2>1, <3>3, <4>1, <1>16 DEF OInv, FactInv
      <4> QED BY <4>2, <1>3 DEF Known
    <3> QED BY <3>1, <3>2, <3>3
  <2> QED BY <2>1, <1>3 DEF OInv, FactInv
<1> QED BY <1>17, <1>18, <1>19 DEF OInv

LEMMA StepKept ==
    ASSUME NEW o, NEW cs, Certified(o, prog, cs), ThreadInv, OInv(o, cs), [Next]_vars
    PROVE  OInv(o, cs)' /\ prog' = prog
<1>1. CASE Signal \/ UNCHANGED vars
  BY <1>1, NothingKept DEF Signal, vars
<1>2. ASSUME NEW t \in Threads, ThreadStep(t) \/ SpuriousWakeup(t)
      PROVE  OInv(o, cs)' /\ prog' = prog
  <2>1. prog' = prog
    BY <1>2 DEF ThreadStep, SpuriousWakeup, Create, Fatal, Join, TimedJoin, ThreadExit, Exit,
       Plain, Goto, Maybe, SkipIf, Load, Store, Alloc, Free, Overflow, Lock, Unlock, MutexLife,
       CondWait, CondSignal, Relock, Cleanup, CancelState, Cancel, Cancelled, HandlerEnd,
       SigMask, SigWait
  <2>2. CASE Create(t)
    BY <2>1, <2>2, CreateKept
  <2>3. CASE Fatal(t) \/ Exit(t)
    BY <2>1, <2>3, NothingKept DEF Fatal, Exit
  <2>4. CASE Join(t)
    BY <2>1, <2>4, JoinKept DEF Join, At
  <2>5. CASE TimedJoin(t)
    <3>1. CASE Done(Ins(t)[2]) /\ th' = Go(t)
      BY <2>1, <2>5, <3>1, JoinKept DEF TimedJoin, At
    <3>2. CASE th' = Skip(t, Ins(t)[3])
      BY <2>1, <2>5, <3>2, JumpKept DEF TimedJoin
    <3> QED BY <2>5, <3>1, <3>2 DEF TimedJoin
  <2>6. CASE ThreadExit(t) \/ Cancelled(t)
    BY <2>1, <2>6, EndKept
  <2>7. CASE \/ Plain(t) \/ Load(t) \/ Store(t) \/ Alloc(t) \/ Free(t) \/ Overflow(t)
             \/ Cleanup(t) \/ CancelState(t) \/ SigMask(t) \/ SigWait(t)
    BY <2>1, <2>7, StraightKept
  <2>8. CASE Goto(t) \/ Maybe(t)
    BY <2>1, <2>8, JumpKept
  <2>9. CASE SkipIf(t)
    BY <2>1, <2>9, ConditionKept
  <2>10. CASE Lock(t) \/ Unlock(t) \/ MutexLife(t)
    BY <2>1, <2>10, MutexStepKept
  <2>11. CASE CondWait(t)
    BY <2>1, <2>11, CondWaitKept
  <2>12. CASE CondSignal(t) \/ Cancel(t)
    BY <2>1, <2>12, OthersKept
  <2>13. CASE Relock(t)
    BY <2>1, <2>13, RelockKept
  <2>14. CASE HandlerEnd(t)
    BY <2>1, <2>14, HandlerEndKept
  <2>15. CASE SpuriousWakeup(t)
    BY <2>1, <2>15, SpuriousKept
  <2> QED
    BY <1>2, <2>1, <2>2, <2>3, <2>4, <2>5, <2>6, <2>7, <2>8, <2>9, <2>10, <2>11, <2>12, <2>13,
       <2>14, <2>15 DEF ThreadStep
<1> QED BY <1>1, <1>2 DEF Next

LEMMA InitKept ==
    ASSUME NEW o, NEW cs, Init, mem = cs, Certified(o, prog, cs)
    PROVE  OInv(o, cs)
<1> USE ZeroThread
<1>1. /\ 1 \in DOMAIN o[0] /\ o[0][1].held = {} /\ o[0][1].hdl = 0 /\ o[0][1].nocancel = FALSE
      /\ \A f \in o[0][1].facts : KnownIn(f, cs, {}, Mutexes[prog])
  BY DEF Certified
<1>2. /\ th[0].st = "ready" /\ \A u \in Threads \ {0} : th[u].st = "none"
      /\ \A u \in Threads : th[u].pc = 1 /\ th[u].hdl = 0 /\ th[u].cancel = FALSE
      /\ \A u \in Threads : th[u].nocancel = FALSE
  BY DEF Init
<1>3. /\ mtx = Mutexes[prog] /\ heap = {} /\ prog \in Programs
      /\ \A m \in DOMAIN mtx : mtx[m] \in {Nobody, Gone}
  BY CodeClosed DEF Init
<1>4. /\ Place(0) = 1 /\ Alive(0) /\ ~Waiting(0)
      /\ \A u \in Threads \ {0} : ~Alive(u) /\ ~Done(u)
  BY <1>2 DEF Place, Alive, Done, Waiting
<1>5. ControlInv(o)
  BY <1>1, <1>2, <1>4 DEF ControlInv
<1>6. LockInv(o)
  <2>1. HeldNow(o, 0) = {}
    BY <1>1, <1>4 DEF HeldNow
  <2> QED BY <2>1, <1>2, <1>3, OwnersConstants DEF LockInv
<1>7. FactInv(o, cs)
  BY <1>1, <1>3, <1>4 DEF FactInv, Relied, Known
<1> QED BY <1>5, <1>6, <1>7 DEF OInv

LEMMA OutlineOInv ==
    OutlineInv <=> \E p \in Programs : \E cs \in Args[p] : prog = p /\ OInv(Outline(p, cs), cs)
BY DEF OutlineInv, OInv

LEMMA InitOutlineInv == Init => OutlineInv
<1> SUFFICES ASSUME Init PROVE OutlineInv
  OBVIOUS
<1>1. prog \in Programs /\ mem \in Args[prog]
  BY DEF Init
<1>2. Certified(Outline(prog, mem), prog, mem)
  BY <1>1, ProgramsCertified
<1>3. OInv(Outline(prog, mem), mem)
  BY <1>2, InitKept
<1> QED BY <1>1, <1>3, OutlineOInv

LEMMA StepOutlineInv == TypeInv /\ OutlineInv /\ [Next]_vars => OutlineInv'
<1> SUFFICES ASSUME TypeInv, OutlineInv, [Next]_vars PROVE OutlineInv'
  OBVIOUS
<1>1. PICK p \in Programs : \E cs \in Args[p] : prog = p /\ OInv(Outline(p, cs), cs)
  BY OutlineOInv
<1>2. PICK cs \in Args[p] : prog = p /\ OInv(Outline(p, cs), cs)
  BY <1>1
<1>3. PICK o : o = Outline(p, cs)
  OBVIOUS
<1>4. Certified(o, prog, cs)
  BY <1>2, <1>3, ProgramsCertified
<1>5. OInv(o, cs)' /\ prog' = p
  BY <1>2, <1>3, <1>4, StepKept DEF TypeInv
<1>6. /\ ControlInv(Outline(p, cs))' /\ LockInv(Outline(p, cs))'
      /\ FactInv(Outline(p, cs), cs)'
  BY <1>3, <1>5 DEF OInv
<1> QED BY <1>5, <1>6 DEF OutlineInv

LEMMA TypedOutlines == Spec => [](TypeInv /\ OutlineInv)
<1>1. Init => TypeInv /\ OutlineInv
  BY InitTypeInv, InitOutlineInv
<1>2. TypeInv /\ OutlineInv /\ [Next]_vars => (TypeInv /\ OutlineInv)'
  BY StepTypeInv, StepOutlineInv
<1> QED BY <1>1, <1>2, PTL DEF Spec

\* The outlines of the book's programs hold in every state: each running thread
\* is at a place of its outline with the handler and cancellation state written
\* there, owns exactly the mutexes written there, and finds every fact it relies
\* on true, whatever the other threads do in between.
THEOREM ThreadsOutlined == Spec => []OutlineInv
BY TypedOutlines, PTL

-----------------------------------------------------------------------------
(* Races, lifetimes and ownership                                          *)

LEMMA OutlineRaceFree ==
    ASSUME NEW o, NEW cs, Certified(o, prog, cs), ThreadInv, OInv(o, cs)
    PROVE  RaceFree
<1> USE ZeroThread
<1> SUFFICES ASSUME prog \notin Racy, Locking, NEW t \in Threads, NEW u \in Threads \ {t},
                    Writing(t), Accesses(u), Cell(t) = Cell(u)
             PROVE  FALSE
  BY DEF RaceFree
<1>1. /\ Alive(t) /\ Alive(u)
      /\ Ins(t)[1] \in {"free"} \cup Writes /\ Ins(u)[1] \in AccessOps
      /\ Target(Ins(t)) = Target(Ins(u))
  BY DEF Writing, Accesses, At, Alive, AccessOps, Cell, Target
<1>2. ~NotLocking(o, cs)
  <2> SUFFICES ASSUME NotLocking(o, cs) PROVE FALSE
    OBVIOUS
  <2>1. Place(0) \in DOMAIN o[0] /\ th[0].st # "none"
    BY DEF OInv, ControlInv
  <2>2. Relied(o, 0)
    BY <2>1 DEF Relied, Alive, Done, ThreadInv, WithinCode, Statuses
  <2>3. \A f \in o[0][Place(0)].facts : Known(f) /\ Formed(f, mem, mtx)
    BY <2>1, <2>2, FormedNow DEF OInv, FactInv
  <2>4. Outside(o[0][Place(0)].facts, <<"locking", 0>>, 1, 1)
    BY <2>1 DEF NotLocking
  <2>5. mem[<<"locking", 0>>] \notin 1 .. 1
    BY <2>3, <2>4, OutsideSound
  <2>6. <<"locking", 0>> \in DOMAIN mem
    BY DEF NotLocking, OInv, FactInv
  <2> QED BY <2>5, <2>6 DEF Locking
<1>3. RaceCertified(o, prog, t, u)
  BY <1>2 DEF Certified
<1>4. /\ Place(t) = th[t].pc /\ th[t].pc \in DOMAIN o[t] \ {0}
      /\ Ins(t) = TheCode[prog][t][th[t].pc]
  BY <1>1, AtPlace
<1>5. /\ Place(u) = th[u].pc /\ th[u].pc \in DOMAIN o[u] \ {0}
      /\ Ins(u) = TheCode[prog][u][th[u].pc]
  BY <1>1, AtPlace
<1>6. Together(o, prog, t, Place(t), u, Place(u))
  BY <1>1, NowTogether DEF Relied
<1> QED BY <1>1, <1>3, <1>4, <1>5, <1>6 DEF RaceCertified

LEMMA OutlineMemorySafe ==
    ASSUME NEW o, NEW cs, Certified(o, prog, cs), TypeInv, OInv(o, cs)
    PROVE  MemorySafe
<1> USE ZeroThread
<1>a. ThreadInv
  BY DEF TypeInv
<1>1. ASSUME NEW t \in Threads, th[t].st = "ready"
      PROVE  /\ Ins(t)[1] \in AccessOps /\ Target(Ins(t)) \in HeapCells[prog] =>
                  Target(Ins(t)) \in heap \/ Excused(Target(Ins(t)))
             /\ Ins(t)[1] = "lock" => mtx[Ins(t)[2]] # Gone
             /\ Ins(t)[1] \in {"unlock", "cvwait"} => mtx[Ins(t)[2]] = t
             /\ Ins(t)[1] = "destroymutex" => mtx[Ins(t)[2]] = Nobody
  <2>1. PICK i : i = th[t].pc
    OBVIOUS
  <2>2. PICK k : k = Ins(t)[2]
    OBVIOUS
  <2>3. /\ Ins(t) = TheCode[prog][t][i] /\ PlaceCertified(o, prog, cs, t, i)
        /\ \A f \in o[t][i].facts : Known(f)
    BY <1>a, <1>1, <2>1, AtPlace DEF Alive
  <2>4. Ins(t)[1] \in MutexOps => k \in DOMAIN mtx
    BY <2>2, <2>3 DEF PlaceCertified, OInv, LockInv
  <2>5. ASSUME <<"heap", Target(Ins(t))>> \in o[t][i].facts
        PROVE  Target(Ins(t)) \in heap
    <3>1. PICK f : f = <<"heap", Target(Ins(t))>>
      OBVIOUS
    <3>2. Known(f)
      BY <2>3, <2>5, <3>1
    <3> QED BY <3>1, <3>2 DEF Known, KnownIn
  <2>6. ASSUME <<"init", k>> \in o[t][i].facts
        PROVE  mtx[k] # Gone
    <3>1. PICK f : f = <<"init", k>>
      OBVIOUS
    <3>2. Known(f)
      BY <2>3, <2>6, <3>1
    <3> QED BY <3>1, <3>2 DEF Known, KnownIn
  <2>7. Ins(t)[1] \in AccessOps /\ Target(Ins(t)) \in HeapCells[prog] =>
          Target(Ins(t)) \in heap \/ Excused(Target(Ins(t)))
    <3>1. ASSUME NEW e \in ExcusedBy(prog, Target(Ins(t))),
                 <<"unless", Target(Ins(t)), e, 1, 1>> \in o[t][i].facts
          PROVE  Target(Ins(t)) \in heap \/ mem[e] = 1
      <4>1. PICK f : f = <<"unless", Target(Ins(t)), e, 1, 1>>
        OBVIOUS
      <4>2. Known(f)
        BY <2>3, <3>1, <4>1
      <4>3. Target(Ins(t)) \in heap \/ mem[e] \in 1 .. 1
        BY <4>1, <4>2 DEF Known, KnownIn
      <4> QED BY <4>3
    <3> QED BY <2>3, <2>5, <3>1 DEF PlaceCertified, Excused
  <2>8. Ins(t)[1] \in {"lock", "destroymutex"} => mtx[k] # Gone
    BY <2>2, <2>3, <2>6 DEF PlaceCertified
  <2>9. Ins(t)[1] \in {"unlock", "cvwait"} => mtx[k] = t
    <3> SUFFICES ASSUME Ins(t)[1] \in {"unlock", "cvwait"} PROVE mtx[k] = t
      OBVIOUS
    <3>1. k \in o[t][i].held
      BY <2>2, <2>3 DEF PlaceCertified
    <3> QED BY <3>1, <2>1, <2>4, <1>a, <1>1, ReadyOwns DEF MutexOps
  <2>10. Ins(t)[1] = "destroymutex" => mtx[k] = Nobody
    <3> SUFFICES ASSUME Ins(t)[1] = "destroymutex" PROVE mtx[k] = Nobody
      OBVIOUS
    <3>1. NotHeld(o, t, i, k) /\ k \in DOMAIN mtx
      BY <2>2, <2>3, <2>4 DEF PlaceCertified, MutexOps
    <3>2. \A u \in Threads : mtx[k] # u
      BY <3>1, <2>1, <1>a, <1>1, NobodyOwns
    <3> QED BY <3>1, <3>2, <2>8 DEF TypeInv, OtherInv
  <2> QED BY <2>2, <2>7, <2>8, <2>9, <2>10
<1>2. ASSUME NEW t \in Threads, Done(t), NEW m \in DOMAIN mtx
      PROVE  mtx[m] # t
  <2>1. Place(t) = 0 /\ ~Waiting(t) /\ th[t].st # "none"
    BY <1>2 DEF Place, Done, Waiting
  <2>2. 0 \in DOMAIN o[t]
    BY <2>1 DEF OInv, ControlInv
  <2>3. HeldNow(o, t) = {}
    BY <2>1, <2>2, CertifiedPlace DEF HeldNow
  <2> QED BY <2>3 DEF OInv, LockInv
<1>3. NoLeak
  <2> SUFFICES ASSUME prog \in LeakFree, th[0].st = "ended" PROVE heap = {}
    BY DEF NoLeak
  <2>1. Place(0) = 0 /\ Done(0) /\ th[0].st # "none"
    BY DEF Place, Done
  <2>2. 0 \in DOMAIN o[0]
    BY <2>1 DEF OInv, ControlInv
  <2>3. \A f \in o[0][0].facts : Known(f)
    BY <2>1 DEF OInv, FactInv, Relied
  <2>4. ASSUME NEW c \in HeapCells[prog] PROVE c \notin heap
    <3>1. <<"free", c>> \in o[0][0].facts
      BY <2>2 DEF Certified
    <3>2. PICK f : f = <<"free", c>>
      OBVIOUS
    <3>3. Known(f)
      BY <2>3, <3>1, <3>2
    <3> QED BY <3>2, <3>3 DEF Known, KnownIn
  <2> QED BY <2>4 DEF OInv, FactInv
<1>4. ASSUME NEW t \in Threads
      PROVE  /\ Accesses(t) /\ Cell(t) \in HeapCells[prog] =>
                   Cell(t) \in heap \/ Excused(Cell(t))
             /\ At(t, {"lock"}) => mtx[Ins(t)[2]] # Gone
             /\ At(t, {"unlock", "cvwait"}) => mtx[Ins(t)[2]] = t
             /\ At(t, {"destroymutex"}) => mtx[Ins(t)[2]] = Nobody
  BY <1>1 DEF Accesses, At, AccessOps, Cell, Target
<1> QED BY <1>2, <1>3, <1>4 DEF MemorySafe

LEMMA OutlineSafe == TypeInv /\ OutlineInv => RaceFree /\ MemorySafe
<1> SUFFICES ASSUME TypeInv, OutlineInv PROVE RaceFree /\ MemorySafe
  OBVIOUS
<1>1. PICK p \in Programs : \E cs \in Args[p] : prog = p /\ OInv(Outline(p, cs), cs)
  BY OutlineOInv
<1>2. PICK cs \in Args[p] : prog = p /\ OInv(Outline(p, cs), cs)
  BY <1>1
<1>3. Certified(Outline(p, cs), prog, cs)
  BY <1>2, ProgramsCertified
<1> QED BY <1>2, <1>3, OutlineRaceFree, OutlineMemorySafe DEF TypeInv

\* No data race: whatever the interleaving, the failing calls, the spurious
\* wakeups and the cancellations, two threads of the programs that are meant to
\* lock are never both about to access the same cell, one of them to write it.
THEOREM ThreadsRaceFree == Spec => []RaceFree
BY TypedOutlines, OutlineSafe, PTL

\* Memory, streams and mutexes are used between their creation and their end: no
\* use after free and no second free but of the buffer that a failed fwrite of
\* mt_iobuf_mtx.c or cleanup_hdlr.c has freed, no lock of a destroyed mutex, no
\* unlock by another thread than the owner, no thread that ends or is cancelled
\* with a mutex, and nothing left allocated when the main thread of a LeakFree
\* program has ended.
THEOREM ThreadsMemorySafe == Spec => []MemorySafe
BY TypedOutlines, OutlineSafe, PTL

=============================================================================
