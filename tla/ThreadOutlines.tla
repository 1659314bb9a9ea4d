--------------------------- MODULE ThreadOutlines ---------------------------
(***************************************************************************)
(* Proof outlines of the multithreaded programs.  An outline gives, for    *)
(* every place of every thread that can be reached, what the thread may    *)
(* rely on there: the mutexes it holds, its clean-up handler, facts about  *)
(* the shared cells, the heap and the mutexes, and, in main, which threads *)
(* may be running.  Place 0 of a thread is where it has ended.             *)
(*                                                                         *)
(* Certified says that an outline is one: every instruction leads from a   *)
(* place to places whose annotation it establishes, no thread breaks a     *)
(* fact another one relies on, and what the accesses, locks and ends of    *)
(* the program need is among the facts.  It looks at pairs of instructions *)
(* only, never at an execution.  ThreadProofs.tla proves that a certified  *)
(* program is free of races and memory safe; TLC evaluates the ASSUME that *)
(* the book's programs are certified.                                      *)
(***************************************************************************)
EXTENDS ThreadPrograms

-----------------------------------------------------------------------------
(* Facts                                                                   *)

\* what fact f says of cells cs, heap hp and mutexes ms: a cell's range, a
\* cell that is allocated or not, a mutex that is initialised, and a cell
\* that is allocated unless another one is in a range
KnownIn(f, cs, hp, ms) ==
    CASE f[1] = "val"    -> cs[f[2]] \in f[3] .. f[4]
      [] f[1] = "heap"   -> f[2] \in hp
      [] f[1] = "free"   -> f[2] \notin hp
      [] f[1] = "init"   -> ms[f[2]] # Gone
      [] f[1] = "unless" -> f[2] \in hp \/ cs[f[3]] \in f[4] .. f[5]
      [] OTHER           -> FALSE
Known(f) == KnownIn(f, mem, heap, mtx)

\* f is about cells and mutexes the program has
Formed(f, cs, ms) ==
    /\ f[1] = "val" => f[2] \in DOMAIN cs /\ f[3] \in Int /\ f[4] \in Int
    /\ f[1] = "unless" => f[3] \in DOMAIN cs /\ f[4] \in Int /\ f[5] \in Int
    /\ f[1] = "init" => f[2] \in DOMAIN ms

Target(ins) == <<ins[2], ins[3]>>
\* facts F say that cell c is within, or outside, lo .. hi
Within(F, c, lo, hi) == \E g \in F : g[1] = "val" /\ g[2] = c /\ lo <= g[3] /\ g[4] <= hi
Outside(F, c, lo, hi) == \E g \in F : g[1] = "val" /\ g[2] = c /\ (g[4] < lo \/ hi < g[3])

\* fact f survives instruction ins of a thread that relies on facts F
Keeps(ins, F, f) ==
    CASE ins[1] \in Writes ->
           /\ f[1] = "val" /\ f[2] = Target(ins) =>
                 ins[1] = "store" /\ ins[4] \in f[3] .. f[4]
           /\ f[1] = "unless" /\ f[3] = Target(ins) =>
                 ins[1] = "store" /\ ins[4] \in f[4] .. f[5]
      [] ins[1] = "alloc" -> ~(f[1] = "free" /\ f[2] = Target(ins))
      [] ins[1] = "free"  ->
           /\ ~(f[1] = "heap" /\ f[2] = Target(ins))
           /\ f[1] = "unless" /\ f[2] = Target(ins) => Within(F, f[3], f[4], f[5])
      [] ins[1] = "destroymutex" -> ~(f[1] = "init" /\ f[2] = ins[2])
      [] OTHER -> TRUE

\* What may stand for cell c being allocated: the conditions that program p
\* tests, and that c is excused
Guards(p, c) ==
    {<<Target(i), i[4], i[5]>> : i \in {j \in Instructions(p) : j[1] = "skipif"}} \cup
    {<<e, 1, 1>> : e \in ExcusedBy(p, c)}

\* the facts that instruction ins of program p establishes
Gives(p, ins) ==
    CASE ins[1] = "store" -> {<<"val", Target(ins), ins[4], ins[4]>>}
      [] ins[1] = "alloc" -> {<<"heap", Target(ins)>>} \cup
                             {<<"unless", Target(ins), g[1], g[2], g[3]>> : g \in Guards(p, Target(ins))}
      [] ins[1] = "free"  -> {<<"free", Target(ins)>>}
      [] ins[1] = "initmutex" -> {<<"init", ins[2]>>}
      [] OTHER -> {}

-----------------------------------------------------------------------------
(* Places                                                                  *)

\* program p cancels thread t
Cancels(p, t) ==
    \E u \in Threads : \E n \in 1 .. Len(TheCode[p][u]) :
        TheCode[p][u][n][1] = "cancel" /\ TheCode[p][u][n][2] = t

\* Annotation a after instruction ins: live are the threads that may be
\* running, owed the ones that were created and not joined, fresh the ones
\* that were not created
After(p, ins, a) ==
    [held |-> CASE ins[1] = "lock"   -> a.held \cup {ins[2]}
                [] ins[1] = "unlock" -> a.held \ {ins[2]}
                [] OTHER -> a.held,
     hdl |-> CASE ins[1] = "push" -> ins[2] [] ins[1] = "pop" -> 0 [] OTHER -> a.hdl,
     nocancel |-> CASE ins[1] = "cancel_off" -> TRUE [] ins[1] = "cancel_on" -> FALSE
                    [] OTHER -> a.nocancel,
     facts |-> {f \in a.facts : Keeps(ins, a.facts, f)} \cup Gives(p, ins),
     live  |-> IF ins[1] = "create" THEN a.live \cup {ins[2]} ELSE a.live,
     owed  |-> IF ins[1] = "create" THEN a.owed \cup {ins[2]} ELSE a.owed,
     fresh |-> IF ins[1] = "create" THEN a.fresh \ {ins[2]} ELSE a.fresh]

\* outline o's annotation a once thread w, which has ended, is joined
Joined(o, a, w) ==
    [a EXCEPT !.facts = a.facts \cup (IF w \in a.owed THEN o[w][0].facts ELSE {}),
              !.live = a.live \ {w}, !.owed = a.owed \ {w}]

\* where a thread goes on that ends at a place annotated a
Ending(a) ==
    IF a.hdl # 0 THEN {<<a.hdl, [a EXCEPT !.hdl = 0, !.nocancel = TRUE]>>}
    ELSE {<<0, [a EXCEPT !.nocancel = FALSE]>>}

\* the places that follow place i of thread t, with what is known there
Follows(o, p, t, i) ==
    LET ins == TheCode[p][t][i]
        a == o[t][i]
        x == After(p, ins, a)
        c == Target(ins)
        joined == IF 0 \in DOMAIN o[ins[2]] THEN {<<i + 1, Joined(o, x, ins[2])>>} ELSE {}
    IN  (CASE ins[1] = "goto"  -> {<<i + 1 + ins[2], x>>}
           [] ins[1] = "maybe" -> {<<i + 1, x>>, <<i + 1 + ins[2], x>>}
           [] ins[1] = "skipif" ->
                (IF Outside(a.facts, c, ins[4], ins[5]) THEN {}
                 ELSE {<<i + 1 + ins[6],
                         [x EXCEPT !.facts = x.facts \cup {<<"val", c, ins[4], ins[5]>>}]>>}) \cup
                (IF Within(a.facts, c, ins[4], ins[5]) THEN {}
                 ELSE {<<i + 1,
                         [x EXCEPT !.facts = x.facts \cup
                            {<<"heap", f[2]>> : f \in {g \in x.facts :
                                g[1] = "unless" /\ g[3] = c /\ g[4] = ins[4] /\ g[5] = ins[5]}}]>>})
           [] ins[1] = "join" -> joined
           [] ins[1] = "timedjoin" -> joined \cup {<<i + 1 + ins[3], x>>}
           [] ins[1] = "texit" -> Ending(a)
           [] ins[1] = "handler_end" -> {<<0, [a EXCEPT !.hdl = 0, !.nocancel = FALSE]>>}
           [] ins[1] \in {"exit", "pause"} -> {}
           [] OTHER -> {<<i + 1, x>>}) \cup
        (IF ins[1] \in CancellationPoints /\ Cancels(p, t) /\ ~a.nocancel
         THEN Ending(a) ELSE {})

\* whoever relies on x may rely on y
Entails(x, y) ==
    /\ x.held = y.held /\ x.hdl = y.hdl /\ x.nocancel = y.nocancel
    /\ y.facts \subseteq x.facts
    /\ x.live \subseteq y.live /\ y.owed \subseteq x.owed /\ y.fresh \subseteq x.fresh

\* thread t may be at place i while thread u is, and its facts matter, at place j
Coexist(o, t, i, u, j) ==
    IF t = 0 THEN u \in (IF j = 0 THEN o[0][i].owed ELSE o[0][i].live)
    ELSE u = 0 => t \in o[0][j].live

\* the mutexes thread t surely holds at place i, also while it waits there
Holding(o, p, t, i) ==
    IF i # 0 /\ TheCode[p][t][i][1] = "cvwait" THEN o[t][i].held \ {TheCode[p][t][i][2]}
    ELSE o[t][i].held

Together(o, p, t, i, u, j) ==
    Coexist(o, t, i, u, j) /\ Holding(o, p, t, i) \cap Holding(o, p, u, j) = {}

-----------------------------------------------------------------------------
(* Certified outlines                                                      *)

MutexOps == {"lock", "unlock", "cvwait", "initmutex", "destroymutex"}
AccessOps == {"load", "skipif", "free"} \cup Writes

\* nobody holds mutex m when thread t is at place i
NotHeld(o, t, i, m) ==
    /\ m \notin o[t][i].held
    /\ \A u \in Threads \ {t} : \A j \in DOMAIN o[u] :
          Coexist(o, t, i, u, j) => m \notin o[u][j].held

\* place i of thread t: what its instruction needs is known, and what it
\* does is known at the places that follow
PlaceCertified(o, p, cs, t, i) ==
    LET ins == TheCode[p][t][i]
        a == o[t][i]
        w == ins[2]
    IN  /\ i \in 1 .. Len(TheCode[p][t])
        /\ ins[1] \in {"create", "join", "timedjoin"} => t = 0 /\ w \in Threads \ {0}
        /\ ins[1] = "create" =>
             /\ w \in a.fresh /\ 1 \in DOMAIN o[w]
             /\ o[w][1].held = {} /\ o[w][1].hdl = 0 /\ o[w][1].nocancel = FALSE
             /\ o[w][1].facts \subseteq a.facts
        /\ ins[1] \in MutexOps => w \in DOMAIN Mutexes[p]
        /\ ins[1] \in {"lock", "destroymutex"} => <<"init", w>> \in a.facts
        /\ ins[1] \in {"unlock", "cvwait"} => w \in a.held
        /\ ins[1] \in {"initmutex", "destroymutex"} => NotHeld(o, t, i, w)
        /\ ins[1] = "store" => Target(ins) \in DOMAIN cs /\ ins[4] \in Int
        /\ ins[1] = "skipif" => ins[4] \in Int /\ ins[5] \in Int
        /\ ins[1] = "alloc" => Target(ins) \in HeapCells[p]
        /\ ins[1] \in AccessOps /\ Target(ins) \in HeapCells[p] =>
             \/ <<"heap", Target(ins)>> \in a.facts
             \/ \E e \in ExcusedBy(p, Target(ins)) : <<"unless", Target(ins), e, 1, 1>> \in a.facts
        /\ \A s \in Follows(o, p, t, i) :
             s[1] \in DOMAIN o[t] /\ Entails(s[2], o[t][s[1]])

\* no other thread breaks a fact that thread u relies on
FactsCertified(o, p, t, u) ==
    \A i \in DOMAIN o[t] \ {0}, j \in DOMAIN o[u] :
        Together(o, p, t, i, u, j) =>
            \A f \in o[u][j].facts : Keeps(TheCode[p][t][i], o[t][i].facts, f)

\* two threads never access the same cell, one of them to write it
RaceCertified(o, p, t, u) ==
    \A i \in DOMAIN o[t] \ {0}, j \in DOMAIN o[u] \ {0} :
        LET a == TheCode[p][t][i]
            b == TheCode[p][u][j]
        IN  a[1] \in {"free"} \cup Writes /\ b[1] \in AccessOps /\ Target(a) = Target(b) =>
                ~Together(o, p, t, i, u, j)
\* all along it is known that the program was told not to lock
NotLocking(o, cs) ==
    /\ <<"locking", 0>> \in DOMAIN cs
    /\ \A i \in DOMAIN o[0] : Outside(o[0][i].facts, <<"locking", 0>>, 1, 1)

\* the parts of an annotation
Parts == {"held", "hdl", "nocancel", "facts", "live", "owed", "fresh"}

\* o is an outline of program p started with cells cs
Certified(o, p, cs) ==
    /\ 1 \in DOMAIN o[0] /\ o[0][1].held = {} /\ o[0][1].hdl = 0 /\ o[0][1].nocancel = FALSE
    /\ \A f \in o[0][1].facts : KnownIn(f, cs, {}, Mutexes[p])
    /\ \A t \in Threads :
         /\ \A i \in DOMAIN o[t] :
              /\ i # 0 => PlaceCertified(o, p, cs, t, i)
              /\ DOMAIN o[t][i] = Parts /\ o[t][i].held \subseteq DOMAIN Mutexes[p]
              /\ \A f \in o[t][i].facts : Formed(f, cs, Mutexes[p])
         /\ 0 \in DOMAIN o[t] => o[t][0].held = {}
         /\ \A u \in Threads \ {t} : FactsCertified(o, p, t, u)
    /\ \/ p \in Racy \/ NotLocking(o, cs)
       \/ \A t \in Threads : \A u \in Threads \ {t} : RaceCertified(o, p, t, u)
    /\ p \in LeakFree /\ 0 \in DOMAIN o[0] =>
         \A c \in HeapCells[p] : <<"free", c>> \in o[0][0].facts

-----------------------------------------------------------------------------
(* The outline of a program, by one sweep over the code of each thread     *)

Merge(x, y) ==
    [x EXCEPT !.facts = x.facts \cap y.facts, !.live = x.live \cup y.live,
              !.owed = x.owed \cap y.owed, !.fresh = x.fresh \cap y.fresh]

\* o with the annotations s of places that follow place i of thread t, with
\* the facts that are Stable there
Extend(o, t, i, s, Stable(_, _, _)) ==
    LET new == {e \in s : e[1] = 0 \/ e[1] > i}
        add(ann, e) ==
            LET y == [e[2] EXCEPT !.facts = {f \in e[2].facts : Stable(t, e[1], f)}]
            IN  (e[1] :> IF e[1] \in DOMAIN ann THEN Merge(ann[e[1]], y) ELSE y) @@ ann
    IN  [o EXCEPT ![t] = FoldSet(LAMBDA e, ann : add(ann, e), o[t], new)]

Sweep(o, p, t, Stable(_, _, _), Started(_, _, _)) ==
    LET step(ol, i) ==
            IF i \notin DOMAIN ol[t] THEN ol
            ELSE LET ol2 == Started(ol, TheCode[p][t][i], ol[t][i])
                 IN  Extend(ol2, t, i, Follows(ol2, p, t, i), Stable)
    IN  FoldLeftDomain(step, o, TheCode[p][t])

NoStart(o, ins, a) == o

\* main's sweep sweeps the code of a thread where it creates it
OutlineWith(p, cs, Stable(_, _, _)) ==
    LET start == [held |-> {}, hdl |-> 0, nocancel |-> FALSE, live |-> {}, owed |-> {},
                  fresh |-> Threads \ {0},
                  facts |-> {<<"val", c, cs[c], cs[c]>> : c \in DOMAIN cs} \cup
                            {<<"free", c>> : c \in HeapCells[p]} \cup
                            {<<"init", m>> : m \in {k \in DOMAIN Mutexes[p] : Mutexes[p][k] # Gone}}]
        entry(w, a) == [start EXCEPT !.fresh = {}, !.facts = {f \in a.facts : Stable(w, 1, f)}]
        started(o, ins, a) ==
            IF ins[1] # "create" THEN o
            ELSE Sweep([o EXCEPT ![ins[2]] = 1 :> entry(ins[2], a)], p, ins[2], Stable, NoStart)
        none == [t \in Threads |-> IF t = 0 THEN 1 :> start ELSE <<>>]
    IN  Sweep(none, p, 0, Stable, started)

\* A first sweep without facts finds who may run when, and so which facts
\* are stable; a fact <<"unless", ...>> may be after the store that saves it
Outline(p, cs) ==
    LET control == OutlineWith(p, cs, LAMBDA t, j, f : FALSE)
        places(u) == DOMAIN control[u] \ {0}
        stores == [u \in Threads |->
            {<<"val", Target(i), i[4], i[4]>> :
                i \in {j \in {TheCode[p][u][n] : n \in places(u)} : j[1] = "store"}}]
        looping == {u \in Threads : \E i \in places(u) :
                        \E s \in Follows(control, p, u, i) : s[1] \in 1 .. i}
        stable(t, j, f) ==
            \A u \in Threads : \A i \in places(u) :
                (IF u = t THEN t \in looping ELSE Coexist(control, u, i, t, j)) =>
                    Keeps(TheCode[p][u][i], stores[u], f)
    IN  OutlineWith(p, cs, stable)

\* The book's programs are certified
ASSUME ProgramsCertified ==
    \A p \in Programs : \A cs \in Args[p] : Certified(Outline(p, cs), p, cs)

-----------------------------------------------------------------------------
(* What an outline says of a state                                         *)

Place(t) == IF Done(t) THEN 0 ELSE th[t].pc
Waiting(t) == th[t].st \in {"cvwait", "relock"}

\* Every thread is at a place of the outline, with the clean-up handler and
\* the cancellation state it has there; main's place says which of the
\* others may run and which are not created yet.
ControlInv(o) ==
    /\ th[0].st # "none"
    /\ \A t \in Threads :
         /\ th[t].st = "none" => th[t].pc = 1 /\ th[t].hdl = 0 /\ ~th[t].nocancel
         /\ th[t].st # "none" => Place(t) \in DOMAIN o[t]
         /\ Alive(t) => th[t].hdl = o[t][Place(t)].hdl /\ th[t].nocancel = o[t][Place(t)].nocancel
         /\ th[t].cancel => Cancels(prog, t)
    /\ \A t \in Threads \ {0} :
         /\ Alive(t) => t \in o[0][Place(0)].live
         /\ t \in o[0][Place(0)].fresh => th[t].st = "none"

\* A thread owns exactly the mutexes its place says.
HeldNow(o, t) ==
    IF Waiting(t) THEN o[t][Place(t)].held \ {Ins(t)[2]} ELSE o[t][Place(t)].held
LockInv(o) ==
    /\ DOMAIN mtx = DOMAIN Mutexes[prog]
    /\ \A t \in Threads : \A m \in DOMAIN mtx :
         mtx[m] = t <=> th[t].st # "none" /\ m \in HeldNow(o, t)

\* What a running thread relies on is so, and what a thread has left behind
\* until it is joined.
Relied(o, t) == Alive(t) \/ (Done(t) /\ (t = 0 \/ t \in o[0][Place(0)].owed))
FactInv(o, cs) ==
    /\ DOMAIN mem = DOMAIN cs /\ heap \subseteq HeapCells[prog]
    /\ \A t \in Threads : Relied(o, t) => \A f \in o[t][Place(t)].facts : Known(f)

OutlineInv ==
    \E p \in Programs : \E cs \in Args[p] :
        /\ prog = p
        /\ ControlInv(Outline(p, cs)) /\ LockInv(Outline(p, cs)) /\ FactInv(Outline(p, cs), cs)
=============================================================================
