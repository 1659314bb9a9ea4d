--------------------------- MODULE FileCopyProofs ---------------------------
(***************************************************************************)
(* Every invariant of FileCopy holds of files of all sizes, of every block *)
(* size and of every number of threads: TypeOK, NoWrongByte and AtExit.    *)
(*                                                                         *)
(* The program that is run never changes, so that the inductive invariant  *)
(* has a part for each kind of program: SimpleInv for simpcp1.c and        *)
(* simpcp2.c, ThreadsInv for mt_copy.c, LayoutInv for sgio_simple.c.       *)
(***************************************************************************)
EXTENDS FileCopy, SequenceTheorems, TLAPS

Simple == arg.prog \in {"simpcp1", "simpcp2"}
Layout == arg.prog \in Layouts

PCs == {"none", "open", "create", "join", "malloc", "read", "write", "ended",
        "sgio_normal", "sgio_writev", "close"}

ActorType ==
    [pc : PCs, i : Nat, off : Nat, len : Nat, last : BOOLEAN,
     buf : Seq(Int), tr : Nat, nr : Nat, tw : Nat]

Types ==
    /\ arg \in Args
    /\ dest \in Seq(Int) /\ arg.old <= Len(dest)
    /\ pos \in [src : 0 .. arg.fsize, dest : Nat]
    /\ w \in [Actors -> ActorType]
    /\ shorts \in Seq({"read", "write"}) /\ Len(shorts) <= MaxShort
    /\ failed \subseteq Actors /\ exit \in {"no", "success", "failure"}

\* The destination's bytes, and its length, are right
RightByte(i, b) ==
    b \in (IF i <= arg.fsize THEN {i} ELSE {}) \cup {IF i <= arg.old THEN Old ELSE Hole}

RightDest ==
    /\ \A i \in 1 .. Len(dest) : RightByte(i, dest[i])
    /\ Len(dest) <= arg.fsize \/ Len(dest) <= arg.old

Copied(first, last) ==
    \A i \in first .. last : i <= Len(dest) /\ dest[i] = i

-----------------------------------------------------------------------------
(* simpcp1.c and simpcp2.c                                                 *)

\* fd_read starts again at the start of its buffer after a short read
Misread == ShortOf("read") /\ arg.prog # "simpcp1"

SimpleControl ==
    /\ w[0].pc \in {"open", "malloc", "read", "write"} /\ ~w[0].last
    /\ \A a \in Actors \ {0} : w[a].pc = "none"
    /\ exit # "failure" => failed = {}
    /\ heap \subseteq {<<0, FALSE>>}
    /\ exit # "no" \/ w[0].pc \in {"open", "malloc"} => heap = {}

SimpleCounts ==
    /\ w[0].pc \in {"open", "malloc"} => pos.src = 0 /\ pos.dest = 0 /\ w[0].tr = 0
    /\ w[0].pc \in {"read", "write"} => Len(w[0].buf) = BlkSize
    /\ w[0].pc = "read" =>
         \/ w[0].tr = 0
         \/ arg.prog = "simpcp2" /\ pos.src = arg.fsize /\ w[0].tr <= BlkSize
         \/ Misread
    /\ w[0].pc = "write" =>
         /\ w[0].nr <= BlkSize \/ Misread
         /\ w[0].nr = 0 => pos.src = arg.fsize
         /\ w[0].tr = 0

\* How many bytes of the buffer are still to be written
Pending == IF w[0].pc = "write" THEN w[0].nr ELSE w[0].tr

SimpleData ==
    Unharmed =>
      /\ pos.dest + Pending = pos.src
      /\ w[0].pc \in {"read", "write"} =>
           \A i \in 1 .. Pending : w[0].buf[i] = pos.dest + i
      /\ RightDest /\ Copied(1, pos.dest)
      /\ exit = "success" => pos.dest = arg.fsize

SimpleInv == SimpleControl /\ SimpleCounts /\ SimpleData

-----------------------------------------------------------------------------
(* mt_copy.c                                                               *)

Share == arg.fsize \div arg.n
Rest == arg.fsize % arg.n
Workers == Actors \ {0}

Created == IF w[0].pc = "join" THEN arg.n ELSE w[0].i

ThreadsControl ==
    /\ w[0].pc \in {"open", "create", "join"}
    /\ w[0].off = 0 /\ w[0].len = 0
    /\ w[0].pc = "open" => w[0].i = 0
    /\ w[0].i < arg.n \/ (exit = "success" /\ w[0].i = arg.n /\ w[0].pc = "join")
    /\ exit = "success" => w[0].i = arg.n
    /\ w[0].pc = "join" => \A a \in 1 .. w[0].i : w[a].pc = "ended"
    /\ \A a \in Workers :
         /\ w[a].pc \in {"none", "malloc", "read", "write", "ended"}
         /\ w[a].pc # "none" <=> a <= Created

\* A worker copies its share, and the last worker then what remains
Segment(a) ==
    /\ w[a].pc = "none" => w[a].off = 0 /\ w[a].len = 0 /\ ~w[a].last /\ w[a].tr = 0
    /\ w[a].pc # "none" =>
         /\ w[a].i = a - 1
         /\ ~w[a].last => w[a].off = (a - 1) * Share /\ w[a].len = Share
         /\ w[a].last => a = arg.n /\ w[a].off = arg.n * Share /\ w[a].len = Rest /\ Rest # 0

ThreadCounts(a) ==
    /\ w[a].pc \in {"read", "write"} => Len(w[a].buf) = w[a].len
    /\ w[a].pc \in {"malloc", "read"} => w[a].tr = 0 \/ ShortOf("read")
    /\ w[a].pc = "write" =>
         /\ w[a].nr = w[a].len \/ ShortOf("read")
         /\ w[a].nr = 0 => w[a].len = 0

\* What a worker has in its buffer, and what it has copied
Finished(a) == w[a].pc = "ended" \/ w[a].last

ThreadData(a) ==
    ~ShortOf("read") =>
      /\ w[a].pc = "write" => \A i \in 1 .. w[a].nr : w[a].buf[i] = w[a].off + i
      /\ ~ShortOf("write") /\ a \notin failed =>
           /\ Finished(a) => Copied((a - 1) * Share + 1, a * Share)
           /\ w[a].pc = "ended" /\ a = arg.n => Copied(arg.n * Share + 1, arg.fsize)

\* Only a buffer in use is allocated, or that of a thread with nothing to copy
ThreadsHeap ==
    \A h \in heap : \E a \in Workers :
        /\ a <= arg.n
        /\ \/ h = Buf(a) /\ w[a].pc \in {"read", "write"}
           \/ h = <<a, FALSE>> /\ Share = 0

ThreadsInv ==
    /\ ThreadsControl /\ ThreadsHeap
    /\ ~ShortOf("read") => RightDest
    /\ \A a \in Workers : Segment(a) /\ ThreadCounts(a) /\ ThreadData(a)

-----------------------------------------------------------------------------
(* sgio_simple.c                                                           *)

LayoutControl ==
    /\ w[0].pc \in {"open", arg.prog, "close"}
    /\ w[0].pc = "open" => w[0].i \in 0 .. 4
    /\ w[0].pc = "sgio_normal" => w[0].i \in 1 .. 3
    /\ \A a \in Actors \ {0} : w[a].pc = "none"
    /\ exit = "success" => w[0].pc = "close"
    /\ arg.prog = "sgio_normal" /\ exit # "failure" => failed = {}

LayoutHeap ==
    /\ exit = "no" /\ w[0].pc = "open" => heap = {BufNames[k] : k \in 1 .. w[0].i}
    /\ exit = "no" /\ w[0].pc # "open" => heap = {BufNames[k] : k \in 1 .. 4}
    /\ exit = "success" => heap = {"gbuf_hole"}
    /\ exit = "failure" /\ w[0].pc = "open" /\ w[0].i < 4 => heap = {}
    /\ exit = "failure" /\ ~(w[0].pc = "open" /\ w[0].i < 4) =>
          heap = {BufNames[k] : k \in 1 .. 4}

\* The file after the first i data have been written
LayoutLen(i) == CASE i = 0 -> 0 [] i = 1 -> 3 [] i = 2 -> 7 [] i = 3 -> 11
LayoutByte(i) ==
    CASE i \in 2 .. 3 -> 11 [] i = 7 -> 12 [] i \in 10 .. 11 -> 13 [] OTHER -> Hole

Laid(i) == dest = [k \in 1 .. LayoutLen(i) |-> LayoutByte(k)]

LayoutData ==
    shorts = <<>> /\ failed = {} =>
      /\ w[0].pc \in {"open", "sgio_writev"} => Laid(0)
      /\ w[0].pc = "sgio_normal" => Laid(w[0].i - 1)
      /\ w[0].pc = "close" => Laid(3)

LayoutInv == LayoutControl /\ LayoutHeap /\ LayoutData

-----------------------------------------------------------------------------
CopyInv ==
    /\ Types
    /\ Simple => SimpleInv
    /\ MT => ThreadsInv
    /\ Layout => LayoutInv

-----------------------------------------------------------------------------
(* The arguments, the shares and the helpers of the model                  *)

\* Main is an actor, and so is every worker a program may be asked for.
LEMMA ActorFacts ==
  /\ MaxThrds \in NumThrds /\ MaxThrds \in Nat \ {0}
  /\ \A n \in NumThrds : n <= MaxThrds
  /\ Actors = 0 .. MaxThrds /\ 0 \in Actors
<1>1. \E n \in NumThrds : \A m \in NumThrds : m <= n
  BY FileCopyConstants
<1>2. MaxThrds \in NumThrds /\ \A m \in NumThrds : m <= MaxThrds
  BY <1>1 DEF MaxThrds
<1> QED
  BY <1>2, FileCopyConstants DEF Actors

\* What the arguments are, and that a program is of one kind.
LEMMA ArgFacts ==
  ASSUME arg \in Args
  PROVE  /\ arg.fsize \in Nat /\ arg.old \in Nat /\ arg.n \in Nat \ {0} /\ arg.n \in Actors
         /\ arg.prog \in Copiers \cup Layouts
         /\ Simple \/ MT \/ Layout
         /\ ~(Simple /\ MT) /\ ~(Simple /\ Layout) /\ ~(MT /\ Layout)
         /\ Layout => arg.fsize = 0 /\ arg.old = 0
         /\ arg.prog \in Copiers <=> Simple \/ MT
<1>1. CASE arg \in [prog : Copiers, fsize : SrcSizes, old : OldSizes, n : NumThrds]
  <2>1. arg.prog \in Copiers /\ arg.fsize \in SrcSizes /\ arg.old \in OldSizes /\ arg.n \in NumThrds
    BY <1>1
  <2>2. arg.fsize \in Nat /\ arg.old \in Nat /\ arg.n \in Nat \ {0}
    BY <2>1, FileCopyConstants
  <2>3. arg.n \in Actors
    BY <2>1, <2>2, ActorFacts
  <2> QED
    BY <2>1, <2>2, <2>3 DEF Copiers, Layouts, Simple, MT, Layout
<1>2. CASE arg \in [prog : Layouts, fsize : {0}, old : {0}, n : {1}]
  BY <1>2, ActorFacts DEF Copiers, Layouts, Simple, MT, Layout
<1> QED
  BY <1>1, <1>2 DEF Args

\* The number of bytes divided among the threads, and the bytes that remain.
LEMMA Division ==
  ASSUME NEW f \in Nat, NEW n \in Nat \ {0}
  PROVE  /\ f \div n \in Nat /\ f % n \in 0 .. n - 1
         /\ f = (n * (f \div n)) + (f % n)
  OBVIOUS

\* The segments of the threads lie one behind the other.
LEMMA Multiples ==
  ASSUME NEW q \in Nat, NEW n \in Nat, NEW i \in Nat, i < n
  PROVE  i * q \in Nat /\ n * q \in Nat /\ (i * q) + q <= n * q /\ (i + 1) * q = (i * q) + q
  OBVIOUS

\* Together they cover all bytes but the remaining ones.
LEMMA EachByteHasOwner ==
  ASSUME NEW q \in Nat, NEW n \in Nat, NEW b \in Nat \ {0}, b <= n * q
  PROVE  \E a \in 1 .. n : b \in ((a - 1) * q) + 1 .. a * q
<1>1. q > 0
  OBVIOUS
<1> DEFINE i == (b - 1) \div q
<1>2. b - 1 = (q * i) + ((b - 1) % q) /\ i \in Nat /\ (b - 1) % q \in 0 .. q - 1
  BY <1>1, Division
<1>3. i < n
  <2> SUFFICES ASSUME i >= n PROVE FALSE
    BY <1>2
  <2>1. n * q <= i * q
    BY <1>2, Multiples
  <2> QED
    BY <2>1, <1>2
<1>4. q * i = i * q /\ (i + 1) * q = (i * q) + q /\ i * q \in Nat
  BY <1>2, Multiples, <1>3
<1> HIDE DEF i
<1>5. b \in (((i + 1) - 1) * q) + 1 .. (i + 1) * q
  BY <1>2, <1>4
<1>6. i + 1 \in 1 .. n
  BY <1>2, <1>3
<1> QED
  BY <1>5, <1>6

\* What is known of a transfer of k of n bytes.
LEMMA TransferFacts ==
  ASSUME shorts \in Seq({"read", "write"}), Len(shorts) <= MaxShort,
         NEW n \in Nat, NEW k \in Transfers(n), NEW call \in {"read", "write"},
         Transferred(k, n, call)
  PROVE  /\ k \in 0 .. n /\ (k = 0 => n = 0)
         /\ shorts' \in Seq({"read", "write"}) /\ Len(shorts') <= MaxShort
         /\ \A c \in {"read", "write"} :
              ShortOf(c)' <=> ShortOf(c) \/ (c = call /\ k # n)
<1>1. k \in 0 .. n /\ (k = n \/ (k > 0 /\ Len(shorts) < MaxShort))
  BY DEF Transfers
<1>2. CASE k = n
  BY <1>1, <1>2 DEF Transferred, ShortOf
<1>3. CASE k # n
  <2>1. shorts' = Append(shorts, call)
    BY <1>3 DEF Transferred
  <2>2. /\ Append(shorts, call) \in Seq({"read", "write"})
        /\ Len(Append(shorts, call)) = Len(shorts) + 1
        /\ \A i \in 1 .. Len(shorts) : Append(shorts, call)[i] = shorts[i]
        /\ Append(shorts, call)[Len(shorts) + 1] = call
        /\ Len(shorts) \in Nat /\ DOMAIN shorts = 1 .. Len(shorts)
        /\ DOMAIN Append(shorts, call) = 1 .. Len(shorts) + 1
    OBVIOUS
  <2>3. ASSUME NEW c \in {"read", "write"}
        PROVE  ShortOf(c)' <=> ShortOf(c) \/ (c = call /\ k # n)
    <3>1. ShortOf(c)' => ShortOf(c) \/ c = call
      BY <2>1, <2>2 DEF ShortOf
    <3>2. ShortOf(c) => ShortOf(c)'
      BY <2>1, <2>2 DEF ShortOf
    <3>3. c = call => ShortOf(c)'
      BY <2>1, <2>2 DEF ShortOf
    <3> QED
      BY <3>1, <3>2, <3>3, <1>3
  <2> QED
    BY <2>1, <2>2, <2>3, <1>1, <1>3, FileCopyConstants
<1> QED
  BY <1>2, <1>3

\* A write extends the file if it must and changes nothing else.
LEMMA WriteAtFacts ==
  ASSUME NEW f \in Seq(Int), NEW at \in Nat, NEW bytes \in Seq(Int)
  PROVE  LET g == WriteAt(f, at, bytes)
             end == at + Len(bytes)
         IN  /\ g \in Seq(Int) /\ end \in Nat
             /\ Len(g) = IF Len(f) > end THEN Len(f) ELSE end
             /\ \A i \in 1 .. Len(g) :
                  g[i] = IF i \in at + 1 .. end THEN bytes[i - at]
                         ELSE IF i <= Len(f) THEN f[i] ELSE Hole
<1> DEFINE end == at + Len(bytes)
           N == IF Len(f) > end THEN Len(f) ELSE end
           E(i) == IF i \in at + 1 .. end THEN bytes[i - at]
                   ELSE IF i <= Len(f) THEN f[i] ELSE Hole
<1>1. Len(f) \in Nat /\ Len(bytes) \in Nat /\ end \in Nat /\ N \in Nat
  OBVIOUS
<1>2. ASSUME NEW i \in 1 .. N PROVE E(i) \in Int
  <2>1. CASE i \in at + 1 .. end
    <3>1. i - at \in 1 .. Len(bytes)
      BY <1>1, <2>1
    <3> QED
      BY <2>1, <3>1, ElementOfSeq
  <2>2. CASE i \notin at + 1 .. end /\ i <= Len(f)
    BY <2>2, <1>1, ElementOfSeq
  <2>3. CASE i \notin at + 1 .. end /\ ~(i <= Len(f))
    BY <2>3 DEF Hole
  <2> QED
    BY <2>1, <2>2, <2>3
<1>3. WriteAt(f, at, bytes) = [i \in 1 .. N |-> E(i)]
  BY DEF WriteAt
<1> HIDE DEF N, E
<1>4. [i \in 1 .. N |-> E(i)] \in Seq(Int)
  BY <1>1, <1>2, IsASeq
<1>5. Len([i \in 1 .. N |-> E(i)]) = N
  BY <1>1, <1>4, LenProperties
<1> QED
  BY <1>1, <1>3, <1>4, <1>5 DEF N, E

\* A write never makes a file shorter.
LEMMA WriteGrows ==
  ASSUME NEW f \in Seq(Int), NEW at \in Nat, NEW bytes \in Seq(Int)
  PROVE  WriteAt(f, at, bytes) \in Seq(Int) /\ Len(f) <= Len(WriteAt(f, at, bytes))
  BY WriteAtFacts

\* What write is given is a sequence of bytes.
LEMMA GivenFacts ==
  ASSUME Types, NEW a \in Actors, NEW k \in Nat
  PROVE  /\ Given(a, k) \in Seq(Int) /\ Len(Given(a, k)) = k
         /\ \A i \in 1 .. k : i <= Len(w[a].buf) => Given(a, k)[i] = w[a].buf[i]
<1> DEFINE E(i) == IF i \in DOMAIN w[a].buf THEN w[a].buf[i] ELSE Garbage
<1>1. w[a].buf \in Seq(Int) /\ DOMAIN w[a].buf = 1 .. Len(w[a].buf) /\ Len(w[a].buf) \in Nat
  BY DEF Types, ActorType
<1>2. \A i \in 1 .. k : E(i) \in Int
  BY <1>1, ElementOfSeq DEF Garbage
<1>3. Given(a, k) = [i \in 1 .. k |-> E(i)]
  BY DEF Given
<1> HIDE DEF E
<1>4. [i \in 1 .. k |-> E(i)] \in Seq(Int)
  BY <1>2, IsASeq
<1>5. Len([i \in 1 .. k |-> E(i)]) = k
  BY <1>4, LenProperties
<1> QED
  BY <1>1, <1>3, <1>4, <1>5 DEF E

\* A buffer after a read: the bytes read are at its start.
LEMMA BufferedFacts ==
  ASSUME Types, NEW a \in Actors, NEW k \in Nat, SrcOffset(a) \in Nat
  PROVE  /\ Buffered(a, k) \in Seq(Int) /\ Len(Buffered(a, k)) = Len(w[a].buf)
         /\ \A i \in 1 .. Len(w[a].buf) :
              Buffered(a, k)[i] = IF i <= k THEN SrcOffset(a) + i ELSE w[a].buf[i]
<1> DEFINE n == Len(w[a].buf)
           E(i) == IF i <= k THEN SrcOffset(a) + i ELSE w[a].buf[i]
<1>1. w[a].buf \in Seq(Int) /\ DOMAIN w[a].buf = 1 .. n /\ n \in Nat
  BY DEF Types, ActorType
<1>2. \A i \in 1 .. n : E(i) \in Int
  BY <1>1, ElementOfSeq
<1>3. Buffered(a, k) = [i \in 1 .. n |-> E(i)]
  BY <1>1 DEF Buffered
<1> HIDE DEF E, n
<1>4. [i \in 1 .. n |-> E(i)] \in Seq(Int)
  BY <1>1, <1>2, IsASeq
<1>5. Len([i \in 1 .. n |-> E(i)]) = n
  BY <1>1, <1>4, LenProperties
<1> QED
  BY <1>1, <1>3, <1>4, <1>5 DEF E, n

-----------------------------------------------------------------------------
(* The types                                                               *)

\* A step of an actor changes no other's local variables
Others(a) == \A b \in Actors : b # a => w'[b] = w[b]

\* The shares of the threads of mt_copy.c and the bytes that remain.
LEMMA ShareFacts ==
  ASSUME Types
  PROVE  /\ Share \in Nat /\ Rest \in Nat /\ Rest < arg.n /\ arg.n \in Nat \ {0}
         /\ arg.fsize \in Nat /\ arg.fsize = (arg.n * Share) + Rest
<1>1. arg.fsize \in Nat /\ arg.n \in Nat \ {0}
  BY ArgFacts DEF Types
<1>2. Share \in Nat /\ Rest \in 0 .. arg.n - 1 /\ arg.fsize = (arg.n * Share) + Rest
  BY <1>1, Division, Zenon DEF Share, Rest
<1> QED
  BY <1>1, <1>2

\* The local variables of an actor.
LEMMA ActorFields ==
  ASSUME NEW r \in ActorType
  PROVE  /\ r.pc \in PCs /\ r.i \in Nat /\ r.off \in Nat /\ r.len \in Nat /\ r.last \in BOOLEAN
         /\ r.buf \in Seq(Int) /\ r.tr \in Nat /\ r.nr \in Nat /\ r.tw \in Nat
         /\ r = [pc |-> r.pc, i |-> r.i, off |-> r.off, len |-> r.len, last |-> r.last,
                 buf |-> r.buf, tr |-> r.tr, nr |-> r.nr, tw |-> r.tw]
  BY DEF ActorType

\* A step that gives one actor new local variables.
LEMMA ActorUpdate ==
  ASSUME Types, NEW a \in Actors, NEW v \in ActorType, w' = [w EXCEPT ![a] = v]
  PROVE  w' \in [Actors -> ActorType] /\ w'[a] = v /\ Others(a)
  BY DEF Types, Others

Remains(a) == Rest # 0 /\ w[a].i = arg.n - 1 /\ ~w[a].last

\* What the last worker does after its share, and what the others do.
LEMMA NextSegmentFacts ==
  ASSUME Types, NEW a \in Actors, w' = NextSegment(a)
  PROVE  /\ w' \in [Actors -> ActorType] /\ Others(a)
         /\ w'[a].i = w[a].i
         /\ ~Remains(a) => w'[a] = [w[a] EXCEPT !.pc = "ended"]
         /\ Remains(a) =>
              /\ w'[a].pc = "malloc" /\ w'[a].last = TRUE /\ w'[a].tr = 0
              /\ w'[a].off = w[a].off + w[a].len /\ w'[a].len = Rest
<1>1. w \in [Actors -> ActorType] /\ Rest \in Nat /\ w[a] \in ActorType
  BY ShareFacts DEF Types
<1> DEFINE r == w[a]
<1>2. CASE Remains(a)
  <2> DEFINE v == [pc |-> "malloc", i |-> r.i, off |-> r.off + r.len, len |-> Rest, last |-> TRUE,
                   buf |-> r.buf, tr |-> 0, nr |-> r.nr, tw |-> 0]
  <2>1. w' = [w EXCEPT ![a].pc = "malloc", ![a].last = TRUE, ![a].off = @ + w[a].len,
                       ![a].len = Rest, ![a].tr = 0, ![a].tw = 0]
    BY <1>2 DEF NextSegment, Remains, Rest
  <2>2. w' = [w EXCEPT ![a] = [w[a] EXCEPT !.pc = "malloc", !.last = TRUE, !.off = @ + w[a].len,
                                           !.len = Rest, !.tr = 0, !.tw = 0]]
    BY <1>1, <2>1
  <2>3. w' = [w EXCEPT ![a] = v]
    BY <1>1, <2>2 DEF ActorType
  <2>4. v \in ActorType
    BY <1>1, ActorFields DEF ActorType, PCs
  <2>5. w' \in [Actors -> ActorType] /\ w'[a] = v /\ Others(a)
    BY <2>3, <2>4, ActorUpdate
  <2> QED
    BY <1>2, <2>5
<1>3. CASE ~Remains(a)
  <2> DEFINE v == [pc |-> "ended", i |-> r.i, off |-> r.off, len |-> r.len, last |-> r.last,
                   buf |-> r.buf, tr |-> r.tr, nr |-> r.nr, tw |-> r.tw]
  <2>1. w' = [w EXCEPT ![a].pc = "ended"]
    BY <1>3 DEF NextSegment, Remains, Rest
  <2>2. w' = [w EXCEPT ![a] = v] /\ v = [w[a] EXCEPT !.pc = "ended"]
    <3>1. w' = [w EXCEPT ![a] = [w[a] EXCEPT !.pc = "ended"]]
      BY <1>1, <2>1
    <3>2. v = [w[a] EXCEPT !.pc = "ended"]
      <4>1. w[a] = [pc |-> r.pc, i |-> r.i, off |-> r.off, len |-> r.len, last |-> r.last,
                    buf |-> r.buf, tr |-> r.tr, nr |-> r.nr, tw |-> r.tw]
        BY <1>1, ActorFields
      <4> QED
        BY <4>1
    <3> QED
      BY <3>1, <3>2, Zenon
  <2>3. v \in ActorType
    BY <1>1, ActorFields DEF ActorType, PCs
  <2>4. w' \in [Actors -> ActorType] /\ w'[a] = v /\ Others(a)
    BY <2>2, <2>3, ActorUpdate
  <2> QED
    BY <1>3, <2>2, <2>4
<1> QED
  BY <1>2, <1>3

\* One worker is created, and main goes on to the next or to the joins.
LEMMA CreateFacts ==
  ASSUME Types, CreateWorker, w[0].i < arg.n
  PROVE  LET i == w[0].i
             last == i + 1 = arg.n
         IN  /\ i + 1 \in Actors /\ w' \in [Actors -> ActorType]
             /\ w'[0] = [w[0] EXCEPT !.i = IF last THEN 0 ELSE i + 1,
                                     !.pc = IF last THEN "join" ELSE "create"]
             /\ w'[i + 1] = [w[i + 1] EXCEPT !.pc = "malloc", !.i = i, !.off = i * Share,
                                             !.len = Share]
             /\ \A b \in Actors : b # 0 /\ b # i + 1 => w'[b] = w[b]
<1> DEFINE i == w[0].i
           last == i + 1 = arg.n
<1>1. w \in [Actors -> ActorType] /\ i \in Nat /\ i + 1 \in Actors /\ i + 1 # 0 /\ 0 \in Actors
  <2>1. w \in [Actors -> ActorType] /\ 0 \in Actors /\ Actors = 0 .. MaxThrds /\ MaxThrds \in Nat
    BY ActorFacts DEF Types
  <2>2. w[0].i \in Nat /\ arg.n \in Nat /\ arg.n \in Actors
    BY <2>1, ArgFacts, ActorFields DEF Types
  <2> QED
    BY <2>1, <2>2
<1>2. Share \in Nat /\ i * Share \in Nat /\ arg.n \in Nat \ {0}
  BY <1>1, ShareFacts, Multiples
<1>3. (i + 1) % arg.n = IF last THEN 0 ELSE i + 1
  BY <1>1, <1>2
<1>4. w' = [w EXCEPT ![0].i = (i + 1) % arg.n,
                      ![0].pc = IF last THEN "join" ELSE "create",
                      ![i + 1].pc = "malloc",
                      ![i + 1].i = i,
                      ![i + 1].off = i * Share,
                      ![i + 1].len = Share]
  BY DEF CreateWorker, start_offset, Share
<1> HIDE DEF i, last
<1>5. /\ w'[0] = [w[0] EXCEPT !.i = (i + 1) % arg.n, !.pc = IF last THEN "join" ELSE "create"]
      /\ w'[i + 1] = [w[i + 1] EXCEPT !.pc = "malloc", !.i = i, !.off = i * Share, !.len = Share]
      /\ \A b \in Actors : b # 0 /\ b # i + 1 => w'[b] = w[b]
      /\ DOMAIN w' = Actors
  BY <1>1, <1>4
<1>6. w'[0] = [w[0] EXCEPT !.i = IF last THEN 0 ELSE i + 1, !.pc = IF last THEN "join" ELSE "create"]
  BY <1>3, <1>5
<1>7. w'[0] \in ActorType /\ w'[i + 1] \in ActorType
  <2>1. w[0] \in ActorType /\ w[i + 1] \in ActorType
    BY <1>1
  <2>2. w'[0] \in ActorType
    <3> DEFINE x == IF last THEN 0 ELSE i + 1
               y == IF last THEN "join" ELSE "create"
               moved(j, pc) == [w[0] EXCEPT !.i = j, !.pc = pc]
    <3>1. \A j \in Nat, pc \in {"join", "create"} : moved(j, pc) \in ActorType
      BY <2>1 DEF ActorType, PCs
    <3>2. x \in Nat /\ y \in {"join", "create"}
      BY <1>1
    <3>3. w'[0] = moved(x, y)
      BY <1>6
    <3> HIDE DEF x, y, moved
    <3> QED
      BY <3>1, <3>2, <3>3
  <2>3. w'[i + 1] \in ActorType
    <3> DEFINE born(j, o, l) ==
                 [w[i + 1] EXCEPT !.pc = "malloc", !.i = j, !.off = o, !.len = l]
    <3>1. \A j, o, l \in Nat : born(j, o, l) \in ActorType
      BY <2>1 DEF ActorType, PCs
    <3>2. w'[i + 1] = born(i, i * Share, Share)
      BY <1>5
    <3> HIDE DEF born
    <3> QED
      BY <1>1, <1>2, <3>1, <3>2, Zenon
  <2> QED
    BY <2>2, <2>3
<1>8. \A b \in Actors : w'[b] \in ActorType
  BY <1>1, <1>5, <1>7
<1>9. w' = [b \in Actors |-> w'[b]]
  BY <1>1, <1>4
<1>10. w' \in [Actors -> ActorType]
  BY <1>8, <1>9
<1> QED
  BY <1>1, <1>5, <1>6, <1>10 DEF i, last

\* After a read of k bytes the loop goes on, or the buffer is handed to write.
LEMMA ReadFacts ==
  ASSUME Types, NEW a \in Actors, NEW k \in Nat, SrcOffset(a) \in Nat, w' = ReadLoop(a, k)
  PROVE  /\ w' \in [Actors -> ActorType] /\ Others(a)
         /\ w'[a].i = w[a].i /\ w'[a].off = w[a].off /\ w'[a].len = w[a].len
         /\ w'[a].last = w[a].last /\ w'[a].buf = Buffered(a, k)
         /\ IF arg.prog # "simpcp1" /\ k # 0 /\ w[a].tr + k < BufSize(a)
            THEN w'[a].pc = w[a].pc /\ w'[a].tr = w[a].tr + k /\ w'[a].nr = w[a].nr
            ELSE w'[a].pc = "write" /\ w'[a].tr = 0 /\ w'[a].nr = w[a].tr + k
<1>1. w \in [Actors -> ActorType] /\ Buffered(a, k) \in Seq(Int) /\ w[a] \in ActorType
  BY BufferedFacts DEF Types
<1> DEFINE r == w[a]
<1>2. CASE arg.prog # "simpcp1" /\ k # 0 /\ w[a].tr + k < BufSize(a)
  <2> DEFINE v == [pc |-> r.pc, i |-> r.i, off |-> r.off, len |-> r.len, last |-> r.last,
                   buf |-> Buffered(a, k), tr |-> r.tr + k, nr |-> r.nr, tw |-> r.tw]
  <2>1. w' = [w EXCEPT ![a].buf = Buffered(a, k), ![a].tr = w[a].tr + k]
    BY <1>2 DEF ReadLoop
  <2>2. w' = [w EXCEPT ![a] = v]
    BY <1>1, <2>1, ActorFields
  <2>3. v \in ActorType
    BY <1>1, ActorFields DEF ActorType
  <2>4. w' \in [Actors -> ActorType] /\ w'[a] = v /\ Others(a)
    BY <2>2, <2>3, ActorUpdate
  <2> QED
    BY <1>2, <2>4
<1>3. CASE ~(arg.prog # "simpcp1" /\ k # 0 /\ w[a].tr + k < BufSize(a))
  <2> DEFINE v == [pc |-> "write", i |-> r.i, off |-> r.off, len |-> r.len, last |-> r.last,
                   buf |-> Buffered(a, k), tr |-> 0, nr |-> r.tr + k, tw |-> 0]
  <2>1. w' = [w EXCEPT ![a].pc = "write", ![a].buf = Buffered(a, k),
                       ![a].nr = w[a].tr + k, ![a].tr = 0, ![a].tw = 0]
    BY <1>3 DEF ReadLoop, GotBytes
  <2>2. w' = [w EXCEPT ![a] = v]
    <3>1. w' = [w EXCEPT ![a] = [w[a] EXCEPT !.pc = "write", !.buf = Buffered(a, k),
                                             !.nr = w[a].tr + k, !.tr = 0, !.tw = 0]]
      BY <1>1, <2>1
    <3> QED
      BY <1>1, <3>1 DEF ActorType
  <2>3. v \in ActorType
    BY <1>1, ActorFields DEF ActorType, PCs
  <2>4. w' \in [Actors -> ActorType] /\ w'[a] = v /\ Others(a)
    BY <2>2, <2>3, ActorUpdate
  <2> QED
    BY <1>3, <2>4
<1> QED
  BY <1>2, <1>3

\* The types of what docopy's callers set at its end.
LEMMA EndCopyTypes ==
  ASSUME Types, NEW a \in Actors, NEW ok \in BOOLEAN, EndCopy(a, ok), At(a, w[a].pc)
  PROVE  /\ w' \in [Actors -> ActorType]
         /\ failed' \subseteq Actors /\ exit' \in {"no", "success", "failure"}
<1>1. w' \in [Actors -> ActorType]
  BY NextSegmentFacts DEF EndCopy, Types
<1>2. failed' \subseteq Actors
  BY DEF EndCopy, Types
<1>3. exit' \in {"no", "success", "failure"}
  BY DEF EndCopy, Types, At
<1> QED
  BY <1>1, <1>2, <1>3

\* The offset a copier reads from or writes to.
LEMMA OffsetTypes ==
  ASSUME Types, NEW a \in Actors
  PROVE  SrcOffset(a) \in Nat /\ DestOffset(a) \in Nat
<1>1. pos.src \in Nat /\ pos.dest \in Nat /\ w[a].off \in Nat
  BY ArgFacts, ActorFields DEF Types
<1> QED
  BY <1>1 DEF SrcOffset, DestOffset

\* Only the workers asked for are created.
LEMMA CreatedFacts ==
  ASSUME Types, ThreadsInv
  PROVE  /\ w[0].i \in Nat /\ w[0].i <= arg.n /\ arg.n \in Nat
         /\ \A a \in Workers : w[a].pc # "none" => a \in 1 .. arg.n
<1>1. w[0].i \in Nat /\ arg.n \in Nat /\ \A a \in Workers : a \in Nat \ {0}
  <2>1. Actors = 0 .. MaxThrds /\ MaxThrds \in Nat /\ w[0] \in ActorType
    BY ActorFacts DEF Types
  <2>2. w[0].i \in Nat
    BY <2>1, ActorFields
  <2> QED
    BY <2>1, <2>2, ShareFacts DEF Workers
<1>2. w[0].i <= arg.n
  <2>1. w[0].i < arg.n \/ w[0].i = arg.n
    BY Zenon DEF ThreadsInv, ThreadsControl
  <2> QED
    BY <1>1, <2>1
<1>3. Created <= arg.n /\ Created \in Nat
  BY <1>1, <1>2 DEF Created
<1>4. ASSUME NEW a \in Workers, w[a].pc # "none" PROVE a \in 1 .. arg.n
  <2>1. a <= Created
    BY <1>4 DEF ThreadsInv, ThreadsControl
  <2> QED
    BY <1>1, <1>3, <2>1
<1> QED
  BY <1>1, <1>2, <1>4

\* A worker's segment lies within the source; main, and a thread that is not
\* yet created, have none.
LEMMA SegmentWithin ==
  ASSUME Types, ThreadsInv, NEW a \in Actors
  PROVE  w[a].off + w[a].len <= arg.fsize
<1>0. w[a].off \in Nat /\ w[a].len \in Nat /\ a \in Nat
  BY ActorFacts, ActorFields DEF Types
<1>1. CASE a = 0
  BY <1>1, ShareFacts DEF ThreadsInv, ThreadsControl
<1>2. CASE a # 0 /\ w[a].pc = "none"
  BY <1>2, ShareFacts DEF ThreadsInv, Segment, Workers
<1>3. CASE a # 0 /\ w[a].pc # "none"
  <2>1. a \in Workers /\ a - 1 \in Nat /\ a <= arg.n
    BY <1>0, <1>3, CreatedFacts DEF Workers
  <2>2. a - 1 < arg.n /\ arg.n \in Nat /\ Share \in Nat
    BY <1>0, <2>1, ShareFacts
  <2>3. /\ ((a - 1) * Share) + Share <= arg.n * Share
        /\ arg.n * Share \in Nat /\ (a - 1) * Share \in Nat
    BY <2>1, <2>2, Multiples, Zenon
  <2> QED
    BY <1>0, <1>3, <2>1, <2>2, <2>3, ShareFacts DEF ThreadsInv, Segment
<1> QED
  BY <1>1, <1>2, <1>3

\* How many bytes are left to read.
LEMMA LeftToRead ==
  ASSUME CopyInv, NEW a \in Actors, At(a, "read")
  PROVE  /\ BufSize(a) \in Nat /\ arg.fsize - SrcOffset(a) \in Nat
         /\ MT => BufSize(a) <= arg.fsize - SrcOffset(a)
         /\ Smaller(BufSize(a), arg.fsize - SrcOffset(a)) \in Nat
<1>1. CASE MT
  <2>1. w[a].off + w[a].len <= arg.fsize /\ w[a].off \in Nat /\ w[a].len \in Nat /\ arg.fsize \in Nat
    BY <1>1, SegmentWithin, ActorFields, ArgFacts DEF CopyInv, Types
  <2> QED
    BY <1>1, <2>1 DEF BufSize, SrcOffset, Smaller
<1>2. CASE ~MT
  <2>1. BlkSize \in Nat /\ pos.src \in 0 .. arg.fsize /\ arg.fsize \in Nat
    BY ArgFacts, FileCopyConstants DEF CopyInv, Types
  <2> QED
    BY <1>2, <2>1 DEF BufSize, SrcOffset, Smaller
<1> QED
  BY <1>1, <1>2

\* A step that leaves the files and the transfers alone keeps their types.
LEMMA TypesFrame ==
  ASSUME Types, UNCHANGED <<arg, dest, pos, shorts>>, w' \in [Actors -> ActorType],
         failed' \subseteq Actors, exit' \in {"no", "success", "failure"}
  PROVE  Types'
  BY DEF Types

\* A step of main to another label.
LEMMA BecomeFacts ==
  ASSUME Types, NEW a \in Actors, NEW pc \in PCs, Become(a, pc)
  PROVE  /\ w' \in [Actors -> ActorType] /\ Others(a)
         /\ w'[a] = [w[a] EXCEPT !.pc = pc]
<1>1. w \in [Actors -> ActorType] /\ w[a] \in ActorType
  BY DEF Types
<1>2. w' = [w EXCEPT ![a] = [w[a] EXCEPT !.pc = pc]]
  BY <1>1 DEF Become
<1>3. [w[a] EXCEPT !.pc = pc] \in ActorType
  BY <1>1 DEF ActorType
<1> QED
  BY <1>2, <1>3, ActorUpdate

\* A step of main to another number or label.
LEMMA IndexFacts ==
  ASSUME Types, NEW pc \in PCs, NEW i \in Nat, w' = [w EXCEPT ![0].i = i, ![0].pc = pc]
  PROVE  /\ w' \in [Actors -> ActorType] /\ Others(0)
         /\ w'[0] = [w[0] EXCEPT !.i = i, !.pc = pc]
<1>1. w \in [Actors -> ActorType] /\ w[0] \in ActorType /\ 0 \in Actors
  BY ActorFacts DEF Types
<1>2. w' = [w EXCEPT ![0] = [w[0] EXCEPT !.i = i, !.pc = pc]]
  BY <1>1
<1>3. [w[0] EXCEPT !.i = i, !.pc = pc] \in ActorType
  BY <1>1 DEF ActorType
<1> QED
  BY <1>1, <1>2, <1>3, ActorUpdate

\* The new buffer of a copier.
LEMMA MallocFacts ==
  ASSUME CopyInv, NEW a \in Actors, Malloc(a)
  PROVE  /\ w' \in [Actors -> ActorType] /\ Others(a) /\ BufSize(a) \in Nat
         /\ w'[a].pc = "read" /\ w'[a].i = w[a].i /\ w'[a].off = w[a].off /\ w'[a].len = w[a].len
         /\ w'[a].last = w[a].last /\ w'[a].tr = w[a].tr
         /\ Len(w'[a].buf) = BufSize(a)
<1> DEFINE b == [i \in 1 .. BufSize(a) |-> Garbage]
<1>1. w \in [Actors -> ActorType] /\ w[a] \in ActorType /\ Types
  BY DEF Types, CopyInv
<1>2. BufSize(a) \in Nat
  BY <1>1, FileCopyConstants, ActorFields DEF BufSize
<1>3. b \in Seq(Int) /\ Len(b) = BufSize(a)
  BY <1>2 DEF Garbage
<1>4. w' = [w EXCEPT ![a] = [w[a] EXCEPT !.pc = "read", !.buf = b]]
  BY <1>1 DEF Malloc
<1> HIDE DEF b
<1>5. [w[a] EXCEPT !.pc = "read", !.buf = b] \in ActorType
  BY <1>1, <1>3 DEF ActorType, PCs
<1>6. w' \in [Actors -> ActorType] /\ Others(a) /\ w'[a] = [w[a] EXCEPT !.pc = "read", !.buf = b]
  BY <1>1, <1>4, <1>5, ActorUpdate
<1>7. /\ w'[a].pc = "read" /\ w'[a].i = w[a].i /\ w'[a].off = w[a].off /\ w'[a].len = w[a].len
      /\ w'[a].last = w[a].last /\ w'[a].tr = w[a].tr /\ w'[a].buf = b
  BY <1>1, <1>6 DEF ActorType
<1> QED
  BY <1>2, <1>3, <1>6, <1>7

\* Every step keeps the types.
LEMMA TypesStep ==
  ASSUME CopyInv, [Next]_vars
  PROVE  Types'
<1> USE DEF CopyInv
<1>0. /\ w \in [Actors -> ActorType] /\ 0 \in Actors /\ failed \subseteq Actors
      /\ exit \in {"no", "success", "failure"}
  BY ActorFacts DEF Types
<1>1. CASE UNCHANGED vars
  BY <1>1 DEF vars, Types
<1>2. CASE Open
  <2>1. (IF MT THEN "create" ELSE "malloc") \in PCs
    BY DEF PCs
  <2>2. w' \in [Actors -> ActorType]
    BY <1>0, <1>2, <2>1, BecomeFacts DEF Open
  <2> QED
    BY <1>0, <1>2, <2>2, TypesFrame DEF Open
<1>3. CASE OpenFails \/ CreateFails
  BY <1>0, <1>3, TypesFrame DEF OpenFails, CreateFails, Fails
<1>4. CASE CreateWorker
  <2>1. MT
    BY <1>4, ArgFacts DEF CreateWorker, At, Types, SimpleInv, SimpleControl, LayoutInv,
         LayoutControl, Layout, Layouts
  <2>2. w[0].i < arg.n
    BY <1>4, <2>1 DEF CreateWorker, At, ThreadsInv, ThreadsControl
  <2> QED
    BY <1>0, <1>4, <2>2, CreateFacts, TypesFrame DEF CreateWorker
<1>5. CASE JoinWorker
  <2>1. w[0].i + 1 \in Nat /\ w[0].pc \in PCs
    BY <1>0, ActorFields
  <2>2. w' = [w EXCEPT ![0].i = w[0].i + 1, ![0].pc = w[0].pc]
    BY <1>0, <1>5 DEF JoinWorker, ActorType
  <2> QED
    BY <1>0, <1>5, <2>1, <2>2, IndexFacts, TypesFrame DEF JoinWorker
<1>6. CASE setup_buffers_goto
  <2>1. w[0].i + 1 \in Nat /\ w[0].pc \in PCs
    BY <1>0, ActorFields
  <2>2. CASE w' = [w EXCEPT ![0].i = @ + 1] /\ UNCHANGED <<failed, exit>>
    <3>1. w' = [w EXCEPT ![0].i = w[0].i + 1, ![0].pc = w[0].pc]
      BY <1>0, <2>2 DEF ActorType
    <3> QED
      BY <1>0, <1>6, <2>1, <2>2, <3>1, IndexFacts, TypesFrame DEF setup_buffers_goto
  <2>3. CASE Fails(0) /\ UNCHANGED w
    BY <1>0, <1>6, <2>3, TypesFrame DEF setup_buffers_goto, Fails
  <2> QED
    BY <1>6, <2>2, <2>3 DEF setup_buffers_goto
<1>7. CASE OpenLayout
  <2>1. CASE w' = [w EXCEPT ![0].pc = arg.prog, ![0].i = 1] /\ UNCHANGED <<failed, exit>>
    <3>1. arg.prog \in PCs
      BY <1>7 DEF OpenLayout, Layouts, PCs
    <3>2. w' = [w EXCEPT ![0].i = 1, ![0].pc = arg.prog]
      BY <1>0, <2>1 DEF ActorType
    <3> QED
      BY <1>0, <1>7, <2>1, <3>1, <3>2, IndexFacts, TypesFrame DEF OpenLayout
  <2>2. CASE Fails(0) /\ UNCHANGED w
    BY <1>0, <1>7, <2>2, TypesFrame DEF OpenLayout, Fails
  <2> QED
    BY <1>7, <2>1, <2>2 DEF OpenLayout
<1>8. CASE CloseLayout
  BY <1>0, <1>8, TypesFrame DEF CloseLayout
<1>9. ASSUME NEW a \in Actors, Malloc(a) PROVE Types'
  BY <1>0, <1>9, MallocFacts, TypesFrame DEF Malloc
<1>10. ASSUME NEW a \in Actors, MallocFails(a) \/ IOFails(a) \/ EndOfFile(a) PROVE Types'
  <2>1. PICK ok \in BOOLEAN : EndCopy(a, ok)
    BY <1>10 DEF MallocFails, IOFails, EndOfFile
  <2>2. At(a, w[a].pc) /\ UNCHANGED <<arg, dest, pos, shorts>>
    BY <1>10 DEF MallocFails, IOFails, EndOfFile, At
  <2> QED
    BY <2>1, <2>2, EndCopyTypes, TypesFrame
<1>11. ASSUME NEW a \in Actors, Read(a) PROVE Types'
  <2> DEFINE n == Smaller(BufSize(a), arg.fsize - SrcOffset(a))
  <2>1. n \in Nat /\ n <= arg.fsize - SrcOffset(a) /\ SrcOffset(a) \in Nat /\ arg.fsize \in Nat
    BY <1>11, LeftToRead, OffsetTypes, ArgFacts DEF Read, Smaller, Types
  <2>2. PICK k \in Transfers(n) :
          /\ Transferred(k, n, "read")
          /\ pos' = IF MT THEN pos ELSE [pos EXCEPT !.src = @ + k]
          /\ w' = ReadLoop(a, k)
    BY <1>11 DEF Read
  <2> HIDE DEF n
  <2>3. /\ k \in 0 .. n /\ shorts' \in Seq({"read", "write"}) /\ Len(shorts') <= MaxShort
    BY <2>1, <2>2, TransferFacts DEF Types
  <2>4. w' \in [Actors -> ActorType]
    BY <2>1, <2>2, <2>3, ReadFacts
  <2>5. pos' \in [src : 0 .. arg.fsize, dest : Nat]
    <3>0. pos \in [src : 0 .. arg.fsize, dest : Nat]
      BY DEF Types
    <3>1. CASE MT
      BY <2>2, <3>0, <3>1
    <3>2. CASE ~MT
      <4>1. pos' = [pos EXCEPT !.src = pos.src + k] /\ SrcOffset(a) = pos.src
        BY <2>2, <3>2 DEF SrcOffset
      <4>2. pos.src + k \in 0 .. arg.fsize
        BY <2>1, <2>3, <4>1
      <4> QED
        BY <3>0, <4>1, <4>2
    <3> QED
      BY <3>1, <3>2
  <2> QED
    BY <1>11, <2>3, <2>4, <2>5 DEF Read, Types
<1>12. ASSUME NEW a \in Actors, Write(a) PROVE Types'
  <2>0. w[a].nr \in Nat /\ w[a] \in ActorType
    BY <1>0, ActorFields
  <2>1. PICK k \in Transfers(w[a].nr) :
          /\ Transferred(k, w[a].nr, "write")
          /\ dest' = WriteAt(dest, DestOffset(a), Given(a, k))
          /\ pos' = IF MT THEN pos ELSE [pos EXCEPT !.dest = @ + k]
          /\ WriteLoop(a, k)
    BY <1>12 DEF Write
  <2>2. /\ k \in 0 .. w[a].nr /\ shorts' \in Seq({"read", "write"}) /\ Len(shorts') <= MaxShort
    BY <2>0, <2>1, TransferFacts DEF Types
  <2>3. dest' \in Seq(Int) /\ Len(dest) <= Len(dest')
    <3>1. Given(a, k) \in Seq(Int) /\ DestOffset(a) \in Nat /\ dest \in Seq(Int)
      BY <2>0, <2>2, GivenFacts, OffsetTypes DEF Types
    <3> QED
      BY <2>1, <3>1, WriteAtFacts
  <2>4. pos' \in [src : 0 .. arg.fsize, dest : Nat] /\ k \in Nat
    <3>1. k \in Nat
      BY <2>0, <2>2
    <3>2. pos \in [src : 0 .. arg.fsize, dest : Nat]
      BY DEF Types
    <3>3. pos.dest + k \in Nat
      BY <3>1, <3>2
    <3> QED
      BY <2>1, <3>1, <3>2, <3>3
  <2>5. /\ w' \in [Actors -> ActorType]
        /\ failed' \subseteq Actors /\ exit' \in {"no", "success", "failure"}
    <3>1. CASE w' = [w EXCEPT ![a].tw = @ + k] /\ UNCHANGED <<failed, exit>>
      <4>1. [w[a] EXCEPT !.tw = @ + k] \in ActorType
        <5>1. \A x \in Nat : [w[a] EXCEPT !.tw = x] \in ActorType
          BY <2>0 DEF ActorType
        <5>2. w[a].tw + k \in Nat
          BY <2>0, <2>4, ActorFields
        <5> QED
          BY <5>1, <5>2
      <4>2. w' = [w EXCEPT ![a] = [w[a] EXCEPT !.tw = @ + k]]
        BY <1>0, <3>1
      <4> QED
        BY <1>0, <3>1, <4>1, <4>2, ActorUpdate
    <3>2. CASE EndCopy(a, TRUE)
      BY <1>12, <3>2, EndCopyTypes DEF Write, At
    <3>3. CASE Become(a, "read") /\ UNCHANGED <<failed, exit>>
      <4>1. "read" \in PCs
        BY DEF PCs
      <4> QED
        BY <1>0, <3>3, <4>1, BecomeFacts
    <3> QED
      BY <2>1, <3>1, <3>2, <3>3 DEF WriteLoop
  <2>6. arg' = arg /\ arg.old \in Nat /\ Len(dest) \in Nat /\ Len(dest') \in Nat
    BY <1>12, <2>3, ArgFacts DEF Write, Types
  <2> QED
    BY <2>2, <2>3, <2>4, <2>5, <2>6 DEF Types
<1>13. CASE wr_discontig_the_normal_way
  <2> DEFINE i == w[0].i
             n == DATA_LEN[i]
  <2>1. i \in 1 .. 3 /\ n \in Nat /\ Content[i] \in Int /\ START_OFF(i) \in Nat
    <3>1. Layout
      BY <1>13, ArgFacts DEF wr_discontig_the_normal_way, At, Types, SimpleInv, SimpleControl,
           ThreadsInv, ThreadsControl
    <3>2. i \in 1 .. 3
      BY <1>13, <3>1 DEF wr_discontig_the_normal_way, At, LayoutInv, LayoutControl
    <3> QED
      BY <3>2 DEF DATA_LEN, Content, START_OFF, HOLE_LEN
  <2>2. CASE CallsFail /\ Fails(0) /\ UNCHANGED <<dest, w, shorts>>
    BY <1>0, <1>13, <2>2, TypesFrame DEF wr_discontig_the_normal_way, Fails
  <2>3. ASSUME NEW k \in Transfers(n), Transferred(k, n, "write"),
               dest' = WriteAt(dest, START_OFF(i), Fill(Content[i], k)),
               w' = [w EXCEPT ![0].i = i + 1, ![0].pc = IF i = 3 THEN "close" ELSE @],
               UNCHANGED <<failed, exit>>
        PROVE  Types'
    <3> HIDE DEF n
    <3>1. /\ k \in 0 .. n /\ shorts' \in Seq({"read", "write"}) /\ Len(shorts') <= MaxShort
      BY <2>1, <2>3, TransferFacts DEF Types
    <3>2. Fill(Content[i], k) \in Seq(Int)
      BY <2>1, <3>1 DEF Fill
    <3>3. dest' \in Seq(Int) /\ Len(dest) <= Len(dest')
      BY <2>1, <2>3, <3>2, WriteAtFacts DEF Types
    <3>4. w' \in [Actors -> ActorType]
      <4> DEFINE pc == IF i = 3 THEN "close" ELSE w[0].pc
      <4>1. pc \in PCs /\ i + 1 \in Nat
        BY <1>0, <2>1, ActorFields DEF PCs
      <4>2. w' = [w EXCEPT ![0].i = i + 1, ![0].pc = pc]
        BY <1>0, <2>3
      <4> HIDE DEF pc, i
      <4> QED
        BY <4>1, <4>2, IndexFacts
    <3>5. arg' = arg /\ pos' = pos /\ arg.old \in Nat /\ Len(dest) \in Nat /\ Len(dest') \in Nat
      BY <1>13, <3>3, ArgFacts DEF wr_discontig_the_normal_way, Types
    <3> QED
      BY <1>0, <2>3, <3>1, <3>3, <3>4, <3>5 DEF Types
  <2> QED
    BY <1>13, <2>2, <2>3 DEF wr_discontig_the_normal_way
<1>14. CASE wr_discontig_the_better_SGIO_way
  <2>1. iovec \in Seq(Int) /\ Len(iovec) = 11
    BY DEF iovec, Fill, Hole, Content, HOLE_LEN, DATA_LEN
  <2>2. w' \in [Actors -> ActorType] /\ exit' = exit /\ arg' = arg /\ pos' = pos
    <3>1. "close" \in PCs
      BY DEF PCs
    <3> QED
      BY <1>0, <1>14, <3>1, BecomeFacts DEF wr_discontig_the_better_SGIO_way
  <2>3. CASE failed' = {0} /\ UNCHANGED <<dest, shorts>>
    BY <1>0, <2>2, <2>3, TypesFrame
  <2>4. ASSUME NEW k \in Transfers(Len(iovec)), Transferred(k, Len(iovec), "write"),
               dest' = WriteAt(dest, 0, SubSeq(iovec, 1, k)), UNCHANGED failed
        PROVE  Types'
    <3>0. 11 \in Nat /\ k \in Transfers(11) /\ Transferred(k, 11, "write")
      BY <2>1, <2>4
    <3>1. /\ k \in 0 .. 11 /\ shorts' \in Seq({"read", "write"}) /\ Len(shorts') <= MaxShort
      BY <3>0, TransferFacts DEF Types
    <3>2. SubSeq(iovec, 1, k) \in Seq(Int)
      <4>1. \A i \in 1 .. k : iovec[i] \in Int
        <5>1. \A i \in 1 .. k : i \in 1 .. Len(iovec)
          BY <2>1, <3>1
        <5> QED
          BY <2>1, <5>1, ElementOfSeq, Zenon
      <4>2. 1 \in Int /\ k \in Int
        BY <3>1
      <4> QED
        BY <4>1, <4>2, SubSeqProperties, Zenon
    <3>3. dest' \in Seq(Int) /\ Len(dest) <= Len(dest')
      <4>1. 0 \in Nat /\ dest \in Seq(Int)
        BY DEF Types
      <4> QED
        BY <2>4, <3>2, <4>1, WriteGrows, Zenon
    <3>4. arg.old \in Nat /\ Len(dest) \in Nat /\ Len(dest') \in Nat
      BY <3>3, ArgFacts DEF Types
    <3> QED
      BY <1>0, <2>2, <2>4, <3>1, <3>3, <3>4 DEF Types
  <2> QED
    BY <1>14, <2>3, <2>4 DEF wr_discontig_the_better_SGIO_way
<1> QED
  BY <1>1, <1>2, <1>3, <1>4, <1>5, <1>6, <1>7, <1>8, <1>9, <1>10, <1>11, <1>12, <1>13, <1>14
     DEF Next, MainStep, CopyStep

-----------------------------------------------------------------------------
(* The destination                                                         *)

\* Bytes that are written at their own offset do no harm: those of the
\* destination that are right stay so.
LEMMA CleanWrite ==
  ASSUME Types, arg' = arg, NEW at \in Nat, NEW bytes \in Seq(Int),
         \A i \in 1 .. Len(bytes) : bytes[i] = at + i,
         at + Len(bytes) <= arg.fsize,
         dest' = WriteAt(dest, at, bytes)
  PROVE  /\ RightDest => RightDest'
         /\ \A i \in Nat \ {0} : i <= Len(dest) /\ dest[i] = i => i <= Len(dest') /\ dest'[i] = i
         /\ \A i \in at + 1 .. at + Len(bytes) : i <= Len(dest') /\ dest'[i] = i
<1> DEFINE end == at + Len(bytes)
<1>1. /\ dest \in Seq(Int) /\ Len(dest) \in Nat /\ Len(bytes) \in Nat /\ end \in Nat
      /\ arg.fsize \in Nat /\ arg.old \in Nat /\ arg.old <= Len(dest) /\ end <= arg.fsize
  BY ArgFacts DEF Types
<1>2. /\ Len(dest') = IF Len(dest) > end THEN Len(dest) ELSE end
      /\ \A i \in 1 .. Len(dest') :
           dest'[i] = IF i \in at + 1 .. end THEN bytes[i - at]
                      ELSE IF i <= Len(dest) THEN dest[i] ELSE Hole
  BY <1>1, WriteAtFacts, SMTT(20)
<1>3. ASSUME NEW i \in at + 1 .. end PROVE i <= Len(dest') /\ dest'[i] = i
  <2>1. i \in 1 .. Len(dest') /\ i - at \in 1 .. Len(bytes)
    BY <1>1, <1>2
  <2>2. bytes[i - at] = at + (i - at)
    BY <2>1
  <2> QED
    BY <1>1, <1>2, <2>1, <2>2
<1>4. ASSUME NEW i \in Nat \ {0}, i <= Len(dest), dest[i] = i
      PROVE  i <= Len(dest') /\ dest'[i] = i
  <2>1. i \in 1 .. Len(dest')
    BY <1>1, <1>2, <1>4
  <2>2. CASE i \in at + 1 .. end
    BY <1>3, <2>2
  <2>3. CASE i \notin at + 1 .. end
    BY <1>2, <1>4, <2>1, <2>3
  <2> QED
    BY <2>2, <2>3
<1>5. ASSUME RightDest PROVE RightDest'
  <2>1. Len(dest') <= arg.fsize \/ Len(dest') <= arg.old
    BY <1>1, <1>2, <1>5 DEF RightDest
  <2>2. ASSUME NEW i \in 1 .. Len(dest') PROVE RightByte(i, dest'[i])
    <3>1. CASE i \in at + 1 .. end
      BY <1>1, <1>3, <3>1 DEF RightByte
    <3>2. CASE i \notin at + 1 .. end /\ i <= Len(dest)
      <4>1. i \in 1 .. Len(dest) /\ dest'[i] = dest[i]
        BY <1>1, <1>2, <3>2
      <4> QED
        BY <1>5, <4>1 DEF RightDest
    <3>3. CASE i \notin at + 1 .. end /\ ~(i <= Len(dest))
      <4>1. dest'[i] = Hole /\ ~(i <= arg.old)
        BY <1>1, <1>2, <3>3
      <4> QED
        BY <4>1 DEF RightByte
    <3> QED
      BY <3>1, <3>2, <3>3
  <2>3. (\A i \in 1 .. Len(dest) : RightByte(i, dest[i]))'
    BY <2>2 DEF RightByte
  <2> QED
    BY <2>1, <2>3 DEF RightDest
<1> QED
  BY <1>3, <1>4, <1>5

\* As long as the destination is not written to.
LEMMA DestFrame ==
  ASSUME UNCHANGED <<arg, dest>>
  PROVE  RightDest' <=> RightDest
  BY DEF RightDest, RightByte

-----------------------------------------------------------------------------
(* simpcp1.c and simpcp2.c                                                 *)

\* The steps these programs take.
LEMMA SimpleActions ==
  ASSUME CopyInv, Simple, Next
  PROVE  \/ Open \/ OpenFails \/ Malloc(0) \/ Read(0) \/ EndOfFile(0) \/ Write(0)
         \/ MallocFails(0) \/ IOFails(0)
<1>1. SimpleControl
  BY DEF CopyInv, SimpleInv
<1>2. CASE MainStep
  BY <1>1, <1>2 DEF MainStep, CreateWorker, CreateFails, JoinWorker, setup_buffers_goto, OpenLayout,
       wr_discontig_the_normal_way, wr_discontig_the_better_SGIO_way, CloseLayout,
       At, SimpleControl, Simple, Layouts
<1>3. ASSUME NEW a \in Actors, CopyStep(a) \/ MallocFails(a) \/ IOFails(a) PROVE a = 0
  BY <1>1, <1>3 DEF CopyStep, MallocFails, IOFails, Malloc, Read, EndOfFile, Write, At, SimpleControl
<1> QED
  BY <1>2, <1>3 DEF Next, CopyStep

\* What a step leaves as it was when the files and main's variables are left alone.
LEMMA SimpleFrame ==
  ASSUME UNCHANGED <<arg, dest, pos, shorts>>
  PROVE  /\ Unharmed' <=> Unharmed
         /\ Misread' <=> Misread
         /\ Copied(1, pos.dest)' <=> Copied(1, pos.dest)
         /\ RightDest' <=> RightDest
  BY DestFrame DEF Unharmed, Misread, ShortOf, Copied

\* A step of docopy reads the next bytes, or finds the end of the file.
LEMMA SimpleRead ==
  ASSUME CopyInv, Simple, Read(0)
  PROVE  SimpleInv'
<1> DEFINE n == Smaller(BufSize(0), arg.fsize - SrcOffset(0))
           r == w[0]
<1>0. /\ Types /\ SimpleControl /\ SimpleCounts /\ SimpleData /\ ~MT /\ 0 \in Actors
      /\ r.pc = "read" /\ exit = "no" /\ UNCHANGED <<arg, dest, heap, failed, exit>>
  BY ArgFacts, ActorFacts DEF CopyInv, SimpleInv, Read, At, Types
<1>1. /\ pos.src \in 0 .. arg.fsize /\ pos.dest \in Nat /\ arg.fsize \in Nat /\ BlkSize \in Nat \ {0}
      /\ BufSize(0) = BlkSize /\ SrcOffset(0) = pos.src
      /\ pos \in [src : 0 .. arg.fsize, dest : Nat]
  BY <1>0, ArgFacts, FileCopyConstants DEF Types, BufSize, SrcOffset
<1>2. /\ n \in Nat /\ n <= BlkSize /\ n <= arg.fsize - pos.src
      /\ n = BlkSize \/ n = arg.fsize - pos.src
  BY <1>1 DEF Smaller
<1>3. PICK k \in Transfers(n) :
        /\ Transferred(k, n, "read")
        /\ pos' = IF MT THEN pos ELSE [pos EXCEPT !.src = @ + k]
        /\ w' = ReadLoop(0, k)
  BY DEF Read
<1> HIDE DEF n
<1>4. /\ k \in 0 .. n /\ (k = 0 => n = 0)
      /\ ShortOf("read")' <=> ShortOf("read") \/ k # n
      /\ ShortOf("write")' <=> ShortOf("write")
  BY <1>0, <1>2, <1>3, TransferFacts DEF Types
<1>5. k \in Nat /\ pos'.src = pos.src + k /\ pos'.dest = pos.dest
  BY <1>0, <1>1, <1>2, <1>3, <1>4
<1>6. /\ w' \in [Actors -> ActorType] /\ Others(0)
      /\ w'[0].last = r.last /\ w'[0].buf = Buffered(0, k)
      /\ IF arg.prog # "simpcp1" /\ k # 0 /\ r.tr + k < BufSize(0)
         THEN w'[0].pc = r.pc /\ w'[0].tr = r.tr + k /\ w'[0].nr = r.nr
         ELSE w'[0].pc = "write" /\ w'[0].tr = 0 /\ w'[0].nr = r.tr + k
  BY <1>0, <1>1, <1>3, <1>5, ReadFacts
<1>7. /\ Len(w'[0].buf) = Len(r.buf) /\ Len(r.buf) = BlkSize
      /\ \A i \in 1 .. BlkSize : w'[0].buf[i] = IF i <= k THEN pos.src + i ELSE r.buf[i]
  <2>1. Len(r.buf) = BlkSize /\ SrcOffset(0) \in Nat
    BY <1>0, <1>1 DEF SimpleCounts
  <2>2. /\ Len(Buffered(0, k)) = Len(r.buf)
        /\ \A i \in 1 .. Len(r.buf) :
             Buffered(0, k)[i] = IF i <= k THEN SrcOffset(0) + i ELSE r.buf[i]
    BY <1>0, <1>5, <2>1, BufferedFacts
  <2> QED
    BY <1>1, <1>6, <2>1, <2>2
<1>8. r.tr \in Nat /\ r.nr \in Nat
  BY <1>0, ActorFields DEF Types
<1>9. SimpleControl'
  <2>1. \A a \in Actors \ {0} : w'[a] = w[a]
    BY <1>6 DEF Others
  <2> QED
    BY <1>0, <1>6, <2>1 DEF SimpleControl
<1>10. Misread' <=> Misread \/ (k # n /\ arg.prog # "simpcp1")
  BY <1>0, <1>4 DEF Misread
<1>11. SimpleCounts'
  <2>1. CASE arg.prog # "simpcp1" /\ k # 0 /\ r.tr + k < BufSize(0)
    <3>1. w'[0].pc = "read" /\ w'[0].tr = r.tr + k
      BY <1>0, <1>6, <2>1
    <3>2. \/ arg.prog = "simpcp2" /\ pos'.src = arg.fsize /\ w'[0].tr <= BlkSize
          \/ Misread'
      BY <1>0, <1>1, <1>2, <1>4, <1>5, <1>8, <1>10, <2>1, <3>1 DEF SimpleCounts, Simple
    <3> QED
      BY <1>0, <1>7, <3>1, <3>2 DEF SimpleCounts
  <2>2. CASE ~(arg.prog # "simpcp1" /\ k # 0 /\ r.tr + k < BufSize(0))
    <3>1. w'[0].pc = "write" /\ w'[0].nr = r.tr + k /\ w'[0].tr = 0
      BY <1>6, <2>2
    <3>2. w'[0].nr <= BlkSize \/ Misread'
      <4>1. k <= BlkSize /\ (pos.src = arg.fsize => k = 0)
        BY <1>1, <1>2, <1>4
      <4>2. r.tr = 0 \/ (pos.src = arg.fsize /\ r.tr <= BlkSize) \/ Misread
        BY <1>0 DEF SimpleCounts
      <4> QED
        BY <1>1, <1>5, <1>8, <1>10, <3>1, <4>1, <4>2
    <3>3. w'[0].nr = 0 => pos'.src = arg.fsize
      <4>1. w'[0].nr = 0 => k = 0
        BY <1>5, <1>8, <3>1
      <4>2. n = 0 => pos.src = arg.fsize
        BY <1>1, <1>2
      <4> QED
        BY <1>1, <1>4, <1>5, <4>1, <4>2
    <3> QED
      BY <1>0, <1>7, <3>1, <3>2, <3>3 DEF SimpleCounts
  <2> QED
    BY <2>1, <2>2
<1>12. ASSUME Unharmed' PROVE Unharmed /\ ~Misread /\ ~Misread'
  BY <1>0, <1>4, <1>10, <1>12 DEF Unharmed, Misread
<1>13. SimpleData'
  <2> SUFFICES ASSUME Unharmed'
               PROVE  /\ (pos.dest + Pending = pos.src)'
                      /\ (\A i \in 1 .. Pending : w[0].buf[i] = pos.dest + i)'
                      /\ RightDest' /\ Copied(1, pos.dest)'
    BY <1>0 DEF SimpleData
  <2>1. /\ pos.dest + r.tr = pos.src /\ \A i \in 1 .. r.tr : r.buf[i] = pos.dest + i
        /\ RightDest /\ Copied(1, pos.dest)
    BY <1>0, <1>12 DEF SimpleData, Pending
  <2>2. Pending' = r.tr + k
    BY <1>0, <1>6 DEF Pending
  <2>3. r.tr = 0 \/ (k = 0 /\ r.tr <= BlkSize)
    BY <1>0, <1>1, <1>2, <1>4, <1>12, <1>8 DEF SimpleCounts
  <2>4. ASSUME NEW i \in 1 .. r.tr + k PROVE w'[0].buf[i] = pos.dest + i
    <3>1. i \in 1 .. BlkSize
      BY <1>1, <1>2, <1>4, <1>5, <1>8, <2>3
    <3> QED
      BY <1>1, <1>5, <1>7, <1>8, <2>1, <2>3, <3>1
  <2>5. RightDest' /\ Copied(1, pos.dest)'
    BY <1>0, <1>5, <2>1, DestFrame DEF Copied
  <2> QED
    BY <1>1, <1>5, <1>8, <2>1, <2>2, <2>4, <2>5
<1> QED
  BY <1>9, <1>11, <1>13 DEF SimpleInv

\* A step of docopy writes what has been read, from the start of the buffer.
LEMMA SimpleWrite ==
  ASSUME CopyInv, Simple, Write(0)
  PROVE  SimpleInv'
<1> DEFINE r == w[0]
           n == w[0].nr
<1>0. /\ Types /\ SimpleControl /\ SimpleCounts /\ SimpleData /\ ~MT /\ 0 \in Actors
      /\ r.pc = "write" /\ exit = "no" /\ n > 0 /\ arg' = arg
  BY ArgFacts, ActorFacts DEF CopyInv, SimpleInv, Write, At, Types
<1>1. /\ pos.src \in 0 .. arg.fsize /\ pos.dest \in Nat /\ arg.fsize \in Nat /\ BlkSize \in Nat \ {0}
      /\ DestOffset(0) = pos.dest /\ pos \in [src : 0 .. arg.fsize, dest : Nat]
  BY <1>0, ArgFacts, FileCopyConstants DEF Types, DestOffset
<1>2. r \in ActorType /\ r.tr = 0 /\ n \in Nat /\ r.tw \in Nat /\ Len(r.buf) = BlkSize
  BY <1>0, ActorFields DEF Types, SimpleCounts
<1>3. PICK k \in Transfers(n) :
        /\ Transferred(k, n, "write")
        /\ dest' = WriteAt(dest, DestOffset(0), Given(0, k))
        /\ pos' = IF MT THEN pos ELSE [pos EXCEPT !.dest = @ + k]
        /\ WriteLoop(0, k)
  BY DEF Write
<1> HIDE DEF n, r
<1>4. /\ k \in 0 .. n /\ (k = 0 => n = 0)
      /\ ShortOf("read")' <=> ShortOf("read")
      /\ ShortOf("write")' <=> ShortOf("write") \/ k # n
  BY <1>0, <1>2, <1>3, TransferFacts DEF Types
<1>5. k \in Nat /\ pos'.src = pos.src /\ pos'.dest = pos.dest + k
  BY <1>0, <1>1, <1>2, <1>3, <1>4
<1>6. /\ UNCHANGED <<heap, failed, exit>> /\ Others(0)
      /\ \/ /\ arg.prog # "simpcp1" /\ r.tw + k < n
            /\ w'[0] = [r EXCEPT !.tw = @ + k]
         \/ w'[0] = [r EXCEPT !.pc = "read"]
  <2>1. CASE arg.prog # "simpcp1" /\ r.tw + k < n
    <3>1. w' = [w EXCEPT ![0].tw = @ + k] /\ UNCHANGED <<heap, failed, exit>>
      BY <1>3, <2>1 DEF WriteLoop, r, n
    <3> QED
      BY <1>0, <2>1, <3>1 DEF Types, Others, r
  <2>2. CASE ~(arg.prog # "simpcp1" /\ r.tw + k < n)
    <3>1. Become(0, "read") /\ UNCHANGED <<heap, failed, exit>>
      BY <1>0, <1>3, <2>2 DEF WriteLoop, r, n
    <3> QED
      BY <1>0, <3>1 DEF Types, Others, r, Become
  <2> QED
    BY <2>1, <2>2
<1>7. /\ w'[0].last = r.last /\ w'[0].buf = r.buf /\ w'[0].nr = n /\ w'[0].tr = 0
      /\ w'[0].pc = "read" \/ (w'[0].pc = "write" /\ k # n)
  <2>1. r.pc = "write" /\ n = r.nr /\ r.tw + k < n => k # n
    BY <1>0, <1>2, <1>5 DEF n, r
  <2>2. r.pc = "write" /\ n = r.nr
    BY <1>0 DEF n, r
  <2>3. CASE r.tw + k < n /\ w'[0] = [r EXCEPT !.tw = @ + k]
    BY <1>2, <2>1, <2>2, <2>3 DEF ActorType
  <2>4. CASE w'[0] = [r EXCEPT !.pc = "read"]
    BY <1>2, <2>2, <2>4 DEF ActorType
  <2> QED
    BY <1>6, <2>3, <2>4
<1>8. SimpleControl'
  <2>1. \A a \in Actors \ {0} : w'[a] = w[a]
    BY <1>6 DEF Others
  <2> QED
    BY <1>0, <1>6, <1>7, <2>1 DEF SimpleControl, r
<1>9. SimpleCounts'
  <2>1. Misread' <=> Misread
    BY <1>0, <1>4 DEF Misread
  <2>2. n # 0
    BY <1>0, <1>2
  <2> QED
    BY <1>0, <1>2, <1>5, <1>7, <2>1, <2>2 DEF SimpleCounts, n, r
<1>10. SimpleData'
  <2> SUFFICES ASSUME Unharmed'
               PROVE  /\ (pos.dest + Pending = pos.src)'
                      /\ (\A i \in 1 .. Pending : w[0].buf[i] = pos.dest + i)'
                      /\ RightDest' /\ Copied(1, pos.dest)'
    BY <1>0, <1>6 DEF SimpleData
  <2>1. Unharmed /\ k = n /\ ~Misread
    BY <1>0, <1>4 DEF Unharmed, Misread
  <2>2. /\ pos.dest + n = pos.src /\ \A i \in 1 .. n : r.buf[i] = pos.dest + i
        /\ RightDest /\ Copied(1, pos.dest)
    BY <1>0, <2>1 DEF SimpleData, Pending, n, r
  <2>3. n <= BlkSize
    BY <1>0, <2>1 DEF SimpleCounts, n, r
  <2>4. Pending' = 0
    BY <1>7, <2>1 DEF Pending
  <2> DEFINE bytes == Given(0, k)
  <2>5. /\ bytes \in Seq(Int) /\ Len(bytes) = k
        /\ \A i \in 1 .. k : i <= Len(r.buf) => bytes[i] = r.buf[i]
    BY <1>0, <1>5, GivenFacts DEF r
  <2> HIDE DEF bytes
  <2>6. \A i \in 1 .. Len(bytes) : bytes[i] = pos.dest + i
    <3> SUFFICES ASSUME NEW i \in 1 .. k PROVE bytes[i] = pos.dest + i
      BY <2>5
    <3>1. i <= Len(r.buf) /\ i \in 1 .. n
      BY <1>1, <1>2, <2>1, <2>3
    <3> QED
      BY <2>2, <2>5, <3>1
  <2>7. pos.dest + Len(bytes) <= arg.fsize /\ dest' = WriteAt(dest, pos.dest, bytes)
    BY <1>1, <1>3, <2>1, <2>2, <2>5 DEF bytes
  <2>8. /\ RightDest => RightDest'
        /\ \A i \in Nat \ {0} : i <= Len(dest) /\ dest[i] = i => i <= Len(dest') /\ dest'[i] = i
        /\ \A i \in pos.dest + 1 .. pos.dest + k : i <= Len(dest') /\ dest'[i] = i
    BY <1>0, <1>1, <2>5, <2>6, <2>7, CleanWrite
  <2>9. \A i \in 1 .. pos'.dest : i <= Len(dest') /\ dest'[i] = i
    BY <1>1, <1>5, <2>2, <2>8 DEF Copied
  <2> QED
    BY <1>1, <1>2, <1>5, <2>1, <2>2, <2>4, <2>8, <2>9 DEF Copied
<1> QED
  BY <1>8, <1>9, <1>10 DEF SimpleInv

\* Every step of simpcp1.c and simpcp2.c keeps their part of the invariant.
LEMMA SimpleStep ==
  ASSUME CopyInv, Simple, [Next]_vars
  PROVE  SimpleInv'
<1>0. /\ Types /\ SimpleControl /\ SimpleCounts /\ SimpleData /\ ~MT /\ 0 \in Actors
      /\ w \in [Actors -> ActorType] /\ w[0] \in ActorType
  BY ArgFacts, ActorFacts DEF CopyInv, SimpleInv, Types
<1>1. CASE UNCHANGED vars
  BY <1>0, <1>1, SimpleFrame DEF vars, SimpleInv, SimpleControl, SimpleCounts, SimpleData, Pending
<1>2. CASE Open
  <2>1. Become(0, "malloc") /\ UNCHANGED <<arg, dest, pos, heap, shorts, failed, exit>>
    BY <1>0, <1>2 DEF Open
  <2>2. "malloc" \in PCs
    BY DEF PCs
  <2>3. Others(0) /\ w'[0] = [w[0] EXCEPT !.pc = "malloc"]
    BY <1>0, <2>1, <2>2, BecomeFacts
  <2>4. w'[0].pc = "malloc" /\ w'[0].tr = w[0].tr /\ w'[0].last = w[0].last /\ w[0].pc = "open"
    BY <1>0, <1>2, <2>3 DEF ActorType, Open, At
  <2>5. SimpleControl'
    BY <1>0, <2>1, <2>3, <2>4 DEF SimpleControl, Others
  <2>6. SimpleCounts'
    BY <1>0, <2>1, <2>4 DEF SimpleCounts
  <2>7. Pending' = Pending
    BY <2>4 DEF Pending
  <2>8. SimpleData'
    BY <1>0, <2>1, <2>4, <2>7, SimpleFrame DEF SimpleData
  <2> QED
    BY <2>5, <2>6, <2>8 DEF SimpleInv
<1>3. CASE Malloc(0)
  <2>1. /\ Others(0) /\ w'[0].pc = "read" /\ w'[0].last = w[0].last /\ w'[0].tr = w[0].tr
        /\ Len(w'[0].buf) = BlkSize /\ heap' = heap \cup {Buf(0)}
        /\ w[0].pc = "malloc" /\ exit = "no"
        /\ UNCHANGED <<arg, dest, pos, shorts, failed, exit>>
    BY <1>0, <1>3, MallocFacts DEF BufSize, Malloc, At
  <2>2. Buf(0) = <<0, FALSE>>
    BY <1>0, ActorFields DEF Buf, SimpleControl
  <2>3. SimpleControl'
    BY <1>0, <2>1, <2>2 DEF SimpleControl, Others
  <2>4. SimpleCounts'
    BY <1>0, <2>1 DEF SimpleCounts
  <2>5. Pending' = 0 /\ Pending = 0 /\ w[0].tr = 0
    BY <1>0, <2>1 DEF Pending, SimpleCounts
  <2>6. SimpleData'
    BY <1>0, <2>1, <2>5, SimpleFrame DEF SimpleData
  <2> QED
    BY <2>3, <2>4, <2>6 DEF SimpleInv
<1>4. CASE EndOfFile(0)
  <2>1. /\ w[0].pc = "write" /\ w[0].nr = 0 /\ exit = "no" /\ heap' = heap \ {Buf(0)}
        /\ failed' = failed /\ exit' = "success" /\ UNCHANGED <<arg, dest, pos, shorts, w>>
    BY <1>0, <1>4 DEF EndOfFile, At, EndCopy
  <2>2. Buf(0) = <<0, FALSE>>
    BY <1>0, ActorFields DEF Buf, SimpleControl
  <2>3. SimpleControl'
    BY <1>0, <2>1, <2>2 DEF SimpleControl
  <2>4. SimpleCounts'
    BY <1>0, <2>1, SimpleFrame DEF SimpleCounts
  <2>5. Pending' = Pending /\ Pending = 0 /\ pos.src = arg.fsize /\ pos.dest \in Nat
    BY <1>0, <2>1 DEF Pending, SimpleCounts, Types
  <2>6. SimpleData'
    BY <1>0, <2>1, <2>5, SimpleFrame DEF SimpleData
  <2> QED
    BY <2>3, <2>4, <2>6 DEF SimpleInv
<1>5. CASE OpenFails \/ MallocFails(0) \/ IOFails(0)
  <2>1. /\ heap' = heap \/ heap' = heap \ {Buf(0)}
        /\ w[0].pc \notin {"open", "malloc"} => heap' = heap \ {Buf(0)}
        /\ exit' = "failure" /\ exit = "no" /\ UNCHANGED <<arg, dest, pos, shorts, w>>
    BY <1>0, <1>5 DEF OpenFails, MallocFails, IOFails, At, EndCopy, Fails
  <2>2. Buf(0) = <<0, FALSE>>
    BY <1>0, ActorFields DEF Buf, SimpleControl
  <2>3. SimpleControl'
    BY <1>0, <2>1, <2>2 DEF SimpleControl
  <2>4. SimpleCounts'
    BY <1>0, <2>1, SimpleFrame DEF SimpleCounts
  <2>5. Pending' = Pending
    BY <2>1 DEF Pending
  <2>6. SimpleData'
    BY <1>0, <2>1, <2>5, SimpleFrame DEF SimpleData
  <2> QED
    BY <2>3, <2>4, <2>6 DEF SimpleInv
<1> QED
  BY <1>1, <1>2, <1>3, <1>4, <1>5, SimpleActions, SimpleRead, SimpleWrite

-----------------------------------------------------------------------------
(* sgio_simple.c                                                           *)

\* The pieces of the iovec one behind the other are the layout of the file.
LEMMA IovecLayout ==
  /\ iovec \in Seq(Int) /\ Len(iovec) = 11
  /\ iovec = [k \in 1 .. LayoutLen(3) |-> LayoutByte(k)]
<1>1. iovec \in Seq(Int) /\ Len(iovec) = 11
  BY DEF iovec, Fill, Hole, Content, HOLE_LEN, DATA_LEN
<1>2. LayoutLen(3) = 11
  BY DEF LayoutLen
<1>3. ASSUME NEW k \in 1 .. 11 PROVE iovec[k] = LayoutByte(k)
  BY DEF iovec, Fill, Hole, Content, HOLE_LEN, DATA_LEN, LayoutByte
<1>4. iovec = [k \in 1 .. 11 |-> iovec[k]]
  BY <1>1, LenProperties
<1> QED
  BY <1>1, <1>2, <1>3, <1>4

\* Each lseek and write adds a hole and the next data to the layout.
LEMMA LaidOneMore ==
  ASSUME NEW i \in 1 .. 3, Laid(i - 1),
         dest' = WriteAt(dest, START_OFF(i), Fill(Content[i], DATA_LEN[i]))
  PROVE  Laid(i)'
<1>1. CASE i = 1
  BY <1>1 DEF Laid, LayoutLen, LayoutByte, WriteAt, START_OFF, Fill, Content, DATA_LEN, HOLE_LEN, Hole
<1>2. CASE i = 2
  BY <1>2 DEF Laid, LayoutLen, LayoutByte, WriteAt, START_OFF, Fill, Content, DATA_LEN, HOLE_LEN, Hole
<1>3. CASE i = 3
  BY <1>3 DEF Laid, LayoutLen, LayoutByte, WriteAt, START_OFF, Fill, Content, DATA_LEN, HOLE_LEN, Hole
<1> QED
  BY <1>1, <1>2, <1>3

\* The steps this program takes.
LEMMA LayoutActions ==
  ASSUME CopyInv, Layout, Next
  PROVE  \/ setup_buffers_goto \/ OpenLayout \/ wr_discontig_the_normal_way
         \/ wr_discontig_the_better_SGIO_way \/ CloseLayout
<1>1. LayoutControl
  BY DEF CopyInv, LayoutInv
<1>2. CASE MainStep
  BY <1>1, <1>2 DEF MainStep, Open, OpenFails, CreateWorker, CreateFails, JoinWorker,
       At, LayoutControl, Layout, Layouts, Copiers
<1>3. ASSUME NEW a \in Actors, CopyStep(a) \/ MallocFails(a) \/ IOFails(a) PROVE FALSE
  BY <1>1, <1>3 DEF CopyStep, MallocFails, IOFails, Malloc, Read, EndOfFile, Write, At,
       LayoutControl, Layout, Layouts
<1> QED
  BY <1>2, <1>3 DEF Next

\* Every step of sgio_simple.c keeps its part of the invariant.
LEMMA LayoutStep ==
  ASSUME CopyInv, Layout, [Next]_vars
  PROVE  LayoutInv'
<1>0. /\ Types /\ LayoutControl /\ LayoutHeap /\ LayoutData /\ 0 \in Actors
      /\ w \in [Actors -> ActorType] /\ w[0] \in ActorType /\ arg.prog \in Layouts /\ w[0].i \in Nat
  BY ActorFacts, ActorFields DEF CopyInv, LayoutInv, Types, Layout
<1>1. CASE UNCHANGED vars
  BY <1>0, <1>1 DEF vars, LayoutInv, LayoutControl, LayoutHeap, LayoutData, Laid
<1>2. CASE setup_buffers_goto
  <2>0. w[0].pc = "open" /\ exit = "no" /\ w[0].i < 4 /\ UNCHANGED <<arg, dest, pos, shorts>>
    BY <1>2 DEF setup_buffers_goto, At
  <2>1. CASE /\ heap' = heap \cup {BufNames[w[0].i + 1]}
             /\ w' = [w EXCEPT ![0].i = @ + 1]
             /\ UNCHANGED <<failed, exit>>
    <3>1. w'[0].pc = "open" /\ w'[0].i = w[0].i + 1 /\ \A a \in Actors \ {0} : w'[a] = w[a]
      BY <1>0, <2>0, <2>1 DEF ActorType
    <3>2. LayoutControl'
      BY <1>0, <2>0, <2>1, <3>1 DEF LayoutControl
    <3>3. LayoutHeap'
      BY <1>0, <2>0, <2>1, <3>1 DEF LayoutHeap
    <3>4. LayoutData'
      BY <1>0, <2>0, <2>1, <3>1 DEF LayoutData, Laid
    <3> QED
      BY <3>2, <3>3, <3>4 DEF LayoutInv
  <2>2. CASE heap' = heap \ {BufNames[k] : k \in 1 .. w[0].i} /\ Fails(0) /\ UNCHANGED w
    BY <1>0, <2>0, <2>2 DEF LayoutInv, LayoutControl, LayoutHeap, LayoutData, Laid, Fails
  <2> QED
    BY <1>2, <2>1, <2>2 DEF setup_buffers_goto
<1>3. CASE OpenLayout
  <2>0. w[0].pc = "open" /\ exit = "no" /\ w[0].i = 4 /\ UNCHANGED <<arg, dest, pos, heap, shorts>>
    BY <1>3 DEF OpenLayout, At
  <2>1. CASE w' = [w EXCEPT ![0].pc = arg.prog, ![0].i = 1] /\ UNCHANGED <<failed, exit>>
    <3>1. w'[0].pc = arg.prog /\ w'[0].i = 1 /\ \A a \in Actors \ {0} : w'[a] = w[a]
      BY <1>0, <2>0, <2>1 DEF ActorType
    <3>2. LayoutControl'
      BY <1>0, <2>0, <2>1, <3>1 DEF LayoutControl
    <3>3. LayoutHeap'
      BY <1>0, <2>0, <2>1, <3>1 DEF LayoutHeap, Layouts
    <3>4. LayoutData'
      BY <1>0, <2>0, <2>1, <3>1 DEF LayoutData, Laid, Layouts
    <3> QED
      BY <3>2, <3>3, <3>4 DEF LayoutInv
  <2>2. CASE Fails(0) /\ UNCHANGED w
    BY <1>0, <2>0, <2>2 DEF LayoutInv, LayoutControl, LayoutHeap, LayoutData, Laid, Fails
  <2> QED
    BY <1>3, <2>1, <2>2 DEF OpenLayout
<1>4. ASSUME NEW n \in Nat, NEW k \in Transfers(n), Transferred(k, n, "write")
      PROVE  shorts' = <<>> => shorts = <<>> /\ k = n
  <2>1. shorts \in Seq({"read", "write"})
    BY <1>0 DEF Types
  <2>2. Append(shorts, "write") # <<>>
    BY <2>1
  <2> QED
    BY <1>4, <2>2 DEF Transferred
<1>5. CASE wr_discontig_the_normal_way
  <2> DEFINE i == w[0].i
             n == DATA_LEN[i]
  <2>0. /\ w[0].pc = "sgio_normal" /\ arg.prog = "sgio_normal" /\ exit = "no" /\ i \in 1 .. 3
        /\ UNCHANGED <<arg, pos, heap>> /\ n \in Nat
    BY <1>0, <1>5 DEF wr_discontig_the_normal_way, At, LayoutControl, Layouts, DATA_LEN
  <2>1. ASSUME NEW k \in Transfers(n), Transferred(k, n, "write"),
               dest' = WriteAt(dest, START_OFF(i), Fill(Content[i], k)),
               w' = [w EXCEPT ![0].i = i + 1, ![0].pc = IF i = 3 THEN "close" ELSE @],
               UNCHANGED <<failed, exit>>
        PROVE  LayoutInv'
    <3>1. /\ w'[0].pc = IF i = 3 THEN "close" ELSE "sgio_normal"
          /\ w'[0].i = i + 1 /\ \A a \in Actors \ {0} : w'[a] = w[a]
      BY <1>0, <2>0, <2>1 DEF ActorType
    <3>2. LayoutControl'
      BY <1>0, <2>0, <2>1, <3>1 DEF LayoutControl
    <3>3. LayoutHeap'
      BY <1>0, <2>0, <2>1, <3>1 DEF LayoutHeap
    <3>4. ASSUME shorts' = <<>>, failed' = {} PROVE Laid(w[0].i - 1)'
      <4>1. shorts = <<>> /\ failed = {} /\ k = n
        BY <1>4, <2>0, <2>1, <3>4
      <4>2. Laid(i - 1)
        BY <1>0, <2>0, <4>1 DEF LayoutData
      <4>3. PICK j \in 1 .. 3 : j = i
        BY <2>0
      <4>4. Laid(j)'
        BY <2>1, <4>1, <4>2, <4>3, LaidOneMore
      <4> QED
        BY <2>0, <3>1, <4>3, <4>4 DEF Laid
    <3>5. LayoutData'
      BY <2>0, <3>1, <3>4 DEF LayoutData, Laid
    <3> QED
      BY <3>2, <3>3, <3>5 DEF LayoutInv
  <2>2. CASE Fails(0) /\ UNCHANGED <<dest, w, shorts>>
    BY <1>0, <2>0, <2>2 DEF LayoutInv, LayoutControl, LayoutHeap, LayoutData, Laid, Fails
  <2> QED
    BY <1>5, <2>1, <2>2 DEF wr_discontig_the_normal_way
<1>6. CASE wr_discontig_the_better_SGIO_way
  <2>0. /\ w[0].pc = "sgio_writev" /\ arg.prog = "sgio_writev" /\ exit = "no"
        /\ UNCHANGED <<arg, pos, heap, exit>>
        /\ w'[0].pc = "close" /\ \A a \in Actors \ {0} : w'[a] = w[a]
    BY <1>0, <1>6 DEF wr_discontig_the_better_SGIO_way, At, Become, LayoutControl, Layouts, ActorType
  <2>1. LayoutControl'
    BY <1>0, <2>0 DEF LayoutControl
  <2>2. LayoutHeap'
    BY <1>0, <2>0 DEF LayoutHeap
  <2>3. CASE failed' = {0}
    BY <2>1, <2>2, <2>3 DEF LayoutInv, LayoutData
  <2>4. ASSUME NEW k \in Transfers(Len(iovec)), Transferred(k, Len(iovec), "write"),
               dest' = WriteAt(dest, 0, SubSeq(iovec, 1, k)), UNCHANGED failed
        PROVE  LayoutData'
    <3> SUFFICES ASSUME shorts' = <<>>, failed' = {} PROVE Laid(3)'
      BY <2>0 DEF LayoutData
    <3>1. 11 \in Nat /\ Len(iovec) = 11 /\ iovec \in Seq(Int)
      BY IovecLayout
    <3>2. shorts = <<>> /\ failed = {} /\ k = 11
      BY <1>4, <2>4, <3>1
    <3>3. SubSeq(iovec, 1, k) = iovec
      BY <3>1, <3>2
    <3>4. dest = <<>>
      BY <1>0, <2>0, <3>2 DEF LayoutData, Laid, LayoutLen
    <3>5. WriteAt(<<>>, 0, iovec) = iovec
      BY <3>1, LenProperties DEF WriteAt
    <3> QED
      BY <2>4, <3>3, <3>4, <3>5, IovecLayout DEF Laid
  <2> QED
    BY <1>6, <2>1, <2>2, <2>3, <2>4 DEF wr_discontig_the_better_SGIO_way, LayoutInv
<1>7. CASE CloseLayout
  <2>1. {BufNames[k] : k \in 1 .. 4} \ {"gbufA", "gbufB", "gbufC"} = {"gbuf_hole"}
    BY DEF BufNames
  <2>2. heap' = {"gbuf_hole"}
    BY <1>0, <1>7, <2>1 DEF CloseLayout, At, LayoutHeap
  <2> QED
    BY <1>0, <1>7, <2>2 DEF CloseLayout, At, LayoutInv, LayoutControl, LayoutHeap, LayoutData, Laid
<1> QED
  BY <1>1, <1>2, <1>3, <1>5, <1>6, <1>7, LayoutActions

-----------------------------------------------------------------------------
(* mt_copy.c                                                               *)

\* The steps this program takes.
LEMMA ThreadActions ==
  ASSUME CopyInv, MT, Next
  PROVE  \/ Open \/ OpenFails \/ CreateWorker \/ CreateFails \/ JoinWorker
         \/ \E a \in Workers : CopyStep(a) \/ MallocFails(a) \/ IOFails(a)
<1>1. ThreadsControl
  BY DEF CopyInv, ThreadsInv
<1>2. CASE MainStep
  BY <1>1, <1>2 DEF MainStep, setup_buffers_goto, OpenLayout, wr_discontig_the_normal_way,
       wr_discontig_the_better_SGIO_way, CloseLayout, At, ThreadsControl, MT, Layouts
<1>3. ASSUME NEW a \in Actors, CopyStep(a) \/ MallocFails(a) \/ IOFails(a) PROVE a \in Workers
  BY <1>1, <1>3 DEF CopyStep, MallocFails, IOFails, Malloc, Read, EndOfFile, Write, At,
       ThreadsControl, Workers
<1> QED
  BY <1>2, <1>3 DEF Next

\* A right byte stays right, unless a read was short
Grows ==
    /\ arg' = arg /\ failed \subseteq failed'
    /\ ShortOf("read") => ShortOf("read")'
    /\ ShortOf("write") => ShortOf("write")'
    /\ ~ShortOf("read")' =>
         \A i \in Nat \ {0} : i <= Len(dest) /\ dest[i] = i => i <= Len(dest') /\ dest'[i] = i

ThreadPart(a) == Segment(a) /\ ThreadCounts(a) /\ ThreadData(a)

\* The numbers of the workers, and where their shares start and end.
LEMMA WorkerFacts ==
  ASSUME Types, NEW a \in Workers
  PROVE  /\ a \in Actors /\ a # 0 /\ a \in Nat \ {0} /\ a - 1 \in Nat
         /\ (a - 1) * Share \in Nat /\ a * Share \in Nat /\ ((a - 1) * Share) + Share = a * Share
         /\ arg.n * Share \in Nat
         /\ w[a] \in ActorType
<1>1. a \in Actors /\ a # 0 /\ a \in Nat \ {0} /\ a - 1 \in Nat /\ w[a] \in ActorType
  BY ActorFacts DEF Workers, Types
<1>2. Share \in Nat /\ arg.n \in Nat /\ arg.n - 1 \in Nat /\ arg.n - 1 < arg.n
  BY ShareFacts
<1>3. a - 1 < a /\ (a - 1) + 1 = a
  BY <1>1
<1>4. /\ (a - 1) * Share \in Nat /\ a * Share \in Nat
      /\ ((a - 1) + 1) * Share = ((a - 1) * Share) + Share
  BY <1>1, <1>2, <1>3, Multiples, Zenon
<1>5. arg.n * Share \in Nat
  BY <1>2, Multiples, Zenon
<1> QED
  BY <1>1, <1>3, <1>4, <1>5

\* A thread that does not step keeps its part of the invariant.
LEMMA OtherThread ==
  ASSUME Types, Grows, NEW b \in Workers, w'[b] = w[b], ThreadPart(b)
  PROVE  ThreadPart(b)'
<1>1. Share' = Share /\ Rest' = Rest /\ arg' = arg
  BY DEF Grows, Share, Rest
<1>2. Segment(b)'
  BY <1>1 DEF ThreadPart, Segment
<1>3. ThreadCounts(b)'
  BY DEF ThreadPart, ThreadCounts, Grows
<1>4. ASSUME ~ShortOf("read")', ~ShortOf("write")', b \notin failed'
      PROVE  /\ Finished(b)' => Copied((b - 1) * Share + 1, b * Share)'
             /\ (w[b].pc = "ended" /\ b = arg.n)' => Copied(arg.n * Share + 1, arg.fsize)'
  <2>1. ~ShortOf("read") /\ ~ShortOf("write") /\ b \notin failed
    BY <1>4 DEF Grows
  <2>2. /\ Finished(b) => Copied((b - 1) * Share + 1, b * Share)
        /\ w[b].pc = "ended" /\ b = arg.n => Copied(arg.n * Share + 1, arg.fsize)
    BY <2>1 DEF ThreadPart, ThreadData
  <2>3. \A i \in Nat \ {0} : i <= Len(dest) /\ dest[i] = i => i <= Len(dest') /\ dest'[i] = i
    BY <1>4 DEF Grows
  <2>4. Copied((b - 1) * Share + 1, b * Share) => Copied((b - 1) * Share + 1, b * Share)'
    BY <1>1, <2>3, WorkerFacts DEF Copied
  <2>5. Copied(arg.n * Share + 1, arg.fsize) => Copied(arg.n * Share + 1, arg.fsize)'
    <3>1. arg.n * Share \in Nat /\ arg.fsize \in Nat
      BY WorkerFacts, ShareFacts
    <3>2. \A i \in arg.n * Share + 1 .. arg.fsize : i \in Nat \ {0}
      BY <3>1
    <3> QED
      BY <1>1, <2>3, <3>2 DEF Copied
  <2> QED
    BY <1>1, <2>2, <2>4, <2>5 DEF Finished
<1>5. ThreadData(b)'
  BY <1>1, <1>4 DEF ThreadPart, ThreadData, Grows
<1> QED
  BY <1>2, <1>3, <1>5 DEF ThreadPart

\* A step of a worker leaves main's loops as they are.
LEMMA WorkerControl ==
  ASSUME Types, ThreadsControl, MT, NEW a \in Workers, Others(a), arg' = arg, exit' = exit,
         w[a].pc \in {"malloc", "read", "write"}, w'[a].pc \in {"malloc", "read", "write", "ended"}
  PROVE  ThreadsControl'
<1>1. 0 \in Actors /\ a # 0 /\ w'[0] = w[0] /\ \A b \in Workers : b # a => w'[b] = w[b]
  BY ActorFacts DEF Others, Workers
<1>2. Created' = Created
  BY <1>1 DEF Created
<1>3. w[0].pc = "join" => \A b \in 1 .. w[0].i : b # a
  BY DEF ThreadsControl
<1>4. w[0].pc = "join" => \A b \in 1 .. w[0].i : b \in Workers
  <2>1. w[0].i \in Nat /\ arg.n \in Nat /\ MaxThrds \in Nat /\ arg.n <= MaxThrds
    <3>1. w[0] \in ActorType /\ arg \in Args
      BY <1>1 DEF Types
    <3>2. w[0].i \in Nat
      BY <3>1, ActorFields
    <3> QED
      BY <3>1, <3>2, ActorFacts, ArgFacts
  <2>2. w[0].i < arg.n \/ w[0].i = arg.n
    BY Zenon DEF ThreadsControl
  <2> QED
    BY <2>1, <2>2, ActorFacts DEF Workers
<1>5. \A b \in Workers : /\ w'[b].pc \in {"none", "malloc", "read", "write", "ended"}
                         /\ w'[b].pc # "none" <=> b <= Created'
  BY <1>1, <1>2 DEF ThreadsControl
<1>6. w'[0].pc = "join" => \A b \in 1 .. w'[0].i : w'[b].pc = "ended"
  BY <1>1, <1>3, <1>4 DEF ThreadsControl
<1> QED
  BY <1>1, <1>5, <1>6 DEF ThreadsControl

\* A worker that has copied its segment, or has failed to, goes on.
LEMMA SegmentDone ==
  ASSUME Types, ThreadsInv, Grows, NEW a \in Workers, w[a].pc \in {"malloc", "read", "write"},
         w' = NextSegment(a),
         ~ShortOf("read")' /\ ~ShortOf("write")' /\ a \notin failed' =>
            \A i \in w[a].off + 1 .. w[a].off + w[a].len : i <= Len(dest') /\ dest'[i] = i
  PROVE  /\ ThreadPart(a)' /\ Others(a) /\ w'[a].pc \in {"malloc", "ended"}
<1> DEFINE r == w[a]
           Right(i) == i <= Len(dest') /\ dest'[i] = i
<1>0. /\ Share' = Share /\ Rest' = Rest /\ arg' = arg
      /\ Segment(a) /\ ThreadCounts(a) /\ ThreadData(a)
  BY DEF Grows, Share, Rest, ThreadsInv
<1>1. /\ a \in Actors /\ a \in Nat /\ a - 1 \in Nat /\ r \in ActorType
      /\ (a - 1) * Share \in Nat /\ a * Share \in Nat /\ ((a - 1) * Share) + Share = a * Share
      /\ arg.n * Share \in Nat
  BY WorkerFacts
<1>2. r.off \in Nat /\ r.len \in Nat /\ r.last \in BOOLEAN /\ r.tr \in Nat
  BY <1>1, ActorFields
<1>3. /\ Share \in Nat /\ Rest \in Nat /\ arg.n \in Nat \ {0}
      /\ arg.fsize \in Nat /\ arg.fsize = (arg.n * Share) + Rest
  BY ShareFacts
<1>n. a \in Nat /\ arg.n \in Nat
  BY WorkerFacts, ShareFacts
<1>4. /\ Others(a) /\ w'[a].i = r.i
      /\ ~Remains(a) => w'[a] = [r EXCEPT !.pc = "ended"]
      /\ Remains(a) => /\ w'[a].pc = "malloc" /\ w'[a].last = TRUE /\ w'[a].tr = 0
                       /\ w'[a].off = r.off + r.len /\ w'[a].len = Rest
  BY <1>1, NextSegmentFacts
<1>5. ~Remains(a) => /\ w'[a].pc = "ended" /\ w'[a].last = r.last /\ w'[a].off = r.off
                     /\ w'[a].len = r.len /\ w'[a].tr = r.tr
  BY <1>1, <1>4 DEF ActorType
<1>6. w'[a].pc \in {"malloc", "ended"}
  BY <1>4, <1>5
<1>7. /\ r.i = a - 1
      /\ ~r.last => r.off = (a - 1) * Share /\ r.len = Share
      /\ r.last => a = arg.n /\ r.off = arg.n * Share /\ r.len = Rest /\ Rest # 0
  BY <1>0 DEF Segment
<1>8. Remains(a) => a = arg.n /\ ~r.last /\ Rest # 0
  <2>1. Remains(a) => ~r.last /\ Rest # 0 /\ a - 1 = arg.n - 1
    BY <1>7, Zenon DEF Remains
  <2>2. a - 1 = arg.n - 1 => a = arg.n
    BY <1>n
  <2> QED
    BY <2>1, <2>2
<1>9. Segment(a)'
  <2>1. CASE Remains(a)
    BY <1>0, <1>1, <1>4, <1>7, <1>8, <2>1 DEF Segment
  <2>2. CASE ~Remains(a)
    BY <1>0, <1>4, <1>5, <1>7, <2>2 DEF Segment
  <2> QED
    BY <2>1, <2>2
<1>10. ThreadCounts(a)'
  BY <1>4, <1>5 DEF ThreadCounts
<1>11. ThreadData(a)'
  <2> SUFFICES ASSUME ~ShortOf("read")', ~ShortOf("write")', a \notin failed'
               PROVE  /\ Finished(a)' => Copied((a - 1) * Share + 1, a * Share)'
                      /\ (w[a].pc = "ended" /\ a = arg.n)' => Copied(arg.n * Share + 1, arg.fsize)'
    BY <1>6 DEF ThreadData
  <2>1. \A i \in r.off + 1 .. r.off + r.len : Right(i)
    OBVIOUS
  <2>2. \A i \in (a - 1) * Share + 1 .. a * Share : Right(i)
    <3>1. CASE ~r.last
      BY <1>1, <1>7, <2>1, <3>1
    <3>2. CASE r.last
      <4>1. ~ShortOf("read") /\ ~ShortOf("write") /\ a \notin failed
        BY DEF Grows
      <4>2. Copied((a - 1) * Share + 1, a * Share)
        BY <1>0, <3>2, <4>1 DEF ThreadData, Finished
      <4>3. \A i \in Nat \ {0} : i <= Len(dest) /\ dest[i] = i => Right(i)
        BY DEF Grows
      <4> QED
        BY <1>1, <4>2, <4>3 DEF Copied
    <3> QED
      BY <1>2, <3>1, <3>2
  <2>3. ASSUME w'[a].pc = "ended", a = arg.n
        PROVE  \A i \in arg.n * Share + 1 .. arg.fsize : Right(i)
    <3>1. ~Remains(a)
      BY <1>4, <2>3
    <3>2. CASE r.last
      BY <1>1, <1>3, <1>7, <2>1, <3>2
    <3>3. CASE ~r.last
      <4>1. Rest = 0
        BY <1>7, <2>3, <3>1, <3>3 DEF Remains
      <4>2. PICK x \in Nat : x = arg.n * Share
        BY <1>1
      <4>3. arg.fsize = x
        BY <1>3, <4>1, <4>2
      <4>4. x + 1 .. x = {}
        OBVIOUS
      <4> QED
        BY <4>2, <4>3, <4>4
    <3> QED
      BY <1>2, <3>2, <3>3
  <2> QED
    BY <1>0, <2>2, <2>3 DEF Copied
<1> QED
  BY <1>4, <1>6, <1>9, <1>10, <1>11 DEF ThreadPart

\* What is known of the actor and the state when a worker steps.
LEMMA WorkerSteps ==
  ASSUME CopyInv, MT, NEW a \in Workers, CopyStep(a) \/ MallocFails(a) \/ IOFails(a)
  PROVE  /\ Types /\ ThreadsInv /\ ThreadsControl /\ ThreadPart(a) /\ a \in Actors
         /\ w[a].pc \in {"malloc", "read", "write"} /\ a \in 1 .. arg.n
         /\ w[a] \in ActorType /\ w[a].off \in Nat /\ w[a].len \in Nat /\ w[a].tr \in Nat
         /\ w[a].nr \in Nat
<1>1. Types /\ ThreadsInv /\ ThreadsControl /\ ThreadPart(a) /\ a \in Actors
  BY DEF CopyInv, ThreadsInv, Workers, ThreadPart
<1>2. w[a].pc \in {"malloc", "read", "write"}
  BY DEF CopyStep, Malloc, Read, EndOfFile, Write, MallocFails, IOFails, At
<1>3. a \in 1 .. arg.n
  BY <1>1, <1>2, CreatedFacts
<1>4. w[a] \in ActorType
  BY <1>1 DEF Types
<1> QED
  BY <1>1, <1>2, <1>3, <1>4, ActorFields

\* What is left to show of a step of a worker.
LEMMA WorkerKeeps ==
  ASSUME CopyInv, MT, NEW a \in Workers, CopyStep(a) \/ MallocFails(a) \/ IOFails(a),
         Grows, Others(a), exit' = exit, ThreadPart(a)', ThreadsHeap',
         w'[a].pc \in {"malloc", "read", "write", "ended"},
         ~ShortOf("read")' => RightDest'
  PROVE  ThreadsInv'
<1>1. ThreadsControl'
  BY WorkerSteps, WorkerControl DEF Grows
<1>2. \A b \in Workers : ThreadPart(b)'
  <2> SUFFICES ASSUME NEW b \in Workers, b # a PROVE ThreadPart(b)'
    OBVIOUS
  <2>1. w'[b] = w[b] /\ ThreadPart(b) /\ Types
    BY WorkerSteps DEF Others, Workers, ThreadsInv, ThreadPart
  <2> QED
    BY <2>1, OtherThread
<1> QED
  BY <1>1, <1>2 DEF ThreadsInv, ThreadPart

\* A worker that goes on with the next segment, or ends, has freed its buffer,
\* or its share is nothing
HeapKept(a) ==
    \/ heap' = heap /\ w[a].pc = "malloc"
    \/ heap' = heap \ {Buf(a)}
    \/ heap' = heap /\ Buf(a) = <<a, FALSE>> /\ Share = 0
    \/ /\ heap' \subseteq heap \cup {Buf(a)}
       /\ w'[a].last = w[a].last /\ w'[a].pc \in {"read", "write"}

\* The buffers that are allocated after a step of a worker.
LEMMA HeapAfter ==
  ASSUME ThreadsHeap, arg' = arg, NEW a \in Workers, a <= arg.n, Others(a), HeapKept(a)
  PROVE  ThreadsHeap'
<1> USE DEF HeapKept
<1>1. Share' = Share
  BY DEF Share
<1> SUFFICES ASSUME NEW h \in heap'
             PROVE  \E b \in Workers :
                      /\ b <= arg.n
                      /\ \/ h = Buf(b)' /\ w'[b].pc \in {"read", "write"}
                         \/ h = <<b, FALSE>> /\ Share = 0
  BY <1>1 DEF ThreadsHeap
<1>2. CASE h \in heap
  <2>1. PICK b \in Workers :
          /\ b <= arg.n
          /\ \/ h = Buf(b) /\ w[b].pc \in {"read", "write"}
             \/ h = <<b, FALSE>> /\ Share = 0
    BY <1>2 DEF ThreadsHeap
  <2>2. CASE b # a
    <3>1. w'[b] = w[b] /\ Buf(b)' = Buf(b)
      BY <2>2 DEF Others, Workers, Buf
    <3> QED
      BY <2>1, <3>1
  <2>3. CASE b = a
    <3>1. CASE h = Buf(a) /\ w[a].pc \in {"read", "write"}
      <4>1. CASE heap' \subseteq heap \cup {Buf(a)} /\ w'[a].last = w[a].last
                 /\ w'[a].pc \in {"read", "write"}
        BY <2>1, <2>3, <3>1, <4>1 DEF Buf
      <4>2. CASE heap' = heap /\ Buf(a) = <<a, FALSE>> /\ Share = 0
        BY <2>1, <2>3, <3>1, <4>2
      <4> QED
        BY <3>1, <4>1, <4>2
    <3>2. CASE h = <<a, FALSE>> /\ Share = 0
      BY <2>1, <2>3, <3>2
    <3> QED
      BY <2>1, <2>3, <3>1, <3>2
  <2> QED
    BY <2>2, <2>3
<1>3. CASE h \notin heap
  <2>1. h = Buf(a) /\ w'[a].last = w[a].last /\ w'[a].pc \in {"read", "write"}
    BY <1>3
  <2> QED
    BY <2>1 DEF Buf
<1> QED
  BY <1>2, <1>3

\* A worker allocates its buffer.
LEMMA ThreadMalloc ==
  ASSUME CopyInv, MT, NEW a \in Workers, Malloc(a)
  PROVE  ThreadsInv'
<1>0. /\ Types /\ ThreadsInv /\ ThreadPart(a) /\ a \in Actors /\ a \in 1 .. arg.n
      /\ ThreadsHeap /\ arg.n \in Nat
  BY WorkerSteps, ShareFacts DEF CopyStep, ThreadsInv
<1>1. /\ Others(a) /\ w'[a].pc = "read" /\ w'[a].i = w[a].i /\ w'[a].off = w[a].off
      /\ w'[a].len = w[a].len /\ w'[a].last = w[a].last /\ w'[a].tr = w[a].tr
      /\ Len(w'[a].buf) = w[a].len
  BY <1>0, MallocFacts DEF BufSize
<1>2. /\ w[a].pc = "malloc" /\ heap' = heap \cup {Buf(a)}
      /\ UNCHANGED <<arg, dest, pos, shorts, failed, exit>>
  BY DEF Malloc, At
<1>3. Grows /\ (ShortOf("read")' <=> ShortOf("read")) /\ (ShortOf("write")' <=> ShortOf("write"))
  BY <1>2 DEF Grows, ShortOf
<1>4. ThreadsHeap'
  <2>1. a <= arg.n
    BY <1>0
  <2>2. HeapKept(a)
    BY <1>1, <1>2 DEF HeapKept
  <2> QED
    BY <1>0, <1>1, <1>2, <2>1, <2>2, HeapAfter
<1>5. Share' = Share /\ Rest' = Rest
  BY <1>2 DEF Share, Rest
<1>6. Segment(a)'
  BY <1>0, <1>1, <1>2, <1>5 DEF ThreadPart, Segment
<1>7. ThreadCounts(a)'
  BY <1>0, <1>1, <1>2, <1>3 DEF ThreadPart, ThreadCounts
<1>8. ThreadData(a)'
  BY <1>0, <1>1, <1>2, <1>3, <1>5 DEF ThreadPart, ThreadData, Finished, Copied
<1>9. ~ShortOf("read")' => RightDest'
  BY <1>0, <1>2, <1>3, DestFrame DEF ThreadsInv
<1> QED
  BY <1>1, <1>2, <1>3, <1>4, <1>6, <1>7, <1>8, <1>9, WorkerKeeps DEF ThreadPart, CopyStep

\* A worker reads its segment, all of it unless the read is short.
LEMMA ThreadRead ==
  ASSUME CopyInv, MT, NEW a \in Workers, Read(a)
  PROVE  ThreadsInv'
<1> DEFINE n == Smaller(BufSize(a), arg.fsize - SrcOffset(a))
           r == w[a]
<1>0. /\ Types /\ ThreadsInv /\ ThreadPart(a) /\ a \in Actors /\ a \in 1 .. arg.n
      /\ r \in ActorType /\ r.off \in Nat /\ r.len \in Nat /\ r.tr \in Nat /\ arg.n \in Nat
      /\ r.pc = "read" /\ exit = "no" /\ UNCHANGED <<arg, dest, heap, failed, exit>> /\ ThreadsHeap
  BY WorkerSteps, ShareFacts DEF CopyStep, ThreadsInv, Read, At
<1>1. /\ BufSize(a) = r.len /\ SrcOffset(a) = r.off /\ n = r.len
  <2>1. BufSize(a) \in Nat /\ arg.fsize - SrcOffset(a) \in Nat /\ BufSize(a) <= arg.fsize - SrcOffset(a)
    BY <1>0, LeftToRead DEF Read
  <2> QED
    BY <2>1 DEF BufSize, SrcOffset, Smaller
<1>2. PICK k \in Transfers(n) :
        /\ Transferred(k, n, "read")
        /\ pos' = IF MT THEN pos ELSE [pos EXCEPT !.src = @ + k]
        /\ w' = ReadLoop(a, k)
  BY DEF Read
<1> HIDE DEF n, r
<1>3. /\ k \in 0 .. n /\ (k = 0 => n = 0)
      /\ ShortOf("read")' <=> ShortOf("read") \/ k # n
      /\ ShortOf("write")' <=> ShortOf("write")
  BY <1>0, <1>1, <1>2, TransferFacts DEF Types
<1>4. k \in Nat
  BY <1>0, <1>1, <1>3
<1>5. /\ Others(a) /\ w'[a].i = r.i /\ w'[a].off = r.off /\ w'[a].len = r.len
      /\ w'[a].last = r.last /\ w'[a].buf = Buffered(a, k)
      /\ IF arg.prog # "simpcp1" /\ k # 0 /\ r.tr + k < BufSize(a)
         THEN w'[a].pc = r.pc /\ w'[a].tr = r.tr + k /\ w'[a].nr = r.nr
         ELSE w'[a].pc = "write" /\ w'[a].tr = 0 /\ w'[a].nr = r.tr + k
  BY <1>0, <1>1, <1>2, <1>4, ReadFacts DEF r
<1>6. /\ Len(r.buf) = r.len /\ Len(Buffered(a, k)) = r.len
      /\ \A i \in 1 .. r.len : Buffered(a, k)[i] = IF i <= k THEN r.off + i ELSE r.buf[i]
  <2>1. Len(r.buf) = r.len
    BY <1>0 DEF ThreadPart, ThreadCounts, r
  <2>2. /\ Len(Buffered(a, k)) = Len(r.buf)
        /\ \A i \in 1 .. Len(r.buf) :
             Buffered(a, k)[i] = IF i <= k THEN SrcOffset(a) + i ELSE r.buf[i]
    BY <1>0, <1>1, <1>4, BufferedFacts DEF r
  <2> QED
    BY <1>1, <2>1, <2>2
<1>7. Share' = Share /\ Rest' = Rest
  BY <1>0 DEF Share, Rest
<1>8. Grows
  BY <1>0, <1>3 DEF Grows
<1>9. w'[a].pc \in {"read", "write"}
  BY <1>0, <1>5
<1>10. ThreadsHeap'
  <2>1. a <= arg.n
    BY <1>0
  <2>2. HeapKept(a)
    BY <1>0, <1>5, <1>9 DEF HeapKept, r
  <2> QED
    BY <1>0, <1>5, <2>1, <2>2, HeapAfter
<1>11. Segment(a)'
  BY <1>0, <1>5, <1>7, <1>9 DEF ThreadPart, Segment, r
<1>12. r.tr = 0 \/ ShortOf("read")
  BY <1>0 DEF ThreadPart, ThreadCounts, r
<1>13. ~ShortOf("read")' => w'[a].pc = "write" /\ w'[a].nr = r.len /\ k = r.len
  BY <1>0, <1>1, <1>3, <1>4, <1>5, <1>12
<1>14. w'[a].pc = "write" /\ w'[a].nr = 0 => w'[a].len = 0
  BY <1>0, <1>1, <1>3, <1>4, <1>5
<1>15. ThreadCounts(a)'
  BY <1>5, <1>6, <1>9, <1>13, <1>14 DEF ThreadCounts
<1>16. ThreadData(a)'
  <2> SUFFICES ASSUME ~ShortOf("read")' PROVE ThreadData(a)'
    BY DEF ThreadData
  <2>1. ~ShortOf("read") /\ ThreadData(a)
    BY <1>0, <1>3 DEF ThreadPart
  <2>2. \A i \in 1 .. w'[a].nr : w'[a].buf[i] = w'[a].off + i
    BY <1>0, <1>5, <1>6, <1>13
  <2>3. ~ShortOf("write")' /\ a \notin failed' /\ Finished(a)' =>
          Copied((a - 1) * Share + 1, a * Share)'
    BY <1>0, <1>3, <1>5, <1>7, <1>9, <2>1 DEF ThreadData, Finished, Copied, r
  <2> QED
    BY <1>7, <1>9, <2>2, <2>3 DEF ThreadData
<1>17. ~ShortOf("read")' => RightDest'
  BY <1>0, <1>3, DestFrame DEF ThreadsInv
<1> QED
  BY <1>0, <1>5, <1>8, <1>9, <1>10, <1>11, <1>15, <1>16, <1>17, WorkerKeeps DEF ThreadPart, CopyStep

\* A worker that has nothing to copy, or of which a call fails, goes on.
LEMMA ThreadEnds ==
  ASSUME CopyInv, MT, NEW a \in Workers, EndOfFile(a) \/ MallocFails(a) \/ IOFails(a)
  PROVE  ThreadsInv'
<1>0. /\ Types /\ ThreadsInv /\ ThreadPart(a) /\ a \in Actors /\ a \in 1 .. arg.n
      /\ w[a].off \in Nat /\ w[a].len \in Nat /\ w[a].pc \in {"malloc", "read", "write"}
      /\ w[a].last \in BOOLEAN /\ ThreadsHeap /\ arg.n \in Nat
  BY WorkerSteps, ShareFacts, ActorFields DEF CopyStep, ThreadsInv
<1>1. /\ w' = NextSegment(a) /\ failed \subseteq failed' /\ UNCHANGED <<arg, dest, shorts, exit>>
      /\ EndOfFile(a) \/ a \in failed'
  BY DEF EndOfFile, MallocFails, IOFails, EndCopy
<1>2. Grows /\ (ShortOf("read")' <=> ShortOf("read")) /\ (ShortOf("write")' <=> ShortOf("write"))
  BY <1>1 DEF Grows, ShortOf
<1>3. EndOfFile(a) => w[a].len = 0
  BY <1>0 DEF EndOfFile, At, ThreadPart, ThreadCounts
<1>4. ~ShortOf("read")' /\ ~ShortOf("write")' /\ a \notin failed' =>
        \A i \in w[a].off + 1 .. w[a].off + w[a].len : i <= Len(dest') /\ dest'[i] = i
  BY <1>0, <1>1, <1>3
<1>5. ThreadPart(a)' /\ Others(a) /\ w'[a].pc \in {"malloc", "ended"}
  BY <1>0, <1>1, <1>2, <1>4, SegmentDone
<1>6. ThreadsHeap'
  <2>1. ASSUME MallocFails(a) \/ IOFails(a) PROVE HeapKept(a)
    BY <2>1 DEF MallocFails, At, IOFails, HeapKept
  <2>2. ASSUME EndOfFile(a) PROVE HeapKept(a)
    <3>1. ~w[a].last /\ Share = 0
      BY <1>0, <1>3, <2>2 DEF ThreadPart, Segment, EndOfFile, At
    <3> QED
      BY <1>0, <2>2, <3>1 DEF Buf, EndOfFile, HeapKept
  <2>3. HeapKept(a) /\ a <= arg.n
    BY <1>0, <2>1, <2>2
  <2> QED
    BY <1>0, <1>1, <1>5, <2>3, HeapAfter
<1>7. ~ShortOf("read")' => RightDest'
  BY <1>0, <1>1, <1>2, DestFrame DEF ThreadsInv
<1> QED
  BY <1>1, <1>2, <1>5, <1>6, <1>7, WorkerKeeps DEF CopyStep

\* A worker writes its buffer at the offset of its segment, again from the
\* start after a short write.
LEMMA ThreadWrite ==
  ASSUME CopyInv, MT, NEW a \in Workers, Write(a)
  PROVE  ThreadsInv'
<1> DEFINE r == w[a]
           n == w[a].nr
           bytes(k) == Given(a, k)
<1>0. /\ Types /\ ThreadsInv /\ ThreadPart(a) /\ a \in Actors /\ a \in 1 .. arg.n
      /\ r \in ActorType /\ r.off \in Nat /\ r.len \in Nat /\ n \in Nat /\ arg.n \in Nat
      /\ r.pc = "write" /\ exit = "no" /\ arg' = arg /\ ThreadsHeap /\ n > 0
  BY WorkerSteps, ShareFacts DEF CopyStep, ThreadsInv, Write, At
<1>1. PICK k \in Transfers(n) :
        /\ Transferred(k, n, "write")
        /\ dest' = WriteAt(dest, DestOffset(a), Given(a, k))
        /\ pos' = IF MT THEN pos ELSE [pos EXCEPT !.dest = @ + k]
        /\ WriteLoop(a, k)
  BY DEF Write
<1> HIDE DEF n, r
<1>2. /\ k \in 0 .. n
      /\ ShortOf("read")' <=> ShortOf("read")
      /\ ShortOf("write")' <=> ShortOf("write") \/ k # n
  BY <1>0, <1>1, TransferFacts DEF Types
<1>3. k \in Nat /\ k <= n
  BY <1>0, <1>2
<1>4. ASSUME ~ShortOf("read")
      PROVE  /\ RightDest => RightDest'
             /\ \A i \in Nat \ {0} : i <= Len(dest) /\ dest[i] = i => i <= Len(dest') /\ dest'[i] = i
             /\ \A i \in r.off + 1 .. r.off + k : i <= Len(dest') /\ dest'[i] = i
             /\ n = r.len
  <2>1. /\ n = r.len /\ Len(r.buf) = r.len /\ \A i \in 1 .. n : r.buf[i] = r.off + i
    BY <1>0, <1>4 DEF ThreadPart, ThreadCounts, ThreadData, r, n
  <2>2. r.off + r.len <= arg.fsize /\ arg.fsize \in Nat
    BY <1>0, SegmentWithin, ShareFacts DEF r
  <2> DEFINE b == Given(a, k)
  <2>3. /\ b \in Seq(Int) /\ Len(b) = k
        /\ \A i \in 1 .. k : i <= Len(r.buf) => b[i] = r.buf[i]
    BY <1>0, <1>3, GivenFacts DEF r
  <2>4. dest' = WriteAt(dest, r.off, b)
    BY <1>1 DEF DestOffset, r
  <2> HIDE DEF b
  <2>5. \A i \in 1 .. Len(b) : b[i] = r.off + i
    <3> SUFFICES ASSUME NEW i \in 1 .. k PROVE b[i] = r.off + i
      BY <2>3
    <3>1. i <= Len(r.buf) /\ i \in 1 .. n
      BY <1>0, <1>3, <2>1
    <3> QED
      BY <2>1, <2>3, <3>1
  <2>6. r.off + Len(b) <= arg.fsize
    BY <1>0, <1>3, <2>1, <2>2, <2>3
  <2> QED
    BY <1>0, <2>1, <2>3, <2>4, <2>5, <2>6, CleanWrite
<1>5. ~ShortOf("read")' => RightDest'
  BY <1>0, <1>2, <1>4 DEF ThreadsInv
<1>6. Share' = Share /\ Rest' = Rest
  BY <1>0 DEF Share, Rest
<1>7. CASE w' = [w EXCEPT ![a].tw = @ + k] /\ UNCHANGED <<heap, failed, exit>>
  <2>1. /\ Others(a) /\ w'[a].pc = r.pc /\ w'[a].i = r.i /\ w'[a].off = r.off /\ w'[a].len = r.len
        /\ w'[a].last = r.last /\ w'[a].buf = r.buf /\ w'[a].nr = n /\ w'[a].tr = r.tr
    <3>1. w \in [Actors -> ActorType]
      BY <1>0 DEF Types
    <3>2. Others(a) /\ w'[a] = [r EXCEPT !.tw = @ + k]
      BY <1>0, <1>7, <3>1 DEF Others, r
    <3> QED
      BY <1>0, <3>2 DEF ActorType, n, r
  <2>2. Grows
    BY <1>0, <1>2, <1>4, <1>7 DEF Grows
  <2>3. ThreadsHeap'
    <3>1. HeapKept(a) /\ a <= arg.n
      <4>1. w'[a].pc = "write" /\ w'[a].last = w[a].last /\ heap' = heap
        BY <1>0, <1>7, <2>1 DEF r
      <4>2. a <= arg.n
        BY <1>0
      <4> QED
        BY <4>1, <4>2 DEF HeapKept
    <3> QED
      BY <1>0, <2>1, <3>1, HeapAfter
  <2>4. Segment(a)'
    BY <1>0, <1>6, <2>1 DEF ThreadPart, Segment, r
  <2>5. ThreadCounts(a)'
    BY <1>0, <1>2, <2>1 DEF ThreadPart, ThreadCounts, r, n
  <2>6. ThreadData(a)'
    <3> SUFFICES ASSUME ~ShortOf("read")' PROVE ThreadData(a)'
      BY DEF ThreadData
    <3>1. ~ShortOf("read") /\ ThreadData(a)
      BY <1>0, <1>2 DEF ThreadPart
    <3>2. \A i \in 1 .. w'[a].nr : w'[a].buf[i] = w'[a].off + i
      BY <1>0, <2>1, <3>1 DEF ThreadData, r, n
    <3>3. ASSUME ~ShortOf("write")', a \notin failed', Finished(a)'
          PROVE  Copied((a - 1) * Share + 1, a * Share)'
      <4>1. Copied((a - 1) * Share + 1, a * Share)
        BY <1>0, <1>2, <1>7, <2>1, <3>1, <3>3 DEF ThreadData, Finished, r
      <4>2. (a - 1) * Share \in Nat /\ a * Share \in Nat
        BY <1>0, WorkerFacts
      <4>3. \A i \in (a - 1) * Share + 1 .. a * Share : i <= Len(dest') /\ dest'[i] = i
        BY <1>4, <3>1, <4>1, <4>2 DEF Copied
      <4> QED
        BY <1>6, <4>3 DEF Copied
    <3> QED
      BY <1>0, <1>6, <2>1, <3>2, <3>3 DEF ThreadData
  <2> QED
    BY <1>0, <1>5, <1>7, <2>1, <2>2, <2>3, <2>4, <2>5, <2>6, WorkerKeeps DEF ThreadPart, CopyStep
<1>8. CASE heap' = heap \ {Buf(a)} /\ EndCopy(a, TRUE)
  <2>1. w' = NextSegment(a) /\ failed' = failed /\ exit' = exit
    BY <1>8 DEF EndCopy
  <2>2. Grows
    BY <1>0, <1>2, <1>4, <2>1 DEF Grows
  <2>3. ~ShortOf("read")' /\ ~ShortOf("write")' /\ a \notin failed' =>
          \A i \in r.off + 1 .. r.off + r.len : i <= Len(dest') /\ dest'[i] = i
    BY <1>2, <1>4
  <2>4. ThreadPart(a)' /\ Others(a) /\ w'[a].pc \in {"malloc", "ended"}
    BY <1>0, <2>1, <2>2, <2>3, SegmentDone DEF r
  <2>5. ThreadsHeap'
    <3>1. HeapKept(a) /\ a <= arg.n
      BY <1>0, <1>8 DEF HeapKept
    <3> QED
      BY <1>0, <2>4, <3>1, HeapAfter
  <2> QED
    BY <1>5, <2>1, <2>2, <2>4, <2>5, WorkerKeeps DEF CopyStep
<1> QED
  BY <1>1, <1>7, <1>8 DEF WriteLoop

\* Main creates the next worker.
LEMMA ThreadCreate ==
  ASSUME CopyInv, MT, CreateWorker
  PROVE  ThreadsInv'
<1> DEFINE i == w[0].i
           last == i + 1 = arg.n
<1>0. /\ Types /\ ThreadsInv /\ ThreadsControl /\ ThreadsHeap /\ w[0].pc = "create" /\ exit = "no"
      /\ UNCHANGED <<arg, dest, pos, heap, shorts, failed, exit>>
  BY DEF CopyInv, ThreadsInv, CreateWorker, At
<1>1. i < arg.n /\ i \in Nat /\ arg.n \in Nat /\ 0 \in Actors /\ w[0] \in ActorType
  BY <1>0, CreatedFacts, ActorFacts DEF ThreadsControl, Types
<1>2. /\ i + 1 \in Actors
      /\ w'[0] = [w[0] EXCEPT !.i = IF last THEN 0 ELSE i + 1, !.pc = IF last THEN "join" ELSE "create"]
      /\ w'[i + 1] = [w[i + 1] EXCEPT !.pc = "malloc", !.i = i, !.off = i * Share, !.len = Share]
      /\ \A b \in Actors : b # 0 /\ b # i + 1 => w'[b] = w[b]
  BY <1>0, <1>1, CreateFacts
<1> HIDE DEF i, last
<1>3. /\ w'[0].i = (IF last THEN 0 ELSE i + 1) /\ w'[0].pc = (IF last THEN "join" ELSE "create")
      /\ w'[0].off = w[0].off /\ w'[0].len = w[0].len
  BY <1>1, <1>2 DEF ActorType
<1>4. i + 1 \in Workers /\ i + 1 # 0 /\ w[i + 1] \in ActorType
  BY <1>0, <1>1, <1>2 DEF Workers, Types
<1>5. /\ w'[i + 1].pc = "malloc" /\ w'[i + 1].i = i /\ w'[i + 1].off = i * Share
      /\ w'[i + 1].len = Share /\ w'[i + 1].last = w[i + 1].last /\ w'[i + 1].tr = w[i + 1].tr
  BY <1>2, <1>4 DEF ActorType
<1>6. Created = i /\ Created' = i + 1
  BY <1>0, <1>1, <1>3 DEF Created, i, last
<1>7. w[i + 1].pc = "none" /\ ThreadPart(i + 1)
  <2>1. ~(i + 1 <= Created)
    BY <1>1, <1>6
  <2> QED
    BY <1>0, <1>4, <2>1 DEF ThreadsControl, ThreadsInv, ThreadPart
<1>8. \A b \in Workers : b # i + 1 => w'[b] = w[b]
  BY <1>2 DEF Workers
<1>9. Grows /\ Share' = Share /\ Rest' = Rest
  BY <1>0 DEF Grows, ShortOf, Share, Rest
<1>10. ThreadsControl'
  <2>1. \A b \in Workers : b \in Nat
    BY ActorFacts DEF Workers
  <2>2. \A b \in Workers : /\ w'[b].pc \in {"none", "malloc", "read", "write", "ended"}
                           /\ w'[b].pc # "none" <=> b <= Created'
    <3> TAKE b \in Workers
    <3>1. CASE b = i + 1
      BY <1>5, <1>6, <3>1, <1>1
    <3>2. CASE b # i + 1
      <4>1. /\ w[b].pc \in {"none", "malloc", "read", "write", "ended"}
            /\ w[b].pc # "none" <=> b <= i
        BY <1>0, <1>6 DEF ThreadsControl
      <4>2. b <= i <=> b <= i + 1
        BY <1>1, <2>1, <3>2
      <4> QED
        BY <1>6, <1>8, <3>2, <4>1, <4>2
    <3> QED
      BY <3>1, <3>2
  <2>3. w'[0].i < arg.n
    BY <1>1, <1>3 DEF last
  <2>4. w'[0].pc = "join" => w'[0].i = 0
    BY <1>3
  <2> QED
    BY <1>0, <1>3, <2>2, <2>3, <2>4 DEF ThreadsControl
<1>11. ASSUME NEW b \in Workers PROVE ThreadPart(b)'
  <2>1. CASE b = i + 1
    <3>1. w'[b].last = FALSE /\ w'[b].tr = 0
      BY <1>4, <1>5, <1>7, <2>1, ActorFields DEF ThreadPart, Segment
    <3>2. b - 1 = i
      BY <1>1, <2>1
    <3>3. Segment(b)' /\ ThreadCounts(b)' /\ ThreadData(b)'
      BY <1>5, <1>9, <2>1, <3>1, <3>2 DEF Segment, ThreadCounts, ThreadData, Finished
    <3> QED
      BY <3>3 DEF ThreadPart
  <2>2. CASE b # i + 1
    BY <1>0, <1>8, <1>9, <2>2, OtherThread DEF ThreadsInv, ThreadPart
  <2> QED
    BY <2>1, <2>2
<1>12. ThreadsHeap'
  <2> SUFFICES ASSUME NEW h \in heap
               PROVE  \E a \in Workers :
                        /\ a <= arg.n
                        /\ \/ h = Buf(a)' /\ w'[a].pc \in {"read", "write"}
                           \/ h = <<a, FALSE>> /\ Share = 0
    BY <1>0, <1>9 DEF ThreadsHeap
  <2>1. PICK a \in Workers :
          /\ a <= arg.n
          /\ \/ h = Buf(a) /\ w[a].pc \in {"read", "write"}
             \/ h = <<a, FALSE>> /\ Share = 0
    BY <1>0 DEF ThreadsHeap
  <2>2. CASE h = Buf(a) /\ w[a].pc \in {"read", "write"}
    <3>1. w'[a] = w[a] /\ Buf(a)' = Buf(a)
      BY <1>7, <1>8, <2>2 DEF Buf
    <3> QED
      BY <2>1, <2>2, <3>1
  <2>3. CASE h = <<a, FALSE>> /\ Share = 0
    BY <2>1, <2>3
  <2> QED
    BY <2>1, <2>2, <2>3
<1>13. ~ShortOf("read")' => RightDest'
  BY <1>0, DestFrame DEF ThreadsInv, ShortOf
<1> QED
  BY <1>10, <1>11, <1>12, <1>13 DEF ThreadsInv, ThreadPart

\* A step of main that leaves the workers alone.
LEMMA WorkersFrame ==
  ASSUME Types, ThreadsInv, UNCHANGED <<arg, dest, heap, shorts>>, failed \subseteq failed',
         \A b \in Workers : w'[b] = w[b], ThreadsControl'
  PROVE  ThreadsInv'
<1>1. Grows /\ Share' = Share
  BY DEF Grows, ShortOf, Share
<1>2. \A b \in Workers : ThreadPart(b)'
  BY <1>1, OtherThread DEF ThreadsInv, ThreadPart
<1>3. ThreadsHeap'
  <2>1. \A b \in Workers : Buf(b)' = Buf(b)
    BY DEF Buf
  <2> QED
    BY <1>1, <2>1 DEF ThreadsInv, ThreadsHeap
<1>4. ~ShortOf("read")' => RightDest'
  BY DestFrame DEF ThreadsInv, ShortOf
<1> QED
  BY <1>2, <1>3, <1>4 DEF ThreadsInv, ThreadPart

\* Every step of mt_copy.c keeps its part of the invariant.
LEMMA ThreadsStep ==
  ASSUME CopyInv, MT, [Next]_vars
  PROVE  ThreadsInv'
<1>0. /\ Types /\ ThreadsInv /\ ThreadsControl /\ 0 \in Actors /\ w \in [Actors -> ActorType]
      /\ w[0] \in ActorType /\ arg.n \in Nat \ {0}
  BY ActorFacts, ShareFacts DEF CopyInv, ThreadsInv, Types
<1>1. CASE UNCHANGED vars
  BY <1>0, <1>1, WorkersFrame DEF vars, ThreadsControl, Created
<1>2. CASE Open
  <2>1. Become(0, "create") /\ UNCHANGED <<arg, dest, pos, heap, shorts, failed, exit>>
        /\ w[0].pc = "open"
    BY <1>2 DEF Open, At
  <2>2. "create" \in PCs
    BY DEF PCs
  <2>3. Others(0) /\ w'[0] = [w[0] EXCEPT !.pc = "create"]
    BY <1>0, <2>1, <2>2, BecomeFacts
  <2>4. w'[0].pc = "create" /\ w'[0].i = w[0].i /\ w'[0].off = w[0].off /\ w'[0].len = w[0].len
    BY <1>0, <2>3 DEF ActorType
  <2>5. \A b \in Workers : w'[b] = w[b]
    BY <2>3 DEF Others, Workers
  <2>6. Created' = Created
    BY <2>1, <2>4 DEF Created
  <2>7. ThreadsControl'
    BY <1>0, <2>1, <2>4, <2>5, <2>6 DEF ThreadsControl
  <2> QED
    BY <1>0, <2>1, <2>5, <2>7, WorkersFrame
<1>3. CASE OpenFails \/ CreateFails
  <2>1. /\ exit' = "failure" /\ UNCHANGED <<arg, dest, w, heap, shorts>> /\ failed \subseteq failed'
        /\ exit = "no"
    BY <1>3 DEF OpenFails, CreateFails, Fails, At
  <2>2. ThreadsControl'
    BY <1>0, <2>1 DEF ThreadsControl, Created
  <2> QED
    BY <1>0, <2>1, <2>2, WorkersFrame
<1>4. CASE JoinWorker
  <2> DEFINE i == w[0].i
  <2>1. /\ w[0].pc = "join" /\ exit = "no" /\ w[i + 1].pc = "ended" /\ i \in Nat /\ i < arg.n
        /\ exit' = (IF i + 1 = arg.n THEN "success" ELSE "no")
        /\ UNCHANGED <<arg, dest, pos, heap, shorts, failed>>
    BY <1>0, <1>4, CreatedFacts DEF JoinWorker, At, ThreadsControl
  <2>2. /\ w'[0].pc = w[0].pc /\ w'[0].i = i + 1 /\ w'[0].off = w[0].off /\ w'[0].len = w[0].len
        /\ \A b \in Workers : w'[b] = w[b]
    BY <1>0, <1>4 DEF JoinWorker, ActorType, Workers
  <2>3. Created' = Created
    BY <2>1, <2>2 DEF Created
  <2>4. \A b \in 1 .. i + 1 : w'[b].pc = "ended"
    <3> TAKE b \in 1 .. i + 1
    <3>1. b \in Workers
      BY <1>0, <2>1, ActorFacts, ArgFacts DEF Workers, Types
    <3>2. w[b].pc = "ended"
      BY <1>0, <2>1 DEF ThreadsControl
    <3> QED
      BY <2>2, <3>1, <3>2
  <2>5. w'[0].i < arg.n \/ (exit' = "success" /\ w'[0].i = arg.n /\ w'[0].pc = "join")
    BY <1>0, <2>1, <2>2
  <2>6. exit' = "success" => w'[0].i = arg.n
    BY <2>1, <2>2
  <2> HIDE DEF i
  <2>7. ThreadsControl'
    BY <1>0, <2>1, <2>2, <2>3, <2>4, <2>5, <2>6 DEF ThreadsControl
  <2> QED
    BY <1>0, <2>1, <2>2, <2>7, WorkersFrame
<1> QED
  BY <1>1, <1>2, <1>3, <1>4, ThreadActions, ThreadCreate, ThreadMalloc, ThreadRead, ThreadWrite,
     ThreadEnds DEF CopyStep

-----------------------------------------------------------------------------
(* The theorems                                                            *)

\* The programs start with the invariant.
LEMMA CopyInit ==
  ASSUME Init
  PROVE  CopyInv
<1>0. arg \in Args /\ 0 \in Actors /\ Actors = 0 .. MaxThrds /\ MaxThrds \in Nat
  BY ActorFacts DEF Init
<1>1. /\ arg.fsize \in Nat /\ arg.old \in Nat /\ arg.n \in Nat \ {0}
      /\ Layout => arg.old = 0
  BY <1>0, ArgFacts
<1>2. /\ w \in [Actors -> ActorType] /\ dest \in Seq(Int) /\ Len(dest) = arg.old
      /\ \A i \in 1 .. Len(dest) : dest[i] = Old
  <2>1. \A a \in Actors :
          [pc |-> IF a = 0 THEN "open" ELSE "none", i |-> 0, off |-> 0, len |-> 0,
           last |-> FALSE, buf |-> <<>>, tr |-> 0, nr |-> 0, tw |-> 0] \in ActorType
    BY DEF ActorType, PCs
  <2>2. w \in [Actors -> ActorType]
    BY <2>1 DEF Init
  <2>3. Old \in Int /\ dest = [i \in 1 .. arg.old |-> Old]
    BY DEF Init, Old
  <2> QED
    BY <1>1, <2>2, <2>3
<1>3. /\ w[0].pc = "open" /\ w[0].i = 0 /\ w[0].off = 0 /\ w[0].len = 0 /\ w[0].last = FALSE
      /\ w[0].tr = 0
      /\ \A a \in Actors \ {0} : /\ w[a].pc = "none" /\ w[a].off = 0 /\ w[a].len = 0
                                 /\ w[a].last = FALSE /\ w[a].tr = 0
  BY <1>0 DEF Init
<1>4. pos.src = 0 /\ pos.dest = 0 /\ heap = {} /\ shorts = <<>> /\ failed = {} /\ exit = "no"
  BY DEF Init
<1>5. Types
  <2>1. pos \in [src : 0 .. arg.fsize, dest : Nat]
    BY <1>1 DEF Init
  <2>2. shorts \in Seq({"read", "write"}) /\ Len(shorts) <= MaxShort
    BY <1>4, FileCopyConstants
  <2> QED
    BY <1>0, <1>1, <1>2, <1>4, <2>1, <2>2 DEF Types
<1>6. RightDest /\ ~ShortOf("read")
  BY <1>1, <1>2, <1>4 DEF RightDest, RightByte, ShortOf
<1>7. SimpleInv
  <2>1. Pending = 0 /\ Copied(1, pos.dest)
    BY <1>3, <1>4 DEF Pending, Copied
  <2> QED
    BY <1>3, <1>4, <1>6, <2>1 DEF SimpleInv, SimpleControl, SimpleCounts, SimpleData
<1>8. ThreadsInv
  <2>1. ThreadsControl
    <3>1. Created = 0 /\ \A a \in Workers : ~(a <= 0)
      BY <1>0, <1>3 DEF Created, Workers
    <3> QED
      BY <1>1, <1>3, <1>4, <3>1 DEF ThreadsControl, Workers
  <2>2. \A a \in Workers : Segment(a) /\ ThreadCounts(a) /\ ThreadData(a)
    BY <1>3 DEF Workers, Segment, ThreadCounts, ThreadData, Finished
  <2> QED
    BY <1>4, <1>6, <2>1, <2>2 DEF ThreadsInv, ThreadsHeap
<1>9. Layout => LayoutInv
  <2>1. ASSUME Layout PROVE Laid(0)
    BY <1>1, <1>2, <2>1 DEF Laid, LayoutLen, Init
  <2> QED
    BY <1>3, <1>4, <2>1 DEF LayoutInv, LayoutControl, LayoutHeap, LayoutData
<1> QED
  BY <1>5, <1>7, <1>8, <1>9 DEF CopyInv

\* CopyInv is an inductive invariant: every step of every program keeps it,
\* for every source, block size and number of threads.
THEOREM CopyInvariant == Spec => []CopyInv
<1>1. Init => CopyInv
  BY CopyInit
<1>2. CopyInv /\ [Next]_vars => CopyInv'
  <2> SUFFICES ASSUME CopyInv, [Next]_vars PROVE CopyInv'
    OBVIOUS
  <2>1. Types'
    BY TypesStep
  <2>2. arg' = arg
    BY DEF Next, MainStep, CopyStep, vars, Open, OpenFails, CreateWorker, CreateFails, JoinWorker,
         setup_buffers_goto, OpenLayout, wr_discontig_the_normal_way,
         wr_discontig_the_better_SGIO_way, CloseLayout, Malloc, MallocFails, Read, EndOfFile,
         Write, IOFails
  <2>3. (Simple' <=> Simple) /\ (MT' <=> MT) /\ (Layout' <=> Layout)
    BY <2>2 DEF Simple, MT, Layout
  <2> QED
    BY <2>1, <2>3, SimpleStep, ThreadsStep, LayoutStep DEF CopyInv
<1> QED
  BY <1>1, <1>2, PTL DEF Spec

\* The type of the state, every thread's segment within the source, and no
\* write of more bytes than the buffer holds, unless a read was short.
THEOREM CopyTypeCorrect == Spec => []TypeOK
<1>1. CopyInv => TypeOK
  <2> SUFFICES ASSUME CopyInv PROVE TypeOK
    OBVIOUS
  <2>0. Types /\ w \in [Actors -> ActorType] /\ 0 \in Actors
    BY ActorFacts DEF CopyInv, Types
  <2>1. \A i \in DOMAIN dest : dest[i] \in Int
    BY <2>0, LenProperties, ElementOfSeq DEF Types
  <2>2. \A a \in Actors : w[a].nr \in Nat /\ w[a].tr \in Nat /\ w[a].off \in Nat
    BY <2>0, ActorFields
  <2>3. MT => \A a \in Actors : w[a].off + w[a].len <= arg.fsize
    BY <2>0, SegmentWithin DEF CopyInv
  <2>4. ASSUME NEW a \in Actors, At(a, "write") PROVE w[a].nr <= BufSize(a) \/ ShortOf("read")
    <3>1. Simple \/ MT \/ Layout
      BY <2>0, ArgFacts DEF Types
    <3>2. CASE Simple
      <4>1. a = 0 /\ ~MT
        BY <2>4, <3>2, <2>0, ArgFacts DEF At, CopyInv, SimpleInv, SimpleControl, Types
      <4> QED
        BY <2>4, <3>2, <4>1 DEF At, CopyInv, SimpleInv, SimpleCounts, Misread, BufSize
    <3>3. CASE MT
      <4>1. a \in Workers
        BY <2>4, <3>3 DEF At, CopyInv, ThreadsInv, ThreadsControl, Workers
      <4>2. w[a].nr = w[a].len \/ ShortOf("read")
        BY <2>4, <3>3, <4>1 DEF At, CopyInv, ThreadsInv, ThreadCounts
      <4>3. w[a].len \in Nat
        BY <2>0, ActorFields
      <4> QED
        BY <3>3, <4>2, <4>3 DEF BufSize
    <3>4. CASE Layout
      BY <2>4, <3>4 DEF At, CopyInv, LayoutInv, LayoutControl, Layout, Layouts
    <3> QED
      BY <3>1, <3>2, <3>3, <3>4
  <2> QED
    BY <2>0, <2>1, <2>2, <2>3, <2>4 DEF TypeOK, Types
<1> QED
  BY <1>1, CopyInvariant, PTL

\* Whatever fails and however the threads interleave, a byte of the
\* destination is the source's byte of that offset, the old one or in a hole,
\* as long as no read was short.
THEOREM CopyNoWrongByte == Spec => []NoWrongByte
<1>1. CopyInv => NoWrongByte
  <2> SUFFICES ASSUME CopyInv, arg.prog \in Copiers, MT \/ ~ShortOf("write"),
                      ShortOf("read") => arg.prog = "simpcp1"
               PROVE  \A i \in DOMAIN dest : RightByte(i, dest[i])
    BY DEF NoWrongByte, RightByte
  <2>1. RightDest
    <3>1. Simple \/ MT
      BY ArgFacts DEF CopyInv, Types
    <3>2. CASE Simple
      BY <3>2, ArgFacts DEF CopyInv, Types, SimpleInv, SimpleData, Unharmed
    <3>3. CASE MT
      BY <3>3 DEF CopyInv, ThreadsInv, MT
    <3> QED
      BY <3>1, <3>2, <3>3
  <2>2. DOMAIN dest = 1 .. Len(dest)
    BY LenProperties DEF CopyInv, Types
  <2> QED
    BY <2>1, <2>2 DEF RightDest
<1> QED
  BY <1>1, CopyInvariant, PTL

\* What a program leaves behind when it exits: the whole file, no buffer but
\* those of threads with nothing to copy and gbuf_hole, and success as its
\* status only if no call failed.
THEOREM CopyAtExit == Spec => []AtExit
<1>1. ASSUME CopyInv PROVE CopyExact
  <2> SUFFICES ASSUME arg.prog \in Copiers, exit = "success", failed = {}, Unharmed
               PROVE  /\ Len(dest) = (IF arg.fsize > arg.old THEN arg.fsize ELSE arg.old)
                      /\ \A i \in DOMAIN dest : dest[i] = IF i <= arg.fsize THEN i ELSE Old
    BY DEF CopyExact
  <2>0. /\ Types /\ dest \in Seq(Int) /\ Len(dest) \in Nat /\ DOMAIN dest = 1 .. Len(dest)
        /\ arg.fsize \in Nat /\ arg.old \in Nat /\ arg.old <= Len(dest)
        /\ Simple \/ MT
    BY <1>1, ArgFacts, LenProperties DEF CopyInv, Types
  <2>1. RightDest /\ \A i \in 1 .. arg.fsize : i <= Len(dest) /\ dest[i] = i
    <3>1. CASE Simple
      BY <1>1, <3>1 DEF CopyInv, SimpleInv, SimpleData, Copied
    <3>2. CASE MT
      <4>1. ThreadsInv /\ ~ShortOf("read") /\ ~ShortOf("write")
        BY <1>1, <3>2 DEF CopyInv, Unharmed, MT
      <4>2. w[0].i = arg.n /\ \A a \in 1 .. arg.n : w[a].pc = "ended"
        BY <2>0, <4>1, ShareFacts DEF ThreadsInv, ThreadsControl
      <4>3. /\ Share \in Nat /\ Rest \in Nat /\ arg.n \in Nat \ {0} /\ arg.n * Share \in Nat
            /\ arg.fsize = (arg.n * Share) + Rest
        BY <2>0, ShareFacts
      <4>4. 1 .. arg.n \subseteq Workers
        <5>1. arg.n \in Nat /\ arg.n \in Actors /\ Actors = 0 .. MaxThrds /\ MaxThrds \in Nat
          BY <2>0, ActorFacts, ArgFacts DEF Types
        <5> QED
          BY <5>1 DEF Workers
      <4>5. ASSUME NEW i \in 1 .. arg.fsize PROVE i <= Len(dest) /\ dest[i] = i
        <5>1. CASE i <= arg.n * Share
          <6>1. PICK a \in 1 .. arg.n : i \in ((a - 1) * Share) + 1 .. a * Share
            <7>1. i \in Nat \ {0} /\ arg.n \in Nat /\ Share \in Nat
              BY <2>0, <4>3
            <7> QED
              BY <5>1, <7>1, EachByteHasOwner
          <6>2. a \in Workers /\ w[a].pc = "ended"
            BY <4>2, <4>4
          <6>3. Copied((a - 1) * Share + 1, a * Share)
            BY <4>1, <6>2 DEF ThreadsInv, ThreadData, Finished
          <6> QED
            BY <6>1, <6>3 DEF Copied
        <5>2. CASE ~(i <= arg.n * Share)
          <6>1. PICK a \in 1 .. arg.n : a = arg.n
            BY <4>3
          <6>2. a \in Workers /\ w[a].pc = "ended"
            BY <4>2, <4>4
          <6>3. Copied(arg.n * Share + 1, arg.fsize)
            BY <4>1, <6>1, <6>2 DEF ThreadsInv, ThreadData
          <6>4. i \in arg.n * Share + 1 .. arg.fsize
            BY <2>0, <4>3, <5>2
          <6> QED
            BY <6>3, <6>4 DEF Copied
        <5> QED
          BY <5>1, <5>2
      <4> QED
        BY <4>1, <4>5 DEF ThreadsInv
    <3> QED
      BY <2>0, <3>1, <3>2
  <2>2. arg.fsize <= Len(dest)
    BY <2>0, <2>1
  <2>3. Len(dest) <= arg.fsize \/ Len(dest) <= arg.old
    BY <2>1 DEF RightDest
  <2>4. Len(dest) = (IF arg.fsize > arg.old THEN arg.fsize ELSE arg.old)
    BY <2>0, <2>2, <2>3
  <2>5. ASSUME NEW i \in 1 .. Len(dest) PROVE dest[i] = IF i <= arg.fsize THEN i ELSE Old
    <3>1. CASE i <= arg.fsize
      BY <2>0, <2>1, <3>1
    <3>2. CASE ~(i <= arg.fsize)
      <4>1. i <= arg.old
        BY <2>0, <2>3, <3>2
      <4>2. RightByte(i, dest[i])
        BY <2>1 DEF RightDest
      <4> QED
        BY <3>2, <4>1, <4>2 DEF RightByte
    <3> QED
      BY <3>1, <3>2
  <2> QED
    BY <2>0, <2>4, <2>5
<1>2. ASSUME CopyInv PROVE LayoutSame
  BY <1>2, IovecLayout DEF CopyInv, Layout, LayoutInv, LayoutControl, LayoutData, Laid, LayoutSame
<1>3. ASSUME CopyInv PROVE BuffersFreed
  <2>1. ASSUME MT, exit = "success"
        PROVE  heap \subseteq {<<a, FALSE>> : a \in {b \in 1 .. arg.n : arg.fsize < arg.n}}
    <3>0. ThreadsInv /\ Types
      BY <1>3, <2>1 DEF CopyInv
    <3>1. /\ Share \in Nat /\ Rest \in Nat /\ Rest < arg.n /\ arg.n \in Nat \ {0}
          /\ arg.fsize = (arg.n * Share) + Rest
      BY <3>0, ShareFacts
    <3>2. \A a \in 1 .. arg.n : w[a].pc = "ended"
      BY <2>1, <3>0, <3>1 DEF ThreadsInv, ThreadsControl
    <3>3. ASSUME NEW h \in heap
          PROVE  h \in {<<a, FALSE>> : a \in {b \in 1 .. arg.n : arg.fsize < arg.n}}
      <4>1. PICK a \in Workers :
              /\ a <= arg.n
              /\ \/ h = Buf(a) /\ w[a].pc \in {"read", "write"}
                 \/ h = <<a, FALSE>> /\ Share = 0
        BY <3>0 DEF ThreadsInv, ThreadsHeap
      <4>2. a \in 1 .. arg.n
        BY <3>1, <4>1, ActorFacts DEF Workers
      <4>3. h = <<a, FALSE>> /\ Share = 0
        BY <3>2, <4>1, <4>2
      <4>4. arg.fsize < arg.n
        BY <3>1, <4>3
      <4> QED
        BY <4>2, <4>3, <4>4
    <3> QED
      BY <3>3
  <2>2. Simple /\ exit # "no" => heap = {}
    BY <1>3 DEF CopyInv, SimpleInv, SimpleControl
  <2>3. /\ Layout /\ exit = "success" => heap = {"gbuf_hole"}
        /\ Layout /\ exit = "failure" =>
              heap = IF w[0].pc = "open" /\ w[0].i < 4 THEN {} ELSE {BufNames[k] : k \in 1 .. 4}
    BY <1>3 DEF CopyInv, LayoutInv, LayoutHeap
  <2> QED
    BY <2>1, <2>2, <2>3 DEF BuffersFreed, Simple, Layout
<1>4. ASSUME CopyInv
      PROVE  exit = "success" /\ arg.prog \in {"simpcp1", "simpcp2", "sgio_normal"} => failed = {}
  BY <1>4 DEF CopyInv, Simple, SimpleInv, SimpleControl, Layout, Layouts, LayoutInv, LayoutControl
<1>5. CopyInv => AtExit
  BY <1>1, <1>2, <1>3, <1>4 DEF AtExit
<1> QED
  BY <1>5, CopyInvariant, PTL
=============================================================================
