------------------------------ MODULE FileCopy ------------------------------
(***************************************************************************)
(* The programs that copy or lay out a file: A_fileio/simpcp1.c and        *)
(* simpcp2.c, the multithreaded copier solutions_to_assgn/ch18/mt_copy.c   *)
(* and ch18/sgio_simple.c.                                                 *)
(*                                                                         *)
(* Actor 0 is main, the actors 1 .. numthrds are mt_copy's workers (the    *)
(* code's thread i is actor i + 1).  The byte at offset i of the source is *)
(* i + 1, so that a byte tells where it comes from.  A read or write may   *)
(* transfer fewer bytes than asked for, MaxShort times at most, or fail.   *)
(***************************************************************************)
EXTENDS Integers, Sequences, FiniteSets

CONSTANTS
    SrcSizes,   \* sizes of the source file
    OldSizes,   \* sizes of the file that has the destination's name already
    BlkSize,    \* st_blksize, the block size of simpcp1.c and simpcp2.c
    NumThrds,   \* the numbers of threads mt_copy.c may be asked for
    MaxShort,   \* bound on the short transfers
    CallsFail   \* may system calls and malloc fail?

ASSUME FileCopyConstants ==
    /\ SrcSizes \subseteq Nat /\ OldSizes \subseteq Nat /\ BlkSize \in Nat \ {0}
    /\ NumThrds \subseteq Nat \ {0} /\ MaxShort \in Nat /\ CallsFail \in BOOLEAN
    /\ \E n \in NumThrds : \A m \in NumThrds : m <= n   \* MAX_THRDS

VARIABLES
    arg,    \* what is run on what: [prog, fsize, old, n (threads)]
    dest,   \* the destination file, a sequence of bytes
    pos,    \* the offsets of the two open files, which simpcp's calls use
    w,      \* per actor: where it is and its local variables
    heap,   \* the buffers allocated and not freed
    shorts, \* the short transfers so far, a sequence of "read" and "write"
    failed, \* the actors of which a call has failed
    exit    \* "no", "success" or "failure"

vars == <<arg, dest, pos, w, heap, shorts, failed, exit>>

Copiers == {"simpcp1", "simpcp2", "mt_copy"}
Layouts == {"sgio_normal", "sgio_writev"}

Old == -1       \* a byte the destination had before
Hole == 0       \* a byte of a hole
Garbage == -2   \* a byte past the end of a buffer

Args ==
    [prog : Copiers, fsize : SrcSizes, old : OldSizes, n : NumThrds]
      \cup [prog : Layouts, fsize : {0}, old : {0}, n : {1}]

MaxThrds == CHOOSE n \in NumThrds : \A m \in NumThrds : m <= n
Actors == 0 .. MaxThrds
MT == arg.prog = "mt_copy"

\* A file after the bytes have been written at an offset
WriteAt(f, at, bytes) ==
    LET end == at + Len(bytes) IN
    [i \in 1 .. (IF Len(f) > end THEN Len(f) ELSE end) |->
        IF i \in at + 1 .. end THEN bytes[i - at]
        ELSE IF i <= Len(f) THEN f[i] ELSE Hole]

Init ==
    /\ arg \in Args
    /\ dest = [i \in 1 .. arg.old |-> Old]
    /\ pos = [src |-> 0, dest |-> 0]
    /\ w = [a \in Actors |->
              [pc |-> IF a = 0 THEN "open" ELSE "none", i |-> 0, off |-> 0, len |-> 0,
               last |-> FALSE, buf |-> <<>>, tr |-> 0, nr |-> 0, tw |-> 0]]
    /\ heap = {} /\ shorts = <<>> /\ failed = {} /\ exit = "no"

At(a, pc) == exit = "no" /\ w[a].pc = pc
Become(a, pc) == w' = [w EXCEPT ![a].pc = pc]

\* FATAL, or exit with an error
Fails(a) ==
    /\ exit' = "failure" /\ failed' = failed \cup {a}

-----------------------------------------------------------------------------
(* main                                                                    *)

\* The checks of the arguments are in Args.  Neither program truncates a
\* destination that exists.
Open ==
    /\ At(0, "open") /\ arg.prog \in Copiers
    /\ Become(0, IF MT THEN "create" ELSE "malloc")
    /\ UNCHANGED <<arg, dest, pos, heap, shorts, failed, exit>>

OpenFails ==
    /\ CallsFail /\ At(0, "open") /\ arg.prog \in Copiers
    /\ Fails(0) /\ UNCHANGED <<arg, dest, pos, w, heap, shorts>>

\* One round of do_mt_copy's creation loop; calloc or pthread_create may fail
\* Mutant: the order of evaluation that the comment in the code warns of
start_offset_wrong(i) == (i * arg.fsize) \div arg.n
start_offset(i) == i * (arg.fsize \div arg.n)

CreateWorker ==
    /\ At(0, "create")
    /\ LET i == w[0].i IN
       w' = [w EXCEPT ![0].i = (i + 1) % arg.n,
                      ![0].pc = IF i + 1 = arg.n THEN "join" ELSE "create",
                      ![i + 1].pc = "malloc",
                      ![i + 1].i = i,
                      ![i + 1].off = start_offset(i),
                      ![i + 1].len = arg.fsize \div arg.n]
    /\ UNCHANGED <<arg, dest, pos, heap, shorts, failed, exit>>

CreateFails ==
    /\ CallsFail /\ At(0, "create")
    /\ Fails(0) /\ UNCHANGED <<arg, dest, pos, w, heap, shorts>>

\* One round of the join loop; after the last one main exits
JoinWorker ==
    /\ At(0, "join") /\ w[w[0].i + 1].pc = "ended"
    /\ LET i == w[0].i IN
       /\ w' = [w EXCEPT ![0].i = i + 1]
       /\ exit' = IF i + 1 = arg.n THEN "success" ELSE "no"
    /\ UNCHANGED <<arg, dest, pos, heap, shorts, failed>>

-----------------------------------------------------------------------------
(* docopy of simpcp1.c and simpcp2.c, __do_mt_copy and worker of mt_copy.c *)

\* worker, after its segment: the last thread copies the remaining bytes
\* Mutant: it does not
NextSegment_no_rem(a) == [w EXCEPT ![a].pc = "ended"]
NextSegment(a) ==
    IF arg.fsize % arg.n # 0 /\ w[a].i = arg.n - 1 /\ ~w[a].last
    THEN [w EXCEPT ![a].pc = "malloc", ![a].last = TRUE, ![a].off = @ + w[a].len,
                   ![a].len = arg.fsize % arg.n, ![a].tr = 0, ![a].tw = 0]
    ELSE [w EXCEPT ![a].pc = "ended"]

\* The end of the copy: docopy's caller exits, a worker goes on
\* to its next segment and disregards the result
EndCopy(a, ok) ==
    /\ failed' = IF ok THEN failed ELSE failed \cup {a}
    /\ IF MT THEN w' = NextSegment(a) /\ UNCHANGED exit
       ELSE exit' = (IF ok THEN "success" ELSE "failure") /\ UNCHANGED w

\* the buffer of actor a, and how much it holds
Buf(a) == <<a, w[a].last>>
BufSize(a) == IF MT THEN w[a].len ELSE BlkSize

Malloc(a) ==
    /\ At(a, "malloc")
    /\ w' = [w EXCEPT ![a].pc = "read", ![a].buf = [i \in 1 .. BufSize(a) |-> Garbage]]
    /\ heap' = heap \cup {Buf(a)}
    /\ UNCHANGED <<arg, dest, pos, shorts, failed, exit>>

MallocFails(a) ==
    /\ CallsFail /\ At(a, "malloc")
    /\ EndCopy(a, FALSE) /\ UNCHANGED <<arg, dest, pos, heap, shorts>>

\* What a call asked for n bytes may transfer: all of them, or fewer
Transfers(n) ==
    {k \in 0 .. n : k = n \/ (k > 0 /\ Len(shorts) < MaxShort)}

Transferred(k, n, call) == shorts' = IF k = n THEN shorts ELSE Append(shorts, call)

\* pread and pwrite use the segment's offset, read and write the file's
\* Mutant: write instead of pwrite
DestOffset_shared(a) == pos.dest
SrcOffset(a) == IF MT THEN w[a].off ELSE pos.src
DestOffset(a) == IF MT THEN w[a].off ELSE pos.dest
Smaller(m, n) == IF m < n THEN m ELSE n

\* read or pread: from the file's offset, or the segment's, to the start of
\* the buffer
Buffered(a, k) ==
    [i \in DOMAIN w[a].buf |-> IF i <= k THEN SrcOffset(a) + i ELSE w[a].buf[i]]

\* the end of fd_read: the number of bytes read is known
GotBytes(a, k, nr) ==
    [w EXCEPT ![a].pc = "write", ![a].buf = Buffered(a, k), ![a].nr = nr, ![a].tr = 0, ![a].tw = 0]

\* fd_read's loop, or simpcp1.c's single read
\* Mutant: does not notice the end of the file
ReadLoop_no_eof(a, k) ==
    LET tr == w[a].tr + k IN
    IF arg.prog # "simpcp1" /\ tr < BufSize(a)
    THEN [w EXCEPT ![a].buf = Buffered(a, k), ![a].tr = tr]
    ELSE GotBytes(a, k, tr)
ReadLoop(a, k) ==
    LET tr == w[a].tr + k IN
    IF arg.prog # "simpcp1" /\ k # 0 /\ tr < BufSize(a)
    THEN [w EXCEPT ![a].buf = Buffered(a, k), ![a].tr = tr]
    ELSE GotBytes(a, k, tr)

Read(a) ==
    /\ At(a, "read")
    /\ LET n == Smaller(BufSize(a), arg.fsize - SrcOffset(a)) IN
       \E k \in Transfers(n) :
         /\ Transferred(k, n, "read")
         /\ pos' = IF MT THEN pos ELSE [pos EXCEPT !.src = @ + k]
         /\ w' = ReadLoop(a, k)
    /\ UNCHANGED <<arg, dest, heap, failed, exit>>

\* At the end of the file docopy frees its buffer, __do_mt_copy does not
EndOfFile(a) ==
    /\ At(a, "write") /\ w[a].nr = 0
    /\ heap' = IF MT THEN heap ELSE heap \ {Buf(a)}
    /\ EndCopy(a, TRUE) /\ UNCHANGED <<arg, dest, pos, shorts>>

\* The first k of the nr bytes that write or pwrite is given: always those at
\* the start of the buffer, and past its end if nr is larger
Given(a, k) == [i \in 1 .. k |-> IF i \in DOMAIN w[a].buf THEN w[a].buf[i] ELSE Garbage]

\* fd_write's loop, or simpcp1.c's single write
WriteLoop(a, k) ==
    IF arg.prog # "simpcp1" /\ w[a].tw + k < w[a].nr
    THEN /\ w' = [w EXCEPT ![a].tw = @ + k] /\ UNCHANGED <<heap, failed, exit>>
    ELSE IF MT
    THEN heap' = heap \ {Buf(a)} /\ EndCopy(a, TRUE)
    ELSE Become(a, "read") /\ UNCHANGED <<heap, failed, exit>>

Write(a) ==
    /\ At(a, "write") /\ w[a].nr > 0
    /\ \E k \in Transfers(w[a].nr) :
         /\ Transferred(k, w[a].nr, "write")
         /\ dest' = WriteAt(dest, DestOffset(a), Given(a, k))
         /\ pos' = IF MT THEN pos ELSE [pos EXCEPT !.dest = @ + k]
         /\ WriteLoop(a, k)
    /\ UNCHANGED arg

\* read, pread, write or pwrite fails: the buffer is freed
IOFails(a) ==
    /\ CallsFail
    /\ At(a, "read") \/ (At(a, "write") /\ w[a].nr > 0)
    /\ heap' = heap \ {Buf(a)}
    /\ EndCopy(a, FALSE) /\ UNCHANGED <<arg, dest, pos, shorts>>

-----------------------------------------------------------------------------
(* sgio_simple.c                                                           *)

\* The lengths of the holes and of the data, each smaller than in the code
HOLE_LEN == <<1, 3, 2>>
DATA_LEN == <<2, 1, 2>>
Content == <<11, 12, 13>>   \* 'A', 'B' and 'C'
BufNames == <<"gbufA", "gbufB", "gbufC", "gbuf_hole">>

\* A_START_OFF, B_START_OFF, C_START_OFF
START_OFF(i) ==
    CASE i = 1 -> HOLE_LEN[1]
      [] i = 2 -> HOLE_LEN[1] + DATA_LEN[1] + HOLE_LEN[2]
      [] i = 3 -> HOLE_LEN[1] + DATA_LEN[1] + HOLE_LEN[2] + DATA_LEN[2] + HOLE_LEN[3]

Fill(byte, n) == [k \in 1 .. n |-> byte]

\* One malloc of setup_buffers_goto; if it fails the labels free the buffers
\* allocated before it, the last one first
setup_buffers_goto ==
    /\ At(0, "open") /\ arg.prog \in Layouts /\ w[0].i < 4
    /\ \/ /\ heap' = heap \cup {BufNames[w[0].i + 1]}
          /\ w' = [w EXCEPT ![0].i = @ + 1]
          /\ UNCHANGED <<failed, exit>>
       \/ /\ CallsFail /\ heap' = heap \ {BufNames[k] : k \in 1 .. w[0].i}
          /\ Fails(0) /\ UNCHANGED w
    /\ UNCHANGED <<arg, dest, pos, shorts>>

OpenLayout ==
    /\ At(0, "open") /\ arg.prog \in Layouts /\ w[0].i = 4
    /\ \/ w' = [w EXCEPT ![0].pc = arg.prog, ![0].i = 1] /\ UNCHANGED <<failed, exit>>
       \/ CallsFail /\ Fails(0) /\ UNCHANGED w
    /\ UNCHANGED <<arg, dest, pos, heap, shorts>>

\* lseek to the start of the i-th data, write it; only an error is noticed
wr_discontig_the_normal_way ==
    /\ At(0, "sgio_normal")
    /\ LET i == w[0].i  n == DATA_LEN[i] IN
       \/ \E k \in Transfers(n) :
            /\ Transferred(k, n, "write")
            /\ dest' = WriteAt(dest, START_OFF(i), Fill(Content[i], k))
            /\ w' = [w EXCEPT ![0].i = i + 1, ![0].pc = IF i = 3 THEN "close" ELSE @]
            /\ UNCHANGED <<failed, exit>>
       \/ CallsFail /\ Fails(0) /\ UNCHANGED <<dest, w, shorts>>
    /\ UNCHANGED <<arg, pos, heap>>

iovec ==
    Fill(Hole, HOLE_LEN[1]) \o Fill(Content[1], DATA_LEN[1]) \o
    Fill(Hole, HOLE_LEN[2]) \o Fill(Content[2], DATA_LEN[2]) \o
    Fill(Hole, HOLE_LEN[3]) \o Fill(Content[3], DATA_LEN[3])

\* one writev; main disregards that it failed
wr_discontig_the_better_SGIO_way ==
    /\ At(0, "sgio_writev")
    /\ \/ \E k \in Transfers(Len(iovec)) :
            /\ Transferred(k, Len(iovec), "write")
            /\ dest' = WriteAt(dest, 0, SubSeq(iovec, 1, k)) /\ UNCHANGED failed
       \/ CallsFail /\ failed' = {0} /\ UNCHANGED <<dest, shorts>>
    /\ Become(0, "close")
    /\ UNCHANGED <<arg, pos, heap, exit>>

\* gbuf_hole is not freed
CloseLayout ==
    /\ At(0, "close")
    /\ heap' = heap \ {"gbufA", "gbufB", "gbufC"}
    /\ exit' = "success"
    /\ UNCHANGED <<arg, dest, pos, w, shorts, failed>>

-----------------------------------------------------------------------------
MainStep ==
    \/ Open \/ OpenFails \/ CreateWorker \/ CreateFails \/ JoinWorker
    \/ setup_buffers_goto \/ OpenLayout \/ wr_discontig_the_normal_way
    \/ wr_discontig_the_better_SGIO_way \/ CloseLayout

CopyStep(a) == Malloc(a) \/ Read(a) \/ EndOfFile(a) \/ Write(a)

Next == MainStep \/ \E a \in Actors : CopyStep(a) \/ MallocFails(a) \/ IOFails(a)

Spec == Init /\ [][Next]_vars

\* Every thread that can go on does: nothing in these programs waits but join.
\* No call has to fail.
FairSpec == Spec /\ WF_vars(MainStep) /\ \A a \in Actors : WF_vars(CopyStep(a))

-----------------------------------------------------------------------------
(* Properties                                                              *)

ShortOf(call) == \E i \in DOMAIN shorts : shorts[i] = call

\* The type of the state: every thread's segment lies within the source, and
\* fd_write is never asked for more bytes than the buffer holds, unless a read
\* was short: then fd_read, which starts again at the start of its buffer, may
\* return more than it was asked for.
TypeOK ==
    /\ arg \in Args
    /\ \A i \in DOMAIN dest : dest[i] \in Int
    /\ pos \in [src : 0 .. arg.fsize, dest : Nat]
    /\ \A a \in Actors : w[a].nr \in Nat /\ w[a].tr \in Nat /\ w[a].off \in Nat
    /\ MT => \A a \in Actors : w[a].off + w[a].len <= arg.fsize
    /\ \A a \in Actors : At(a, "write") => w[a].nr <= BufSize(a) \/ ShortOf("read")
    /\ failed \subseteq Actors /\ exit \in {"no", "success", "failure"}
    /\ Len(shorts) <= MaxShort

\* At every moment of a copy, whatever has failed and however the threads
\* interleave, a byte of the destination is the source's byte of the same
\* offset, or still the old one, or in a hole, as long as no read was short;
\* a short write of mt_copy.c, which repeats the whole pwrite, does no harm to that.
NoWrongByte ==
    arg.prog \in Copiers /\ (MT \/ ~ShortOf("write")) /\ (ShortOf("read") => arg.prog = "simpcp1") =>
        \A i \in DOMAIN dest :
            dest[i] \in (IF i <= arg.fsize THEN {i} ELSE {}) \cup {IF i <= arg.old THEN Old ELSE Hole}

\* A copy that succeeds without a short transfer leaves the source's bytes in
\* the destination, each segment copied by one thread and the remaining bytes
\* by the last, and behind them what a longer old destination had there: none of
\* the programs truncates.  simpcp1.c, which has no read loop, also copies a
\* source that is read in short pieces.
Unharmed == ~ShortOf("write") /\ (ShortOf("read") => arg.prog = "simpcp1")
CopyExact ==
    arg.prog \in Copiers /\ exit = "success" /\ failed = {} /\ Unharmed =>
        /\ Len(dest) = (IF arg.fsize > arg.old THEN arg.fsize ELSE arg.old)
        /\ \A i \in DOMAIN dest : dest[i] = IF i <= arg.fsize THEN i ELSE Old

\* sgio_simple.c's two methods produce the same file: the layout its comment draws
LayoutSame ==
    arg.prog \in Layouts /\ exit = "success" /\ failed = {} /\ shorts = <<>> => dest = iovec

\* The buffers a program leaves when it ends by itself.  simpcp1.c and simpcp2.c
\* leave none, whichever call failed.  mt_copy.c, when main has joined its
\* threads, leaves only those of threads that had nothing to copy; sgio_simple.c
\* leaves gbuf_hole when it succeeds, nothing when it could not set up all four
\* buffers, and all four when a later call, open, lseek or write, failed.
BuffersFreed ==
    /\ MT /\ exit = "success" =>
         heap \subseteq {<<a, FALSE>> : a \in {b \in 1 .. arg.n : arg.fsize < arg.n}}
    /\ arg.prog \in {"simpcp1", "simpcp2"} /\ exit # "no" => heap = {}
    /\ arg.prog \in Layouts /\ exit = "success" => heap = {"gbuf_hole"}
    /\ arg.prog \in Layouts /\ exit = "failure" =>
         heap = IF w[0].pc = "open" /\ w[0].i < 4 THEN {} ELSE {BufNames[k] : k \in 1 .. 4}

\* What a program leaves behind when it exits: the whole file, no buffers but
\* those named, and success as its status only if no call failed (mt_copy.c's
\* workers and writev's caller drop the error).
AtExit ==
    /\ CopyExact /\ LayoutSame /\ BuffersFreed
    /\ exit = "success" /\ arg.prog \in {"simpcp1", "simpcp2", "sgio_normal"} => failed = {}

\* simpcp2.c:15-19 says that a loop transfers the remaining bytes when a read
\* or a write transfers fewer than it was asked for.
RemainingTransferred ==
    arg.prog = "simpcp2" /\ exit = "success" =>
        \A i \in 1 .. arg.fsize : i \in DOMAIN dest /\ dest[i] = i

\* Every program ends
Terminates == <>(exit # "no")
=============================================================================
