-------------------------------- MODULE Pipe --------------------------------
(***************************************************************************)
(* A pipe of kernel/pipe.c: a ring of PIPESIZE bytes with two uint         *)
(* counters that are never reduced modulo PIPESIZE, shared by processes    *)
(* that inherit its ends through fork() and close them in any order.       *)
(*                                                                         *)
(* Reads and writes hold p->lock except while they sleep, so a step is     *)
(* what a process does between acquiring the lock and letting go of it.    *)
(***************************************************************************)
EXTENDS Integers, Sequences, FiniteSets

CONSTANTS
    Proc,       \* processes that may come to hold an end
    Creator,    \* the one that called pipe()
    Data,       \* bytes
    PIPESIZE,   \* bytes in the ring
    UintMod,    \* 2^32: where the counters wrap
    MaxCount,   \* bound: longest buffer of a read or a write
    Killable    \* processes that may be killed

ASSUME PipeAssumption ==
    /\ Creator \in Proc
    /\ Data # {}
    /\ PIPESIZE \in Nat \ {0}
    /\ UintMod \in Nat /\ UintMod > PIPESIZE /\ UintMod % PIPESIZE = 0
    /\ MaxCount \in Nat \ {0}
    /\ Killable \subseteq Proc

VARIABLES
    data,       \* p->data
    nread,      \* p->nread, total bytes read so far
    nwrite,     \* p->nwrite, total bytes written so far
    readopen,   \* p->readopen
    writeopen,  \* p->writeopen
    freed,      \* the pipe's page went back to kfree()
    rd, wr,     \* processes whose file table holds the read, the write end
    pc,         \* where each process is
    want,       \* n of the process's piperead()
    buf,        \* what its pipewrite() has still to copy
    got,        \* bytes the latest piperead() returned
    ret,        \* how the latest call ended
    killed      \* p->killed

ring  == <<data, nread, nwrite>>
ends  == <<readopen, writeopen, freed, rd, wr>>
procs == <<pc, want, buf, got, ret, killed>>
vars  == <<data, nread, nwrite, readopen, writeopen, freed, rd, wr,
           pc, want, buf, got, ret, killed>>

InCall == {"read", "rsleep", "write", "wsleep", "closeR", "closeW"}

Init ==
    /\ data \in [0..(PIPESIZE - 1) -> Data]
    /\ nread = 0 /\ nwrite = 0
    /\ readopen = TRUE /\ writeopen = TRUE
    /\ freed = FALSE
    /\ rd = {Creator} /\ wr = {Creator}
    /\ pc = [p \in Proc |-> "user"]
    /\ want = [p \in Proc |-> 0]
    /\ buf = [p \in Proc |-> <<>>]
    /\ got = <<>>
    /\ ret = "none"
    /\ killed = [p \in Proc |-> FALSE]

-----------------------------------------------------------------------------
(* The counters *)

Used == (nwrite - nread) % UintMod

Room == PIPESIZE - Used
Full == nwrite = (nread + PIPESIZE) % UintMod
Empty == nread = nwrite

Smaller(m, n) == IF m <= n THEN m ELSE n

\* The index of the i-th byte at or after counter c.
SlotOf(c, i) == ((c + i - 1) % UintMod) % PIPESIZE

\* data[] after the bytes of s are stored from counter nwrite on.
Stored(s) ==
    [j \in DOMAIN data |->
        IF \E i \in 1..Len(s) : SlotOf(nwrite, i) = j
        THEN s[CHOOSE i \in 1..Len(s) : SlotOf(nwrite, i) = j]
        ELSE data[j]]

\* The k bytes from counter nread on.
Taken_NextByte(k) == [i \in 1..k |-> data[SlotOf(nread, i + 1)]]  \* mutant: ++nread

Taken(k) == [i \in 1..k |-> data[SlotOf(nread, i)]]

\* wakeup(&p->nread) and wakeup(&p->nwrite) over the processes' places.
WakeReaders_Nobody(at) == at                   \* mutant: no wakeup

WakeReaders(at) == [p \in Proc |-> IF at[p] = "rsleep" THEN "read" ELSE at[p]]
WakeWriters(at) == [p \in Proc |-> IF at[p] = "wsleep" THEN "write" ELSE at[p]]

-----------------------------------------------------------------------------
(* piperead() *)

CallRead(p, n) ==
    /\ pc[p] = "user" /\ p \in rd /\ ~killed[p]
    /\ pc' = [pc EXCEPT ![p] = "read"]
    /\ want' = [want EXCEPT ![p] = n]
    /\ UNCHANGED <<ring, ends, buf, got, ret, killed>>

MustRead == Empty /\ writeopen

\* kill() does not take p->lock: it may come between the test of p->killed
\* and sleep(), and then wakes nobody.
KillBeforeSleep(p) ==
    \/ UNCHANGED killed
    \/ p \in Killable /\ killed' = [killed EXCEPT ![p] = TRUE]

ReadSleep(p) ==
    /\ pc[p] = "read" /\ MustRead /\ ~killed[p]
    /\ pc' = [pc EXCEPT ![p] = "rsleep"]
    /\ KillBeforeSleep(p)
    /\ UNCHANGED <<ring, ends, want, buf, got, ret>>

ReadKilled(p) ==
    /\ pc[p] = "read" /\ MustRead /\ killed[p]
    /\ pc' = [pc EXCEPT ![p] = "user"]
    /\ want' = [want EXCEPT ![p] = 0]
    /\ ret' = "error"
    /\ UNCHANGED <<ring, ends, buf, got, killed>>

\* mutant: the writers are not told that there is room
Read_Quiet(p) ==
    /\ pc[p] = "read" /\ ~MustRead
    /\ LET k == Smaller(want[p], Used) IN
        /\ got' = Taken(k)
        /\ nread' = (nread + k) % UintMod
    /\ pc' = [pc EXCEPT ![p] = "user"]
    /\ want' = [want EXCEPT ![p] = 0]
    /\ ret' = "done"
    /\ UNCHANGED <<data, nwrite, ends, buf, killed>>

\* Take what there is, at most n bytes, possibly none at the end of file.
Read(p) ==
    /\ pc[p] = "read" /\ ~MustRead
    /\ LET k == Smaller(want[p], Used) IN
        /\ got' = Taken(k)
        /\ nread' = (nread + k) % UintMod
    /\ pc' = WakeWriters([pc EXCEPT ![p] = "user"])
    /\ want' = [want EXCEPT ![p] = 0]
    /\ ret' = "done"
    /\ UNCHANGED <<data, nwrite, ends, buf, killed>>

-----------------------------------------------------------------------------
(* pipewrite() *)

CallWrite(p, s) ==
    /\ pc[p] = "user" /\ p \in wr /\ ~killed[p]
    /\ pc' = [pc EXCEPT ![p] = "write"]
    /\ buf' = [buf EXCEPT ![p] = s]
    /\ UNCHANGED <<ring, ends, want, got, ret, killed>>

Fits(p) == Len(buf[p]) <= Room

Store(s) ==
    /\ data' = Stored(s)
    /\ nwrite' = (nwrite + Len(s)) % UintMod
    /\ UNCHANGED nread

\* All the remaining bytes fit.
Write(p) ==
    /\ pc[p] = "write" /\ Fits(p)
    /\ Store(buf[p])
    /\ pc' = WakeReaders([pc EXCEPT ![p] = "user"])
    /\ buf' = [buf EXCEPT ![p] = <<>>]
    /\ ret' = "done"
    /\ UNCHANGED <<ends, want, got, killed>>

WriteGivesUp(p) == ~readopen \/ killed[p]

\* The ring fills up: copy what fits, wake the readers and sleep.
WriteSleep(p) ==
    /\ pc[p] = "write" /\ ~Fits(p) /\ ~WriteGivesUp(p)
    /\ Store(SubSeq(buf[p], 1, Room))
    /\ pc' = WakeReaders([pc EXCEPT ![p] = "wsleep"])
    /\ buf' = [buf EXCEPT ![p] = SubSeq(@, Room + 1, Len(@))]
    /\ KillBeforeSleep(p)
    /\ UNCHANGED <<ends, want, got, ret>>

\* The ring fills up and the write fails: what fitted stays in the ring, and
\* the readers are not woken.
WriteFails(p) ==
    /\ pc[p] = "write" /\ ~Fits(p) /\ WriteGivesUp(p)
    /\ Store(SubSeq(buf[p], 1, Room))
    /\ pc' = [pc EXCEPT ![p] = "user"]
    /\ buf' = [buf EXCEPT ![p] = <<>>]
    /\ ret' = "error"
    /\ UNCHANGED <<ends, want, got, killed>>

-----------------------------------------------------------------------------
(* The ends: fork(), fileclose() and pipeclose() *)

\* fork(): q is a new process that inherits p's ends.
Inherit(p, q) ==
    /\ pc[p] = "user" /\ ~killed[p] /\ p \in rd \cup wr
    /\ q \notin rd \cup wr /\ pc[q] = "user" /\ ~killed[q]
    /\ rd' = IF p \in rd THEN rd \cup {q} ELSE rd
    /\ wr' = IF p \in wr THEN wr \cup {q} ELSE wr
    /\ UNCHANGED <<ring, readopen, writeopen, freed, procs>>

\* fileclose(), by close() or exit(): drop a reference; the last one is on
\* its way to pipeclose().
CloseRead(p) ==
    /\ pc[p] = "user" /\ p \in rd
    /\ rd' = rd \ {p}
    /\ pc' = IF rd = {p} THEN [pc EXCEPT ![p] = "closeR"] ELSE pc
    /\ UNCHANGED <<ring, readopen, writeopen, freed, wr, want, buf, got, ret, killed>>

CloseWrite(p) ==
    /\ pc[p] = "user" /\ p \in wr
    /\ wr' = wr \ {p}
    /\ pc' = IF wr = {p} THEN [pc EXCEPT ![p] = "closeW"] ELSE pc
    /\ UNCHANGED <<ring, readopen, writeopen, freed, rd, want, buf, got, ret, killed>>

\* The page is freed when the other end is closed already.
BothClosed_OneIsEnough(r, w) == ~r \/ ~w       \* mutant

BothClosed(r, w) == ~r /\ ~w

PipeCloseRead(p) ==
    /\ pc[p] = "closeR"
    /\ readopen' = FALSE
    /\ freed' = BothClosed(FALSE, writeopen)
    /\ pc' = WakeWriters([pc EXCEPT ![p] = "user"])
    /\ UNCHANGED <<ring, writeopen, rd, wr, want, buf, got, ret, killed>>

\* mutant: the readers are not told of the end of file
PipeCloseWrite_Quiet(p) ==
    /\ pc[p] = "closeW"
    /\ writeopen' = FALSE
    /\ freed' = BothClosed(readopen, FALSE)
    /\ pc' = [pc EXCEPT ![p] = "user"]
    /\ UNCHANGED <<ring, readopen, rd, wr, want, buf, got, ret, killed>>

PipeCloseWrite(p) ==
    /\ pc[p] = "closeW"
    /\ writeopen' = FALSE
    /\ freed' = BothClosed(readopen, FALSE)
    /\ pc' = WakeReaders([pc EXCEPT ![p] = "user"])
    /\ UNCHANGED <<ring, readopen, rd, wr, want, buf, got, ret, killed>>

\* kill(): wakes the process if it sleeps.
Kill(p) ==
    /\ ~killed[p]
    /\ killed' = [killed EXCEPT ![p] = TRUE]
    /\ pc' = [pc EXCEPT ![p] = IF @ = "rsleep" THEN "read"
                               ELSE IF @ = "wsleep" THEN "write" ELSE @]
    /\ UNCHANGED <<ring, ends, want, buf, got, ret>>

-----------------------------------------------------------------------------
Buffers == UNION {[1..n -> Data] : n \in 1..MaxCount}

\* The steps of a read or a write, until it sleeps or returns.
CallStep(p) ==
    \/ ReadSleep(p) \/ ReadKilled(p) \/ Read(p)
    \/ Write(p) \/ WriteSleep(p) \/ WriteFails(p)

CloseStep(p) == PipeCloseRead(p) \/ PipeCloseWrite(p)

Next ==
    \/ \E p \in Proc :
        \/ \E n \in 1..MaxCount : CallRead(p, n)
        \/ \E s \in Buffers : CallWrite(p, s)
        \/ CallStep(p)
        \/ CloseRead(p) \/ CloseWrite(p) \/ CloseStep(p)
        \/ \E q \in Proc : Inherit(p, q)
    \/ \E p \in Killable : Kill(p)

Spec == Init /\ [][Next]_vars

\* A process that can run gets p->lock and goes on; a killed one leaves the
\* kernel through exit(), which closes its files.
FairSpec ==
    /\ Spec
    /\ \A p \in Proc :
        /\ WF_vars(CallStep(p))
        /\ WF_vars(CloseStep(p))
        /\ WF_vars(killed[p] /\ (CloseRead(p) \/ CloseWrite(p)))

-----------------------------------------------------------------------------
(* Properties *)

Counter == 0..(UintMod - 1)

TypeOK ==
    /\ data \in [0..(PIPESIZE - 1) -> Data]
    /\ nread \in Counter /\ nwrite \in Counter
    /\ readopen \in BOOLEAN /\ writeopen \in BOOLEAN /\ freed \in BOOLEAN
    /\ rd \subseteq Proc /\ wr \subseteq Proc
    /\ pc \in [Proc -> InCall \cup {"user"}]
    /\ want \in [Proc -> 0..MaxCount]
    /\ buf \in [Proc -> Seq(Data)]
    /\ got \in Seq(Data)
    /\ ret \in {"none", "done", "error"}
    /\ killed \in [Proc -> BOOLEAN]

\* The ring never holds more than PIPESIZE bytes although the counters wrap,
\* so no unread byte is overwritten (pipe.c:94 against :102).
RingBound == Used <= PIPESIZE

\* Nobody is inside the pipe, or can still get there, once its page is freed
\* (pipe.c:76-80): close of one end races close of the other.
NotFreedInUse ==
    freed => rd = {} /\ wr = {} /\ \A p \in Proc : pc[p] = "user"

\* A writer sleeps only while the ring is full and somebody can drain it, and
\* a reader only while a writer exists: no wakeup is lost, on any path.
SleepersJustified ==
    \A p \in Proc :
        /\ pc[p] = "wsleep" => Full /\ readopen
        /\ pc[p] = "rsleep" => writeopen

\* A reader that sleeps beside unread bytes was forgotten by a writer killed
\* half way (pipe.c:95-98); there is no other way.
ReaderForgottenOnlyByKill ==
    \A p \in Proc :
        pc[p] = "rsleep" => Empty \/ \E w \in Proc : killed[w]

\* proc.c:521-523 "we can be guaranteed that we won't miss any wakeup": a
\* reader does not stay asleep while there are bytes for it.
NoMissedWakeup ==
    \A p \in Proc : pc[p] = "rsleep" ~> pc[p] # "rsleep" \/ Empty

\* pipe.c:109-112: a write() on a pipe whose read end is closed fails.
WriteToClosedFails ==
    [][\A p \in Proc :
          pc[p] = "write" /\ pc'[p] = "user" /\ ~readopen => ret' = "error"]_vars

\* pipewritable(): uint arithmetic on both sides of `<`.
PipeWritable == nwrite < (nread + PIPESIZE) % UintMod \/ ~readopen

\* pipe.c:20-24 "is the buffer full/empty" is "a simple comparison of the two
\* counters": epoll reports a pipe as writable exactly when a write of one byte
\* would not block.
WritableIsNotFull == PipeWritable = (~Full \/ ~readopen)

Contents == Taken(Used)

\* The pipe delivers every byte once and in order, and reports the end of
\* file only when there is one: it implements ByteQueue.
Queue == INSTANCE ByteQueue WITH q <- Contents, Capacity <- PIPESIZE

RefinesQueue == Queue!Spec

\* Nobody is left blocked once the other end has gone (pipe.c:70-75): readers
\* see the end of file, writers the broken pipe.
PeersSeeClose ==
    \A p \in Proc :
        /\ ~writeopen /\ pc[p] \in {"read", "rsleep"} ~> pc[p] = "user"
        /\ ~readopen /\ pc[p] \in {"write", "wsleep"} ~> pc[p] = "user"
=============================================================================
