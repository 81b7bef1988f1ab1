---------------------------- MODULE Pipe_proofs ----------------------------
(***************************************************************************)
(* Proofs about Pipe, for every ring size, every width of the counters     *)
(* that the ring divides, every set of processes and of bytes.             *)
(***************************************************************************)
EXTENDS Pipe, Counters, TLAPS

-----------------------------------------------------------------------------
(* Counters *)

\* The constants are numbers, and a ring is shorter than a lap of a counter.
LEMMA Sizes ==
    /\ PIPESIZE \in Nat \ {0} /\ UintMod \in Nat \ {0}
    /\ PIPESIZE < UintMod
    /\ MaxCount \in Nat \ {0} /\ Creator \in Proc /\ Killable \subseteq Proc
  BY PipeAssumption

\* The test `nwrite == nread + PIPESIZE` is about the difference.
LEMMA FullMeans ==
    ASSUME NEW x \in Counter, NEW y \in Counter
    PROVE  y = (x + PIPESIZE) % UintMod <=> (y - x) % UintMod = PIPESIZE
<1> USE Sizes DEF Counter
<1>1. (y - x) % UintMod = IF x <= y THEN y - x ELSE y - x + UintMod
  BY Difference
<1>2. PIPESIZE \in 0..(UintMod - 1)
  OBVIOUS
<1>3. (x + PIPESIZE) % UintMod
        = IF x + PIPESIZE < UintMod THEN x + PIPESIZE ELSE x + PIPESIZE - UintMod
  BY <1>2, Sum
<1> QED
  BY <1>1, <1>3

\* What nwrite - nread is, and when the two tests of the code agree with it.
LEMMA UsedIs ==
    ASSUME nread \in Counter, nwrite \in Counter
    PROVE  /\ Used \in Counter
           /\ Used = IF nread <= nwrite THEN nwrite - nread ELSE nwrite - nread + UintMod
           /\ Empty <=> Used = 0
           /\ Full <=> Used = PIPESIZE
<1> USE Sizes DEF Counter
<1>1. Used = IF nread <= nwrite THEN nwrite - nread ELSE nwrite - nread + UintMod
  BY Difference DEF Used
<1>2. Used \in Counter
  BY <1>1
<1>3. Empty <=> Used = 0
  BY <1>1 DEF Empty
<1>4. Full <=> Used = PIPESIZE
  BY FullMeans, Zenon DEF Full, Used
<1> QED
  BY <1>1, <1>2, <1>3, <1>4

\* A read takes its bytes off the count.
LEMMA UsedAfterRead ==
    ASSUME nread \in Counter, nwrite \in Counter,
           NEW k \in 0..Used,
           nread' = (nread + k) % UintMod, nwrite' = nwrite
    PROVE  nread' \in Counter /\ Used' = Used - k
<1> USE Sizes
<1>1. Used \in Counter
      /\ Used = IF nread <= nwrite THEN nwrite - nread ELSE nwrite - nread + UintMod
  BY UsedIs
<1>2. k \in Counter
  BY <1>1 DEF Counter
<1>3. nread' = IF nread + k < UintMod THEN nread + k ELSE nread + k - UintMod
  BY <1>2, Sum DEF Counter
<1>4. nread' \in Counter
  BY <1>2, <1>3 DEF Counter
<1>5. Used' = IF nread' <= nwrite' THEN nwrite' - nread' ELSE nwrite' - nread' + UintMod
  BY <1>4, Difference DEF Used, Counter
<1> QED
  BY <1>1, <1>2, <1>3, <1>4, <1>5 DEF Counter

\* A write that has room adds its bytes to the count.
LEMMA UsedAfterWrite ==
    ASSUME nread \in Counter, nwrite \in Counter, RingBound,
           NEW k \in 0..Room,
           nwrite' = (nwrite + k) % UintMod, nread' = nread
    PROVE  nwrite' \in Counter /\ Used' = Used + k
<1> USE Sizes
<1>1. Used \in Counter
      /\ Used = IF nread <= nwrite THEN nwrite - nread ELSE nwrite - nread + UintMod
  BY UsedIs
<1>2. k \in Counter /\ Used + k <= PIPESIZE
  BY <1>1 DEF Counter, RingBound, Room
<1>3. nwrite' = IF nwrite + k < UintMod THEN nwrite + k ELSE nwrite + k - UintMod
  BY <1>2, Sum DEF Counter
<1>4. nwrite' \in Counter
  BY <1>2, <1>3 DEF Counter
<1>5. Used' = IF nread' <= nwrite' THEN nwrite' - nread' ELSE nwrite' - nread' + UintMod
  BY <1>4, Difference DEF Used, Counter
<1> QED
  BY <1>1, <1>2, <1>3, <1>4, <1>5 DEF Counter

-----------------------------------------------------------------------------
(* The inductive invariant *)

\* Who is in a call still holds the end it uses.
HoldInv == \A p \in Proc :
    /\ pc[p] \in {"read", "rsleep"} => p \in rd /\ want[p] > 0
    /\ pc[p] \in {"write", "wsleep"} => p \in wr

\* An end stays open as long as somebody holds it.
EndsInv ==
    /\ rd # {} => readopen
    /\ wr # {} => writeopen
    /\ freed <=> BothClosed(readopen, writeopen)

\* One process, the last holder, is on its way to pipeclose() for an end.
CloseInv ==
    /\ \A p \in Proc :
          /\ pc[p] = "closeR" => rd = {} /\ readopen
          /\ pc[p] = "closeW" => wr = {} /\ writeopen
    /\ \A p, q \in Proc :
          pc[p] = pc[q] /\ pc[p] \in {"closeR", "closeW"} => p = q

IInv ==
    /\ TypeOK
    /\ HoldInv
    /\ EndsInv
    /\ CloseInv
    /\ RingBound
    /\ SleepersJustified
    /\ ReaderForgottenOnlyByKill

\* A slot of the ring is in the ring.
LEMMA SlotType ==
    ASSUME NEW c \in Int, NEW i \in Int
    PROVE  SlotOf(c, i) \in 0..(PIPESIZE - 1)
<1>1. (c + i - 1) % UintMod \in Int
  BY ModRange, Sizes
<1> QED
  BY <1>1, ModRange, Sizes DEF SlotOf

\* Storing bytes leaves a ring of bytes.
LEMMA StoredType ==
    ASSUME data \in [0..(PIPESIZE - 1) -> Data], NEW s \in Seq(Data)
    PROVE  Stored(s) \in [0..(PIPESIZE - 1) -> Data]
<1> DEFINE Hit(j) == \E i \in 1..Len(s) : SlotOf(nwrite, i) = j
           At(j) == CHOOSE i \in 1..Len(s) : SlotOf(nwrite, i) = j
<1>1. \A j : Hit(j) => At(j) \in 1..Len(s)
  OBVIOUS
<1>2. \A i \in 1..Len(s) : s[i] \in Data
  OBVIOUS
<1>3. \A j \in DOMAIN data : (IF Hit(j) THEN s[At(j)] ELSE data[j]) \in Data
  BY <1>1, <1>2
<1> QED
  BY <1>3 DEF Stored

\* A read returns bytes.
LEMMA TakenType ==
    ASSUME data \in [0..(PIPESIZE - 1) -> Data], nread \in Counter, NEW k \in Nat
    PROVE  Taken(k) \in Seq(Data) /\ Len(Taken(k)) = k
<1>1. ASSUME NEW i \in 1..k PROVE data[SlotOf(nread, i)] \in Data
  <2>1. nread \in Int /\ i \in Int
    BY Sizes DEF Counter
  <2>2. SlotOf(nread, i) \in 0..(PIPESIZE - 1)
    BY <2>1, SlotType
  <2> QED
    BY <2>2
<1>2. Taken(k) \in [1..k -> Data]
  BY <1>1 DEF Taken
<1> QED
  BY <1>2

\* The first k bytes of a buffer, and the others.
LEMMA Split ==
    ASSUME NEW s \in Seq(Data), NEW k \in 0..Len(s)
    PROVE  /\ SubSeq(s, 1, k) \in Seq(Data) /\ Len(SubSeq(s, 1, k)) = k
           /\ SubSeq(s, k + 1, Len(s)) \in Seq(Data)
           /\ \A i \in 1..k : SubSeq(s, 1, k)[i] = s[i]
  OBVIOUS

-----------------------------------------------------------------------------
(* Every action preserves IInv.  First those that leave the ring alone. *)

\* Initially the creator holds both ends of an empty ring.
LEMMA InitIInv == Init => IInv
<1> SUFFICES ASSUME Init PROVE IInv
  OBVIOUS
<1> USE Sizes DEF Init
<1>1. TypeOK
  <2>1. 0 \in Counter /\ <<>> \in Seq(Data) /\ 0 \in 0..MaxCount
    BY DEF Counter
  <2> QED
    BY <2>1 DEF TypeOK
<1>2. HoldInv /\ EndsInv /\ CloseInv
  BY DEF HoldInv, EndsInv, CloseInv, BothClosed
<1>3. RingBound
  <2>1. nread \in Counter /\ nwrite \in Counter /\ Empty
    BY DEF Counter, Empty
  <2> QED
    BY <2>1, UsedIs DEF RingBound
<1>4. SleepersJustified /\ ReaderForgottenOnlyByKill
  BY DEF SleepersJustified, ReaderForgottenOnlyByKill
<1> QED
  BY <1>1, <1>2, <1>3, <1>4 DEF IInv

\* A process begins a read.
LEMMA CallReadStep ==
    ASSUME IInv, NEW p \in Proc, NEW n \in 1..MaxCount, CallRead(p, n)
    PROVE  IInv'
<1> USE Sizes DEF IInv, CallRead, ring, ends
<1>1. TypeOK'
  BY DEF TypeOK, InCall
<1>2. HoldInv' /\ EndsInv' /\ CloseInv'
  BY DEF TypeOK, HoldInv, EndsInv, CloseInv
<1>3. RingBound'
  BY DEF RingBound, Used
<1>4. SleepersJustified' /\ ReaderForgottenOnlyByKill'
  BY DEF TypeOK, SleepersJustified, ReaderForgottenOnlyByKill, Full, Empty
<1> QED
  BY <1>1, <1>2, <1>3, <1>4

\* A reader sleeps on an empty ring: that is why it is justified.
LEMMA ReadSleepStep ==
    ASSUME IInv, NEW p \in Proc, ReadSleep(p)
    PROVE  IInv'
<1> USE Sizes DEF IInv, ReadSleep, MustRead, KillBeforeSleep, ring, ends
<1>1. TypeOK'
  BY DEF TypeOK, InCall
<1>2. HoldInv' /\ EndsInv' /\ CloseInv'
  BY DEF TypeOK, HoldInv, EndsInv, CloseInv
<1>3. RingBound'
  BY DEF RingBound, Used
<1>4. SleepersJustified' /\ ReaderForgottenOnlyByKill'
  BY DEF TypeOK, SleepersJustified, ReaderForgottenOnlyByKill, Full, Empty
<1> QED
  BY <1>1, <1>2, <1>3, <1>4

\* A killed reader leaves.
LEMMA ReadKilledStep ==
    ASSUME IInv, NEW p \in Proc, ReadKilled(p)
    PROVE  IInv'
<1> USE Sizes DEF IInv, ReadKilled, ring, ends
<1>1. TypeOK'
  BY DEF TypeOK, InCall
<1>2. HoldInv' /\ EndsInv' /\ CloseInv'
  BY DEF TypeOK, HoldInv, EndsInv, CloseInv
<1>3. RingBound'
  BY DEF RingBound, Used
<1>4. SleepersJustified' /\ ReaderForgottenOnlyByKill'
  BY DEF TypeOK, SleepersJustified, ReaderForgottenOnlyByKill, Full, Empty
<1> QED
  BY <1>1, <1>2, <1>3, <1>4

\* A process begins a write.
LEMMA CallWriteStep ==
    ASSUME IInv, NEW p \in Proc, NEW s \in Buffers, CallWrite(p, s)
    PROVE  IInv'
<1> USE Sizes DEF IInv, CallWrite, ring, ends, Buffers
<1>1. TypeOK'
  BY DEF TypeOK, InCall
<1>2. HoldInv' /\ EndsInv' /\ CloseInv'
  BY DEF TypeOK, HoldInv, EndsInv, CloseInv
<1>3. RingBound'
  BY DEF RingBound, Used
<1>4. SleepersJustified' /\ ReaderForgottenOnlyByKill'
  BY DEF TypeOK, SleepersJustified, ReaderForgottenOnlyByKill, Full, Empty
<1> QED
  BY <1>1, <1>2, <1>3, <1>4

\* fork() gives ends only to who inherits them from a holder.
LEMMA InheritStep ==
    ASSUME IInv, NEW p \in Proc, NEW q \in Proc, Inherit(p, q)
    PROVE  IInv'
<1> USE Sizes DEF IInv, Inherit, ring, procs
<1>1. TypeOK'
  BY DEF TypeOK, InCall
<1>2. HoldInv' /\ EndsInv' /\ CloseInv'
  BY DEF TypeOK, HoldInv, EndsInv, CloseInv
<1>3. RingBound'
  BY DEF RingBound, Used
<1>4. SleepersJustified' /\ ReaderForgottenOnlyByKill'
  BY DEF TypeOK, SleepersJustified, ReaderForgottenOnlyByKill, Full, Empty
<1> QED
  BY <1>1, <1>2, <1>3, <1>4

\* The last holder of the read end goes on to pipeclose().
LEMMA CloseReadStep ==
    ASSUME IInv, NEW p \in Proc, CloseRead(p)
    PROVE  IInv'
<1> USE Sizes DEF IInv, CloseRead, ring
<1>1. TypeOK'
  BY DEF TypeOK, InCall
<1>2. HoldInv' /\ EndsInv' /\ CloseInv'
  BY DEF TypeOK, HoldInv, EndsInv, CloseInv
<1>3. RingBound'
  BY DEF RingBound, Used
<1>4. SleepersJustified' /\ ReaderForgottenOnlyByKill'
  BY DEF TypeOK, SleepersJustified, ReaderForgottenOnlyByKill, Full, Empty
<1> QED
  BY <1>1, <1>2, <1>3, <1>4

\* The last holder of the write end goes on to pipeclose().
LEMMA CloseWriteStep ==
    ASSUME IInv, NEW p \in Proc, CloseWrite(p)
    PROVE  IInv'
<1> USE Sizes DEF IInv, CloseWrite, ring
<1>1. TypeOK'
  BY DEF TypeOK, InCall
<1>2. HoldInv' /\ EndsInv' /\ CloseInv'
  BY DEF TypeOK, HoldInv, EndsInv, CloseInv
<1>3. RingBound'
  BY DEF RingBound, Used
<1>4. SleepersJustified' /\ ReaderForgottenOnlyByKill'
  BY DEF TypeOK, SleepersJustified, ReaderForgottenOnlyByKill, Full, Empty
<1> QED
  BY <1>1, <1>2, <1>3, <1>4

\* The read end is gone: no writer stays asleep.
LEMMA PipeCloseReadStep ==
    ASSUME IInv, NEW p \in Proc, PipeCloseRead(p)
    PROVE  IInv'
<1> USE Sizes DEF IInv, PipeCloseRead, WakeWriters, BothClosed, ring
<1>1. TypeOK'
  BY DEF TypeOK, InCall
<1>2. HoldInv' /\ EndsInv' /\ CloseInv'
  BY DEF TypeOK, HoldInv, EndsInv, CloseInv
<1>3. RingBound'
  BY DEF RingBound, Used
<1>4. SleepersJustified' /\ ReaderForgottenOnlyByKill'
  BY DEF TypeOK, SleepersJustified, ReaderForgottenOnlyByKill, Full, Empty
<1> QED
  BY <1>1, <1>2, <1>3, <1>4

\* The write end is gone: no reader stays asleep.
LEMMA PipeCloseWriteStep ==
    ASSUME IInv, NEW p \in Proc, PipeCloseWrite(p)
    PROVE  IInv'
<1> USE Sizes DEF IInv, PipeCloseWrite, WakeReaders, BothClosed, ring
<1>1. TypeOK'
  BY DEF TypeOK, InCall
<1>2. HoldInv' /\ EndsInv' /\ CloseInv'
  BY DEF TypeOK, HoldInv, EndsInv, CloseInv
<1>3. RingBound'
  BY DEF RingBound, Used
<1>4. SleepersJustified' /\ ReaderForgottenOnlyByKill'
  BY DEF TypeOK, SleepersJustified, ReaderForgottenOnlyByKill, Full, Empty
<1> QED
  BY <1>1, <1>2, <1>3, <1>4

\* kill() wakes who sleeps.
LEMMA KillStep ==
    ASSUME IInv, NEW p \in Killable, Kill(p)
    PROVE  IInv'
<1> USE Sizes DEF IInv, Kill, ring, ends
<1>1. TypeOK'
  BY DEF TypeOK, InCall
<1>2. HoldInv' /\ EndsInv' /\ CloseInv'
  BY DEF TypeOK, HoldInv, EndsInv, CloseInv
<1>3. RingBound'
  BY DEF RingBound, Used
<1>4. SleepersJustified' /\ ReaderForgottenOnlyByKill'
  BY DEF TypeOK, SleepersJustified, ReaderForgottenOnlyByKill, Full, Empty
<1> QED
  BY <1>1, <1>2, <1>3, <1>4

-----------------------------------------------------------------------------
(* The actions that move the counters. *)

\* A read takes what there is, at most n bytes, and wakes the writers.  A
\* reader that sleeps beside it was forgotten before: there are bytes.
LEMMA ReadStep ==
    ASSUME IInv, NEW p \in Proc, Read(p)
    PROVE  IInv'
<1> DEFINE k == Smaller(want[p], Used)
<1> USE Sizes DEF IInv, Read, ends
<1>1. Used \in Nat /\ want[p] \in Nat /\ k \in 0..Used
  BY UsedIs DEF TypeOK, Smaller, Counter
<1>2. nread' \in Counter /\ Used' = Used - k
  BY <1>1, UsedAfterRead DEF TypeOK
<1>3. got' \in Seq(Data)
  BY <1>1, TakenType DEF TypeOK
<1>4. TypeOK'
  BY <1>2, <1>3 DEF TypeOK, InCall, WakeWriters
<1>5. HoldInv' /\ EndsInv' /\ CloseInv'
  BY DEF TypeOK, HoldInv, EndsInv, CloseInv, WakeWriters
<1>6. RingBound'
  BY <1>1, <1>2 DEF RingBound
<1>7. SleepersJustified'
  BY DEF TypeOK, SleepersJustified, WakeWriters
<1>8. ReaderForgottenOnlyByKill'
  <2>1. ASSUME NEW q \in Proc, pc[q] = "rsleep" PROVE \E w \in Proc : killed[w]
    BY <2>1 DEF SleepersJustified, ReaderForgottenOnlyByKill, MustRead
  <2> QED
    BY <2>1 DEF TypeOK, ReaderForgottenOnlyByKill, WakeWriters
<1> QED
  BY <1>4, <1>5, <1>6, <1>7, <1>8

\* What Store does to the ring, for bytes that there is room for.
LEMMA StoreFits ==
    ASSUME TypeOK, RingBound, NEW s \in Seq(Data), Len(s) <= Room, Store(s)
    PROVE  /\ data' \in [0..(PIPESIZE - 1) -> Data]
           /\ nread' \in Counter /\ nwrite' \in Counter
           /\ Used' = Used + Len(s)
           /\ RingBound'
           /\ Full' <=> Used + Len(s) = PIPESIZE
<1> USE Sizes DEF Store
<1>1. data' \in [0..(PIPESIZE - 1) -> Data]
  BY StoredType DEF TypeOK
<1>2. Used \in Counter
  BY UsedIs DEF TypeOK
<1>3. Len(s) \in 0..Room
  BY <1>2 DEF Room, Counter
<1>4. nwrite' \in Counter /\ Used' = Used + Len(s)
  BY <1>3, UsedAfterWrite DEF TypeOK
<1>5. nread' \in Counter
  BY DEF TypeOK
<1>6. Full' <=> Used' = PIPESIZE
  BY <1>4, <1>5, FullMeans, Zenon DEF Full, Used
<1>7. RingBound'
  BY <1>2, <1>3, <1>4 DEF RingBound, Room, Counter
<1> QED
  BY <1>1, <1>4, <1>5, <1>6, <1>7

\* The prefix that fills the ring.
LEMMA Prefix ==
    ASSUME TypeOK, RingBound, NEW p \in Proc, ~Fits(p)
    PROVE  /\ Room \in 0..Len(buf[p])
           /\ SubSeq(buf[p], 1, Room) \in Seq(Data)
           /\ Len(SubSeq(buf[p], 1, Room)) = Room
           /\ SubSeq(buf[p], Room + 1, Len(buf[p])) \in Seq(Data)
<1>1. Used \in Nat /\ Used <= PIPESIZE
  BY UsedIs DEF TypeOK, RingBound, Counter
<1>2. buf[p] \in Seq(Data)
  BY DEF TypeOK
<1>3. Room \in 0..Len(buf[p])
  BY <1>1, <1>2, Sizes DEF Room, Fits
<1> QED
  BY <1>2, <1>3, Split

\* A write that fits wakes the readers.  A writer that sleeps beside it does
\* so because the ring is full, so that nothing fits but nothing.
LEMMA WriteStep ==
    ASSUME IInv, NEW p \in Proc, Write(p)
    PROVE  IInv'
<1> USE DEF IInv, Write, ends
<1>1. buf[p] \in Seq(Data) /\ Len(buf[p]) <= Room
  BY DEF TypeOK, Fits
<1>2. /\ data' \in [0..(PIPESIZE - 1) -> Data]
      /\ nread' \in Counter /\ nwrite' \in Counter
      /\ RingBound'
      /\ Full' <=> Used + Len(buf[p]) = PIPESIZE
  BY <1>1, StoreFits
<1>3. TypeOK'
  BY <1>2 DEF TypeOK, InCall, WakeReaders
<1>4. HoldInv' /\ EndsInv' /\ CloseInv'
  BY DEF TypeOK, HoldInv, EndsInv, CloseInv, WakeReaders
<1>5. Full => Full'
  <2>1. Used \in Nat /\ (Full <=> Used = PIPESIZE)
    BY UsedIs DEF TypeOK, Counter
  <2> QED
    BY <1>1, <1>2, <2>1, Sizes DEF Room
<1>6. SleepersJustified'
  BY <1>5 DEF TypeOK, SleepersJustified, WakeReaders
<1>7. ReaderForgottenOnlyByKill'
  BY DEF TypeOK, ReaderForgottenOnlyByKill, WakeReaders
<1> QED
  BY <1>2, <1>3, <1>4, <1>6, <1>7

\* A write that fills the ring sleeps, and so it is full.
LEMMA WriteSleepStep ==
    ASSUME IInv, NEW p \in Proc, WriteSleep(p)
    PROVE  IInv'
<1> DEFINE s == SubSeq(buf[p], 1, Room)
<1> USE DEF IInv, WriteSleep, KillBeforeSleep, WriteGivesUp, ends
<1>1. s \in Seq(Data) /\ Len(s) = Room /\ SubSeq(buf[p], Room + 1, Len(buf[p])) \in Seq(Data)
  BY Prefix
<1>2. Used \in Nat /\ Room \in Int
  BY UsedIs, Sizes DEF TypeOK, Counter, Room
<1> HIDE DEF s
<1>3. Store(s)
  BY DEF s
<1>4. /\ data' \in [0..(PIPESIZE - 1) -> Data]
      /\ nread' \in Counter /\ nwrite' \in Counter
      /\ RingBound' /\ Full'
  BY <1>1, <1>2, <1>3, StoreFits, Sizes DEF Room
<1>5. TypeOK'
  BY <1>1, <1>4, Sizes DEF TypeOK, InCall, WakeReaders
<1>6. HoldInv' /\ EndsInv' /\ CloseInv'
  BY DEF TypeOK, HoldInv, EndsInv, CloseInv, WakeReaders
<1>7. SleepersJustified'
  BY <1>4 DEF TypeOK, SleepersJustified, WakeReaders
<1>8. ReaderForgottenOnlyByKill'
  BY DEF TypeOK, ReaderForgottenOnlyByKill, WakeReaders
<1> QED
  BY <1>4, <1>5, <1>6, <1>7, <1>8

\* A write that fails leaves the ring full.  A reader it forgets was killed,
\* or is there no more.
LEMMA WriteFailsStep ==
    ASSUME IInv, NEW p \in Proc, WriteFails(p)
    PROVE  IInv'
<1> DEFINE s == SubSeq(buf[p], 1, Room)
<1> USE DEF IInv, WriteFails, WriteGivesUp, ends
<1>1. s \in Seq(Data) /\ Len(s) = Room
  BY Prefix
<1>2. Used \in Nat /\ Room \in Int
  BY UsedIs, Sizes DEF TypeOK, Counter, Room
<1> HIDE DEF s
<1>3. Store(s)
  BY DEF s
<1>4. /\ data' \in [0..(PIPESIZE - 1) -> Data]
      /\ nread' \in Counter /\ nwrite' \in Counter
      /\ RingBound' /\ Full'
  BY <1>1, <1>2, <1>3, StoreFits, Sizes DEF Room
<1>5. TypeOK'
  BY <1>4 DEF TypeOK, InCall
<1>6. HoldInv' /\ EndsInv' /\ CloseInv'
  BY DEF TypeOK, HoldInv, EndsInv, CloseInv
<1>7. SleepersJustified'
  BY <1>4 DEF TypeOK, SleepersJustified
<1>8. ReaderForgottenOnlyByKill'
  <2>1. ASSUME NEW q \in Proc, pc[q] = "rsleep" PROVE killed[p]
    BY <2>1 DEF HoldInv, EndsInv
  <2> QED
    BY <2>1 DEF TypeOK, ReaderForgottenOnlyByKill
<1> QED
  BY <1>4, <1>5, <1>6, <1>7, <1>8

\* A stutter changes nothing.
LEMMA Stutter == ASSUME IInv, UNCHANGED vars PROVE IInv'
  BY DEF vars, IInv, TypeOK, HoldInv, EndsInv, CloseInv, RingBound, Used,
         SleepersJustified, ReaderForgottenOnlyByKill, Full, Empty

-----------------------------------------------------------------------------
(* The theorems *)

\* The inductive invariant holds in every state.
THEOREM Invariance == Spec => []IInv
<1>1. ASSUME IInv, [Next]_vars PROVE IInv'
  <2> USE <1>1
  <2>1. CASE \E p \in Proc : \E n \in 1..MaxCount : CallRead(p, n)
    BY <2>1, CallReadStep
  <2>2. CASE \E p \in Proc : \E s \in Buffers : CallWrite(p, s)
    BY <2>2, CallWriteStep
  <2>3. CASE \E p \in Proc : CallStep(p)
    BY <2>3, ReadSleepStep, ReadKilledStep, ReadStep, WriteStep, WriteSleepStep,
       WriteFailsStep DEF CallStep
  <2>4. CASE \E p \in Proc : CloseRead(p) \/ CloseWrite(p) \/ CloseStep(p)
    BY <2>4, CloseReadStep, CloseWriteStep, PipeCloseReadStep, PipeCloseWriteStep DEF CloseStep
  <2>5. CASE \E p, q \in Proc : Inherit(p, q)
    BY <2>5, InheritStep
  <2>6. CASE \E p \in Killable : Kill(p)
    BY <2>6, KillStep
  <2>7. CASE UNCHANGED vars
    BY <2>7, Stutter
  <2> QED
    BY <2>1, <2>2, <2>3, <2>4, <2>5, <2>6, <2>7 DEF Next
<1> QED
  BY <1>1, InitIInv, PTL DEF Spec

\* Every variable keeps its type: buffers and results are bytes, the counters
\* stay in their width.
THEOREM TypeCorrect == Spec => []TypeOK
  BY Invariance, PTL DEF IInv

\* No unread byte is overwritten, although the counters wrap (pipe.c:94, :102).
THEOREM RingNeverOverflows == Spec => []RingBound
  BY Invariance, PTL DEF IInv

\* Nobody is inside a pipe, or can still get there, once its page is freed
\* (pipe.c:76-80).
THEOREM NobodyInFreedPipe == Spec => []NotFreedInUse
<1>1. IInv => NotFreedInUse
  BY DEF IInv, TypeOK, HoldInv, EndsInv, CloseInv, BothClosed, NotFreedInUse, InCall
<1> QED
  BY <1>1, Invariance, PTL

\* A writer sleeps only on a full ring that somebody can drain, a reader only
\* while a writer exists (pipe.c:95-101, :122-128).
THEOREM SleepersHaveReason == Spec => []SleepersJustified
  BY Invariance, PTL DEF IInv

\* Only a killed writer forgets a reader (pipe.c:95-98).
THEOREM ReadersAreWoken == Spec => []ReaderForgottenOnlyByKill
  BY Invariance, PTL DEF IInv

-----------------------------------------------------------------------------
(* Pipe implements ByteQueue. *)

\* A lap of a counter is a number of laps of the ring.
LEMMA Laps == \E m \in Int : UintMod = PIPESIZE * m
<1>1. 0 % PIPESIZE = UintMod % PIPESIZE
  BY PipeAssumption, SMT
<1>2. PIPESIZE \in Nat \ {0} /\ 0 \in Int /\ UintMod \in Int
  BY Sizes
<1>3. PICK t \in Int : UintMod - 0 = PIPESIZE * t
  BY <1>1, <1>2, SameRemainder, Zenon
<1> QED
  BY <1>3, Sizes

\* Within the ring, different positions have different slots.
LEMMA SlotsDiffer ==
    ASSUME NEW c \in Counter, NEW i \in 1..PIPESIZE, NEW j \in 1..PIPESIZE, i < j
    PROVE  SlotOf(c, i) # SlotOf(c, j)
<1> SUFFICES ASSUME SlotOf(c, i) = SlotOf(c, j) PROVE FALSE
  OBVIOUS
<1> DEFINE x == (c + (i - 1)) % UintMod
           y == (c + (j - 1)) % UintMod
<1>1. /\ x = IF c + (i - 1) < UintMod THEN c + (i - 1) ELSE c + (i - 1) - UintMod
      /\ y = IF c + (j - 1) < UintMod THEN c + (j - 1) ELSE c + (j - 1) - UintMod
  <2>1. i - 1 \in 0..(UintMod - 1) /\ j - 1 \in 0..(UintMod - 1)
    BY Sizes
  <2>2. UintMod \in Nat \ {0} /\ c \in 0..(UintMod - 1)
    BY Sizes DEF Counter
  <2> HIDE DEF x, y
  <2>3. \A d \in 0..(UintMod - 1) :
           (c + d) % UintMod = IF c + d < UintMod THEN c + d ELSE c + d - UintMod
    BY <2>2, Sum
  <2> QED
    BY <2>1, <2>3 DEF x, y
<1>2. c + i - 1 = c + (i - 1) /\ c + j - 1 = c + (j - 1)
  BY Sizes DEF Counter
<1>3. x % PIPESIZE = y % PIPESIZE
  BY <1>2 DEF SlotOf
<1>4. x \in Int /\ y \in Int
  BY <1>1, Sizes DEF Counter
<1> HIDE DEF x, y
<1>5. PICK t \in Int : y - x = PIPESIZE * t
  BY <1>3, <1>4, SameRemainder, Sizes
<1>6. PICK m \in Int : UintMod = PIPESIZE * m
  BY Laps
<1>7. PIPESIZE * (t + m) = PIPESIZE * t + PIPESIZE * m
  BY Sizes, SMT
<1>8. j - i = PIPESIZE * t \/ j - i = PIPESIZE * (t + m)
  BY <1>1, <1>5, <1>6, <1>7, Sizes DEF Counter
<1>9. 0 < j - i /\ j - i < PIPESIZE
  BY Sizes
<1> QED
  BY <1>8, <1>9, NoMultiple, Sizes

\* Slots counted from k bytes further on.
LEMMA SlotShift ==
    ASSUME NEW c \in Counter, NEW k \in 0..PIPESIZE, NEW i \in 1..PIPESIZE, k + i <= PIPESIZE
    PROVE  SlotOf((c + k) % UintMod, i) = SlotOf(c, k + i)
<1> DEFINE b == (c + k) % UintMod
<1>1. k \in 0..(UintMod - 1) /\ i - 1 \in 0..(UintMod - 1) /\ k + i - 1 \in 0..(UintMod - 1)
  BY Sizes
<1>2. b = IF c + k < UintMod THEN c + k ELSE c + k - UintMod
  BY <1>1, Sum, Sizes DEF Counter
<1>3. b \in 0..(UintMod - 1)
  BY <1>1, <1>2, Sizes DEF Counter
<1> HIDE DEF b
<1>4. (b + (i - 1)) % UintMod
        = IF b + (i - 1) < UintMod THEN b + (i - 1) ELSE b + (i - 1) - UintMod
  BY <1>1, <1>3, Sum, Sizes
<1>5. (c + (k + i - 1)) % UintMod
        = IF c + (k + i - 1) < UintMod THEN c + (k + i - 1) ELSE c + (k + i - 1) - UintMod
  BY <1>1, Sum, Sizes DEF Counter
<1>6. (b + (i - 1)) % UintMod = (c + (k + i - 1)) % UintMod
  BY <1>1, <1>2, <1>3, <1>4, <1>5, Sizes DEF Counter
<1>7. b + i - 1 = b + (i - 1) /\ c + (k + i) - 1 = c + (k + i - 1)
  BY <1>1, <1>3, Sizes DEF Counter
<1> QED
  BY <1>6, <1>7 DEF SlotOf, b

\* The free slots begin where the bytes end.
LEMMA WriteCounter ==
    ASSUME nread \in Counter, nwrite \in Counter
    PROVE  nwrite = (nread + Used) % UintMod
<1> USE Sizes
<1>1. Used \in 0..(UintMod - 1)
      /\ Used = IF nread <= nwrite THEN nwrite - nread ELSE nwrite - nread + UintMod
  BY UsedIs DEF Counter
<1>2. (nread + Used) % UintMod
        = IF nread + Used < UintMod THEN nread + Used ELSE nread + Used - UintMod
  BY <1>1, Sum DEF Counter
<1> QED
  BY <1>1, <1>2 DEF Counter

\* A sequence is the function of its elements.
LEMMA SeqIsFunction ==
    ASSUME NEW t \in Seq(Data)
    PROVE  t = [i \in 1..Len(t) |-> t[i]]
  OBVIOUS

\* Bytes that there is room for go behind those that are there.
LEMMA StoreAppends ==
    ASSUME TypeOK, RingBound, NEW s \in Seq(Data), Len(s) <= Room, Store(s)
    PROVE  Contents' = Contents \o s
<1> DEFINE n == Used + Len(s)
           Cell(i) == data'[SlotOf(nread, i)]
<1>1. /\ Used \in Nat /\ Len(s) \in Nat /\ n <= PIPESIZE
      /\ nread \in Counter /\ nwrite \in Counter
      /\ data \in [0..(PIPESIZE - 1) -> Data]
  BY UsedIs, Sizes DEF TypeOK, Room, Counter
<1>2. Used' = n /\ nread' = nread /\ data' = Stored(s)
  BY StoreFits DEF Store
<1>3. ASSUME NEW j \in 1..Len(s) PROVE SlotOf(nwrite, j) = SlotOf(nread, Used + j)
  <2>1. Used \in 0..PIPESIZE /\ j \in 1..PIPESIZE /\ Used + j <= PIPESIZE
    BY <1>1, Sizes
  <2> QED
    BY <1>1, <2>1, SlotShift, WriteCounter
<1>4. ASSUME NEW i \in 1..n, NEW j \in 1..n, SlotOf(nread, i) = SlotOf(nread, j)
      PROVE  i = j
  <2>1. i \in 1..PIPESIZE /\ j \in 1..PIPESIZE
    BY <1>1, Sizes
  <2>2. ~(i < j) /\ ~(j < i)
    BY <1>1, <1>4, <2>1, SlotsDiffer
  <2> QED
    BY <1>1, <2>2
<1>5. ASSUME NEW i \in 1..n PROVE SlotOf(nread, i) \in DOMAIN data
  <2>1. nread \in Int /\ i \in Int
    BY <1>1, Sizes DEF Counter
  <2>2. SlotOf(nread, i) \in 0..(PIPESIZE - 1)
    BY <2>1, SlotType
  <2> QED
    BY <1>1, <2>2
<1>6. ASSUME NEW i \in 1..Used PROVE Cell(i) = Contents[i]
  <2>1. i \in 1..n /\ i \in 1..Used
    BY <1>1
  <2>2. ASSUME NEW j \in 1..Len(s) PROVE SlotOf(nwrite, j) # SlotOf(nread, i)
    <3>1. Used + j \in 1..n /\ Used + j # i
      BY <1>1
    <3> QED
      BY <1>3, <1>4, <2>1, <3>1
  <2>3. Cell(i) = data[SlotOf(nread, i)]
    BY <1>2, <1>5, <2>1, <2>2 DEF Stored
  <2> QED
    BY <2>1, <2>3 DEF Contents, Taken
<1>7. ASSUME NEW i \in (Used + 1)..n PROVE Cell(i) = s[i - Used]
  <2> DEFINE c == SlotOf(nread, i)
             j == i - Used
             Hit == CHOOSE h \in 1..Len(s) : SlotOf(nwrite, h) = c
  <2>1. j \in 1..Len(s) /\ i \in 1..n /\ Used + j = i
    BY <1>1
  <2>2. SlotOf(nwrite, j) = c
    BY <1>3, <2>1
  <2>3. Hit \in 1..Len(s) /\ SlotOf(nwrite, Hit) = c
    BY <2>1, <2>2
  <2> HIDE DEF Hit, c
  <2>4. Used + Hit \in 1..n /\ SlotOf(nread, Used + Hit) = SlotOf(nread, i)
    BY <1>1, <1>3, <2>3 DEF c
  <2>5. Used + Hit = i
    BY <1>4, <2>1, <2>4
  <2>6. Hit = j
    BY <1>1, <2>1, <2>3, <2>5
  <2>7. c \in DOMAIN data
    BY <1>5, <2>1 DEF c
  <2>8. Stored(s)[c] = s[Hit]
    BY <2>1, <2>2, <2>7 DEF Stored, Hit
  <2> QED
    BY <1>2, <2>6, <2>8 DEF c
<1>8. Contents' = [i \in 1..n |-> Cell(i)]
  BY <1>2 DEF Contents, Taken
<1>9. Contents \in Seq(Data) /\ Len(Contents) = Used
  BY <1>1, TakenType DEF Contents
<1> n \in Nat
  BY <1>1
<1> HIDE DEF n, Cell
<1>10. /\ Contents \o s \in Seq(Data) /\ Len(Contents \o s) = n
       /\ \A i \in 1..n : (Contents \o s)[i] = IF i <= Used THEN Contents[i] ELSE s[i - Used]
  BY <1>1, <1>9 DEF n
<1>11. ASSUME NEW i \in 1..n PROVE Cell(i) = (Contents \o s)[i]
  <2>1. CASE i <= Used
    BY <1>1, <1>6, <1>10, <2>1
  <2>2. CASE i > Used
    <3>1. i \in (Used + 1)..n
      BY <1>1, <2>2
    <3>2. (Contents \o s)[i] = s[i - Used]
      BY <1>1, <1>10, <2>2
    <3> QED
      BY <1>7, <3>1, <3>2
  <2>3. i <= Used \/ i > Used
    BY <1>1
  <2> QED
    BY <2>1, <2>2, <2>3
<1>12. Contents \o s = [i \in 1..n |-> (Contents \o s)[i]]
  BY <1>10, SeqIsFunction, Zenon
<1> QED
  BY <1>8, <1>11, <1>12

\* A read takes the first bytes and leaves the others.
LEMMA ReadTakes ==
    ASSUME TypeOK, RingBound, NEW k \in 0..Used,
           nread' = (nread + k) % UintMod, UNCHANGED <<nwrite, data>>
    PROVE  /\ Taken(k) = SubSeq(Contents, 1, k)
           /\ Contents' = SubSeq(Contents, k + 1, Len(Contents))
<1>1. /\ Used \in Nat /\ Used <= PIPESIZE /\ k \in Nat
      /\ nread \in Counter /\ nwrite \in Counter
      /\ data \in [0..(PIPESIZE - 1) -> Data]
  BY UsedIs, Sizes DEF TypeOK, RingBound, Counter
<1>2. Used' = Used - k
  BY <1>1, UsedAfterRead
<1>3. Contents \in Seq(Data) /\ Len(Contents) = Used
      /\ \A i \in 1..Used : Contents[i] = data[SlotOf(nread, i)]
  BY <1>1, TakenType DEF Contents, Taken
<1>4. ASSUME NEW i \in 1..(Used - k)
      PROVE  SlotOf((nread + k) % UintMod, i) = SlotOf(nread, k + i)
  <2>1. k \in 0..PIPESIZE /\ i \in 1..PIPESIZE /\ k + i <= PIPESIZE
    BY <1>1, Sizes
  <2> QED
    BY <1>1, <2>1, SlotShift
<1>5. Contents' = [i \in 1..(Used - k) |-> Contents[k + i]]
  <2>1. Contents' = [i \in 1..(Used - k) |-> data[SlotOf((nread + k) % UintMod, i)]]
    BY <1>2 DEF Contents, Taken
  <2>2. ASSUME NEW i \in 1..(Used - k)
        PROVE  data[SlotOf((nread + k) % UintMod, i)] = Contents[k + i]
    BY <1>1, <1>3, <1>4
  <2> QED
    BY <2>1, <2>2
<1>6. Taken(k) = [i \in 1..k |-> Contents[i]]
  BY <1>1, <1>3 DEF Taken
<1> HIDE DEF Contents
<1>7. SubSeq(Contents, 1, k) = [i \in 1..k |-> Contents[i]]
  BY <1>1, <1>3
<1>8. SubSeq(Contents, k + 1, Used) = [i \in 1..(Used - k) |-> Contents[k + i]]
  BY <1>1, <1>3
<1> QED
  BY <1>3, <1>5, <1>6, <1>7, <1>8

\* A step that stores bytes is a Put, or a stutter if there are none to store.
LEMMA StorePuts ==
    ASSUME IInv, NEW s \in Seq(Data), Len(s) <= Room, Store(s),
           writeopen, UNCHANGED <<readopen, writeopen, got>>
    PROVE  [Queue!Next]_(Queue!vars)
<1> USE DEF IInv
<1>1. /\ Contents' = Contents \o s
      /\ Contents \in Seq(Data) /\ Len(Contents) = Used /\ Used \in Nat
  BY StoreAppends, UsedIs, TakenType DEF Contents, TypeOK, Counter
<1> HIDE DEF Contents
<1>2. CASE s = <<>>
  <2>1. Contents' = Contents
    BY <1>1, <1>2
  <2> QED
    BY <2>1 DEF Queue!vars
<1>3. CASE s # <<>>
  <2>1. Len(s) \in 1..PIPESIZE /\ Len(Contents) + Len(s) <= PIPESIZE
    BY <1>1, <1>3, Sizes DEF Room
  <2>2. s \in [1..Len(s) -> Data]
    OBVIOUS
  <2>3. Queue!Put(s)
    BY <1>1, <2>1 DEF Queue!Put
  <2> QED
    BY <2>1, <2>2, <2>3 DEF Queue!Next
<1> QED
  BY <1>2, <1>3

\* A read is a Get, or finds the end of file.
LEMMA ReadGets ==
    ASSUME IInv, NEW p \in Proc, Read(p)
    PROVE  Queue!Next
<1> DEFINE k == Smaller(want[p], Used)
<1> USE DEF IInv, Read, ends
<1>1. /\ Used \in Nat /\ want[p] \in Nat /\ want[p] > 0
      /\ k \in 0..Used /\ (k = 0 <=> Used = 0) /\ (Empty <=> Used = 0)
  <2>1. Used \in Nat /\ (Empty <=> Used = 0)
    BY UsedIs, Sizes DEF TypeOK, Counter
  <2>2. want[p] \in Nat /\ want[p] > 0
    BY Sizes DEF TypeOK, HoldInv
  <2> QED
    BY <2>1, <2>2 DEF Smaller
<1>2. /\ got' = SubSeq(Contents, 1, k)
      /\ Contents' = SubSeq(Contents, k + 1, Len(Contents))
      /\ Contents \in Seq(Data) /\ Len(Contents) = Used
  BY <1>1, ReadTakes, TakenType DEF TypeOK, Contents
<1>3. readopen /\ UNCHANGED <<readopen, writeopen>>
  BY DEF HoldInv, EndsInv
<1>4. k = 0 => ~writeopen
  BY <1>1 DEF MustRead
<1> HIDE DEF Contents, k
<1>5. CASE k = 0
  <2>1. Contents = <<>> /\ Contents' = <<>> /\ got' = <<>>
    BY <1>1, <1>2, <1>5
  <2> QED
    BY <1>3, <1>4, <1>5, <2>1 DEF Queue!Next, Queue!EndOfFile
<1>6. CASE k # 0
  <2>1. k \in 1..Len(Contents)
    BY <1>1, <1>2, <1>6
  <2>2. Queue!Get(k)
    BY <1>2, <1>3 DEF Queue!Get
  <2> QED
    BY <2>1, <2>2 DEF Queue!Next
<1> QED
  BY <1>5, <1>6

\* What the ring holds depends on the ring alone.
LEMMA RingUnchanged == ASSUME UNCHANGED ring PROVE Contents' = Contents
  BY DEF ring, Contents, Taken, Used, SlotOf

\* Every step of a pipe is a step of the queue, or does not touch it.
LEMMA QueueStep ==
    ASSUME IInv, [Next]_vars
    PROVE  [Queue!Next]_(Queue!vars)
<1>1. CASE UNCHANGED <<ring, readopen, writeopen, got>>
  BY <1>1, RingUnchanged DEF Queue!vars
<1>2. ASSUME NEW p \in Proc, Read(p) PROVE Queue!Next
  BY <1>2, ReadGets
<1>3. ASSUME NEW p \in Proc, Write(p) PROVE [Queue!Next]_(Queue!vars)
  BY <1>3, StorePuts DEF IInv, TypeOK, Write, Fits, HoldInv, EndsInv, ends
<1>4. ASSUME NEW p \in Proc, WriteSleep(p) \/ WriteFails(p) PROVE [Queue!Next]_(Queue!vars)
  <2> DEFINE s == SubSeq(buf[p], 1, Room)
  <2>1. s \in Seq(Data) /\ Len(s) = Room /\ Store(s)
    BY <1>4, Prefix DEF IInv, WriteSleep, WriteFails
  <2>2. writeopen /\ UNCHANGED <<readopen, writeopen, got>>
    BY <1>4 DEF IInv, HoldInv, EndsInv, WriteSleep, WriteFails, ends
  <2>3. Room \in Int
    BY UsedIs, Sizes DEF IInv, TypeOK, Counter, Room
  <2> HIDE DEF s
  <2> QED
    BY <2>1, <2>2, <2>3, StorePuts
<1>5. ASSUME NEW p \in Proc, PipeCloseRead(p) PROVE Queue!Next
  BY <1>5, RingUnchanged DEF PipeCloseRead, Queue!Next, Queue!CloseRead
<1>6. ASSUME NEW p \in Proc, PipeCloseWrite(p) PROVE Queue!Next
  BY <1>6, RingUnchanged DEF PipeCloseWrite, Queue!Next, Queue!CloseWrite
<1>7. CASE \E p \in Proc : CallStep(p)
  <2> PICK p \in Proc : CallStep(p)
    BY <1>7
  <2>1. CASE ReadSleep(p) \/ ReadKilled(p)
    BY <1>1, <2>1 DEF ReadSleep, ReadKilled, ends
  <2> QED
    BY <1>2, <1>3, <1>4, <2>1 DEF CallStep
<1>8. CASE \E p \in Proc : CloseRead(p) \/ CloseWrite(p) \/ CloseStep(p)
  <2> PICK p \in Proc : CloseRead(p) \/ CloseWrite(p) \/ CloseStep(p)
    BY <1>8
  <2>1. CASE CloseRead(p) \/ CloseWrite(p)
    BY <1>1, <2>1 DEF CloseRead, CloseWrite
  <2> QED
    BY <1>5, <1>6, <2>1 DEF CloseStep
<1>9. CASE \E p \in Proc : \/ \E n \in 1..MaxCount : CallRead(p, n)
                           \/ \E s \in Buffers : CallWrite(p, s)
                           \/ \E q \in Proc : Inherit(p, q)
  BY <1>1, <1>9 DEF CallRead, CallWrite, Inherit, ends, procs
<1>10. CASE \E p \in Killable : Kill(p)
  BY <1>1, <1>10 DEF Kill, ends
<1>11. CASE UNCHANGED vars
  BY <1>1, <1>11 DEF vars, ring
<1> QED
  BY <1>7, <1>8, <1>9, <1>10, <1>11 DEF Next

\* Every byte is delivered once and in order, and the end of file is reported
\* only when there is one: Pipe implements ByteQueue.
THEOREM PipeImplementsQueue == Spec => RefinesQueue
<1>1. Init => Queue!Init
  <2> SUFFICES ASSUME Init PROVE Queue!Init
    OBVIOUS
  <2>1. Used = 0
    BY UsedIs, Sizes DEF Init, Counter, Empty
  <2>2. Contents = <<>>
    BY <2>1 DEF Contents, Taken
  <2> QED
    BY <2>2 DEF Init, Queue!Init
<1> QED
  BY <1>1, QueueStep, Invariance, PTL DEF Spec, RefinesQueue, Queue!Spec
=============================================================================
