-------------------------------- MODULE Log --------------------------------
(***************************************************************************)
(* The write-ahead log of kernel/log.c over the buffer cache (bio.c) and   *)
(* the ramdisk (ide.c).                                                    *)
(*                                                                         *)
(* Several processes run file-system operations between begin_op() and     *)
(* end_op().  Inside one, a block is modified in the cache and handed to   *)
(* log_write(); the end_op() that leaves no operation outstanding commits  *)
(* them all: cache -> log area, header, log area -> home blocks, header.   *)
(* The commit runs without log.lock, so every bwrite() it makes is a step. *)
(***************************************************************************)
EXTENDS Naturals, Sequences, FiniteSets

CONSTANTS
    Proc,         \* processes that run file-system operations
    Block,        \* home blocks
    Data,         \* block contents
    NoBlock,      \* "no block", for a process outside log_write()
    LogSize,      \* LOGSIZE: entries of the in-memory header
    LogBlocks,    \* sb.nlog: blocks of the on-disk log, its header included
    MaxOpBlocks   \* MAXOPBLOCKS: header entries one operation may add

ASSUME LogAssumption ==
    /\ IsFiniteSet(Proc)
    /\ NoBlock \notin Block
    /\ Data # {}
    /\ LogSize \in Nat
    /\ LogBlocks \in Nat
    /\ MaxOpBlocks \in Nat
    /\ MaxOpBlocks <= LogSize

VARIABLES
    outstanding,  \* log.outstanding
    committing,   \* log.committing
    lh,           \* log.lh: block numbers logged by the running transaction
    cache,        \* buffer contents: what bread() returns
    dirty,        \* blocks whose buffer has B_DIRTY
    home,         \* disk: home blocks
    dlog,         \* disk: data blocks of the log area, by slot 1, 2, ...
    dhead,        \* disk: block numbers in the header block
    pc,           \* where each process is
    left,         \* header entries a process's operation may still add
    held,         \* buffer a process holds locked inside log_write()
    tail,         \* loop counter of write_log() and install_trans()
    status        \* "ok", "panic", or "overrun": a write past the log area

memory == <<outstanding, committing, lh, cache, dirty>>
disk   == <<home, dlog, dhead>>
procs  == <<pc, left, held, tail>>
vars   == <<outstanding, committing, lh, cache, dirty, home, dlog, dhead,
            pc, left, held, tail, status>>

Logged == {lh[i] : i \in 1..Len(lh)}

Outside   == {"user", "sleep", "retry"}
InOp      == {"op", "logging"}
Committer == {"write_log", "write_head", "install", "erase", "finish"}

Init ==
    /\ outstanding = 0
    /\ committing = FALSE
    /\ lh = <<>>
    /\ home \in [Block -> Data]
    /\ cache = home
    /\ dirty = {}
    /\ dlog = [i \in 1..LogSize |-> CHOOSE d \in Data : TRUE]
    /\ dhead = <<>>
    /\ pc = [p \in Proc |-> "user"]
    /\ left = [p \in Proc |-> 0]
    /\ held = [p \in Proc |-> NoBlock]
    /\ tail = 1
    /\ status = "ok"

-----------------------------------------------------------------------------
(* begin_op() and end_op(): each part holds log.lock throughout. *)

\* The test of begin_op(): could one more operation exhaust the log?
MayExhaust_NotCountingMe ==                 \* mutant: outstanding, not + 1
    Len(lh) + outstanding * MaxOpBlocks > LogSize

MayExhaust == Len(lh) + (outstanding + 1) * MaxOpBlocks > LogSize

MustWait_Uncommitted == MayExhaust          \* mutant: forgets log.committing

MustWait == committing \/ MayExhaust

BeginOp(p) ==
    /\ pc[p] \in {"user", "retry"}
    /\ ~MustWait
    /\ outstanding' = outstanding + 1
    /\ pc' = [pc EXCEPT ![p] = "op"]
    /\ left' = [left EXCEPT ![p] = MaxOpBlocks]
    /\ UNCHANGED <<committing, lh, cache, dirty, disk, held, tail, status>>

\* sleep(&log, &log.lock): releases the lock and sleeps in one step.
BeginSleep(p) ==
    /\ pc[p] \in {"user", "retry"}
    /\ MustWait
    /\ pc' = [pc EXCEPT ![p] = "sleep"]
    /\ UNCHANGED <<memory, disk, left, held, tail, status>>

\* pc after process p moves to `next` and wakeup(&log) runs.
WakeupLog_Lost(p, next) == [pc EXCEPT ![p] = next]   \* mutant: no wakeup

WakeupLog(p, next) ==
    [q \in Proc |-> IF q = p THEN next
                    ELSE IF pc[q] = "sleep" THEN "retry" ELSE pc[q]]

\* end_op() of an operation that is not the last one.
EndOp(p) ==
    /\ pc[p] = "op"
    /\ outstanding > 1
    /\ outstanding' = outstanding - 1
    /\ left' = [left EXCEPT ![p] = 0]
    /\ pc' = WakeupLog(p, "user")
    /\ UNCHANGED <<committing, lh, cache, dirty, disk, held, tail, status>>

\* end_op() of the last one: it sets log.committing and will run commit().
EndLastOp(p) ==
    /\ pc[p] = "op"
    /\ outstanding = 1
    /\ outstanding' = 0
    /\ committing' = TRUE
    /\ left' = [left EXCEPT ![p] = 0]
    /\ tail' = 1
    /\ pc' = [pc EXCEPT ![p] = IF lh = <<>> THEN "finish" ELSE "write_log"]
    /\ UNCHANGED <<lh, cache, dirty, disk, held, status>>

\* The last lines of end_op(), after commit().
FinishCommit(p) ==
    /\ pc[p] = "finish"
    /\ committing' = FALSE
    /\ pc' = WakeupLog(p, "user")
    /\ UNCHANGED <<outstanding, lh, cache, dirty, disk, left, held, tail, status>>

-----------------------------------------------------------------------------
(* log_write(): the size test reads log.lh.n before taking log.lock. *)

\* bread(b), modify its data, and enter log_write(): the size test passes.
LogWriteCheck(p, b, d) ==
    /\ pc[p] = "op"
    /\ left[p] > 0 \/ b \in Logged
    /\ \A q \in Proc : held[q] # b
    /\ Len(lh) < LogSize /\ Len(lh) < LogBlocks - 1
    /\ cache' = [cache EXCEPT ![b] = d]
    /\ held' = [held EXCEPT ![p] = b]
    /\ pc' = [pc EXCEPT ![p] = "logging"]
    /\ UNCHANGED <<outstanding, committing, lh, dirty, disk, left, tail, status>>

\* The size test fails: panic("too big a transaction").
LogWritePanic(p, b) ==
    /\ pc[p] = "op"
    /\ left[p] > 0 \/ b \in Logged
    /\ \A q \in Proc : held[q] # b
    /\ Len(lh) >= LogSize \/ Len(lh) >= LogBlocks - 1
    /\ status' = "panic"
    /\ UNCHANGED <<memory, disk, procs>>

\* b->flags |= B_DIRTY
Pin_Not(b) == dirty                         \* mutant: the buffer is not pinned

Pin(b) == dirty \cup {b}

\* Under log.lock: absorb the block or add it, and pin its buffer; brelse().
LogWrite(p) ==
    LET b == held[p] IN
    /\ pc[p] = "logging"
    /\ IF b \in Logged
       THEN UNCHANGED <<lh, left>>
       ELSE /\ lh' = Append(lh, b)
            /\ left' = [left EXCEPT ![p] = @ - 1]
    /\ dirty' = Pin(b)
    /\ held' = [held EXCEPT ![p] = NoBlock]
    /\ pc' = [pc EXCEPT ![p] = "op"]
    /\ UNCHANGED <<outstanding, committing, cache, disk, tail, status>>

\* bget() recycles a clean, unused buffer; a later bread() reads the disk.
Evict(b) ==
    /\ b \notin dirty
    /\ \A q \in Proc : held[q] # b
    /\ cache' = [cache EXCEPT ![b] = home[b]]
    /\ UNCHANGED <<outstanding, committing, lh, dirty, disk, procs, status>>

-----------------------------------------------------------------------------
(* commit() *)

\* The loops of write_log() and install_trans() end after this slot.
LastSlot_Early == tail + 1 >= Len(lh)       \* mutant: off by one

LastSlot == tail = Len(lh)

\* One round of write_log(): the slot is still inside the log area.
WriteLog(p) ==
    /\ pc[p] = "write_log"
    /\ tail < LogBlocks
    /\ dlog' = [dlog EXCEPT ![tail] = cache[lh[tail]]]
    /\ IF LastSlot
       THEN pc' = [pc EXCEPT ![p] = "write_head"] /\ tail' = 1
       ELSE tail' = tail + 1 /\ UNCHANGED pc
    /\ UNCHANGED <<memory, home, dhead, left, held, status>>

\* The slot is log.start + tail >= log.start + sb.nlog: another disk area.
WriteLogOverrun(p) ==
    /\ pc[p] = "write_log"
    /\ tail >= LogBlocks
    /\ status' = "overrun"
    /\ UNCHANGED <<memory, disk, procs>>

\* write_head() with log.lh.n > 0: the real commit.
WriteHead(p) ==
    /\ pc[p] = "write_head"
    /\ dhead' = lh
    /\ pc' = [pc EXCEPT ![p] = "install"]
    /\ UNCHANGED <<memory, home, dlog, left, held, tail, status>>

\* One round of install_trans(): bwrite() of the home block clears B_DIRTY.
InstallTrans(p) ==
    /\ pc[p] = "install"
    /\ cache' = [cache EXCEPT ![lh[tail]] = dlog[tail]]
    /\ home' = [home EXCEPT ![lh[tail]] = dlog[tail]]
    /\ dirty' = dirty \ {lh[tail]}
    /\ IF LastSlot
       THEN pc' = [pc EXCEPT ![p] = "erase"] /\ tail' = 1
       ELSE tail' = tail + 1 /\ UNCHANGED pc
    /\ UNCHANGED <<outstanding, committing, lh, dlog, dhead, left, held, status>>

\* log.lh.n = 0 and write_head(): erase the transaction from the log.
EraseHead(p) ==
    /\ pc[p] = "erase"
    /\ lh' = <<>>
    /\ dhead' = <<>>
    /\ pc' = [pc EXCEPT ![p] = "finish"]
    /\ UNCHANGED <<outstanding, committing, cache, dirty, home, dlog, left, held,
                   tail, status>>

-----------------------------------------------------------------------------
Op(p) ==
    \/ BeginOp(p)
    \/ BeginSleep(p)
    \/ \E b \in Block, d \in Data : LogWriteCheck(p, b, d)
    \/ \E b \in Block : LogWritePanic(p, b)
    \/ LogWrite(p)
    \/ EndOp(p)
    \/ EndLastOp(p)

CommitStep(p) ==
    \/ WriteLog(p)
    \/ WriteLogOverrun(p)
    \/ WriteHead(p)
    \/ InstallTrans(p)
    \/ EraseHead(p)
    \/ FinishCommit(p)

\* A kernel that has panicked, or overwritten another area, goes no further.
Next ==
    /\ status = "ok"
    /\ \/ \E p \in Proc : Op(p) \/ CommitStep(p)
       \/ \E b \in Block : Evict(b)

Spec == Init /\ [][Next]_vars

\* scheduler() passes over the whole table again and again, so a process that
\* can run does; an operation writes finitely many blocks, so it does not stay
\* between two log_write() calls for ever; the commit's steps never block.
Fairness ==
    \A p \in Proc :
        /\ WF_vars(status = "ok" /\ LogWrite(p))
        /\ SF_vars(status = "ok" /\ (EndOp(p) \/ EndLastOp(p)))
        /\ WF_vars(status = "ok" /\ CommitStep(p))

FairSpec == Spec /\ Fairness

-----------------------------------------------------------------------------
(* recover_from_log(), run by the first process of a boot: read_head() and *)
(* install_trans() of whatever the disk image holds.                       *)

Recovered ==
    [b \in Block |->
        IF \E i \in 1..Len(dhead) : dhead[i] = b
        THEN dlog[CHOOSE i \in 1..Len(dhead) : dhead[i] = b]
        ELSE home[b]]

-----------------------------------------------------------------------------
(* Properties *)

TypeOK ==
    /\ outstanding \in Nat
    /\ committing \in BOOLEAN
    /\ lh \in Seq(Block)
    /\ cache \in [Block -> Data]
    /\ dirty \subseteq Block
    /\ home \in [Block -> Data]
    /\ dlog \in [1..LogSize -> Data]
    /\ dhead \in Seq(Block)
    /\ pc \in [Proc -> Outside \cup InOp \cup Committer]
    /\ left \in [Proc -> 0..MaxOpBlocks]
    /\ held \in [Proc -> Block \cup {NoBlock}]
    /\ tail \in Nat \ {0}
    /\ status \in {"ok", "panic", "overrun"}

\* Every process asleep in begin_op() has somebody to wake it: an operation
\* that will reach end_op(), or a commit (log.c:130-134 against :161, :171).
NoLostWakeup ==
    \A p \in Proc : pc[p] = "sleep" => outstanding > 0 \/ committing

\* Write-ahead (log.c:192-198): at every instant, a home block of the disk
\* differs from its cached contents only if it is pinned in the cache, so no
\* eviction can lose an update and no uncommitted update reaches its home.
Pinned ==
    \A b \in Block :
        cache[b] # home[b] => b \in dirty \/ \E p \in Proc : held[p] = b

\* The panics of end_op() ("log.committing") and of log_write() ("log_write
\* outside of trans") cannot happen, and one process at most commits.
CommitAlone ==
    /\ \A p \in Proc : pc[p] \in InOp => ~committing /\ outstanding > 0
    /\ \A p, q \in Proc :
          pc[p] \in Committer /\ pc[q] \in Committer => p = q

\* begin_op()'s reservation works: the in-memory header never overflows
\* block[LOGSIZE], whatever operations run together (log.c:132, :240).
HeaderFits == Len(lh) <= LogSize

\* param.h:51 "max data blocks in on-disk log" and log.c:132 "this op might
\* exhaust log space": an operation that begin_op() admitted, and that adds
\* at most MAXOPBLOCKS entries, is never refused by log_write().
NoPanic == status # "panic"

\* log.c:225 keeps a transaction inside the log area of the disk.
NoOverrun == status # "overrun"

\* Concurrent operations become durable atomically and only when none is
\* active (log.c:11-15): the log implements AtomicStore.
Store == INSTANCE AtomicStore
            WITH visible <- cache, durable <- Recovered, active <- outstanding

RefinesStore == Store!Spec

\* A sleeper in begin_op() is eventually woken (or the kernel stops).
SleepersWake ==
    \A p \in Proc : pc[p] = "sleep" ~> (pc[p] # "sleep" \/ status # "ok")
=============================================================================
