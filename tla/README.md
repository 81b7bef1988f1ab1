# lucy-os in TLA+

A verification development for the kernel of lucy-os ("poc-os"), a 64-bit
hobby operating system that began as xv6 and gained copy-on-write `fork()`,
`mmap()`/`mprotect()`, shared memory objects, `AF_UNIX` sockets that carry file
descriptors, epoll, a compositor and a ported user land.  The kernel has no
tests of its own; its comments say what it promises, and those promises are
what the modules here state.

All paths below are relative to `src/`.

## 1. The system

### 1.1 Inventory

| Component | State | Operations | Talks to | What is hard | What makes it correct |
|---|---|---|---|---|---|
| Write-ahead log, `kernel/log.c` | `outstanding`, `committing`, in-memory header; log area and header on disk | `begin_op`, `end_op`, `log_write`, `commit`, `recover_from_log` | every file-system call; buffer cache; ramdisk | commit runs without `log.lock`; space is reserved by worst case; one channel for two kinds of sleeper; order of the writes | operations become durable all at once; nothing written home before it is logged; header and area never overflow; sleepers wake |
| Buffer cache, ramdisk, `kernel/bio.c`, `ide.c` | 30 buffers, LRU list, `refcnt`, `B_DIRTY`/`B_VALID` | `bread`, `bwrite`, `brelse` | log, inodes | `NBUF` = `LOGSIZE`: the log can pin all; `bget` panics | one buffer per block; a dirty one is not recycled |
| Process table, `kernel/proc.c`, `trap.c`, `sysproc.c` | `ptable` (state, pid, parent, killed, chan), `nextpid` | `fork`, `exit`, `wait`, `kill`, `sleep`, `wakeup`, `scheduler`, `yield` | every blocking call; dinit | lost wakeups; exit against wait; orphans; kill against a sleeper; pid and slot reuse | every zombie has a live parent that will see it; no sleeper is forgotten |
| Pipes, `kernel/pipe.c` | ring of 512 bytes, two `uint` counters, two open flags | `piperead`, `pipewrite`, `pipeclose`, readiness tests | `fork()` and `close()` through `file.c`; `kill()`; epoll | last close on either side; counters wrap; write fails half way | bytes once and in order; end of file only when true; freed once and not in use |
| User memory, `kernel/vm.c`, `kalloc.c` | page tables with `PTE_W`/`PTE_COW`/`PTE_SHM`, free list, `pageref[]` | `copyuvm`, write fault, `allocuvm`/`deallocuvm`, `freevm`, `uvmsetperm`, `kalloc`/`kfree`/`kaddref` | `fork`, `exit`, `exec`, `mmap`, `mprotect` | the count is read, and the page copied or taken, under different locks; `fork()` is a loop; it can fail in the middle | a process never sees another's stores; counts are exact |
| Shared memory, `kernel/shm.c` | 16 objects and their pages | create, `mmap`, pass by `SCM_RIGHTS`, close | file table, vm | life of the object against life of its mappings | pages freed once, after the last user |
| Local sockets, `kernel/socket.c`, `sysnet.c` | `stable` (32 slots), `sbind` (16 paths), backlogs, connections with two queues of messages | `socket`, `bind`, `listen`, `connect`, `accept`, `socketpair`, `sendmsg`, `recvmsg`, close | file table, `fork`, `kill`, epoll, compositor | four kinds of lock, none held from lookup to use; messages carry references; a listener closes under a `connect()` | connection freed once both ends closed; no reference lost; no one blocks on a peer that is gone |
| File table, `kernel/file.c` | 100 `struct file` with counts | `filealloc`, `filedup`, `fileclose`, read/write dispatch | everything with a descriptor | last close decides | a file closes exactly once |
| Inodes, directories, paths, `kernel/fs.c`, `sysfile.c` | inode cache, disk inodes, bitmap, directories, owners and modes | `namei`, `ialloc`/`iput`, `readi`/`writei`, `itrunc`, link/unlink/rename | log, buffer cache | locks taken one after the other, links counted before and after the name is made, last `iput()` against a lookup, rename of directories, one call that logs too much, holes | counts of references and of links are exact, nothing named is freed, the tree stays a tree, a block belongs to one owner, a file reads back what was written |
| epoll, `kernel/epoll.c` | 32 items for each instance | `epoll_ctl`, `epoll_pwait` | pipes, sockets, console, mouse | it sleeps on the tick and not on the devices, each asked under its own lock; descriptor reuse | what is ready and stays so is reported; a read after a report does not block |
| Console, keyboard, mouse, UART | line-edited input ring, packet ring | interrupt handlers, `consoleread`, `mouseread` | scheduler, epoll, terminal, compositor | full rings; editing keys and mode changes against the reader; a lock held in a sleep | what is typed is read once and in order, what is entered is not edited |
| Spinlocks, sleep locks | owner, `ncli` | acquire, release | all | interrupts, deadlock | mutual exclusion |
| `exec.c`, `syscall.c`, `string.c` | none kept | load an ELF; fetch arguments; copies | vm, fs | partial failure | old image survives a failed exec |
| Boot and interrupt hardware | MP tables, APICs, frame buffer | run once | | | |
| `mkfs/mkfs.c` | builds the image, `sb.nlog = LOGSIZE` | run once | log, fs | | agrees with the kernel's layout |
| Compositor, desktop, terminal, login, boot splash, `gui/` | windows, shared buffers, clients | epoll loop over sockets, input and shared memory | sockets, shm, mouse, console | a client that does not read or dies in the middle | one client cannot stop the others |
| dinit, login, su, `bash/poc/` | the child it watches | spawn and reap | process table | zombies; killed sessions | session is respawned |
| Shell and coreutils shims, `curses/`, `user/` | none of interest | wrappers | system calls | | |
| bash, coreutils, musl, nano, limine, libvterm | | third-party | | | |

### 1.2 How the parts interact

System calls come through `trap.c` in the caller's process and run under
spinlocks that `sleep()` gives back; the timer takes the processor away between
any two instructions in user space.  A file-system call brackets its work with
`begin_op()` and `end_op()`; the last one to leave commits for all of them.
`fork()` copies the page table (`copyuvm`), duplicates descriptors (`filedup`),
and so makes pipes, sockets and shared objects reachable from two processes.
`exit()` runs `fileclose()` on every descriptor, which ends in `pipeclose`,
`sockclose` or `shmclose`; the parent's `wait()` frees the memory.  `kill()` only
sets a flag and makes a sleeper runnable: each sleeping loop tests the flag for
itself.  A message may carry `struct file` references, which belong to the
message until somebody receives it or the connection is freed.

### 1.3 Hazards

`PROJECT.json` lists them at their lines.  The properties of this project are
chosen from that list.

## 2. Modules

| Module | Models | Role |
|---|---|---|
| `AtomicStore` | what `log.c` promises | abstract specification |
| `Log` | `log.c` over `bio.c` and `ide.c` | detailed, `RefinesStore` |
| `MCLog` | | symmetry sets |
| `Log_proofs` | | theorems about `Log` |
| `Proc` | `proc.c`, `trap.c`, `sysproc.c`, `bash/poc/dinit.c` | process table and scheduler |
| `Proc_proofs` | | theorems about `Proc` |
| `ByteQueue` | what a pipe promises | abstract specification |
| `Pipe` | `pipe.c`, with `file.c` and `fork()` where they touch it | detailed, `RefinesQueue` |
| `Pipe_proofs` | | theorems about `Pipe` |
| `Counters` | | lemmas about counters that wrap and index a ring, for `Pipe_proofs` and `Events_proofs`, and about sums over finite sets, for `Socket_proofs` and `Inode_proofs` |
| `PrivateMemory` | what copy-on-write `fork()` promises | abstract specification |
| `Cow` | `vm.c`, `kalloc.c`, `shm.c` | detailed, `RefinesMemory` |
| `MCCow` | | symmetry sets |
| `Cow_proofs` | | theorems about `Cow` |
| `MessageChannels` | what connected sockets promise | abstract specification |
| `Socket` | `socket.c`, `sysnet.c` | detailed, `RefinesChannels` |
| `MCSocket` | | symmetry sets |
| `Socket_proofs` | | theorems about `Socket` |
| `Inode` | `fs.c` (`iget`, `ilock`, `iput`, `namex`, `dirlookup`, `dirlink`, `ialloc`), `sysfile.c` | inodes and directories under concurrent calls |
| `MCInode` | | paths, and what each process calls |
| `InodeInvariants` | | the inductive invariants of `Inode`, and the hypotheses about programs, for `Inode_proofs` |
| `Inode_proofs` | | theorems about `Inode` |
| `SparseFile` | what a file promises: a size and words, zero in holes | abstract specification |
| `Blocks` | `fs.c` (`balloc`, `bmap`, `readi`, `writei`, `itruncfrom`, `itruncto`, `iupdate`), `file.c` | detailed, `RefinesFile` |
| `MCBlocks` | | where programs write and truncate |
| `Terminal` | what a line-edited terminal promises | abstract specification |
| `Console` | `console.c`: the input ring | detailed, part of `Events` |
| `Events` | `epoll.c`, `mouse.c`, and `Console` | event loops over console and mouse, `RefinesTerminal` |
| `MCEvents` | | what each process calls |
| `Events_proofs` | | theorems about `Events` and `Console` |

The granularity is the same everywhere: one action is what a process does from
one point where another processor can get in to the next one, that is, one
critical section of the lock that guards the state.  Where the code reads
something outside the lock, or acts on it under another lock, the read and the
act are two actions.  A definition named `X_Word` and commented "mutant" is a
variant of `X` with a plausible mistake; `PROJECT.json` pairs each property
with a variant that breaks it.

### 2.1 `Log`

* `outstanding`, `committing`, `lh` are `log.outstanding`, `log.committing` and
  `log.lh.block[]`; `cache` and `dirty` are the buffers; `home`, `dlog` and
  `dhead` are the disk.
* `BeginOp`, `BeginSleep` and `WakeupLog` are `begin_op()` with its two reasons
  to sleep.  `EndOp` and `EndLastOp` are `end_op()`; the last operation goes on
  with the commit.
* `LogWriteCheck` / `LogWrite` / `LogWritePanic` split `log_write()` at
  `log.c:230`: the test of the size comes before `log.lock` is taken.  The
  caller modifies the block and holds its buffer lock throughout.
* `WriteLog`, `WriteHead`, `InstallTrans`, `EraseHead`, `FinishCommit` are
  `commit()`, one disk write a step.  `Evict` recycles a clean buffer (`bget`).
* `Recovered` is `recover_from_log()` as a function of the disk image.  The
  ramdisk does not outlive a reboot (`ide.c:20-23`), so there is no crash action:
  instead the abstract variable `durable` is `Recovered` *at every state*, which
  says what a recovery would find at any instant.
* Outside the model: the file system above.  An operation adds at most
  `MaxOpBlocks` entries, which is what `param.h` promises of its callers.

### 2.2 `Proc`

`state`, `pid`, `parent`, `killed`, `chan` and `nextpid` are the fields of
`ptable`; `pc` says how far a process is inside the kernel; `child` is the
EMBRYO that a `fork()` is filling.  `AllocProc`, `ForkDone`, `ForkFail` are
`fork()`; `ExitBegin`, `ExitZombie` are `exit()` before and after it takes
`ptable.lock`; `WaitReap`, `WaitFails`, `WaitSleep` are one round of `wait()`.
`Acquire`, `Consume`, `GiveUp`, `CallSleep`, `Sleep` are any blocking call with a
lock of its own, in the shape of `sys_sleep()` and `piperead()`; `Sleep` is the
part of `sleep()` that runs once `ptable.lock` is held.  `Schedule` and `Yield`
are the scheduler and the timer.

### 2.3 `Pipe`

Every variable is a field of `struct pipe`, or says who holds which end.  One
step runs from the `acquire()` to the `release()` or `sleep()`.  `UintMod` stands
for 2^32 and is small, so that the counters do wrap.  `Inherit` is `fork()`;
`CloseStep` is `pipeclose()` for the last holder of an end.  `KillBeforeSleep` is a
`kill()` that comes after a process has tested `p->killed` and before its
`sleep()`: it sets the flag and the process sleeps all the same.

### 2.4 `Cow`

A page table is a sequence of `[frame, flags, prot]`.  `Fork`, `CopyPage`,
`AddRef`, `CopyFails`, `ForkDone` are `copyuvm()`, page by page, with the count
raised after the page is mapped, as at `vm.c:792-794`.  `Fault` reads the count;
`Reclaim` or `Copy`+`Drop` act on it later.  `Protect` is `uvmsetperm()`.
`Shm*` are `shm.c`.  `prot` is not part of a PTE: it remembers what the process
asked of `mprotect()`.

`Calls` says which habits the programs of an instance have.  Three habits lead
to disagreements (section 6) and are off in the passing run:
`mprotect_cow` (mprotect of a page that is copy-on-write), `fork_shared` (fork
with a shared object mapped), `close_mapped` (close the last descriptor of an
object still mapped).

### 2.5 `Socket`

`sock`, `binds` and `conn` are `stable`, `sbind` and the connection pages.  A
pointer to a slot that has been given to somebody else reads what is there now,
as in the code.  `connect()` is three steps (find the listener; make the
connection; push it), because `sbind.lock` is released after the first;
`accept()` pops the connection in one step and finds a slot, a file and a
descriptor in the next; `sockclose()` unbinds, drains and frees in steps.  One
abstract file stands for all files that messages carry; `ref` is its count,
and `lost` is a ghost that counts the references a path drops on the floor.
Not modelled: the byte layout of `msghdr`, and `sockalloc()`'s `memset()` racing
a late `connect()` on the same slot (the two are atomic steps here).
`KillBeforeSleep` is as in `Pipe`.
`Calls` again gives the habits: `connect`, `close_listener`,
`close_bound` (close a socket that is bound and never listened; it leaves its path
behind), `socketpair`, `fork`,
`files_run_out` (accept or socketpair finds no `struct file`), `bad_fd`.

### 2.6 `Inode`

* `type`, `nlink`, `dir` and `dotdot` are an inode on the disk and, for a
  directory, its entries; `ref` and `lock` are `ip->ref` and the holder of
  `ip->lock`; `cwd` and `fd` are what a process keeps between calls.
* `pc` and `loc` are the place of a call and its local pointers.  A step takes the
  one lock a call waits for next and does what the code does under it; a lock is in
  the variable `lock` only when the code keeps it across a second wait.
* `todo` holds the `iput()`s and `iunlock()`s a call still does, in the code's order.
  `iput()` is two steps, `PutCheck` (count and links under the inode's lock, and the
  truncation) and `Release` (`ip->ref--`), as at `fs.c:337-357`.
* `Call`, `Walk` are the start of a call and one turn of `namex()`'s loop, with the
  permission check going either way (`Outcome`).  `Create`/`Created`/`Open`,
  `Chdir`/`ChdirDone`, `LinkOld`/`LinkNew`/`LinkBad`,
  `Unlink`/`UnlinkEntry`/`UnlinkInode` and the eight `Rename*` actions are the
  calls of `sysfile.c`, one for each lock they wait for.
* `gone` is a ghost: names that were freed together with their directory, which a
  `create()` in a directory that is being removed can bring about.
* The habit `rename` starts at any time, `rename_alone` only while no other call
  runs: interleaved with others, `rename()` clears a slot it no longer holds
  (section 6).  The other calls interleave without limits.
* Left out: `mknod`, `fchdir`, owners and modes, `exec()`'s use of an inode, the
  reuse of cache entries (`iget()`'s panic), the limit `NLINK`.

### 2.7 `Blocks`

One action is one transaction of one call on one inode, which the inode's lock
makes atomic: `Write` and `Read` are a chunk of `filewrite()` and `fileread()`,
`Truncate` is `sys_ftruncate()`, `Reload` is the next `ilock()` after the cache
entry was given up or the system restarted.  A transaction works on a record
(bitmap, blocks, size, addresses, blocks logged), so that `Balloc`, `Bmap`,
`Fill`, `TruncFrom` compose as the functions do.  `Others` are the blocks that
other files have: they never change, and decide where free blocks are found, and
so how many blocks of the bitmap a chunk logs.  The unit is a word of an address
block, so that the three levels of the block map stay small.  `dinode` and
`inode` are the inode on disk and in the cache: they differ after a
write into a hole (`fs.c:959` calls `iupdate()` only when the size changes), and
`SparseFile` names the words that may be lost so: `unsaved`.  The run has one file
that changes; two that do would differ only by their inode numbers and never share a transaction.

### 2.8 `Console` and `Events`

`buf`, `r`, `w`, `e` are `input`; `rawmode` and `vmin` are what `contermios` says.
Interrupt handler and reader hold `cons.lock`, so `Keystroke` is `consoleintr()`
with one character and `ConsoleStep` is `consoleread()` from the lock to
`sleep()` or the return.  `target` and `left` are its variables `target` and `n`.
A killed reader gets -1, and `fileread()` takes that for a hole (`file.c:152`): it opens a transaction and calls
the device's read once more, from the start.  So there are two places for a
reader of each device, "console" and "console again", "mouse" and "mouse again"
(`Retries`, `MouseFail`); the second -1 is final.

`packets` is the fill of the mouse's ring; `mouselock` is the lock of its inode,
which `mouseread()` keeps while it sleeps (`file.c:150`): a second reader, and a
killed one that retries, wait for that lock.  `item` are the slots of the instance, in the order
in which `epoll_pwait()` asks them; `Add` and `Del` are `epoll_ctl()`.  `Wait`,
`Scan`, `Report`, `Sleep` are `epoll_pwait()`, one slot a step, and `Tick` is the
timer.  `Asking` says who has `e->lock`, from the first slot to the last one asked.
`room` is how many events fit between `eventsp` and `p->sz`: a ready slot
beyond ends the scan (`ScanBreak`, `epoll.c:224`).  `promised` is a ghost: what
a process was told is ready, whose data nobody has taken since and which it has
not itself come back from.  `KillBeforeSleep` is as in `Pipe`.  `ReopenNext`
adds `Close` and `Open`, by which a descriptor comes to stand for another file; it
has no passing run.  Left out: `EPOLL_CTL_MOD`, events other than `EPOLLIN`,
pipes and sockets as sources (their readiness is `PipeWritable` in `Pipe`), more
than one instance; and of a retry, that `begin_op()` may have to wait for the log
(`Log`).

## 3. Runs

Twelve runs are listed in `PROJECT.json`; each takes between a second and four
minutes with two workers.

| Run | Instance | Shows |
|---|---|---|
| `log_safety` | 3 processes, 5 blocks, 2 values, log of 4 | `NoLostWakeup`; `Pinned`; `CommitAlone`; `HeaderFits`; the log implements `AtomicStore` |
| `log_live` | 3 processes, 2 blocks, fair | sleepers of `begin_op()` wake |
| `proc_safety` | 4 slots, 2 processors, 1 resource, pids to 4 | tree, no missed exit, no missed wakeup |
| `proc_live` | 3 slots, pids to 3, fair | zombies of init are reaped; killed processes leave `wait()` |
| `proc_killrace` | 2 slots, fair | refutes `KilledExits` |
| `pipe_safety` | 2 processes, ring of 2, counters mod 4, buffers of up to 2 bytes, fair | lifetime, sleepers, `ByteQueue`, nobody blocked on a closed pipe |
| `cow_private` | 3 processes, 2 frames, 2 pages each, 1 shared object | copy-on-write implements `PrivateMemory`; counts are exact |
| `socket_safety` | 2 processes, 3 slots, 2 connections, backlog 1, queue 1 | lifetime of connections, one socket for each end, sleepers, with a listener that closes and accepts that fail |
| `socket_pair` | 2 processes, 2 slots: a pair, or a listener, shared by fork, a killed process, messages with a file, fair | `MessageChannels`, references, peer close wakes |
| `inode_safety` | 2 processes, 3 inodes, paths of two names, failures | references and links counted, nothing dangles, the tree, who waits for whom |
| `blocks_safety` | 1 file, 1 direct and 3 + 9 indirect blocks, disk of 16 blocks of which others have every second one | blocks used once, none lost, chunks leave room for two blocks of bitmap, `SparseFile` |
| `events_safety` | 1 event loop that may be killed, 1 reader of both devices, rings of 2 and 1, two slots, room for one event, no deadlines, fair | `Terminal`, sleepers, reads after a report, waiters are told, a killed one leaves |

The type invariant `TypeOK` is proved for `Log`, `Proc`, `Pipe`, `Cow`,
`Events`, `Socket` and `Inode`.  An instance of `Inode` with four inodes and one process
that makes every call of `MCInode!Everything`, `rename()` at any time among them, was checked with the same result
as `inode_safety`.

### 3.1 Why the bounds are enough to be interesting

* Log: two reservations of two entries fill the log exactly, so the third
  process must sleep in `begin_op()`; three can be between the test and the lock
  of `log_write()` at once, and there are more blocks than log slots.
* Proc: four slots give a grandparent, a parent that dies, and two orphans or an
  orphan and a sibling; a slot is freed and used again for a later pid while its
  first pid is still known to `kill()`; two processors let two processes be in the
  kernel together.  Three slots with pids to 5 were checked with the same result.
  The liveness run leaves the resource out: it is about `wait()`.
* Pipe: ring of 2 and modulus 4: counters wrap after two fills, writes can be
  stored half way, and both processes can hold both ends.
* Cow: two frames, six possible mappings: pages are shared by three processes and
  memory runs out in the middle of a fork or a fault.  Two frames and not three
  because of the time; an instance with three frames and no `mprotect()`
  was checked with the same result.
* Socket: backlog and queue of one are full at once; three slots let a slot be
  reused while a `connect()` still points at it; two connections make an
  end-mix-up visible.
* Inode: three inodes are the root, a directory and a file or a second
  directory; paths of two names and two names let one process remove, rename or
  enter a directory while the other creates in it, links out of it or looks
  through it; numbers are freed and used again.  732,746 states.
* Blocks: three words to a block put all three levels, and the boundaries between
  them, within reach of three writes: each chunk covers one boundary.  The eight
  free blocks run out.  Others have every second block, and a block of the bitmap
  tells about four, so that free blocks lie in four blocks of the bitmap and a
  chunk logs from several.  10,841 states.  The real disk has five blocks of bitmap
  (`FSSIZE` / `BPB` + 1): `MCBlocks_chunk.cfg` (section 6) has five too.
* Events: with a ring of two, a line fills it, is edited in it, and wraps;
  indices wrap at four.  `x` stands for all characters that are neither the
  end of a line nor an editing key, and ^D for the two that end one (the theorems have
  both).  One packet fills the mouse's ring, and both
  programs read the mouse, so that one waits for the inode's lock while the other
  sleeps with it.  Both devices may have a slot, in either order, and the events array
  has room for one event, so that a scan reports the first ready device and breaks
  off at the second.  728,499 states.  `MCEvents_live.cfg` (section 6) has deadlines, and events
  arrays with room for none, on a ring of one character: with `WatchedReported` and
  `KilledLeavesPoll` in the place of `AlwaysReported` it was checked with the same
  result (245,264 states).

`CHECK_DEADLOCK FALSE` everywhere: processes may all finish and stay in user
space, or the bounds stop them; the kernel may panic.

### 3.2 Fairness

* `Log!FairSpec`: weak fairness of a process's own steps in a commit and in
  `log_write()`; strong fairness of `end_op()`, because an operation contains a
  finite number of `log_write()`s and then ends.  Justified by the round-robin
  `scheduler()` and by the fact that a commit never sleeps.  No fairness is
  assumed of `begin_op()`.
* `Proc!FairSpec`: the scheduler goes round the table (`SF` of `Schedule`), the
  timer interrupts (`SF` of `Yield`: an interrupt that comes while a spinlock is held
  stays pending until it is released), a process with a processor goes on (`SF` of
  `KernelStep`, strong because it may be preempted), a killed process meets the
  test in `trap()`.  init calls `wait()` again and again and returns from its
  other calls: that is dinit's loop (`bash/poc/dinit.c:117-142`).  A
  killed init meets the same test in `trap()` and panics (`SF` of `ExitInit`).
* `Events!FairSpec`: the timer ticks, and a process in `epoll_pwait()` that can run
  goes on.  Nobody has to type, move the mouse or read.  In the run one process
  calls `epoll_pwait()`, so that `e->lock` is free when it scans.  `Log`'s "an operation ends" has an
  exception here: a killed reader of the mouse that retries inside a transaction
  (`NoTransactionWaits`, section 6).
* `Pipe!FairSpec`, `Socket!FairSpec`: weak fairness of the steps of a call that
  has begun and of the closing of a killed process's descriptors.  None is
  assumed of programs: nobody has to read, write or close.

## 4. Proofs

`Log_proofs` proves, for every set of processes (finite), blocks and contents and for every
`LOGSIZE`, `sb.nlog` and `MAXOPBLOCKS <= LOGSIZE`:

| Theorem | Statement |
|---|---|
| `Invariance` | `Spec => []IInv` |
| `TypeCorrect` | `Spec => []TypeOK` |
| `HeaderNeverOverflows` | `Spec => []HeaderFits` |
| `UpdatesStayPinned` | `Spec => []Pinned` |
| `CommitsAlone` | `Spec => []CommitAlone` |
| `LogAreaSuffices` | if `LOGSIZE < sb.nlog`, no commit leaves the log area |
| `NoWakeupIsLost` | `Spec => []NoLostWakeup` |
| `LogImplementsStore` | `Spec => RefinesStore` |

Assumptions: `LogAssumption` only.

The argument.  `HeaderFits` is not inductive: nothing in it says why a process
that has passed the test at `log.c:225` may append.  `IInv` adds the reason:

* `CountInv`: `outstanding` is the cardinality of the set of processes inside an
  operation, none is inside while a commit runs, one process commits;
* `BudgetInv`: entries used plus entries promised, over all operations, are at
  most `LOGSIZE`.  `begin_op()` establishes it (its product
  `(outstanding+1)*MAXOPBLOCKS` bounds the promises: `BudgetBound`), and each
  `log_write()` turns one promise into one entry or, by absorption, none;
* `HeldInv`: the buffer lock across `log_write()`, and that who holds it has a
  promise left or a block that is already logged;
* `DistinctInv`: absorption leaves one slot for each block;
* `Pinned`, `QuietInv`, `PhaseInv`: what disk and cache hold in each phase of the
  commit.

There is one lemma for each action.  `NoLostWakeup` needs a further invariant,
`WakeInv`, on top of `IInv`.  The refinement shows that a step is a step of
`AtomicStore` or leaves its variables alone: the commit point is `WriteHead`,
everything after it maps to a stutter since `Recovered` already yields the cache.

`Proc_proofs` proves, for every number of slots and processors, every set of
resources and every bound on pids, from `ProcAssumption` alone:

| Theorem | Statement |
|---|---|
| `Invariance` | `Spec => []IInv` |
| `TypeCorrect` | `Spec => []TypeOK` |
| `EveryoneHasAParent` | `Spec => []HasParent` |
| `NoExitIsMissed` | `Spec => []NoMissedExit` |
| `NoWakeupIsMissed` | `Spec => []NoMissedWakeup` |

The argument.  `HasParent` needs three facts to be inductive: init never dies
(`InitInv`: `exit()` of init panics), so `Reparent` hands children to a living
process; pids in use are below `nextpid` and only init has pid 1 (`PidInv`), so a
child is younger than its parent, and than init; the EMBRYO that a `fork()` fills
belongs to that fork alone, and its parent is alive (`ForkInv`).  `NoMissedExit`
follows: an exiting process wakes its parent, or its parent is init and `WakeInit`
wakes it for the zombies it is handed (lemma `ExitStates` says whom `exit()`
wakes); here `HasParent` shows that no process is its own parent.
`NoMissedWakeup` needs `LockInv`: the resource's lock is held from the test to the
step that makes the process SLEEPING, so that no `wakeup()` fits in between.

`Pipe_proofs` proves, for every set of processes and bytes, every ring size, every
width of the counters that the ring divides and every buffer, from
`PipeAssumption` alone:

| Theorem | Statement |
|---|---|
| `Invariance` | `Spec => []IInv` |
| `TypeCorrect` | `Spec => []TypeOK` |
| `RingNeverOverflows` | `Spec => []RingBound` |
| `NobodyInFreedPipe` | `Spec => []NotFreedInUse` |
| `SleepersHaveReason` | `Spec => []SleepersJustified` |
| `ReadersAreWoken` | `Spec => []ReaderForgottenOnlyByKill` |
| `PipeImplementsQueue` | `Spec => RefinesQueue` |

The argument.  The lemmas `Difference` and `Sum` of `Counters` say what subtraction and addition
of counters yield, and with them `UsedAfterRead` and `UsedAfterWrite` turn every
step into arithmetic on the number of bytes in the ring.  `NotFreedInUse` needs
to know who can still get in: whoever is in a call holds its end (`HoldInv`),
an end that is held is open (`EndsInv`), and one process at a time is on its way to
`pipeclose()` for an end (`CloseInv`).  `SleepersJustified` holds because a write
that sleeps has filled the ring, and one that fails too; nothing is stored beside
a sleeping writer, since there is no room.  For the refinement, `SlotsDiffer`
shows that positions of the ring have different slots, which is where the width
of the counters must be a multiple of the ring (`Laps`); `StoreAppends` and
`ReadTakes` then say that a store appends to the queue and a read takes its front.

`Cow_proofs` proves, for every finite set of processes and of frames, every bound
on the pages of a process and every set of contents, from `CowAssumption` and
`Careful` (below):

| Theorem | Statement |
|---|---|
| `Invariance` | `Spec => []IInv` |
| `TypeCorrect` | `Spec => []TypeOK` |
| `CountsAreExact` | `Spec => []RefsCountOwners` |
| `CowIsPrivate` | `Spec => []SharedNotWritable` |
| `PagesStay` | `Spec => []NothingYanked` |
| `CowImplementsPrivateMemory` | `Spec => RefinesMemory` |

`Careful` says that programs have none of the three habits `mprotect_cow`,
`fork_shared` and `close_mapped`.  It cannot be dropped: with each of them the
code loses one of these properties, and section 6 has the counterexamples.

The argument.  The owners of a frame are the page-table entries that map it
(those of shared objects aside), the faults that are about to drop it, and the
shared object; `RefsCountOwners` relates their number to `pageref[]` and to the
mappings that `copyuvm()` has made and not yet counted.  The rest of `IInv`
says why a count that was read earlier may still be acted on:

* `SoleInv`: a page that is not copy-on-write, and the one a fault has found to
  have a count of 1, has no other owner.  That it stays so until the fault acts is
  the point: whoever could become a second owner is a `fork()` of the
  same process, which is in its fault.  `LoneOwner` is the step from a count of 1
  to one owner, `Twins` from two owners to a count of two, `FreeUnowned` says that
  nobody owns a free frame.
* `ForkInv`: the child of a `fork()` belongs to that fork, its pages are the first
  ones of its parent and all of them copy-on-write, and at most the last is not
  counted yet.
* `FlagInv`, `FaultInv`, `ShmInv`, `SizeInv`: what flags go together, what a fault
  is about, how long the shared object lives.

Each action gets one lemma.  Actions that add or remove one owner
use `AddPage`, `LosePage` and `SetPage`, which say what the sets of owners become.
For the refinement, `ViewKept` says that a step which changes neither a process's
page table nor the frames in it changes nothing it can read; `CopyMem`,
`StoreMem` and the others do the steps that are left.

`Events_proofs` proves, for every finite set of descriptors, every set of processes
and keys, every size of the rings and every width of the indices that the input
ring divides, from `ConsoleAssumption` and `EventsAssumption` alone:

| Theorem | Statement |
|---|---|
| `Invariance` | `ReopenSpec => []IInv` |
| `TypeCorrect` | `Spec => []TypeOK` |
| `SleepersHaveReason` | `Spec => []SleepersJustified` |
| `ReportedIsReadable` | `Spec => []ReadAfterPoll` |
| `ConsoleImplementsTerminal` | `Spec => RefinesTerminal` |

`IInv` also holds when event loops close descriptors and open other files
(`ReopenSpec`): stale items give false reports (section 6), and the three
properties do not depend on that.

The argument.  `RingInv`: what is entered and what is being edited fit the ring
together, so that a stored character overwrites neither, and a line that is being
edited contains no end of a line.  `ReadInv`: who is in `consoleread()`, for the first or
the second time, still wants something, and no more than it asked for.  `MouseInv`:
who reads the mouse, awake or asleep, has the lock of its inode.  `PromiseInv` is the reason for `ReadAfterPoll`: what
`epoll_pwait()` has promised is still there, or its reader has begun to take it;
every action that takes input away withdraws the promise or is that reader.
`GoesTo` says where one step leads a reader of the console, and serves all three.
Arithmetic on the indices is in `Counters`; `Rejoin`, `OneMore` and `OneLess`
say how the two parts of the ring grow and shrink.  In the refinement the two
parts become sequences: `StoreAppends` (a stored character is appended),
`BetweenJoins` (a completed line is appended to what is entered),
`BetweenFront` and `BetweenTail` (editing takes from one end, reading from the
other).

`Socket_proofs` proves, for every finite set of processes and of connections, every set
of paths and of messages, every size of the tables and queues and whatever the programs do besides
(`Calls`), from `SocketAssumption` alone:

| Theorem | Statement |
|---|---|
| `Invariance` | `Spec => []IInv` |
| `ConnectionsLive` | `Spec => []NoUseAfterFree` |
| `EndsHaveOneSocket` | `Spec => []OneSocketPerEnd` |
| `SleepersHaveReason` | `Spec => []SleepersJustified` |
| `SocketsImplementChannels` | `Spec => RefinesChannels` |
| `RingsBounded` | `Spec => []RingBound` |
| `ReferencesAccounted` | `Spec => []RefsAccounted` |
| `TypesKept` | `Spec => []TypeOK` |

The argument.  No lock is held from the lookup of a connection to its use, so the
reason why a page is not freed too early is one of ownership.  An end of
a connection is owned by a socket, by the backlog of a listener, or by a process
on its way between the two (`connect()` before it has pushed the connection or
stored it in its socket, `accept()` after it has popped one).  `OwnerInv`: an end has at
most one owner.  `OpenInv`: while it has one, it is open, and its page is
allocated.  A page is freed when both ends are closed, hence when nobody owns
either.  The other conjuncts say where owners can be: who is in `sockclose()` is
alone with the socket (`ClosingInv`, because `fileclose()` calls it for the last
reference only), a slot is in use while anybody can get at it (`UseInv`), what
the locals of a call hold at each place (`PlaceInv`, `SlotInv`), and that a
connection is pending once (`BacklogInv`).  A connector may
push to a slot that is no longer the listener it found: the proof covers that, and
it is why `PeerGoneIsSeen` fails (section 6) and the lifetime does not.

One lemma for each kind of step says what happens to owners: `OwnersStay` (nothing),
`OneMoves` (an end passes from one owner to another: `Push`, `Pop`,
`ConnectDone`, `AcceptDone`), `EndStep` (an end is closed).
`SleepersJustified` holds since each step that fills, drains or closes a queue
wakes the whole channel (`WakeConnIs`, `WakeListenIs`).

The refinement needs `RInv` besides: unused pages hold no messages, a connection on
its way to a backlog is empty (its connector has both ends, `PushAlone`), and a
process in `socksend()` has a message to send.  Then a step
creates a channel (`NewConn`, `SockPair`), sends, receives, closes an end, or
leaves all of them as they were.

`RefsAccounted` equates a count with a sum over processes, connections, ends and
queued messages.  The community modules define such a sum as a fold, and what a
fold computes needs induction over the set, for which there is no theorem to cite
(section 5).  `Counters` goes round by another way: the sum of `g` over a set is the
number of its units, the pairs of an `x` and a number from 1 to `g[x]`.  That
number solves the equations that define the fold (`UnitsSolve`), and they have
only one solution (`OneSolution`): of the subsets on which two solutions differ
there would be a least one (`LeastSubset`, as strict inclusion of finite sets is
well-founded), and it cannot be.  Everything else follows from facts about
cardinality: `SumChange` (one number changes), `SumAdds`, `SumRenamed` and `SumShift`
(a queue gains or loses a message).  `Counted` and
`OutInv` say what `files` and `out` may be at each place of a call; then each
action moves references from one term to another, and `Balanced` is
what all of them have in common.  The assumptions on constants are those of the code's
tables: processes and connection pages are finite, a message has some contents,
and what processes hold at the start is within the count's bound.

`Inode_proofs` proves, from the invariants that `InodeInvariants` defines, for every finite set of processes, of inodes and of names, every set of
paths, and whatever calls the programs make (`Calls`: a `rename()` at any time and
".." of removed directories included), from `InodeAssumption` alone:

| Theorem | Statement |
|---|---|
| `Invariance` | `Spec => []IInv` |
| `TypeCorrect` | `Spec => []TypeOK` |
| `ReferencesCounted` | `Spec => []RefsCounted` |
| `FreedAlone` | `Spec => FreesAlone` |

The argument.  `RefsCounted` equates `ip->ref` with a sum over the processes: the
open file, the working directory, the local pointers that count at the place where
the call is (`Locals`), and the `iput()`s it still owes.  A step changes the share of
one process, so that `RefsStep` asks of every action only that `ref` grows by
the new share less the old one; `RefsAt` writes a share as a sum of tests `Is(x, i)`, one
for each pointer, and most actions come down to "what leaves the locals is owed, and
what was looked up is counted".  That needs the rest of `IInv`: `PlaceInv` (which
pointers are inodes, and which fields are set, at each place), `DirInv` (what a call has
found to be a directory, and has let go of the lock of, still is one) and `DotDotInv`
(a directory has a ".."), or the pointers that lookups return would not be inodes.  And
`DirInv` needs `RefsCounted`: an inode changes its type only in an `iput()` that
finds a count of 1, and by `RefsTerms` no share of another process is left then,
so that nothing a call has in hand is freed under it.  `FreedAlone` is the same
fact as an action property: `OnlyPutFrees` says that no other action
takes a type away.  (TLC agrees with `FreesAlone` on the instance of `inode_safety`; it is not in a
run, because the theorem covers it.)

The rest of the module is about links, directories and locks.  Unlike the first
four, these theorems have hypotheses, because without them they are false
(section 6):

| Theorem | Statement | For programs |
|---|---|---|
| `LinksInvariance` | `Spec => [](IInv /\ KInv /\ LiveLocks)` | whose `rename()`s run alone (`RenamesAlone`) |
| `LinksAccounted` | `Spec => []LinksCounted` | whose `rename()`s run alone |
| `TreeKept` | `Spec => []TreeStaysTree` | whose `rename()`s run alone |
| `NoneDangles` | `Spec => []NothingDangles` | that do not rename (`NoRename`), over paths without ".." (`NoUp`) |
| `LocksGoDown` | `Spec => []DeadlockOnlyInPut` | whose `rename()`s run alone, and that `link()` to a name (`LinksNamed`) |

The argument.  `KInv` is `JInv`, which holds while no `rename()` runs, or `RInv(p)` for
the process `p` whose `rename()` runs.  First `JInv`.  `LinkInv` is `LinksCounted`
with one thing more: a free inode has no name and no call counts a link of it.  No
part of `JInv` is inductive alone:

* An action that changes a directory or a count is under that inode's lock, which
  another call may hold across several steps.  `LockInv` says that a process holds
  exactly the locks its place (`LockedAt`) and its `iunlock()`s to come (`todo`)
  tell, and `TodoInv` that there is at most one of them; so the entry that
  `unlink()` found is still there when it clears it (`EntryInv`).
* An entry moves `Cardinality(NamesOf(i))` by one only if the slot it goes to was
  empty and the name not entered yet (`NamesInv`), and a freed inode takes no
  names away but those of a directory (`FilesEmpty`).
* `nlink = 0` then means, by `LinkInv`, that no name, no child and no call is left:
  a free inode is one that nothing leads to, and freeing it changes the
  links of nothing but what it lists (which `gone` counts).
* `unlink()` of a directory takes a link from its parent, which is the parent its
  ".." names because of `OneParent`; and a new directory joins no circle, because it
  is nobody's parent yet (`NoCircle`).

A `rename()` breaks these facts on its way: between its steps a file has a name too
many, a moved directory is listed in two places, and ".." leads to the wrong one.  What
holds is that the disk is right but for the steps that are left.  `Meant(place, l)` says so:
with the steps still to come done at once (`DirsMeant`, `LinksMeant`, `UpMeant`), the
disk is `Sound`, a predicate of five functions that is stated once for the disk as it is
and for the disk as it will be.  Three things make `RInv` inductive:

* The others only give back: a call that has begun has ended before, so that
  every other process is `Quiet` and its `iput()`s are the only steps
  between those of the `rename()`.  They may free an inode; `RenameFrees` shows that the
  disk that is meant survives it.
* The slot that was found at the start still lists the inode at the end, and the slot of
  the new name still lists what is replaced (`RenOK`), since nobody else enters names.
* `UpOK` is the loop invariant of the cycle check (`sysfile.c:549-570`): the
  directories met so far are a set that leads up out of itself only at the one that is
  next, and the moved directory is not among them.  When the walk has come to the root the
  set is closed under ".." and holds the new parent, so that moving the directory
  there makes no circle (`EnterMeant`).

`LinksCounted` and `TreeStaysTree` are about the times when no `rename()` runs, as
in the code nothing is promised in between; `Meant` is the stronger fact.

`NothingDangles` adds `LiveInv`: everything a call has in hand has a type.  Looking
something up under the directory's lock keeps it, because what is listed has links;
and no step of another call can take it away, because by `FreedAlone` the
process that frees an inode has the only reference there is.

`DeadlockOnlyInPut` is by contradiction.  A process that waits while it
holds a lock and is not in an `iput()` is in `unlink()`, between the directory and
the inode listed in it; so in a circle without `iput()` every wait leads from a
directory to one of its children.  The inodes waited for are then a finite set of
directories each of which has a child in the set (`NoChain` counts them: `dotdot`
maps the set onto itself), which contradicts `NoCircle`.  `OrderInv` is what
excludes that a call puts the inode it holds itself.

## 5. Only model-checked

* The liveness properties (`SleepersWake`, `OrphansReaped`, `KilledLeavesWait`,
  `PeersSeeClose`, `PeerCloseWakes`, `WatchedReported`, `KilledLeavesPoll`):
  temporal reasoning under fairness is out of the prover's reach, and so is
  ENABLED.
* `NothingDangles` of `Inode` for programs that rename: the run has `rename_alone`, the
  theorem excludes it (the cycle check goes up by "..", from a working directory that may
  have been removed).  For a `rename()` at any time `NothingDangles` and `LinksCounted`
  are false, for ".." of a removed directory `NothingDangles`, and for a `link()` to
  "." `DeadlockOnlyInPut` (section 6), so that no theorem states them of such programs.
* `UsedOnce`, `ChunkLeavesTwo`, `LeaksOnlyInReload` and `RefinesFile` of `Blocks`: what a
  chunk allocates is a fold over its blocks.
* What a recursive function computes for every argument (the folds of `Blocks`) needs
  induction over data, which the installed provers cannot instantiate.  Sums
  are the exception, by the argument at the end of section 4.

## 6. Disagreements between code and comments

One is a finding with a run of its own, because it concerns every component:
`proc_killrace`.  `kill()` after a process has tested `p->killed` and before its
`sleep()` has `ptable.lock` is not felt: the process sleeps on.  Every blocking
call of the kernel has this shape (`KillBeforeSleep` in the other modules); only
`epoll_pwait()`, which the next tick wakes, gets over it (`KilledLeavesPoll`).

### Further disagreements

The configurations below also sit in this directory; each checks one property,
and TLC refutes it, most in seconds.  Run e.g. `tlc -config Proc_kill0.cfg Proc`.
Where a row names a second property, put it in the place of the first.

| Configuration (module) | Property | What happens |
|---|---|---|
| `MCLog_overrun.cfg` (`MCLog`) | `NoOverrun`; `NoPanic` | `log_write()` compares `log.lh.n` with the size of the log before it takes `log.lock` (`log.c:225`, `:230`), and `sb.nlog` counts the header block: two operations pass together and the commit writes a block past the log area; or an operation that `begin_op()` admitted is refused |
| `Proc_kill0.cfg` (`Proc`) | `NewProcessNotKilled` | `kill()` finds pids in UNUSED slots, and `allocproc()` does not clear `p->killed` |
| `Pipe_wrap.cfg` (`Pipe`) | `WritableIsNotFull` | `pipewritable()` compares wrapping counters with `<` |
| `Pipe_wrap.cfg` (`Pipe`) | `WriteToClosedFails` (a PROPERTY) | a write that fits succeeds although nobody can read |
| `MCCow_mprotect.cfg` (`MCCow`) | `SharedNotWritable`; `ReadOnlyStays` | `mprotect(PROT_WRITE)` makes a copy-on-write page writable without copying it; a read-only page becomes writable after `fork()` and a store |
| `MCCow_shmfork.cfg` (`MCCow`) | `FreedOnlyByShmclose` | `copyuvm()` strips `PTE_SHM` from the entries of parent and child; unmapping then frees a page of a live shared object |
| `MCCow_shmfork.cfg` (`MCCow`), with the habit `close_mapped` in place of `fork_shared` | `NothingYanked` | the last `close()` frees pages that are mapped |
| `Socket_race.cfg` (`Socket`) | `PeerGoneIsSeen` | `connect()` uses a listener after `sbind.lock` is released; if it closes in between, the connection is queued where nobody will accept it and its other end is never closed.  With the habit `files_run_out` also: `accept()` that finds no `struct file` drops the connection |
| `Socket_paths.cfg` (`Socket`) | `PathsLeadToTheirSockets` | closing a bound socket that never listened leaves its path behind |
| `Socket_badfd.cfg` (`Socket`) | `NothingLost` | `sendmsg()` with a bad descriptor keeps the references it took before it |
| `Socket_badfd.cfg` (`Socket`), with `NSOCKET = 3`, `Path = {a}` and the habits `connect`, `close_listener`, `close_bound` | `NothingLost` | a closing listener frees a pending connection with files in its queue |
| `MCInode_deadlock.cfg` (`MCInode`) | `NoDeadlock` | `unlink()` puts an inode under the lock of its directory (`sysfile.c:461`), `create()` puts the directory under the lock of the new inode: they wait for each other |
| `MCInode_leak.cfg` (`MCInode`) | `FreedWhenUnused` | two `iput()`s each see the other's reference (`fs.c:343`), and nobody frees an inode without links |
| `MCInode_renamerace.cfg` (`MCInode`) | `NothingDangles` | `rename()` clears the slot it found before it gave the directory's lock back (`sysfile.c:648`) |
| `MCInode_dotdot.cfg` (`MCInode`) | `NothingDangles` | ".." of a removed working directory names an inode that has been freed |
| `MCBlocks_chunk.cfg` (`MCBlocks`) | `ChunkFits` | one chunk of a write logs more than the `MAXOPBLOCKS` that `begin_op()` reserves; see below |
| `MCBlocks_chunk.cfg` (`MCBlocks`), with `MaxOpBlocks = 6` | `TruncateFits` | truncation of a large file logs more blocks than its transaction has reserved; of this small file with its many blocks of bitmap, more than 6 |
| `MCBlocks_hole.cfg` (`MCBlocks`) | `WriteThrough` | the address of a block that fills a hole is only in the cached inode |
| `MCEvents_stale.cfg` (`MCEvents`) | `NoStaleReport` (a PROPERTY) | an item survives `close()`, and reports the file that has its descriptor next (`epoll.c:134`) |
| `MCEvents_safety.cfg` (`MCEvents`) | `NeverHangs` | a line without its end is entered, because it was typed in raw mode or has filled the ring; the reader takes that, and sleeps for the rest |
| `MCEvents_safety.cfg` (`MCEvents`) | `NoTransactionWaits` | a killed reader of the mouse retries inside `begin_op()` and waits for the lock that a sleeping reader has (`file.c:185-191`): nothing commits until the mouse moves |
| `MCEvents_live.cfg` (`MCEvents`) | `AlwaysReported` | the events array ends at `p->sz`: `break` leaves `out` at 0, and the call sleeps beside a ready device (`epoll.c:224`) |
| `MCEvents_live.cfg` (`MCEvents`) | `KilledLeavesRead` | the race of `proc_killrace` in `consoleread()` |

`ChunkFits`: `filewrite()` and `fileread()` cut a transfer into chunks of 1536
bytes so that each fits the reservation.  The sum
(`file.c:219-224`) has 4 blocks of data, 3 of addresses where the chunk crosses
from one level to the next, the inode and 2 "allocation blocks", 10 in all.  That was true of a
small disk; now the bitmap has five blocks (`param.h:75`), `balloc()` takes free blocks
wherever they are (`fs.c:63-73`), and a chunk may log 13; with three blocks of bitmap it
would be 11.  What does hold, and is checked by `blocks_safety`, is `ChunkLeavesTwo`: without the bitmap
a chunk logs at most `MAXOPBLOCKS` - 2.

Three more were met while modelling and have no configuration.  `link(x, ".")` waits for
itself for ever: `dirlink()` finds "." and puts the directory (`fs.c:1011-1014`)
that `sys_link()` has locked (`sysfile.c:362-367`), and `iput()` takes that lock.  `rename()` uses
`newdp->inum` after `iput(newdp)` (`sysfile.c:667`): the cache entry may by then
stand for another inode.  `link()` may enter a name in a directory that is being
removed; like `create()`'s, it goes with the directory.

## 7. Not modelled, and the plan

Not modelled: boot, interrupt controllers, drawing, number formatting, ELF
parsing, vendored programs; reasons are in `PROJECT.json` "components".  Of the
repository's 702,427 lines of implementation the kernel is about 2 %: nearly all
the rest is bash, coreutils, nano, musl and other third-party programs, built as
they come.  The modules here are about the kernel.

Done: `Log`, `Proc`, `Pipe`, `Cow`, `Socket`, `Console` and `Events` with their
proofs; `Inode` with the proofs about references, links, directories and
locks; `Blocks` over `SparseFile`.

Left, most important first:

1. Proofs of `Blocks`: `UsedOnce`; of `NothingDangles` for programs that rename alone
   and only to absolute paths.
2. `Bcache`: reference counts, LRU and pinning of `bio.c`, composed with `Log`
   (can `bget()` run out of buffers while the log pins them?).
3. The file table: descriptors that travel in messages and in cycles.
4. The kernel's own writes to user pages (`sysproc.c:398`) in `Cow`.
5. `Compositor`: its event loop over `MessageChannels` and `Events`.
