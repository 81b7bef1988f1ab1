-------------------------------- MODULE Proc --------------------------------
(***************************************************************************)
(* The process table of kernel/proc.c: fork, exit, wait, kill, sleep and   *)
(* wakeup, and the scheduler, on NCPU processors.                          *)
(*                                                                         *)
(* A step is one critical section of ptable.lock, or what a process does   *)
(* between two of them.  Besides wait(), a process can block in a system   *)
(* call the way piperead() or sys_sleep() does: take the lock of a         *)
(* resource, and while it is not ready test p->killed and sleep() on it.   *)
(***************************************************************************)
EXTENDS Naturals, FiniteSets

CONSTANTS
    NPROC,      \* slots of ptable
    NCPU,       \* processors
    Resource,   \* things a process blocks on, each with its own spinlock
    KillPids,   \* pids that processes pass to kill()
    MaxPid,     \* bound: forks stop when nextpid reaches it
    None        \* no process, no resource

ASSUME ProcAssumption ==
    /\ NPROC \in Nat \ {0}
    /\ NCPU \in Nat \ {0}
    /\ MaxPid \in Nat \ {0}
    /\ KillPids \subseteq 0..MaxPid
    /\ None \notin Resource /\ None \notin 1..NPROC
    /\ Resource \cap (1..NPROC) = {}

Slot == 1..NPROC
initproc == 1

VARIABLES
    state,      \* p->state
    pid,        \* p->pid
    parent,     \* p->parent
    killed,     \* p->killed
    chan,       \* p->chan: a slot (its wait()), a resource, or None
    nextpid,    \* nextpid
    pc,         \* where each process is in the kernel
    on,         \* the resource a system call of the process is about, or None
    child,      \* the EMBRYO slot a fork() is filling
    lock,       \* holder of each resource's spinlock
    ready,      \* is the resource ready?
    panicked    \* exit() of initproc panics

table == <<state, pid, parent, killed, chan, nextpid>>
vars  == <<state, pid, parent, killed, chan, nextpid, pc, on, child, lock, ready, panicked>>

Init ==
    /\ state = [p \in Slot |-> IF p = initproc THEN "RUNNABLE" ELSE "UNUSED"]
    /\ pid = [p \in Slot |-> IF p = initproc THEN 1 ELSE 0]
    /\ parent = [p \in Slot |-> None]
    /\ killed = [p \in Slot |-> FALSE]
    /\ chan = [p \in Slot |-> None]
    /\ nextpid = 2
    /\ pc = [p \in Slot |-> "user"]
    /\ on = [p \in Slot |-> None]
    /\ child = [p \in Slot |-> None]
    /\ lock = [r \in Resource |-> None]
    /\ ready = [r \in Resource |-> FALSE]
    /\ panicked = FALSE

\* p runs on some processor, in user space or at point `at` of the kernel.
At(p, at) == state[p] = "RUNNING" /\ pc[p] = at

\* trap() lets a system call start only if the process is not killed.
InUser(p) == At(p, "user") /\ ~killed[p]

-----------------------------------------------------------------------------
(* scheduler() and yield() *)

Schedule(p) ==
    /\ state[p] = "RUNNABLE"
    /\ Cardinality({q \in Slot : state[q] = "RUNNING"}) < NCPU
    /\ state' = [state EXCEPT ![p] = "RUNNING"]
    /\ chan' = [chan EXCEPT ![p] = None]
    /\ UNCHANGED <<pid, parent, killed, nextpid, pc, on, child, lock, ready, panicked>>

\* A timer interrupt; interrupts are off while a spinlock is held, as
\* ptable.lock is when wait() scans the table again after a sleep.
Yield(p) ==
    /\ state[p] = "RUNNING"
    /\ pc[p] # "wait"
    /\ \A r \in Resource : lock[r] # p
    /\ state' = [state EXCEPT ![p] = "RUNNABLE"]
    /\ UNCHANGED <<pid, parent, killed, chan, nextpid, pc, on, child, lock, ready, panicked>>

\* wakeup1(): the states after every sleeper on c has become runnable.
Wakeup1_Nobody(st, c) == st                    \* mutant: wakes nobody

Wakeup1(st, c) ==
    [p \in Slot |-> IF st[p] = "SLEEPING" /\ chan[p] = c THEN "RUNNABLE" ELSE st[p]]

-----------------------------------------------------------------------------
(* fork() *)

\* p->pid = nextpid++
NewPid == nextpid

\* allocproc() takes the first UNUSED slot; it leaves p->killed as it is.
AllocProc(p) ==
    /\ InUser(p)
    /\ nextpid <= MaxPid
    /\ \E n \in Slot :
        /\ state[n] = "UNUSED" /\ \A m \in Slot : m < n => state[m] # "UNUSED"
        /\ state' = [state EXCEPT ![n] = "EMBRYO"]
        /\ pid' = [pid EXCEPT ![n] = NewPid]
        /\ child' = [child EXCEPT ![p] = n]
    /\ nextpid' = nextpid + 1
    /\ pc' = [pc EXCEPT ![p] = "fork"]
    /\ UNCHANGED <<parent, killed, chan, on, lock, ready, panicked>>

\* kalloc() or copyuvm() fails: the slot is UNUSED again, its pid remains.
ForkFail(p) ==
    /\ At(p, "fork")
    /\ state' = [state EXCEPT ![child[p]] = "UNUSED"]
    /\ child' = [child EXCEPT ![p] = None]
    /\ pc' = [pc EXCEPT ![p] = "user"]
    /\ UNCHANGED <<pid, parent, killed, chan, nextpid, on, lock, ready, panicked>>

ForkDone(p) ==
    /\ At(p, "fork")
    /\ state' = [state EXCEPT ![child[p]] = "RUNNABLE"]
    /\ parent' = [parent EXCEPT ![child[p]] = p]
    /\ child' = [child EXCEPT ![p] = None]
    /\ pc' = [pc EXCEPT ![p] = "user", ![child[p]] = "user"]
    /\ UNCHANGED <<pid, killed, chan, nextpid, on, lock, ready, panicked>>

-----------------------------------------------------------------------------
(* exit() and wait() *)

\* sys_exit(), or trap() finds p->killed; closing the files takes a while.
ExitBegin(p) ==
    /\ At(p, "user")
    /\ p # initproc
    /\ pc' = [pc EXCEPT ![p] = "exit"]
    /\ UNCHANGED <<table, on, child, lock, ready, panicked>>

\* A killed initproc reaches exit(), which panics.
ExitInit ==
    /\ At(initproc, "user") /\ killed[initproc]
    /\ panicked' = TRUE
    /\ UNCHANGED <<table, pc, on, child, lock, ready>>

\* Pass abandoned children to init.
Reparent_Not(p) == parent                      \* mutant: children keep p

Reparent(p) == [q \in Slot |-> IF parent[q] = p THEN initproc ELSE parent[q]]

\* wakeup1(initproc), if it has just been given a zombie.
WakeInit_Not(p, st) == st                      \* mutant: init is not told

WakeInit(p, st) ==
    IF \E q \in Slot : parent[q] = p /\ state[q] = "ZOMBIE"
    THEN Wakeup1(st, initproc)
    ELSE st

ExitZombie(p) ==
    /\ At(p, "exit")
    /\ state' = [WakeInit(p, Wakeup1(state, parent[p])) EXCEPT ![p] = "ZOMBIE"]
    /\ parent' = Reparent(p)
    /\ UNCHANGED <<pid, killed, chan, nextpid, pc, on, child, lock, ready, panicked>>

Children(p) == {q \in Slot : parent[q] = p}
InWait(p)   == InUser(p) \/ At(p, "wait")

\* wait() finds the first zombie child and frees its slot.
WaitReap(p) ==
    /\ InWait(p)
    /\ \E q \in Children(p) :
        /\ state[q] = "ZOMBIE"
        /\ \A r \in Children(p) : r < q => state[r] # "ZOMBIE"
        /\ state' = [state EXCEPT ![q] = "UNUSED"]
        /\ pid' = [pid EXCEPT ![q] = 0]
        /\ parent' = [parent EXCEPT ![q] = None]
        /\ killed' = [killed EXCEPT ![q] = FALSE]
        /\ pc' = [pc EXCEPT ![p] = "user", ![q] = "user"]
    /\ UNCHANGED <<chan, nextpid, on, child, lock, ready, panicked>>

NoZombie(p) == \A q \in Children(p) : state[q] # "ZOMBIE"

WaitGivesUp_Never(p) == Children(p) = {}       \* mutant: ignores p->killed

WaitGivesUp(p) == Children(p) = {} \/ killed[p]

WaitFails(p) ==
    /\ InWait(p) /\ NoZombie(p) /\ WaitGivesUp(p)
    /\ pc' = [pc EXCEPT ![p] = "user"]
    /\ UNCHANGED <<table, on, child, lock, ready, panicked>>

WaitSleep(p) ==
    /\ InWait(p) /\ NoZombie(p) /\ ~WaitGivesUp(p)
    /\ state' = [state EXCEPT ![p] = "SLEEPING"]
    /\ chan' = [chan EXCEPT ![p] = p]
    /\ pc' = [pc EXCEPT ![p] = "wait"]
    /\ UNCHANGED <<pid, parent, killed, nextpid, on, child, lock, ready, panicked>>

-----------------------------------------------------------------------------
(* A system call that blocks on a resource: sleep() with another lock *)

Acquire(p, r) ==
    /\ InUser(p) \/ (At(p, "relock") /\ on[p] = r)
    /\ lock[r] = None
    /\ lock' = [lock EXCEPT ![r] = p]
    /\ pc' = [pc EXCEPT ![p] = "locked"]
    /\ on' = [on EXCEPT ![p] = r]
    /\ UNCHANGED <<table, child, ready, panicked>>

\* The resource is ready: use it up and return.
Consume(p, r) ==
    /\ At(p, "locked") /\ on[p] = r
    /\ ready[r]
    /\ ready' = [ready EXCEPT ![r] = FALSE]
    /\ lock' = [lock EXCEPT ![r] = None]
    /\ pc' = [pc EXCEPT ![p] = "user"]
    /\ on' = [on EXCEPT ![p] = None]
    /\ UNCHANGED <<table, child, panicked>>

\* `if(myproc()->killed){ release(lk); return -1; }`
GiveUp(p, r) ==
    /\ At(p, "locked") /\ on[p] = r
    /\ ~ready[r] /\ killed[p]
    /\ lock' = [lock EXCEPT ![r] = None]
    /\ pc' = [pc EXCEPT ![p] = "user"]
    /\ on' = [on EXCEPT ![p] = None]
    /\ UNCHANGED <<table, child, ready, panicked>>

\* mutant: sleep() releases lk before it takes ptable.lock
CallSleep_Unlocks(p, r) ==
    /\ At(p, "locked") /\ on[p] = r
    /\ ~ready[r] /\ ~killed[p]
    /\ lock' = [lock EXCEPT ![r] = None]
    /\ pc' = [pc EXCEPT ![p] = "sleep"]
    /\ UNCHANGED <<table, on, child, ready, panicked>>

\* Not killed: call sleep(), which has still to acquire ptable.lock.
CallSleep(p, r) ==
    /\ At(p, "locked") /\ on[p] = r
    /\ ~ready[r] /\ ~killed[p]
    /\ pc' = [pc EXCEPT ![p] = "sleep"]
    /\ UNCHANGED <<table, on, child, lock, ready, panicked>>

\* sleep() with ptable.lock: release lk and become SLEEPING in one step.
Sleep(p, r) ==
    /\ At(p, "sleep") /\ on[p] = r
    /\ lock' = [lock EXCEPT ![r] = None]
    /\ state' = [state EXCEPT ![p] = "SLEEPING"]
    /\ chan' = [chan EXCEPT ![p] = r]
    /\ pc' = [pc EXCEPT ![p] = "relock"]
    /\ UNCHANGED <<pid, parent, killed, nextpid, on, child, ready, panicked>>

\* An interrupt, or a writer: under lk the resource becomes ready; wakeup().
Provide(r) ==
    /\ lock[r] = None
    /\ ready' = [ready EXCEPT ![r] = TRUE]
    /\ state' = Wakeup1(state, r)
    /\ UNCHANGED <<pid, parent, killed, chan, nextpid, pc, on, child, lock, panicked>>

-----------------------------------------------------------------------------
(* kill(): the first slot whose pid matches, whatever its state *)

Matches(k) == {q \in Slot : pid[q] = k /\ \A m \in Slot : m < q => pid[m] # k}

Kill(p, k) ==
    /\ InUser(p)
    /\ \E q \in Matches(k) :
        /\ killed' = [killed EXCEPT ![q] = TRUE]
        /\ state' = [state EXCEPT ![q] = IF @ = "SLEEPING" THEN "RUNNABLE" ELSE @]
    /\ UNCHANGED <<pid, parent, chan, nextpid, pc, on, child, lock, ready, panicked>>

-----------------------------------------------------------------------------
\* What a process does once it is inside a system call.
KernelStep(p) ==
    \/ ForkFail(p) \/ ForkDone(p)
    \/ ExitZombie(p)
    \/ pc[p] = "wait" /\ (WaitReap(p) \/ WaitFails(p) \/ WaitSleep(p))
    \/ \E r \in Resource :
        \/ pc[p] = "relock" /\ Acquire(p, r)
        \/ Consume(p, r) \/ GiveUp(p, r)
        \/ CallSleep(p, r) \/ Sleep(p, r)

\* What a process in user space may ask for.
UserStep(p) ==
    \/ AllocProc(p)
    \/ ExitBegin(p)
    \/ pc[p] = "user" /\ (WaitReap(p) \/ WaitFails(p) \/ WaitSleep(p))
    \/ \E r \in Resource : pc[p] = "user" /\ Acquire(p, r)
    \/ \E k \in KillPids : Kill(p, k)

Next ==
    /\ ~panicked
    /\ \/ \E p \in Slot : Schedule(p) \/ Yield(p) \/ KernelStep(p) \/ UserStep(p)
       \/ ExitInit
       \/ \E r \in Resource : Provide(r)

Spec == Init /\ [][Next]_vars

\* scheduler() goes round the table, so a RUNNABLE process gets a processor;
\* the timer takes it away from a process that keeps it (an interrupt that
\* comes while a spinlock is held stays pending); a process that has
\* a processor again and again gets on with its system call; and a killed
\* process in user space meets trap() at its next timer interrupt.
Fairness ==
    /\ \A p \in Slot :
        /\ SF_vars(~panicked /\ Schedule(p))
        /\ SF_vars(~panicked /\ Yield(p))
        /\ SF_vars(~panicked /\ KernelStep(p))
        /\ SF_vars(~panicked /\ killed[p] /\ ExitBegin(p))
    /\ SF_vars(~panicked /\ ExitInit)

\* dinit's main loop (dinit.c:117-142): init calls wait() again and again, and
\* returns from every other call.
InitReaps ==
    /\ SF_vars(~panicked /\ (WaitReap(initproc) \/ WaitSleep(initproc)))
    /\ []<>(on[initproc] = None \/ panicked)

FairSpec == Spec /\ Fairness /\ InitReaps

-----------------------------------------------------------------------------
(* Properties *)

Points == {"user", "fork", "exit", "wait", "locked", "sleep", "relock"}

TypeOK ==
    /\ state \in [Slot -> {"UNUSED", "EMBRYO", "SLEEPING", "RUNNABLE", "RUNNING", "ZOMBIE"}]
    /\ pid \in [Slot -> 0..MaxPid]
    /\ parent \in [Slot -> Slot \cup {None}]
    /\ killed \in [Slot -> BOOLEAN]
    /\ chan \in [Slot -> Slot \cup Resource \cup {None}]
    /\ nextpid \in 1..(MaxPid + 1)
    /\ pc \in [Slot -> Points]
    /\ on \in [Slot -> Resource \cup {None}]
    /\ child \in [Slot -> Slot \cup {None}]
    /\ lock \in [Resource -> Slot \cup {None}]
    /\ ready \in [Resource -> BOOLEAN]
    /\ panicked \in BOOLEAN

Alive(p) == state[p] \in {"SLEEPING", "RUNNABLE", "RUNNING"}

\* Every process but init, dead or alive, has a parent that is alive and was
\* created before it, however slots are reused (proc.c:334-341): a zombie
\* always has somebody to wait() for it, and the tree has no cycle.
HasParent ==
    \A p \in Slot \ {initproc} :
        Alive(p) \/ state[p] = "ZOMBIE" =>
            \E q \in Slot : /\ parent[p] = q
                            /\ Alive(q)
                            /\ pid[q] < pid[p]

\* No exit is missed: a process asleep in wait() has no zombie child
\* (proc.c:332, :339 against the scan at :362 and the sleep at :390).
NoMissedExit ==
    \A p \in Slot : state[p] = "SLEEPING" /\ chan[p] = p => NoZombie(p)

\* No wakeup is missed: nobody sleeps on a resource that is ready, because
\* sleep() takes ptable.lock before it releases lk (proc.c:525-531).
NoMissedWakeup ==
    \A p \in Slot, r \in Resource :
        state[p] = "SLEEPING" /\ chan[p] = r => ~ready[r]

\* Zombies do not linger (dinit.c:132-139): one that init inherits, or an
\* own child of init, is eventually reaped.
OrphansReaped ==
    \A p \in Slot :
        state[p] = "ZOMBIE" /\ parent[p] = initproc
            ~> state[p] # "ZOMBIE" \/ panicked

\* A killed process does not stay in wait(), even if no child ever exits.
KilledLeavesWait ==
    \A p \in Slot : killed[p] /\ pc[p] = "wait" ~> pc[p] # "wait" \/ panicked

\* proc.c:567-569: kill(pid) makes the process exit once it returns to user
\* space, waking it from sleep if necessary.
KilledExits ==
    \A p \in Slot \ {initproc} :
        killed[p] /\ Alive(p) ~> ~Alive(p) \/ panicked

\* proc.c:567 "Kill the process with the given pid": kill() is not felt by a
\* process that does not exist yet.
NewProcessNotKilled ==
    [][\A p \in Slot : state[p] = "UNUSED" /\ state'[p] = "EMBRYO" => ~killed'[p]]_vars
=============================================================================
