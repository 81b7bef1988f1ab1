---------------------------- MODULE Proc_proofs ----------------------------
(***************************************************************************)
(* Proofs about Proc, for every number of slots and processors, every set  *)
(* of resources and every bound on pids.                                   *)
(*                                                                         *)
(* IInv is the inductive invariant.  One lemma per action shows that the   *)
(* action preserves it; the theorems at the end follow from it.            *)
(***************************************************************************)
EXTENDS Proc, TLAPS

\* init never dies: exit() of initproc panics.
InitInv == Alive(initproc) /\ pc[initproc] # "exit" /\ pid[initproc] = 1

\* A slot in use has a pid that nextpid has passed; only init's is 1.
PidInv ==
    /\ nextpid > 1
    /\ \A p \in Slot : pid[p] < nextpid
    /\ \A p \in Slot \ {initproc} : state[p] # "UNUSED" => pid[p] > 1

\* fork() in progress: the slot being filled belongs to one living parent.
ForkInv ==
    /\ \A p \in Slot : pc[p] = "fork" =>
          /\ Alive(p)
          /\ child[p] \in Slot
          /\ state[child[p]] = "EMBRYO"
          /\ pid[p] < pid[child[p]]
    /\ \A p, q \in Slot :
          pc[p] = "fork" /\ pc[q] = "fork" /\ child[p] = child[q] => p = q

\* The resource's spinlock is held from the test to sleep()'s release, so
\* the resource stays not ready.
LockInv ==
    \A p \in Slot, r \in Resource : on[p] = r =>
        /\ pc[p] \in {"locked", "sleep"} => lock[r] = p
        /\ pc[p] = "sleep" => ~ready[r]

IInv ==
    /\ TypeOK
    /\ InitInv
    /\ PidInv
    /\ ForkInv
    /\ LockInv
    /\ HasParent
    /\ NoMissedExit
    /\ NoMissedWakeup

\* initproc occupies a slot, and None is neither a slot nor a resource.
LEMMA Constants ==
    /\ initproc \in Slot
    /\ None \notin Slot /\ None \notin Resource
    /\ \A r \in Resource : r \notin Slot
  BY ProcAssumption DEF initproc, Slot

-----------------------------------------------------------------------------
(* Every action preserves IInv. *)

\* Initially only init exists.
LEMMA InitIInv == Init => IInv
<1> SUFFICES ASSUME Init PROVE IInv
  OBVIOUS
<1> USE Constants, ProcAssumption DEF Init
<1>1. TypeOK
  <2>1. pid \in [Slot -> 0..MaxPid] /\ nextpid \in 1..(MaxPid + 1)
    OBVIOUS
  <2> QED
    BY <2>1 DEF TypeOK, Points
<1>2. InitInv /\ PidInv /\ ForkInv /\ LockInv
  BY DEF InitInv, PidInv, ForkInv, LockInv, Alive, initproc
<1>3. HasParent /\ NoMissedExit /\ NoMissedWakeup
  BY DEF HasParent, NoMissedExit, NoMissedWakeup, Alive, initproc
<1> QED
  BY <1>1, <1>2, <1>3 DEF IInv

\* Schedule preserves the inductive invariant.
LEMMA ScheduleStep ==
    ASSUME IInv, NEW p \in Slot, Schedule(p)
    PROVE  IInv'
<1> USE Constants DEF IInv, Schedule
<1>1. TypeOK'
  BY DEF TypeOK
<1>2. InitInv' /\ PidInv' /\ ForkInv' /\ LockInv'
  BY DEF TypeOK, InitInv, PidInv, ForkInv, LockInv, Alive
<1>3. HasParent'
  BY DEF TypeOK, HasParent, Alive
<1>4. NoMissedExit' /\ NoMissedWakeup'
  BY DEF TypeOK, NoMissedExit, NoMissedWakeup, NoZombie, Children
<1> QED
  BY <1>1, <1>2, <1>3, <1>4

\* Yield preserves the inductive invariant.
LEMMA YieldStep ==
    ASSUME IInv, NEW p \in Slot, Yield(p)
    PROVE  IInv'
<1> USE Constants DEF IInv, Yield
<1>1. TypeOK'
  BY DEF TypeOK
<1>2. InitInv' /\ PidInv' /\ ForkInv' /\ LockInv'
  BY DEF TypeOK, InitInv, PidInv, ForkInv, LockInv, Alive
<1>3. HasParent'
  BY DEF TypeOK, HasParent, Alive
<1>4. NoMissedExit' /\ NoMissedWakeup'
  BY DEF TypeOK, NoMissedExit, NoMissedWakeup, NoZombie, Children
<1> QED
  BY <1>1, <1>2, <1>3, <1>4

\* allocproc() preserves the inductive invariant.
LEMMA AllocProcStep ==
    ASSUME IInv, NEW p \in Slot, AllocProc(p)
    PROVE  IInv'
<1> USE Constants, ProcAssumption DEF IInv, AllocProc, InUser, At, NewPid
<1> PICK n \in Slot : /\ state[n] = "UNUSED"
                      /\ state' = [state EXCEPT ![n] = "EMBRYO"]
                      /\ pid' = [pid EXCEPT ![n] = nextpid]
                      /\ child' = [child EXCEPT ![p] = n]
  OBVIOUS
<1>1. TypeOK'
  BY DEF TypeOK, Points
<1>2. InitInv' /\ PidInv'
  BY DEF TypeOK, InitInv, PidInv, Alive
<1>3. ForkInv'
  BY DEF TypeOK, ForkInv, PidInv, Alive
<1>4. LockInv' /\ NoMissedWakeup'
  BY DEF TypeOK, LockInv, NoMissedWakeup
<1>5. HasParent'
  BY DEF TypeOK, HasParent, Alive
<1>6. NoMissedExit'
  BY DEF TypeOK, NoMissedExit, NoZombie, Children
<1> QED
  BY <1>1, <1>2, <1>3, <1>4, <1>5, <1>6
\* fork() that fails preserves the inductive invariant.
LEMMA ForkFailStep ==
    ASSUME IInv, NEW p \in Slot, ForkFail(p)
    PROVE  IInv'
<1> USE Constants DEF IInv, ForkFail, At
<1>1. TypeOK'
  BY DEF TypeOK, Points
<1>2. InitInv' /\ PidInv'
  BY DEF TypeOK, InitInv, PidInv, ForkInv, Alive
<1>3. ForkInv'
  BY DEF TypeOK, ForkInv, Alive
<1>4. LockInv' /\ NoMissedWakeup'
  BY DEF TypeOK, LockInv, NoMissedWakeup, ForkInv
<1>5. HasParent'
  BY DEF TypeOK, HasParent, ForkInv, Alive
<1>6. NoMissedExit'
  BY DEF TypeOK, NoMissedExit, NoZombie, Children, ForkInv
<1> QED
  BY <1>1, <1>2, <1>3, <1>4, <1>5, <1>6

\* fork() that succeeds preserves the inductive invariant.
LEMMA ForkDoneStep ==
    ASSUME IInv, NEW p \in Slot, ForkDone(p)
    PROVE  IInv'
<1> USE Constants DEF IInv, ForkDone, At
<1> DEFINE c == child[p]
<1>a. c \in Slot /\ state[c] = "EMBRYO" /\ pid[p] < pid[c] /\ p # c
  BY DEF ForkInv
<1>1. TypeOK'
  BY <1>a DEF TypeOK, Points
<1>2. InitInv' /\ PidInv'
  BY <1>a DEF TypeOK, InitInv, PidInv, Alive
<1>3. ForkInv'
  BY <1>a DEF TypeOK, ForkInv, Alive
<1>4. LockInv' /\ NoMissedWakeup'
  BY <1>a DEF TypeOK, LockInv, NoMissedWakeup
<1>5. HasParent'
  BY <1>a DEF TypeOK, HasParent, Alive
<1>6. NoMissedExit'
  BY <1>a DEF TypeOK, NoMissedExit, NoZombie, Children
<1> QED
  BY <1>1, <1>2, <1>3, <1>4, <1>5, <1>6

\* Steps that leave ptable, the children being created and the resources
\* alone, and move p between points outside fork(), sleep() and a lock.
LEMMA OnlyPcStep ==
    ASSUME IInv, NEW p \in Slot, NEW at \in {"user", "exit"},
           pc[p] \in {"user", "wait"}, Alive(p), at = "exit" => p # initproc,
           pc' = [pc EXCEPT ![p] = at],
           UNCHANGED <<table, on, child, lock, ready, panicked>>
    PROVE  IInv'
<1> USE Constants DEF IInv, table
<1>1. TypeOK'
  BY DEF TypeOK, Points
<1>2. InitInv' /\ PidInv' /\ ForkInv' /\ LockInv'
  BY DEF TypeOK, InitInv, PidInv, ForkInv, LockInv, Alive
<1>3. HasParent' /\ NoMissedExit' /\ NoMissedWakeup'
  BY DEF TypeOK, HasParent, NoMissedExit, NoMissedWakeup, NoZombie, Children, Alive
<1> QED
  BY <1>1, <1>2, <1>3

\* The beginning of exit() preserves the inductive invariant.
LEMMA ExitBeginStep ==
    ASSUME IInv, NEW p \in Slot, ExitBegin(p)
    PROVE  IInv'
  BY OnlyPcStep DEF ExitBegin, At, Alive

\* wait() that returns -1 preserves the inductive invariant.
LEMMA WaitFailsStep ==
    ASSUME IInv, NEW p \in Slot, WaitFails(p)
    PROVE  IInv'
  BY OnlyPcStep DEF WaitFails, InWait, InUser, At, Alive

\* The panic of init preserves the inductive invariant.
LEMMA ExitInitStep == IInv /\ ExitInit => IInv'
<1> SUFFICES ASSUME IInv, ExitInit PROVE IInv'
  OBVIOUS
<1> USE DEF IInv, ExitInit, table
<1>1. TypeOK'
  BY DEF TypeOK
<1>2. InitInv' /\ PidInv' /\ ForkInv' /\ LockInv'
  BY DEF InitInv, PidInv, ForkInv, LockInv, Alive
<1>3. HasParent' /\ NoMissedExit' /\ NoMissedWakeup'
  BY DEF HasParent, NoMissedExit, NoMissedWakeup, NoZombie, Children, Alive
<1> QED
  BY <1>1, <1>2, <1>3

\* What exit() does to the states: p is a zombie, the others at most wake.
\* Its parent is woken, and init if it is given a zombie.
LEMMA ExitStates ==
    ASSUME TypeOK, NEW p \in Slot, ExitZombie(p)
    PROVE  /\ state'[p] = "ZOMBIE"
           /\ \A q \in Slot \ {p} :
                 \/ state'[q] = state[q]
                 \/ state[q] = "SLEEPING" /\ state'[q] = "RUNNABLE"
           /\ \A q \in Slot \ {p} :
                 chan[q] = parent[p] => state'[q] # "SLEEPING"
           /\ \A q, z \in Slot :
                 /\ q # p /\ chan[q] = initproc
                 /\ parent[z] = p /\ state[z] = "ZOMBIE"
                 => state'[q] # "SLEEPING"
           /\ state' \in [Slot -> {"UNUSED", "EMBRYO", "SLEEPING", "RUNNABLE", "RUNNING", "ZOMBIE"}]
<1> USE Constants
<1> DEFINE States == {"UNUSED", "EMBRYO", "SLEEPING", "RUNNABLE", "RUNNING", "ZOMBIE"}
           st == Wakeup1(state, parent[p])
<1>1. st \in [Slot -> States]
      /\ \A q \in Slot : st[q] = IF state[q] = "SLEEPING" /\ chan[q] = parent[p]
                                 THEN "RUNNABLE" ELSE state[q]
  BY DEF TypeOK, Wakeup1
<1>2. WakeInit(p, st) \in [Slot -> States]
      /\ \A q \in Slot :
            \/ WakeInit(p, st)[q] = st[q]
            \/ st[q] = "SLEEPING" /\ WakeInit(p, st)[q] = "RUNNABLE"
  BY <1>1 DEF WakeInit, Wakeup1
<1>3. ASSUME NEW q \in Slot, NEW z \in Slot,
             chan[q] = initproc, parent[z] = p, state[z] = "ZOMBIE"
      PROVE  WakeInit(p, st)[q] # "SLEEPING"
  BY <1>1, <1>3 DEF WakeInit, Wakeup1
<1>4. state' = [WakeInit(p, st) EXCEPT ![p] = "ZOMBIE"]
  BY DEF ExitZombie
<1> HIDE DEF st
<1> QED
  BY <1>1, <1>2, <1>3, <1>4

\* exit() preserves the inductive invariant.
LEMMA ExitZombieStep ==
    ASSUME IInv, NEW p \in Slot, ExitZombie(p)
    PROVE  IInv'
<1> USE Constants DEF IInv
<1>a. /\ state[p] = "RUNNING" /\ pc[p] = "exit" /\ p # initproc
      /\ parent' = [q \in Slot |-> IF parent[q] = p THEN initproc ELSE parent[q]]
      /\ UNCHANGED <<pid, killed, chan, nextpid, pc, on, child, lock, ready, panicked>>
  BY DEF ExitZombie, At, InitInv, Reparent
<1>b. /\ state'[p] = "ZOMBIE"
      /\ \A q \in Slot \ {p} :
            \/ state'[q] = state[q]
            \/ state[q] = "SLEEPING" /\ state'[q] = "RUNNABLE"
  BY ExitStates
<1>c. parent[p] # p
  BY <1>a DEF HasParent, Alive, TypeOK
<1>1. TypeOK'
  <2>1. state' \in [Slot -> {"UNUSED", "EMBRYO", "SLEEPING", "RUNNABLE", "RUNNING", "ZOMBIE"}]
    BY ExitStates
  <2> QED
    BY <1>a, <2>1 DEF TypeOK, Points
<1>2. InitInv' /\ PidInv'
  BY <1>a, <1>b DEF TypeOK, InitInv, PidInv, Alive
<1>3. ForkInv'
  BY <1>a, <1>b DEF TypeOK, ForkInv, Alive
<1>4. LockInv' /\ NoMissedWakeup'
  BY <1>a, <1>b DEF TypeOK, LockInv, NoMissedWakeup
<1>5. HasParent'
  <2> SUFFICES ASSUME NEW q \in Slot \ {initproc}, (Alive(q) \/ state[q] = "ZOMBIE")'
               PROVE  \E r \in Slot : /\ parent'[q] = r
                                      /\ Alive(r)'
                                      /\ pid'[r] < pid'[q]
    BY DEF HasParent
  <2>1. PICK r \in Slot : parent[q] = r /\ Alive(r) /\ pid[r] < pid[q]
    BY <1>a, <1>b DEF HasParent, Alive
  <2>2. CASE r = p
    BY <1>a, <1>b, <2>1, <2>2 DEF InitInv, PidInv, Alive, TypeOK
  <2>3. CASE r # p
    BY <1>a, <1>b, <2>1, <2>3 DEF Alive, TypeOK
  <2> QED
    BY <2>2, <2>3
<1>6. NoMissedExit'
  <2> SUFFICES ASSUME NEW q \in Slot, state'[q] = "SLEEPING", chan'[q] = q,
                      NEW z \in Slot, parent'[z] = q, state'[z] = "ZOMBIE"
               PROVE  FALSE
    BY DEF NoMissedExit, NoZombie, Children
  <2>1. q # p /\ state[q] = "SLEEPING" /\ chan[q] = q
    BY <1>a, <1>b
  <2>2. CASE z = p
    <3>1. parent[p] = q
      BY <1>a, <1>c, <2>2
    <3> QED
      BY <2>1, <3>1, ExitStates
  <2>3. CASE z # p /\ parent[z] = p
    <3>1. q = initproc /\ state[z] = "ZOMBIE"
      BY <1>a, <1>b, <2>3
    <3> QED
      BY <2>1, <2>3, <3>1, ExitStates
  <2>4. CASE z # p /\ parent[z] # p
    BY <1>a, <1>b, <2>1, <2>4 DEF NoMissedExit, NoZombie, Children
  <2> QED
    BY <2>2, <2>3, <2>4
<1> QED
  BY <1>1, <1>2, <1>3, <1>4, <1>5, <1>6

\* wait() that reaps a child preserves the inductive invariant.
LEMMA WaitReapStep ==
    ASSUME IInv, NEW p \in Slot, WaitReap(p)
    PROVE  IInv'
<1> USE Constants, ProcAssumption DEF IInv, WaitReap, InWait, InUser, At
<1> PICK z \in Children(p) :
        /\ state[z] = "ZOMBIE"
        /\ state' = [state EXCEPT ![z] = "UNUSED"]
        /\ pid' = [pid EXCEPT ![z] = 0]
        /\ parent' = [parent EXCEPT ![z] = None]
        /\ killed' = [killed EXCEPT ![z] = FALSE]
        /\ pc' = [pc EXCEPT ![p] = "user", ![z] = "user"]
  OBVIOUS
<1>a. z \in Slot /\ z # initproc
  BY DEF Children, InitInv, Alive
<1>1. TypeOK'
  BY <1>a DEF TypeOK, Points
<1>2. InitInv' /\ PidInv'
  BY <1>a DEF TypeOK, InitInv, PidInv, Alive
<1>3. ForkInv'
  BY <1>a DEF TypeOK, ForkInv, Alive
<1>4. LockInv' /\ NoMissedWakeup'
  BY <1>a DEF TypeOK, LockInv, NoMissedWakeup
<1>5. HasParent'
  BY <1>a DEF TypeOK, HasParent, Alive
<1>6. NoMissedExit'
  BY <1>a DEF TypeOK, NoMissedExit, NoZombie, Children
<1> QED
  BY <1>1, <1>2, <1>3, <1>4, <1>5, <1>6

\* wait() that sleeps preserves the inductive invariant.
LEMMA WaitSleepStep ==
    ASSUME IInv, NEW p \in Slot, WaitSleep(p)
    PROVE  IInv'
<1> USE Constants DEF IInv, WaitSleep, InWait, InUser, At
<1>1. TypeOK'
  BY DEF TypeOK, Points
<1>2. InitInv' /\ PidInv'
  BY DEF TypeOK, InitInv, PidInv, Alive
<1>3. ForkInv'
  BY DEF TypeOK, ForkInv, Alive
<1>4. LockInv' /\ NoMissedWakeup'
  BY DEF TypeOK, LockInv, NoMissedWakeup
<1>5. HasParent'
  BY DEF TypeOK, HasParent, Alive
<1>6. NoMissedExit'
  BY DEF TypeOK, NoMissedExit, NoZombie, Children
<1> QED
  BY <1>1, <1>2, <1>3, <1>4, <1>5, <1>6

\* acquire() of a resource's lock preserves the inductive invariant.
LEMMA AcquireStep ==
    ASSUME IInv, NEW p \in Slot, NEW r \in Resource, Acquire(p, r)
    PROVE  IInv'
<1> USE Constants DEF IInv, Acquire, InUser, At, table
<1>1. TypeOK'
  BY DEF TypeOK, Points
<1>2. InitInv' /\ PidInv' /\ ForkInv'
  BY DEF TypeOK, InitInv, PidInv, ForkInv, Alive
<1>3. LockInv'
  BY DEF TypeOK, LockInv
<1>4. HasParent' /\ NoMissedExit' /\ NoMissedWakeup'
  BY DEF HasParent, NoMissedExit, NoMissedWakeup, NoZombie, Children, Alive
<1> QED
  BY <1>1, <1>2, <1>3, <1>4

\* A call that ends under the lock, with success or because p is killed,
\* preserves the inductive invariant.
LEMMA ReturnStep ==
    ASSUME IInv, NEW p \in Slot, NEW r \in Resource, Consume(p, r) \/ GiveUp(p, r)
    PROVE  IInv'
<1> USE Constants DEF IInv, Consume, GiveUp, At, table
<1>1. TypeOK'
  BY DEF TypeOK, Points
<1>2. InitInv' /\ PidInv' /\ ForkInv'
  BY DEF TypeOK, InitInv, PidInv, ForkInv, Alive
<1>3. LockInv'
  BY DEF TypeOK, LockInv
<1>4. HasParent' /\ NoMissedExit'
  BY DEF HasParent, NoMissedExit, NoZombie, Children, Alive
<1>5. NoMissedWakeup'
  BY DEF TypeOK, NoMissedWakeup
<1> QED
  BY <1>1, <1>2, <1>3, <1>4, <1>5

\* The call of sleep() preserves the inductive invariant.
LEMMA CallSleepStep ==
    ASSUME IInv, NEW p \in Slot, NEW r \in Resource, CallSleep(p, r)
    PROVE  IInv'
<1> USE Constants DEF IInv, CallSleep, At, table
<1>1. TypeOK'
  BY DEF TypeOK, Points
<1>2. InitInv' /\ PidInv' /\ ForkInv'
  BY DEF TypeOK, InitInv, PidInv, ForkInv, Alive
<1>3. LockInv'
  BY DEF TypeOK, LockInv
<1>4. HasParent' /\ NoMissedExit' /\ NoMissedWakeup'
  BY DEF HasParent, NoMissedExit, NoMissedWakeup, NoZombie, Children, Alive
<1> QED
  BY <1>1, <1>2, <1>3, <1>4

\* sleep() preserves the inductive invariant: the resource is not ready
\* when p becomes SLEEPING, because its lock was held since the test.
LEMMA SleepStep ==
    ASSUME IInv, NEW p \in Slot, NEW r \in Resource, Sleep(p, r)
    PROVE  IInv'
<1> USE Constants DEF IInv, Sleep, At
<1>1. TypeOK'
  BY DEF TypeOK, Points
<1>2. InitInv' /\ PidInv' /\ ForkInv'
  BY DEF TypeOK, InitInv, PidInv, ForkInv, Alive
<1>3. LockInv'
  BY DEF TypeOK, LockInv
<1>4. HasParent'
  BY DEF TypeOK, HasParent, Alive
<1>5. NoMissedExit'
  BY DEF TypeOK, NoMissedExit, NoZombie, Children
<1>6. NoMissedWakeup'
  BY DEF TypeOK, LockInv, NoMissedWakeup
<1> QED
  BY <1>1, <1>2, <1>3, <1>4, <1>5, <1>6

\* A resource that becomes ready preserves the inductive invariant.
LEMMA ProvideStep ==
    ASSUME IInv, NEW r \in Resource, Provide(r)
    PROVE  IInv'
<1> USE Constants DEF IInv, Provide, Wakeup1
<1>1. TypeOK'
  BY DEF TypeOK
<1>2. InitInv' /\ PidInv'
  BY DEF TypeOK, InitInv, PidInv, Alive
<1>3. ForkInv'
  BY DEF TypeOK, ForkInv, Alive
<1>4. LockInv' /\ NoMissedWakeup'
  BY DEF TypeOK, LockInv, NoMissedWakeup
<1>5. HasParent'
  BY DEF TypeOK, HasParent, Alive
<1>6. NoMissedExit'
  BY DEF TypeOK, NoMissedExit, NoZombie, Children
<1> QED
  BY <1>1, <1>2, <1>3, <1>4, <1>5, <1>6

\* kill() preserves the inductive invariant.
LEMMA KillStep ==
    ASSUME IInv, NEW p \in Slot, NEW k \in KillPids, Kill(p, k)
    PROVE  IInv'
<1> USE Constants DEF IInv, Kill, InUser, At
<1> PICK q \in Slot :
        /\ killed' = [killed EXCEPT ![q] = TRUE]
        /\ state' = [state EXCEPT ![q] = IF @ = "SLEEPING" THEN "RUNNABLE" ELSE @]
  BY DEF Matches
<1>1. TypeOK'
  BY DEF TypeOK
<1>2. InitInv' /\ PidInv'
  BY DEF TypeOK, InitInv, PidInv, Alive
<1>3. ForkInv'
  BY DEF TypeOK, ForkInv, Alive
<1>4. LockInv' /\ NoMissedWakeup'
  BY DEF TypeOK, LockInv, NoMissedWakeup
<1>5. HasParent'
  BY DEF TypeOK, HasParent, Alive
<1>6. NoMissedExit'
  BY DEF TypeOK, NoMissedExit, NoZombie, Children
<1> QED
  BY <1>1, <1>2, <1>3, <1>4, <1>5, <1>6

-----------------------------------------------------------------------------
(* Theorems *)

\* Every step preserves the inductive invariant.
LEMMA NextIInv == IInv /\ [Next]_vars => IInv'
<1> SUFFICES ASSUME IInv, [Next]_vars PROVE IInv'
  OBVIOUS
<1>1. ASSUME NEW p \in Slot, Schedule(p) \/ Yield(p) PROVE IInv'
  BY <1>1, ScheduleStep, YieldStep
<1>2. ASSUME NEW p \in Slot, KernelStep(p) PROVE IInv'
  <2>1. CASE ForkFail(p) \/ ForkDone(p)
    BY <2>1, ForkFailStep, ForkDoneStep
  <2>2. CASE ExitZombie(p)
    BY <2>2, ExitZombieStep
  <2>3. CASE WaitReap(p) \/ WaitFails(p) \/ WaitSleep(p)
    BY <2>3, WaitReapStep, WaitFailsStep, WaitSleepStep
  <2>4. ASSUME NEW r \in Resource,
               Acquire(p, r) \/ Consume(p, r) \/ GiveUp(p, r) \/ CallSleep(p, r) \/ Sleep(p, r)
        PROVE  IInv'
    BY <2>4, AcquireStep, ReturnStep, CallSleepStep, SleepStep
  <2> QED
    BY <1>2, <2>1, <2>2, <2>3, <2>4 DEF KernelStep
<1>3. ASSUME NEW p \in Slot, UserStep(p) PROVE IInv'
  <2>1. CASE AllocProc(p) \/ ExitBegin(p)
    BY <2>1, AllocProcStep, ExitBeginStep
  <2>2. CASE WaitReap(p) \/ WaitFails(p) \/ WaitSleep(p)
    BY <2>2, WaitReapStep, WaitFailsStep, WaitSleepStep
  <2>3. ASSUME NEW r \in Resource, Acquire(p, r) PROVE IInv'
    BY <2>3, AcquireStep
  <2>4. ASSUME NEW k \in KillPids, Kill(p, k) PROVE IInv'
    BY <2>4, KillStep
  <2> QED
    BY <1>3, <2>1, <2>2, <2>3, <2>4 DEF UserStep
<1>4. CASE ExitInit
  BY <1>4, ExitInitStep
<1>5. ASSUME NEW r \in Resource, Provide(r) PROVE IInv'
  BY <1>5, ProvideStep
<1>6. CASE UNCHANGED vars
  <2> USE <1>6 DEF vars
  <2>1. TypeOK' /\ InitInv' /\ PidInv' /\ ForkInv' /\ LockInv'
    BY DEF IInv, TypeOK, InitInv, PidInv, ForkInv, LockInv, Alive
  <2>2. HasParent' /\ NoMissedExit' /\ NoMissedWakeup'
    BY DEF IInv, HasParent, NoMissedExit, NoMissedWakeup, NoZombie, Children, Alive
  <2> QED
    BY <2>1, <2>2 DEF IInv
<1> QED
  BY <1>1, <1>2, <1>3, <1>4, <1>5, <1>6 DEF Next

\* The inductive invariant holds in every reachable state.
THEOREM Invariance == Spec => []IInv
  BY InitIInv, NextIInv, PTL DEF Spec

\* Every variable of the process table keeps its type; no pid exceeds the
\* counter that hands them out (proc.c:110).
THEOREM TypeCorrect == Spec => []TypeOK
<1>1. IInv => TypeOK
  BY DEF IInv
<1> QED
  BY <1>1, Invariance, PTL

\* Every process but init has a living, older parent, however processes die
\* and slots are reused (proc.c:334-341).
THEOREM EveryoneHasAParent == Spec => []HasParent
<1>1. IInv => HasParent
  BY DEF IInv
<1> QED
  BY <1>1, Invariance, PTL

\* Nobody sleeps in wait() over a zombie child: exit() and wait() cannot miss
\* each other (proc.c:332, :339 and :390).
THEOREM NoExitIsMissed == Spec => []NoMissedExit
<1>1. IInv => NoMissedExit
  BY DEF IInv
<1> QED
  BY <1>1, Invariance, PTL

\* Nobody sleeps on a resource that is ready: sleep() takes ptable.lock
\* before it releases the caller's lock (proc.c:525-531).
THEOREM NoWakeupIsMissed == Spec => []NoMissedWakeup
<1>1. IInv => NoMissedWakeup
  BY DEF IInv
<1> QED
  BY <1>1, Invariance, PTL
=============================================================================
