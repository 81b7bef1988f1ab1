-------------------------------- MODULE Cow --------------------------------
(***************************************************************************)
(* User memory of kernel/vm.c and kernel/kalloc.c: copy-on-write fork(),   *)
(* write faults, page reference counts, mprotect(), and the shared memory  *)
(* objects of kernel/shm.c, of which there is one, of one page.            *)
(*                                                                         *)
(* kmem.lock covers one counter at a time, so fork() (page by page) and a  *)
(* write fault (read the count, act on it) are made of several steps.      *)
(***************************************************************************)
EXTENDS Naturals, Sequences, FiniteSets

CONSTANTS
    Proc,       \* process slots
    Frame,      \* physical pages
    NoFrame,    \* no page
    MaxPages,   \* bound: pages of one process
    Data,       \* page contents
    Zero,       \* what a new page holds
    Junk,       \* what kfree() fills a page with
    Shared,     \* stands for the contents of a shared memory page
    Calls       \* what the programs do: see Habit

\* The last three: mprotect() of a copy-on-write page, fork() with a shared
\* mapping, close() of a descriptor that is mapped.
Habit == {"fork", "shm", "mprotect", "mprotect_cow", "fork_shared", "close_mapped"}

ASSUME CowAssumption ==
    /\ IsFiniteSet(Proc)
    /\ IsFiniteSet(Frame) /\ NoFrame \notin Frame
    /\ MaxPages \in Nat
    /\ {Zero, Junk} \subseteq Data
    /\ Shared \notin Data
    /\ Calls \subseteq Habit

VARIABLES
    pt,         \* page table: a sequence of [frame, flags, prot], p->sz long
    pc,         \* what the process is doing
    at,         \* page of its write fault
    old,        \* frame it is about to drop, after copying it
    child,      \* the process its fork() is building
    free,       \* the free list
    ref,        \* pageref[]
    content,    \* contents of the frames
    shmfd,      \* processes with a descriptor of the shared object
    shmframe    \* o->pages[0] while o->inuse, else NoFrame

memory == <<free, ref, content>>
shm    == <<shmfd, shmframe>>
vars   == <<pt, pc, at, old, child, free, ref, content, shmfd, shmframe>>

Flag == {"W", "COW", "SHM"}

\* prot is no part of a PTE: it is what the process last asked of mprotect().
Entry == [frame : Frame, flags : SUBSET Flag, prot : {"rw", "r"}]

Init ==
    /\ pt = [p \in Proc |-> <<>>]
    /\ \E first \in Proc : pc = [p \in Proc |-> IF p = first THEN "run" ELSE "none"]
    /\ at = [p \in Proc |-> 0]
    /\ old = [p \in Proc |-> NoFrame]
    /\ child = [p \in Proc |-> p]
    /\ free = Frame
    /\ ref = [f \in Frame |-> 0]
    /\ content = [f \in Frame |-> Junk]
    /\ shmfd = {}
    /\ shmframe = NoFrame

-----------------------------------------------------------------------------
(* kalloc() and kfree() *)

Kalloc(f, d) ==
    /\ f \in free
    /\ free' = free \ {f}
    /\ ref' = [ref EXCEPT ![f] = 1]
    /\ content' = [content EXCEPT ![f] = d]

\* mutant: frees the page whatever its count
Kfree_Unshared(f) ==
    /\ free' = free \cup {f}
    /\ ref' = [ref EXCEPT ![f] = 0]
    /\ content' = [content EXCEPT ![f] = Junk]

Kfree(f) ==
    IF ref[f] <= 1
    THEN /\ free' = free \cup {f}
         /\ ref' = [ref EXCEPT ![f] = 0]
         /\ content' = [content EXCEPT ![f] = Junk]
    ELSE /\ ref' = [ref EXCEPT ![f] = @ - 1]
         /\ UNCHANGED <<free, content>>

-----------------------------------------------------------------------------
(* growproc(), munmap() of the topmost page, exit() *)

Grow(p) ==
    /\ pc[p] = "run" /\ Len(pt[p]) < MaxPages
    /\ \E f \in free :
        /\ Kalloc(f, Zero)
        /\ pt' = [pt EXCEPT ![p] =
                    Append(@, [frame |-> f, flags |-> {"W"}, prot |-> "rw"])]
    /\ UNCHANGED <<pc, at, old, child, shm>>

\* deallocuvm(): drop the last page; a PTE_SHM page is not freed here.
DropLast(p) ==
    /\ pt[p] # <<>>
    /\ pt' = [pt EXCEPT ![p] = SubSeq(@, 1, Len(@) - 1)]
    /\ LET e == pt[p][Len(pt[p])] IN
        IF "SHM" \in e.flags THEN UNCHANGED memory ELSE Kfree(e.frame)

Unmap(p) ==
    /\ pc[p] = "run"
    /\ DropLast(p)
    /\ UNCHANGED <<pc, at, old, child, shm>>

Exit(p) ==
    /\ pc[p] = "run"
    /\ pc' = [pc EXCEPT ![p] = "dying"]
    /\ UNCHANGED <<pt, at, old, child, memory, shm>>

\* freevm(), in the parent's wait(), after exit() has closed the files.
FreeVm(p) ==
    /\ pc[p] = "dying" /\ p \notin shmfd
    /\ DropLast(p)
    /\ UNCHANGED <<pc, at, old, child, shm>>

Reap(p) ==
    /\ pc[p] = "dying" /\ p \notin shmfd /\ pt[p] = <<>>
    /\ pc' = [pc EXCEPT ![p] = "none"]
    /\ UNCHANGED <<pt, at, old, child, memory, shm>>

-----------------------------------------------------------------------------
(* copyuvm() *)

Fork(p, c) ==
    /\ pc[p] = "run" /\ pc[c] = "none" /\ "fork" \in Calls
    /\ "fork_shared" \in Calls \/ \A i \in 1..Len(pt[p]) : "SHM" \notin pt[p][i].flags
    /\ pc' = [pc EXCEPT ![p] = "fork", ![c] = "embryo"]
    /\ child' = [child EXCEPT ![p] = c]
    /\ UNCHANGED <<pt, at, old, memory, shm>>

\* The PTE that parent and child get: strip PTE_SHM and PTE_W, add PTE_COW.
CowEntry_Writable(e) ==                        \* mutant: PTE_W stays
    [e EXCEPT !.flags = (@ \ {"SHM"}) \cup {"COW"}]

CowEntry(e) == [e EXCEPT !.flags = (@ \ {"SHM", "W"}) \cup {"COW"}]

CopyPage(p) ==
    LET c == child[p]
        n == Len(pt[c]) + 1
    IN
    /\ pc[p] = "fork" /\ n <= Len(pt[p])
    /\ LET e == CowEntry(pt[p][n]) IN
        pt' = [pt EXCEPT ![p][n] = e, ![c] = Append(@, e)]
    /\ pc' = [pc EXCEPT ![p] = "addref"]
    /\ UNCHANGED <<at, old, child, memory, shm>>

\* mutant: the child's mapping is not counted
AddRef_Not(p) ==
    /\ pc[p] = "addref"
    /\ pc' = [pc EXCEPT ![p] = "fork"]
    /\ UNCHANGED <<pt, at, old, child, memory, shm>>

AddRef(p) ==
    LET c == child[p] IN
    /\ pc[p] = "addref"
    /\ ref' = [ref EXCEPT ![pt[c][Len(pt[c])].frame] = @ + 1]
    /\ pc' = [pc EXCEPT ![p] = "fork"]
    /\ UNCHANGED <<pt, at, old, child, free, content, shm>>

\* mappages() finds no memory for a page table: freevm() of the child, which
\* the code does before fork() returns; here FreeVm(c) may also come later.
CopyFails(p) ==
    LET c == child[p]
        n == Len(pt[c]) + 1
    IN
    /\ pc[p] = "fork" /\ n <= Len(pt[p])
    /\ pt' = [pt EXCEPT ![p][n] = CowEntry(@)]
    /\ pc' = [pc EXCEPT ![p] = "run", ![c] = "dying"]
    /\ child' = [child EXCEPT ![p] = p]
    /\ UNCHANGED <<at, old, memory, shm>>

ForkDone(p) ==
    LET c == child[p] IN
    /\ pc[p] = "fork" /\ Len(pt[c]) = Len(pt[p])
    /\ pc' = [pc EXCEPT ![p] = "run", ![c] = "run"]
    /\ child' = [child EXCEPT ![p] = p]
    /\ shmfd' = IF p \in shmfd THEN shmfd \cup {c} ELSE shmfd
    /\ UNCHANGED <<pt, at, old, memory, shmframe>>

-----------------------------------------------------------------------------
(* Stores, and vm_handle_pagefault() *)

Store(p, i, d) ==
    /\ pc[p] = "run" /\ i <= Len(pt[p])
    /\ "W" \in pt[p][i].flags
    /\ content' = [content EXCEPT ![pt[p][i].frame] = d]
    /\ UNCHANGED <<pt, pc, at, old, child, free, ref, shm>>

\* mutant: forgets that another mapping may exist
LastOwner_Always(f) == TRUE

LastOwner(f) == ref[f] = 1

\* A store to a page without PTE_W; if it is not COW the process is killed.
Fault(p, i) ==
    /\ pc[p] = "run" /\ i <= Len(pt[p])
    /\ "W" \notin pt[p][i].flags
    /\ pc' = [pc EXCEPT ![p] =
                IF "COW" \notin pt[p][i].flags THEN "dying"
                ELSE IF LastOwner(pt[p][i].frame) THEN "reclaim" ELSE "copy"]
    /\ at' = [at EXCEPT ![p] = IF "COW" \in pt[p][i].flags THEN i ELSE 0]
    /\ UNCHANGED <<pt, old, child, memory, shm>>

Unshared(e) == [e EXCEPT !.flags = (@ \ {"COW"}) \cup {"W"}]

Reclaim(p) ==
    /\ pc[p] = "reclaim"
    /\ pt' = [pt EXCEPT ![p][at[p]] = Unshared(@)]
    /\ pc' = [pc EXCEPT ![p] = "run"]
    /\ at' = [at EXCEPT ![p] = 0]
    /\ UNCHANGED <<old, child, memory, shm>>

Copy(p) ==
    LET e == pt[p][at[p]] IN
    /\ pc[p] = "copy"
    /\ \E f \in free :
        /\ Kalloc(f, content[e.frame])
        /\ pt' = [pt EXCEPT ![p][at[p]] = [Unshared(e) EXCEPT !.frame = f]]
    /\ pc' = [pc EXCEPT ![p] = "drop"]
    /\ old' = [old EXCEPT ![p] = e.frame]
    /\ at' = [at EXCEPT ![p] = 0]
    /\ UNCHANGED <<child, shm>>

\* kfree() of this mapping's share of the old page.
Drop(p) ==
    /\ pc[p] = "drop"
    /\ Kfree(old[p])
    /\ pc' = [pc EXCEPT ![p] = "run"]
    /\ old' = [old EXCEPT ![p] = NoFrame]
    /\ UNCHANGED <<pt, at, child, shm>>

\* No memory for the copy: the process is killed.
CopyNoMemory(p) ==
    /\ pc[p] = "copy" /\ free = {}
    /\ pc' = [pc EXCEPT ![p] = "dying"]
    /\ at' = [at EXCEPT ![p] = 0]
    /\ UNCHANGED <<pt, old, child, memory, shm>>

\* uvmsetperm(): set or clear PTE_W, whatever else the PTE says.
WithPerm(e, w) == [e EXCEPT !.flags = IF w THEN @ \cup {"W"} ELSE @ \ {"W"},
                            !.prot = IF w THEN "rw" ELSE "r"]

\* sys_mprotect() of one page.
Protect(p, i, w) ==
    /\ pc[p] = "run" /\ i <= Len(pt[p]) /\ "mprotect" \in Calls
    /\ "mprotect_cow" \in Calls \/ "COW" \notin pt[p][i].flags
    /\ pt' = [pt EXCEPT ![p][i] = WithPerm(@, w)]
    /\ UNCHANGED <<pc, at, old, child, memory, shm>>

-----------------------------------------------------------------------------
(* kernel/shm.c: create, mmap(), passing the descriptor, close *)

ShmCreate(p) ==
    /\ pc[p] = "run" /\ "shm" \in Calls
    /\ shmframe = NoFrame
    /\ \E f \in free : Kalloc(f, Zero) /\ shmframe' = f
    /\ shmfd' = {p}
    /\ UNCHANGED <<pt, pc, at, old, child>>

ShmMap(p) ==
    /\ pc[p] = "run" /\ p \in shmfd /\ Len(pt[p]) < MaxPages
    /\ pt' = [pt EXCEPT ![p] =
                Append(@, [frame |-> shmframe, flags |-> {"W", "SHM"}, prot |-> "rw"])]
    /\ UNCHANGED <<pc, at, old, child, memory, shm>>

\* SCM_RIGHTS hands the descriptor to another process.
ShmPass(p, q) ==
    /\ pc[p] = "run" /\ p \in shmfd /\ pc[q] = "run"
    /\ shmfd' = shmfd \cup {q}
    /\ UNCHANGED <<pt, pc, at, old, child, memory, shmframe>>

Maps(p, f) == \E i \in 1..Len(pt[p]) : pt[p][i].frame = f

\* mutant: shmclose() at the first close
LastClose_First(p) == shmframe # NoFrame

LastClose(p) == shmfd = {p}

\* fileclose(), by close() or exit(); the last one calls shmclose().
ShmClose(p) ==
    /\ pc[p] \in {"run", "dying"} /\ p \in shmfd
    /\ pc[p] = "run" => "close_mapped" \in Calls \/ ~Maps(p, shmframe)
    /\ shmfd' = shmfd \ {p}
    /\ IF LastClose(p)
       THEN Kfree(shmframe) /\ shmframe' = NoFrame
       ELSE UNCHANGED <<memory, shmframe>>
    /\ UNCHANGED <<pt, pc, at, old, child>>

-----------------------------------------------------------------------------
Next ==
    \E p \in Proc :
        \/ Grow(p) \/ Unmap(p) \/ Exit(p) \/ FreeVm(p) \/ Reap(p)
        \/ \E c \in Proc : Fork(p, c)
        \/ CopyPage(p) \/ AddRef(p) \/ CopyFails(p) \/ ForkDone(p)
        \/ \E i \in 1..MaxPages, d \in Data : Store(p, i, d)
        \/ \E i \in 1..MaxPages : Fault(p, i)
        \/ Reclaim(p) \/ Copy(p) \/ Drop(p) \/ CopyNoMemory(p)
        \/ \E i \in 1..MaxPages, w \in BOOLEAN : Protect(p, i, w)
        \/ ShmCreate(p) \/ ShmMap(p) \/ ShmClose(p)
        \/ \E q \in Proc : ShmPass(p, q)

Spec == Init /\ [][Next]_vars

-----------------------------------------------------------------------------
(* Properties *)

TypeOK ==
    /\ pt \in [Proc -> Seq(Entry)]
    /\ pc \in [Proc -> {"none", "embryo", "run", "dying", "fork", "addref",
                        "reclaim", "copy", "drop"}]
    /\ at \in [Proc -> 0..MaxPages]
    /\ old \in [Proc -> Frame \cup {NoFrame}]
    /\ child \in [Proc -> Proc]
    /\ free \subseteq Frame
    /\ ref \in [Frame -> Nat]
    /\ content \in [Frame -> Data]
    /\ shmfd \subseteq Proc
    /\ shmframe \in Frame \cup {NoFrame}

\* The places that account for one reference to f each: a mapping that is not
\* PTE_SHM, a page about to be dropped, the shared object.
Mappings(f) ==
    {m \in Proc \X (1..MaxPages) :
        LET p == m[1]
            i == m[2]
        IN  i <= Len(pt[p]) /\ pt[p][i].frame = f /\ "SHM" \notin pt[p][i].flags}
Dropping(f) == {p \in Proc : pc[p] = "drop" /\ old[p] = f}
Uncounted(f) ==
    {p \in Proc : pc[p] = "addref" /\ pt[child[p]][Len(pt[child[p]])].frame = f}

\* pageref[] counts exactly the owners of a page, except for a page that a
\* fork() has mapped and not counted yet (vm.c:792-794), and a page is on the
\* free list exactly when nobody owns it.
RefsCountOwners ==
    \A f \in Frame :
        LET owners == Cardinality(Mappings(f)) + Cardinality(Dropping(f))
                      + IF shmframe = f THEN 1 ELSE 0
        IN  /\ owners = ref[f] + Cardinality(Uncounted(f))
            /\ f \in free <=> owners = 0

\* shm.c:6-9: no process that runs has a page mapped that
\* has been given back to the allocator.
NothingYanked ==
    \A p \in Proc : pc[p] = "run" => \A f \in free : ~Maps(p, f)

\* Processes whose memory is in use: a dying one makes no more stores.
Live == {p \in Proc : pc[p] # "dying"}

\* mmu.h:160-163: a page shared by fork() is not writable through any of its
\* mappings: a store reaches a frame that one process alone has mapped.
SharedNotWritable ==
    \A p, q \in Live : \A i \in 1..Len(pt[p]), j \in 1..Len(pt[q]) :
        /\ pt[p][i].frame = pt[q][j].frame
        /\ "W" \in pt[p][i].flags /\ "SHM" \notin pt[p][i].flags
        => <<p, i>> = <<q, j>>

\* vm.c:805-808: a write to a page the process made read-only is not resolved
\* as copy-on-write.
ReadOnlyStays ==
    \A p \in Proc : \A i \in 1..Len(pt[p]) :
        pt[p][i].prot = "r" => "W" \notin pt[p][i].flags

\* shm.c:10-14: the page of a shared object is freed only by shmclose().
FreedOnlyByShmclose == shmframe # NoFrame => shmframe \notin free

Exists(p) == pc[p] \notin {"none", "embryo", "dying"}

View(p) ==
    [i \in 1..Len(pt[p]) |-> IF "SHM" \in pt[p][i].flags THEN Shared
                             ELSE content[pt[p][i].frame]]

\* Copy-on-write cannot be observed: a child sees its parent's memory as it
\* was at fork(), and no store of another process, however forks, faults and
\* exits interleave: Cow implements PrivateMemory.
Memory == INSTANCE PrivateMemory
            WITH running <- {p \in Proc : Exists(p)},
                 mem <- [p \in Proc |-> IF Exists(p) THEN View(p) ELSE <<>>]

RefinesMemory == Memory!Spec
=============================================================================
