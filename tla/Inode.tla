------------------------------- MODULE Inode -------------------------------
(***************************************************************************)
(* Inodes and directories: the inode cache of kernel/fs.c (iget, ilock,    *)
(* iput, namex, dirlookup, dirlink) under the calls of kernel/sysfile.c    *)
(* (open, mkdir, chdir, close, link, unlink, rename).                      *)
(*                                                                         *)
(* An inode's content is protected by its sleep lock, its count of         *)
(* references by icache.lock.  A step is what a call does from one lock it *)
(* may have to wait for to the next; iput() is two steps, because it looks *)
(* at the count and lowers it in different critical sections.  All of this *)
(* happens inside transactions, which Log models: a crash in the middle of *)
(* a call leaves nothing of it.                                            *)
(***************************************************************************)
EXTENDS Integers, Sequences, FiniteSets, Functions

CONSTANTS
    Proc,       \* processes
    Inum,       \* inode numbers; the root's is the least
    Name,       \* names besides "." and ".."
    Path,       \* paths that programs use: [abs : BOOLEAN, elems : Seq]
    NoPath,     \* the second path of a call that has one
    Outcome,    \* results of permcheck(), filealloc(): {TRUE} or BOOLEAN
    Calls,      \* the calls the program of each process makes
    NoProc

\* "rename" may start at any time; "rename_alone" only while no other call
\* runs.
TwoPaths == {"link", "rename", "rename_alone"}
Habit == {"creat", "mkdir", "open", "chdir", "link", "unlink", "rename", "rename_alone"}

Root == CHOOSE i \in Inum : \A j \in Inum : i <= j
NoInum == 0

ASSUME InodeAssumption ==
    /\ Inum \subseteq Nat \ {NoInum} /\ Inum # {} /\ IsFiniteSet(Inum)
    /\ IsFiniteSet(Proc) /\ NoProc \notin Proc
    /\ IsFiniteSet(Name) /\ Name \cap {".", ".."} = {}
    /\ \A f \in Path : f.abs \in BOOLEAN /\ f.elems \in Seq(Name \cup {".", ".."}) \ {<<>>}
    /\ Outcome \subseteq BOOLEAN /\ TRUE \in Outcome
    /\ NoPath \notin Path
    /\ Calls \in [Proc -> SUBSET [call : Habit, path : Path, path2 : Path \cup {NoPath}]]
    /\ \A p \in Proc : \A c \in Calls[p] : c.call \in TwoPaths => c.path2 # NoPath

VARIABLES
    type,    \* dinode.type
    nlink,   \* dinode.nlink
    dir,     \* entries of a directory after the first two, by slot
    dotdot,  \* inode number in the entry ".."
    ref,     \* ip->ref
    lock,    \* holder of ip->lock
    cwd,     \* p->cwd
    fd,      \* the file p has open
    pc,      \* where p is in its call
    todo,    \* iput()s and iunlock()s p still does before it goes on at pc
    loc,     \* p's local variables
    gone     \* ghost: names of each inode that were freed with their directory

disk == <<type, nlink, dir, dotdot, gone>>
vars == <<type, nlink, dir, dotdot, ref, lock, cwd, fd, pc, todo, loc, gone>>

\* Names in a directory differ, so that it never needs more slots than this.
Slot == 1..Cardinality(Name)
Empty == [name |-> ".", inum |-> NoInum]
NoEntries == [s \in Slot |-> Empty]

NoCall == [call |-> "none", then |-> "none", at |-> NoInum,
           path |-> <<>>, path2 |-> NoPath, name |-> ".",
           dp |-> NoInum, ip |-> NoInum, xip |-> NoInum, olddp |-> NoInum, slot |-> 0]

Init ==
    /\ type = [i \in Inum |-> IF i = Root THEN "dir" ELSE "free"]
    /\ nlink = [i \in Inum |-> IF i = Root THEN 1 ELSE 0]
    /\ dir = [i \in Inum |-> NoEntries]
    /\ dotdot = [i \in Inum |-> IF i = Root THEN Root ELSE NoInum]
    /\ ref = [i \in Inum |-> IF i = Root THEN Cardinality(Proc) ELSE 0]
    /\ lock = [i \in Inum |-> NoProc]
    /\ cwd = [p \in Proc |-> Root]
    /\ fd = [p \in Proc |-> NoInum]
    /\ pc = [p \in Proc |-> "user"]
    /\ todo = [p \in Proc |-> <<>>]
    /\ loc = [p \in Proc |-> NoCall]
    /\ gone = [i \in Inum |-> 0]

\* dirlookup(): the inode number, or NoInum.
Lookup(d, n) ==
    IF n = "." THEN d
    ELSE IF n = ".." THEN dotdot[d]
    ELSE IF \E s \in Slot : dir[d][s].name = n
         THEN dir[d][CHOOSE s \in Slot : dir[d][s].name = n].inum ELSE NoInum
SlotOf(d, n) == CHOOSE s \in Slot : dir[d][s].name = n
IsDirEmpty(d) == dir[d] = NoEntries
Free(i) == lock[i] = NoProc
\* ilock(): panics if the inode has no type.
Lockable(i) == Free(i) /\ type[i] # "free"

\* dirlink()'s slot: the first empty one, at the end if need be.
EmptySlot(d) == CHOOSE s \in Slot :
    dir[d][s] = Empty /\ \A t \in Slot : dir[d][t] = Empty => s <= t
DirLink(d, n, i) == [dir EXCEPT ![d][EmptySlot(d)] = [name |-> n, inum |-> i]]

Put(i) == [op |-> "put", ino |-> i]
Drop(i) == [op |-> "drop", ino |-> i]
Unlock(i) == [op |-> "unlock", ino |-> i]

\* Control: on to label with locals l, first doing what; and back to the caller.
Goto(p, label, l, what) ==
    /\ pc' = [pc EXCEPT ![p] = label]
    /\ loc' = [loc EXCEPT ![p] = l]
    /\ todo' = [todo EXCEPT ![p] = what]
Return(p, what) ==
    Goto(p, IF what = <<>> THEN "user" ELSE "return", NoCall, what)
Get(i) == ref' = [ref EXCEPT ![i] = @ + 1]

\* p is at label, has nothing left to release, and gets the lock it waits for.
At(p, label) == pc[p] = label /\ todo[p] = <<>>
Locks(p, label) == At(p, label) /\ Lockable(loc[p].at)

-----------------------------------------------------------------------------
(* iput(), iunlock() *)

Unreferenced_Referenced(i) == ref[i] >= 1      \* mutant: any count will do

Unreferenced(i) == ref[i] = 1

\* The last user of an inode without links truncates and frees it.
PutCheck(p) ==
    LET i == Head(todo[p]).ino
        frees == type[i] # "free" /\ nlink[i] = 0 /\ Unreferenced(i)
    IN  /\ todo[p] # <<>> /\ Head(todo[p]).op = "put" /\ Free(i)
        /\ IF frees
           THEN /\ type' = [type EXCEPT ![i] = "free"]
                /\ dir' = [dir EXCEPT ![i] = NoEntries]
                /\ dotdot' = [dotdot EXCEPT ![i] = NoInum]
                /\ gone' = [j \in Inum |-> IF j = i THEN 0 ELSE
                       gone[j] + Cardinality({s \in Slot : dir[i][s].inum = j})]
           ELSE UNCHANGED <<type, dir, dotdot, gone>>
        /\ todo' = [todo EXCEPT ![p] = <<Drop(i)>> \o Tail(@)]
        /\ UNCHANGED <<nlink, ref, lock, cwd, fd, pc, loc>>

\* ip->ref--, or an iunlock() that comes after an iput().
Release(p) ==
    /\ todo[p] # <<>> /\ Head(todo[p]).op # "put"
    /\ LET i == Head(todo[p]).ino
       IN  IF Head(todo[p]).op = "drop"
           THEN ref' = [ref EXCEPT ![i] = @ - 1] /\ UNCHANGED lock
           ELSE lock' = [lock EXCEPT ![i] = NoProc] /\ UNCHANGED ref
    /\ todo' = [todo EXCEPT ![p] = Tail(@)]
    /\ pc' = [pc EXCEPT ![p] = IF pc[p] = "return" /\ Len(todo[p]) = 1 THEN "user" ELSE @]
    /\ UNCHANGED <<disk, cwd, fd, loc>>

-----------------------------------------------------------------------------
(* Calls begin; namex() *)

Running(p) == pc[p] # "user"
Renaming == {p \in Proc : loc[p].call \in {"rename", "rename_alone"}}
MayBegin(c) ==
    /\ c.call = "rename_alone" => \A q \in Proc : ~Running(q)
    /\ \A q \in Renaming : loc[q].call # "rename_alone"

Start(p, f) == IF f.abs THEN Root ELSE cwd[p]

\* Where a call goes on after its first lookup.
First(call) ==
    CASE call \in {"creat", "mkdir"} -> "create"
      [] call = "link" -> "link1"
      [] call \in {"rename", "rename_alone"} -> "ren1"
      [] OTHER -> call

\* A call with its path or paths.
Call(p) == \E c \in Calls[p] :
    LET i == Start(p, c.path)
    IN  /\ ~Running(p) /\ MayBegin(c)
        /\ c.call \in {"creat", "open"} => fd[p] = NoInum
        /\ Goto(p, "walk", [NoCall EXCEPT !.call = c.call, !.then = First(c.call), !.at = i,
                                         !.path = c.path.elems, !.path2 = c.path2], <<>>)
        /\ Get(i)
        /\ UNCHANGED <<disk, lock, cwd, fd>>

\* namei() walks to the end of the path, nameiparent() stops one level early.
WantsParent(l) == l.then \in {"create", "unlink", "link2", "ren1", "ren2"}

WalkFails_Forgets(p) ==                    \* mutant: rename() forgets what it found
    IF loc[p].then = "ren2" THEN Return(p, <<Put(loc[p].at), Put(loc[p].olddp)>>)
    ELSE Return(p, <<Put(loc[p].at)>>)

\* What a call gives back when a lookup fails: namex() the directory it stands
\* in, and its caller what it has from lookups before (link(), rename()).
WalkFails(p) ==
    LET l == loc[p] IN
    CASE l.then = "link2" -> Goto(p, "linkbad", [l EXCEPT !.at = l.ip], <<Put(l.at)>>)
      [] l.then = "ren2"  -> Return(p, <<Put(l.at), Put(l.olddp), Put(l.ip)>>)
      [] OTHER            -> Return(p, <<Put(l.at)>>)

Walk(p) ==
    /\ Locks(p, "walk")
    /\ LET l == loc[p]  next == Lookup(l.at, Head(l.path))
           lastOne == Len(l.path) = 1
       IN  IF type[l.at] # "dir" THEN WalkFails(p) /\ UNCHANGED ref
           ELSE IF WantsParent(l) /\ lastOne
           THEN Goto(p, l.then, [l EXCEPT !.name = Head(l.path), !.path = <<>>], <<>>)
                /\ UNCHANGED ref
           ELSE \E allowed \in Outcome :
                IF ~allowed \/ next = NoInum THEN WalkFails(p) /\ UNCHANGED ref
                ELSE /\ Goto(p, IF lastOne THEN l.then ELSE "walk",
                             [l EXCEPT !.at = next, !.path = Tail(l.path)], <<Put(l.at)>>)
                     /\ Get(next)
    /\ UNCHANGED <<disk, lock, cwd, fd>>

-----------------------------------------------------------------------------
(* create() for open(O_CREATE) and mkdir(); open(), chdir(), close() *)

NewInum == {i \in Inum : type[i] = "free" /\ \A j \in Inum : j < i => type[j] # "free"}

\* The directory stays locked from the lookup to the new entry; the new inode
\* stays locked until the call is done with it.
Create(p) ==
    LET l == loc[p]  d == l.at  old == Lookup(d, l.name)  isdir == l.call = "mkdir"
    IN  /\ Locks(p, "create")
        /\ \/ /\ old # NoInum
              /\ Goto(p, "createold", [l EXCEPT !.at = old], <<Put(d)>>)
              /\ Get(old)
              /\ UNCHANGED <<disk, lock>>
           \/ /\ old = NoInum /\ FALSE \in Outcome
              /\ Return(p, <<Put(d)>>)
              /\ UNCHANGED <<disk, ref, lock>>
           \/ /\ old = NoInum
              /\ \E i \in NewInum :
                  /\ type' = [type EXCEPT ![i] = IF isdir THEN "dir" ELSE "file"]
                  /\ nlink' = [nlink EXCEPT ![i] = 1, ![d] = @ + IF isdir THEN 1 ELSE 0]
                  /\ dotdot' = [dotdot EXCEPT ![i] = IF isdir THEN d ELSE NoInum]
                  /\ dir' = DirLink(d, l.name, i)
                  /\ lock' = [lock EXCEPT ![i] = p]
                  /\ Goto(p, "created", [l EXCEPT !.ip = i], <<Put(d)>>)
                  /\ Get(i)
              /\ UNCHANGED gone
        /\ UNCHANGED <<cwd, fd>>

Created_StaysLocked(p) ==                  \* mutant: iput() where iunlockput() belongs
    /\ At(p, "created")
    /\ \/ loc[p].call = "creat" /\ fd' = [fd EXCEPT ![p] = loc[p].ip] /\ Return(p, <<>>)
       \/ loc[p].call = "mkdir" /\ Return(p, <<Put(loc[p].ip)>>) /\ UNCHANGED fd
    /\ UNCHANGED <<disk, ref, lock, cwd>>

\* open() gets a file and a descriptor, or neither; mkdir() is done.
Created(p) ==
    /\ At(p, "created")
    /\ LET i == loc[p].ip
       IN  /\ lock' = [lock EXCEPT ![i] = NoProc]
           /\ \/ loc[p].call = "creat" /\ fd' = [fd EXCEPT ![p] = i] /\ Return(p, <<>>)
              \/ (loc[p].call = "mkdir" \/ FALSE \in Outcome) /\ Return(p, <<Put(i)>>) /\ UNCHANGED fd
    /\ UNCHANGED <<disk, ref, cwd>>

\* create() found the name: only open() of a file goes on.  open() without
\* O_CREATE takes anything.
Open(p) ==
    /\ Locks(p, "createold") \/ Locks(p, "open")
    /\ LET i == loc[p].at  may == pc[p] = "open" \/ (loc[p].call = "creat" /\ type[i] = "file")
       IN  \/ may /\ fd' = [fd EXCEPT ![p] = i] /\ Return(p, <<>>)
           \/ (~may \/ FALSE \in Outcome) /\ Return(p, <<Put(i)>>) /\ UNCHANGED fd
    /\ UNCHANGED <<disk, ref, lock, cwd>>

Chdir(p) ==
    /\ Locks(p, "chdir")
    /\ LET i == loc[p].at
       IN  \/ /\ type[i] = "dir"
              /\ Goto(p, "chdir2", [loc[p] EXCEPT !.ip = i], <<Put(cwd[p])>>)
           \/ (type[i] # "dir" \/ FALSE \in Outcome) /\ Return(p, <<Put(i)>>)
    /\ UNCHANGED <<disk, ref, lock, cwd, fd>>

ChdirDone(p) ==
    /\ At(p, "chdir2")
    /\ cwd' = [cwd EXCEPT ![p] = loc[p].ip]
    /\ Return(p, <<>>)
    /\ UNCHANGED <<disk, ref, lock, fd>>

Close(p) ==
    /\ pc[p] = "user" /\ fd[p] # NoInum
    /\ fd' = [fd EXCEPT ![p] = NoInum]
    /\ Return(p, <<Put(fd[p])>>)
    /\ UNCHANGED <<disk, ref, lock, cwd>>

-----------------------------------------------------------------------------
(* link(), unlink() *)

\* The count goes up before the entry is made, and down again if it is not.
LinkOld(p) ==
    LET l == loc[p]  start == Start(p, l.path2)
    IN  /\ Locks(p, "link1")
        /\ IF type[l.at] = "dir"
           THEN Return(p, <<Put(l.at)>>) /\ UNCHANGED <<nlink, ref>>
           ELSE /\ nlink' = [nlink EXCEPT ![l.at] = @ + 1]
                /\ Goto(p, "walk", [l EXCEPT !.ip = l.at, !.at = start, !.path = l.path2.elems,
                                             !.path2 = NoPath, !.then = "link2"], <<>>)
                /\ Get(start)
        /\ UNCHANGED <<type, dir, dotdot, gone, lock, cwd, fd>>

\* dirlink() puts an inode it found under the name before it fails.
LinkNew(p) ==
    LET l == loc[p]  d == l.at  old == Lookup(d, l.name)
    IN  /\ Locks(p, "link2")
        /\ \/ /\ FALSE \in Outcome
              /\ Goto(p, "linkbad", [l EXCEPT !.at = l.ip], <<Put(d)>>)
              /\ UNCHANGED <<dir, ref, lock>>
           \/ /\ old # NoInum
              /\ Goto(p, "linkbad", [l EXCEPT !.at = l.ip], <<Put(old), Unlock(d), Put(d)>>)
              /\ lock' = [lock EXCEPT ![d] = p] /\ Get(old)
              /\ UNCHANGED dir
           \/ /\ old = NoInum
              /\ dir' = DirLink(d, l.name, l.ip)
              /\ Return(p, <<Put(d), Put(l.ip)>>)
              /\ UNCHANGED <<ref, lock>>
        /\ UNCHANGED <<type, nlink, dotdot, gone, cwd, fd>>

LinkBad(p) ==
    /\ Locks(p, "linkbad")
    /\ LET i == loc[p].at
       IN  nlink' = [nlink EXCEPT ![i] = @ - 1] /\ Return(p, <<Put(i)>>)
    /\ UNCHANGED <<type, dir, dotdot, gone, ref, lock, cwd, fd>>

Unlink(p) ==
    LET l == loc[p]  d == l.at  i == Lookup(d, l.name)
    IN  /\ Locks(p, "unlink")
        /\ \/ /\ l.name \in {".", ".."} \/ i = NoInum \/ FALSE \in Outcome
              /\ Return(p, <<Put(d)>>)
              /\ UNCHANGED <<ref, lock>>
           \/ /\ l.name \notin {".", ".."} /\ i # NoInum
              /\ lock' = [lock EXCEPT ![d] = p] /\ Get(i)
              /\ Goto(p, "unlink2", [l EXCEPT !.dp = d, !.at = i, !.slot = SlotOf(d, l.name)], <<>>)
        /\ UNCHANGED <<disk, cwd, fd>>

\* With the directory and the inode locked.  The directory is put first.
UnlinkEntry(p) ==
    LET l == loc[p]  d == l.dp  i == l.at
    IN  /\ Locks(p, "unlink2") /\ nlink[i] >= 1
        /\ IF type[i] = "dir" /\ ~IsDirEmpty(i)
           THEN Return(p, <<Put(i), Unlock(d), Put(d)>>) /\ UNCHANGED <<dir, nlink, lock>>
           ELSE /\ dir' = [dir EXCEPT ![d][l.slot] = Empty]
                /\ nlink' = [nlink EXCEPT ![d] = @ - IF type[i] = "dir" THEN 1 ELSE 0]
                /\ lock' = [lock EXCEPT ![d] = NoProc, ![i] = p]
                /\ Goto(p, "unlink3", [l EXCEPT !.ip = i], <<Put(d)>>)
        /\ UNCHANGED <<type, dotdot, gone, ref, cwd, fd>>

UnlinkInode(p) ==
    LET i == loc[p].ip
    IN  /\ At(p, "unlink3")
        /\ nlink' = [nlink EXCEPT ![i] = @ - 1]
        /\ lock' = [lock EXCEPT ![i] = NoProc]
        /\ Return(p, <<Put(i)>>)
        /\ UNCHANGED <<type, dir, dotdot, gone, ref, cwd, fd>>

-----------------------------------------------------------------------------
(* rename() *)

\* The old directory is unlocked again once the entry is found: only the slot
\* is remembered.
RenameOld(p) ==
    LET l == loc[p]  d == l.at  i == Lookup(d, l.name)  start == Start(p, l.path2)
        refuse == l.name \in {".", ".."} \/ i = NoInum
    IN  /\ Locks(p, "ren1")
        /\ \/ /\ refuse \/ FALSE \in Outcome
              /\ Return(p, <<Put(d)>>)
              /\ UNCHANGED ref
           \/ /\ ~refuse
              /\ ref' = [j \in Inum |-> ref[j] + (IF j = i THEN 1 ELSE 0) + (IF j = start THEN 1 ELSE 0)]
              /\ Goto(p, "walk", [l EXCEPT !.olddp = d, !.ip = i, !.slot = SlotOf(d, l.name),
                                 !.at = start, !.path = l.path2.elems,
                                 !.path2 = NoPath, !.then = "ren2"], <<>>)
        /\ UNCHANGED <<disk, lock, cwd, fd>>

Held(l) == <<Put(l.olddp), Put(l.dp), Put(l.ip)>>

\* newdp is known; lock ip to see whether it is a directory.
RenameType(p) ==
    LET l == [loc[p] EXCEPT !.dp = loc[p].at]
    IN  /\ At(p, "ren2")
        /\ IF l.name \in {".", ".."}
           THEN Return(p, <<Put(l.olddp), Put(l.dp), Put(l.ip)>>) /\ UNCHANGED ref
           ELSE /\ Lockable(l.ip)
                /\ IF type[l.ip] = "dir"
                   THEN Goto(p, "cycle", l, <<>>) /\ Get(l.dp)
                   ELSE Goto(p, "ren3", l, <<>>) /\ UNCHANGED ref
        /\ UNCHANGED <<disk, lock, cwd, fd>>

\* From newdp up to the root, one directory at a time; refuse if ip is met.
\* dirlookup() panics in what is not a directory.
CycleFound_Skips(l) == FALSE               \* mutant: no check

CycleFound(l) == l.at = l.ip

RenameCycle(p) ==
    LET l == loc[p]  parent == dotdot[l.at]
    IN  /\ At(p, "cycle")
        /\ \/ /\ CycleFound(l)
              /\ Return(p, <<Put(l.at)>> \o Held(l)) /\ UNCHANGED ref
           \/ /\ ~CycleFound(l) /\ l.at = Root
              /\ Goto(p, "ren3", [l EXCEPT !.at = l.dp], <<Put(l.at)>>) /\ UNCHANGED ref
           \/ /\ ~CycleFound(l) /\ l.at # Root /\ Lockable(l.at) /\ type[l.at] = "dir"
              /\ Goto(p, "cycle", [l EXCEPT !.at = parent], <<Put(l.at)>>) /\ Get(parent)
        /\ UNCHANGED <<disk, lock, cwd, fd>>

RenameNew(p) ==
    LET l == loc[p]  d == l.dp  x == Lookup(d, l.name)
    IN  /\ Locks(p, "ren3")
        /\ \/ /\ FALSE \in Outcome
              /\ Return(p, <<Put(d), Put(l.olddp), Put(l.ip)>>)
              /\ UNCHANGED <<ref, lock>>
           \/ /\ x = l.ip
              /\ Return(p, <<Put(x), Unlock(d), Put(d), Put(l.olddp), Put(l.ip)>>)
              /\ lock' = [lock EXCEPT ![d] = p] /\ Get(x)
           \/ /\ x \notin {NoInum, l.ip}
              /\ Goto(p, "ren4", [l EXCEPT !.at = x, !.xip = x], <<>>)
              /\ lock' = [lock EXCEPT ![d] = p] /\ Get(x)
           \/ /\ x = NoInum
              /\ Goto(p, "ren5", l, <<>>)
              /\ lock' = [lock EXCEPT ![d] = p] /\ UNCHANGED ref
        /\ UNCHANGED <<disk, cwd, fd>>

\* The inode that has the new name loses it, if it may be replaced.
RenameReplace(p) ==
    LET l == loc[p]  d == l.dp  x == l.xip
    IN  /\ Locks(p, "ren4")
        /\ IF type[l.ip] # type[x] \/ (type[x] = "dir" /\ ~IsDirEmpty(x))
           THEN /\ Return(p, <<Put(x), Unlock(d), Put(d), Put(l.olddp), Put(l.ip)>>)
                /\ UNCHANGED nlink
           ELSE /\ nlink' = [nlink EXCEPT ![x] = @ - 1, ![d] = @ - IF type[x] = "dir" THEN 1 ELSE 0]
                /\ Goto(p, "ren5", l, <<Put(x)>>)
        /\ UNCHANGED <<type, dir, dotdot, gone, ref, lock, cwd, fd>>

Moved_Never(l) == FALSE                    \* mutant: the parents' links are left alone

Moved(l) == type[l.ip] = "dir" /\ l.olddp # l.dp

\* The new entry, over the replaced one or by dirlink().
RenameEnter(p) ==
    LET l == loc[p]  d == l.dp
    IN  /\ At(p, "ren5")
        /\ dir' = IF l.xip = NoInum THEN DirLink(d, l.name, l.ip)
                  ELSE [dir EXCEPT ![d][SlotOf(d, l.name)] = [name |-> l.name, inum |-> l.ip]]
        /\ nlink' = [nlink EXCEPT ![d] = @ + IF Moved(l) THEN 1 ELSE 0]
        /\ lock' = [lock EXCEPT ![d] = NoProc]
        /\ Goto(p, "ren6", [l EXCEPT !.at = l.olddp], <<Put(d)>>)
        /\ UNCHANGED <<type, dotdot, gone, ref, cwd, fd>>

\* The slot of the old entry is cleared, whatever is in it by now.
RenameClear(p) ==
    LET l == loc[p]  d == l.olddp
    IN  /\ Locks(p, "ren6")
        /\ dir' = [dir EXCEPT ![d][l.slot] = Empty]
        /\ nlink' = [nlink EXCEPT ![d] = @ - IF Moved(l) THEN 1 ELSE 0]
        /\ IF Moved(l) THEN Goto(p, "ren7", [l EXCEPT !.at = l.ip], <<Put(d)>>)
           ELSE Return(p, <<Put(d), Put(l.ip)>>)
        /\ UNCHANGED <<type, dotdot, gone, ref, lock, cwd, fd>>

\* ".." of a directory that has moved: looked up, put, and written anew.
RenameDotDot(p) ==
    LET l == loc[p]  i == l.ip
    IN  \/ /\ Locks(p, "ren7")
           /\ lock' = [lock EXCEPT ![i] = p] /\ Get(dotdot[i])
           /\ Goto(p, "ren8", l, <<Put(dotdot[i])>>)
           /\ UNCHANGED <<disk, cwd, fd>>
        \/ /\ At(p, "ren8")
           /\ dotdot' = [dotdot EXCEPT ![i] = l.dp]
           /\ lock' = [lock EXCEPT ![i] = NoProc]
           /\ Return(p, <<Put(i)>>)
           /\ UNCHANGED <<type, nlink, dir, gone, ref, cwd, fd>>

-----------------------------------------------------------------------------
Next == \E p \in Proc :
    \/ Call(p) \/ Close(p) \/ Walk(p) \/ PutCheck(p) \/ Release(p)
    \/ Create(p) \/ Created(p) \/ Open(p) \/ Chdir(p) \/ ChdirDone(p)
    \/ LinkOld(p) \/ LinkNew(p) \/ LinkBad(p)
    \/ Unlink(p) \/ UnlinkEntry(p) \/ UnlinkInode(p)
    \/ RenameOld(p) \/ RenameType(p) \/ RenameCycle(p) \/ RenameNew(p)
    \/ RenameReplace(p) \/ RenameEnter(p) \/ RenameClear(p) \/ RenameDotDot(p)

Spec == Init /\ [][Next]_vars

-----------------------------------------------------------------------------
(* Properties *)

\* Where a call can be, and what its variables can hold there.
Label == {"user", "return", "walk", "create", "createold", "created", "open", "chdir", "chdir2",
          "link1", "link2", "linkbad", "unlink", "unlink2", "unlink3", "ren1", "ren2", "cycle",
          "ren3", "ren4", "ren5", "ren6", "ren7", "ren8"}
Pointer == Inum \cup {NoInum}
Local == [call : Habit \cup {"none"}, then : Label \cup {"none"}, at : Pointer,
          path : Seq(Name \cup {".", ".."}), path2 : Path \cup {NoPath},
          name : Name \cup {".", ".."}, dp : Pointer, ip : Pointer, xip : Pointer,
          olddp : Pointer, slot : Slot \cup {0}]

\* Every variable holds what the C type and the calls allow; nlink is a short.
TypeOK ==
    /\ type \in [Inum -> {"free", "file", "dir"}] /\ nlink \in [Inum -> Int]
    /\ dir \in [Inum -> [Slot -> [name : Name \cup {"."}, inum : Inum \cup {NoInum}]]]
    /\ dotdot \in [Inum -> Inum \cup {NoInum}]
    /\ ref \in [Inum -> Nat] /\ lock \in [Inum -> Proc \cup {NoProc}]
    /\ cwd \in [Proc -> Inum] /\ fd \in [Proc -> Inum \cup {NoInum}]
    /\ pc \in [Proc -> Label] /\ loc \in [Proc -> Local]
    /\ todo \in [Proc -> Seq([op : {"put", "drop", "unlock"}, ino : Inum])]
    /\ gone \in [Inum -> Nat]

\* References the local variables of a call account for, by the place it is at.
Locals(place, l) ==
    CASE place = "walk" -> IF l.then = "link2" THEN <<l.at, l.ip>>
                           ELSE IF l.then = "ren2" THEN <<l.at, l.olddp, l.ip>> ELSE <<l.at>>
      [] place \in {"create", "createold", "open", "chdir", "link1", "unlink", "ren1", "linkbad"}
            -> <<l.at>>
      [] place \in {"created", "chdir2", "unlink3", "ren7", "ren8"} -> <<l.ip>>
      [] place = "link2" -> <<l.at, l.ip>>
      [] place = "unlink2" -> <<l.dp, l.at>>
      [] place = "ren2" -> <<l.olddp, l.at, l.ip>>
      [] place = "cycle" -> <<l.olddp, l.dp, l.ip, l.at>>
      [] place = "ren4" -> <<l.olddp, l.dp, l.ip, l.xip>>
      [] place \in {"ren3", "ren5"} -> <<l.olddp, l.dp, l.ip>>
      [] place = "ren6" -> <<l.olddp, l.ip>>
      [] OTHER -> <<>>
LocalRefs(p) == Locals(pc[p], loc[p])

\* How often, and how often as something to put.
Times(i, s) == Cardinality({k \in DOMAIN s : s[k] = i})
Owed(i, s) == Cardinality({k \in DOMAIN s : s[k].op # "unlock" /\ s[k].ino = i})
Users(i) == {p \in Proc : \/ fd[p] = i
                          \/ cwd[p] = i /\ pc[p] # "chdir2"
                          \/ \E k \in DOMAIN LocalRefs(p) : LocalRefs(p)[k] = i}

RefsOf(p, i) ==
    (IF fd[p] = i THEN 1 ELSE 0) + (IF cwd[p] = i /\ pc[p] # "chdir2" THEN 1 ELSE 0)
    + Times(i, LocalRefs(p)) + Owed(i, todo[p])

\* Every path through every call gives back exactly the references it took:
\* ip->ref counts the open files, the working directories and the pointers in
\* the running calls (fs.c:122-127).
RefsCounted == \A i \in Inum : ref[i] = SumFunction([p \in Proc |-> RefsOf(p, i)])

\* An inode's content is freed by an iput() of the only reference there is: nobody
\* has it open, stands in it or has it in the middle of a call, and nobody else
\* still owes an iput() of it (fs.c:346 "no links and no other references").
FreesAlone == [][\A i \in Inum : type[i] # "free" /\ type'[i] = "free" =>
    \E p \in Proc : /\ Owed(i, todo[p]) = 1 /\ RefsOf(p, i) = 1
                    /\ \A q \in Proc \ {p} : RefsOf(q, i) = 0]_vars

\* No name and no user is left with an inode that has been freed: what a
\* directory lists has links and a type, and so has whatever a call has in hand,
\* is about to lock, or a process has open or stands in (fs.c:313-316).  An entry
\* is exempt while its directory is locked.
NothingDangles ==
    /\ \A d \in Inum, s \in Slot :
          LET i == dir[d][s].inum
          IN  i # NoInum /\ Free(d) => type[i] # "free" /\ nlink[i] >= 1
    /\ \A i \in Inum : Users(i) # {} => type[i] # "free"

NamesOf(i) == {e \in Inum \X Slot : dir[e[1]][e[2]].inum = i}
SubDirs(d) == {s \in Slot : dir[d][s].inum # NoInum /\ type[dir[d][s].inum] = "dir"}
\* link() counts before it enters the name, unlink() after it has removed it.
Pending(i) == {p \in Proc :
    \/ loc[p].call = "link" /\ loc[p].ip = i
    \/ pc[p] = "unlink3" /\ loc[p].ip = i}

\* nlink is the number of names of an inode, and for a directory of the ".." of
\* its children too, whatever calls interleave or fail; only a create() in a
\* directory that is being removed loses a name with its directory.
LinksCounted == Renaming = {} => \A i \in Inum :
    type[i] # "free" =>
        nlink[i] = Cardinality(NamesOf(i)) + Cardinality(SubDirs(i)) + Cardinality(Pending(i))
                   + gone[i] + (IF i = Root THEN 1 ELSE 0)

\* A directory has one parent, ".." is that parent, and going up from a
\* directory that has a name never comes round again (sysfile.c:472-474, :549-554).
NamedDirs == {i \in Inum : type[i] = "dir" /\ NamesOf(i) # {}}
TreeStaysTree == Renaming = {} =>
    /\ \A i \in NamedDirs : i # Root /\ \A e \in NamesOf(i) : NamesOf(i) = {e} /\ dotdot[i] = e[1]
    /\ \A S \in SUBSET NamedDirs : S # {} => \E i \in S : dotdot[i] \notin S

\* The inode whose lock p needs for its next step.
Needs(p) ==
    IF todo[p] # <<>> THEN IF Head(todo[p]).op = "put" THEN Head(todo[p]).ino ELSE NoInum
    ELSE CASE pc[p] \in {"walk", "create", "createold", "open", "chdir", "link1", "link2",
                         "linkbad", "unlink", "unlink2", "ren1", "ren3", "ren4", "ren6", "ren7"}
                -> loc[p].at
           [] pc[p] = "ren2" -> loc[p].ip
           [] pc[p] = "cycle" -> IF CycleFound(loc[p]) THEN NoInum ELSE loc[p].at
           [] OTHER -> NoInum
WaitsFor(p, q) == Needs(p) # NoInum /\ lock[Needs(p)] = q
PutsUnderLock(p) ==
    /\ todo[p] # <<>> /\ Head(todo[p]).op = "put"
    /\ \E i \in Inum \ {Needs(p)} : lock[i] = p

\* Nobody waits for himself, or for one who waits for him, except through an
\* iput() of one inode under the lock of another: everything else takes locks from
\* a directory down (fs.c:148-149, sysfile.c:476-481).
DeadlockOnlyInPut == \A S \in (SUBSET Proc) \ {{}} :
    (\A p \in S : \E q \in S : WaitsFor(p, q)) => \E p \in S : PutsUnderLock(p)

\* No process waits in a circle.
NoDeadlock == \A S \in (SUBSET Proc) \ {{}} : ~ \A p \in S : \E q \in S : WaitsFor(p, q)

\* An inode without links goes when its last user does (fs.c:333).
FreedWhenUnused == \A i \in Inum : type[i] # "free" /\ nlink[i] = 0 => ref[i] > 0

=============================================================================
