-------------------------- MODULE InodeInvariants --------------------------
(***************************************************************************)
(* The inductive invariants of Inode, for Inode_proofs: IInv, of the       *)
(* references and types, whatever calls run; JInv, of locks, links and     *)
(* directories while no rename() runs, and KInv with rename()s that run    *)
(* alone; UInv, that nothing in use is free; OrderInv, of the order of     *)
(* locks.  With them the hypotheses about programs that the theorems have  *)
(* (NoRename, RenamesAlone, NoUp, LinksNamed).                             *)
(***************************************************************************)
EXTENDS Inode

-----------------------------------------------------------------------------
(* References: what a call holds where it is, and what it has found *)

Todo == [op : {"put", "drop", "unlock"}, ino : Inum]

Is(x, i) == IF x = i THEN 1 ELSE 0
One(t, i) == IF t.op # "unlock" /\ t.ino = i THEN 1 ELSE 0

\* RefsOf(), of the pieces of a process that it depends on.
RefsAt(f, c, place, l, what, i) ==
    Is(f, i) + (IF place = "chdir2" THEN 0 ELSE Is(c, i)) + Times(i, Locals(place, l)) + Owed(i, what)

\* What the locals of a call at a place hold.
AtPlaces == {"walk", "create", "createold", "open", "chdir", "link1", "link2", "linkbad", "unlink",
             "unlink2", "ren1", "ren2", "cycle", "ren3", "ren4", "ren6", "ren7"}
IpPlaces == {"created", "chdir2", "link2", "unlink3", "ren2", "cycle", "ren3", "ren4", "ren5",
             "ren6", "ren7", "ren8"}
DpPlaces == {"unlink2", "cycle", "ren3", "ren4", "ren5", "ren6", "ren7", "ren8"}
OldPlaces == {"ren2", "cycle", "ren3", "ren4", "ren5", "ren6"}
Lookups == {"create", "open", "chdir", "link1", "unlink", "ren1", "link2", "ren2"}
Walks(place, l, ends) == place = "walk" /\ l.then \in ends

PlaceOK(place, l, f, what) ==
    /\ place = "user" => what = <<>>
    /\ place \in AtPlaces => l.at \in Inum
    /\ place \in IpPlaces \/ Walks(place, l, {"link2", "ren2"}) => l.ip \in Inum
    /\ place \in DpPlaces => l.dp \in Inum
    /\ place \in OldPlaces \/ Walks(place, l, {"ren2"}) => l.olddp \in Inum
    /\ place = "ren4" => l.xip \in Inum
    /\ place \in {"cycle", "ren3", "ren4", "ren5"} => l.name \in Name
    /\ place = "walk" => l.then \in Lookups /\ l.path # <<>>
    /\ place \in {"link1", "ren1"} \/ Walks(place, l, {"link1", "ren1"}) => l.path2 \in Path
    /\ place = "open" \/ Walks(place, l, {"open"}) => l.call = "open"
    /\ l.call \in {"creat", "open"} => f = NoInum

\* What a call has found to be a directory is one.
DirOK(t, place, l) ==
    /\ place \in {"create", "unlink", "link2", "ren1", "ren2"} => t[l.at] = "dir"
    /\ place \in {"cycle", "ren3", "ren4", "ren5"} => t[l.dp] = "dir"
    /\ place \in OldPlaces \/ Walks(place, l, {"ren2"}) => t[l.olddp] = "dir"
    /\ place \in {"ren7", "ren8"} => t[l.ip] = "dir"

PlaceInv == \A p \in Proc : PlaceOK(pc[p], loc[p], fd[p], todo[p])
DirInv == \A p \in Proc : DirOK(type, pc[p], loc[p])
DotDotInv == \A i \in Inum : type[i] = "dir" => dotdot[i] \in Inum

IInv == TypeOK /\ PlaceInv /\ DirInv /\ DotDotInv /\ RefsCounted

-----------------------------------------------------------------------------
(* What a step of one process has to show *)

DiskOK ==
    /\ type \in [Inum -> {"free", "file", "dir"}] /\ nlink \in [Inum -> Int]
    /\ dir \in [Inum -> [Slot -> [name : Name \cup {"."}, inum : Inum \cup {NoInum}]]]
    /\ dotdot \in [Inum -> Inum \cup {NoInum}]
    /\ lock \in [Inum -> Proc \cup {NoProc}]
    /\ gone \in [Inum -> Nat]
    /\ DotDotInv

\* p's descriptor, working directory, place, locals and duties become these.
Moves(p, f, c, place, l, what) ==
    /\ fd' = [fd EXCEPT ![p] = f] /\ cwd' = [cwd EXCEPT ![p] = c]
    /\ pc' = [pc EXCEPT ![p] = place] /\ loc' = [loc EXCEPT ![p] = l]
    /\ todo' = [todo EXCEPT ![p] = what]

Well(f, c, place, l, what) ==
    /\ f \in Pointer /\ c \in Inum /\ place \in Label /\ l \in Local /\ what \in Seq(Todo)
    /\ PlaceOK(place, l, f, what)

RefsMove(p, f, c, place, l, what) ==
    /\ ref' \in [Inum -> Int]
    /\ \A i \in Inum : ref'[i] = ref[i] + RefsAt(f, c, place, l, what, i)
                                 - RefsAt(fd[p], cwd[p], pc[p], loc[p], todo[p], i)

KeepsDirs(p) == \A q \in Proc \ {p} : DirOK(type', pc[q], loc[q])

\* The steps of a process: those of rename(), and the others.
Plain(p) ==
    \/ Call(p) \/ Close(p) \/ Walk(p) \/ PutCheck(p) \/ Release(p)
    \/ Create(p) \/ Created(p) \/ Open(p) \/ Chdir(p) \/ ChdirDone(p)
    \/ LinkOld(p) \/ LinkNew(p) \/ LinkBad(p)
    \/ Unlink(p) \/ UnlinkEntry(p) \/ UnlinkInode(p)
Renames(p) ==
    \/ RenameOld(p) \/ RenameType(p) \/ RenameCycle(p) \/ RenameNew(p)
    \/ RenameReplace(p) \/ RenameEnter(p) \/ RenameClear(p) \/ RenameDotDot(p)

\* What p holds now.
Now(p, i) == RefsAt(fd[p], cwd[p], pc[p], loc[p], todo[p], i)

\* References of the locals, which is all that most steps move.
Holds(p, i) == Times(i, Locals(pc[p], loc[p]))

Entries == [Inum -> [Slot -> [name : Name \cup {"."}, inum : Inum \cup {NoInum}]]]

-----------------------------------------------------------------------------
(* Locks, links and directories while no rename() runs *)

NoRename == \A p \in Proc : \A c \in Calls[p] : c.call \notin {"rename", "rename_alone"}
Begins(p) == Call(p) /\ loc'[p].call \in {"rename", "rename_alone"}

\* Which call is at a place, and which pointers it does not have yet.
Going(place, l) == IF place = "walk" THEN l.then ELSE place
CallOK(place, l) ==
    LET g == Going(place, l) IN
    /\ g \in {"user", "return", "create", "createold", "created", "open", "chdir", "chdir2",
              "link1", "link2", "linkbad", "unlink", "unlink2", "unlink3"}
    /\ g \in {"user", "return"} => l = NoCall
    /\ g \in {"create", "createold", "created"} => l.call \in {"creat", "mkdir"}
    /\ g \in {"open", "chdir"} => l.call = g
    /\ g = "chdir2" => l.call = "chdir"
    /\ g \in {"link1", "link2", "linkbad"} => l.call = "link"
    /\ g = "link1" => l.ip = NoInum
    /\ g = "linkbad" => l.at = l.ip
    /\ g \in {"unlink", "unlink2", "unlink3"} => l.call = "unlink"
CallInv == \A p \in Proc : CallOK(pc[p], loc[p])

\* The inodes a call has locked, by its place or because it still has to unlock them.
LockedAt(place, l) ==
    CASE place \in {"created", "unlink3"} -> l.ip
      [] place = "unlink2" -> l.dp
      [] OTHER -> NoInum
Unlocks(i, s) == \E k \in DOMAIN s : s[k] = Unlock(i)
HasLock(place, l, s, i) == LockedAt(place, l) = i \/ Unlocks(i, s)
LockInv == \A p \in Proc, i \in Inum : lock[i] = p <=> HasLock(pc[p], loc[p], todo[p], i)

\* A call gives back at most one lock on its way, before it puts the inode.
TodoOK(place, l, s) ==
    /\ \A k, m \in DOMAIN s : s[k].op = "unlock" /\ s[m].op = "unlock" => k = m
    /\ LockedAt(place, l) # NoInum => \A k \in DOMAIN s : s[k].op # "unlock"
TodoInv == \A p \in Proc : TodoOK(pc[p], loc[p], todo[p])

\* Directories: a name is entered once, and files have no entries.
NamesInv == \A d \in Inum, s \in Slot :
    /\ dir[d][s].inum = NoInum <=> dir[d][s] = Empty
    /\ dir[d][s].inum # NoInum => dir[d][s].name \in Name
    /\ \A t \in Slot : dir[d][s].inum # NoInum /\ dir[d][t].name = dir[d][s].name => t = s
FilesEmpty == \A i \in Inum : type[i] # "dir" => dir[i] = NoEntries

\* unlink() has its entry as long as it has the directory; link() has a file.
EntryOK(d, t, place, l) ==
    /\ place = "unlink2" => l.slot \in Slot /\ d[l.dp][l.slot].inum = l.at
    /\ place \in {"link2", "linkbad"} \/ Walks(place, l, {"link2"}) => t[l.ip] = "file"
EntryInv == \A p \in Proc : EntryOK(dir, type, pc[p], loc[p])

\* Links: what nlink is, and that nothing leads to a free inode.
LinksTo(i) == Cardinality(NamesOf(i)) + Cardinality(SubDirs(i)) + Cardinality(Pending(i))
              + gone[i] + Is(Root, i)
LinkInv == \A i \in Inum :
    IF type[i] = "free" THEN NamesOf(i) = {} /\ Pending(i) = {} /\ gone[i] = 0
    ELSE nlink[i] = LinksTo(i)

\* The tree: one name for a directory, where its ".." leads, and no circle.
OneParent == \A d \in Inum, s \in Slot :
    LET i == dir[d][s].inum
    IN  i # NoInum /\ type[i] = "dir" =>
            i # Root /\ dotdot[i] = d /\ NamesOf(i) = {<<d, s>>}
NoCircle == \A S \in SUBSET NamedDirs : S # {} => \E i \in S : dotdot[i] \notin S

JInv == /\ CallInv /\ LockInv /\ TodoInv /\ NamesInv /\ FilesEmpty /\ EntryInv
        /\ LinkInv /\ OneParent /\ NoCircle /\ type[Root] = "dir"

\* A free inode is not locked: ilock() panics, iput() locks what it frees.
LiveLocks == \A i \in Inum : type[i] = "free" => lock[i] = NoProc

-----------------------------------------------------------------------------
(* What a step has to show of them *)

In(x, S) == IF x \in S THEN 1 ELSE 0

Entry == [name : Name \cup {"."}, inum : Inum \cup {NoInum}]
NamesIn(E, i) == {e \in Inum \X Slot : E[e[1]][e[2]].inum = i}
SubsIn(E, t, d) == {s \in Slot : E[d][s].inum # NoInum /\ t[E[d][s].inum] = "dir"}
IsDir(t, i) == IF i # NoInum /\ t[i] = "dir" THEN 1 ELSE 0

Pends(place, l, i) == (l.call = "link" \/ place = "unlink3") /\ l.ip = i
Awaits(place, l, i) == IF Pends(place, l, i) THEN 1 ELSE 0

DiskInv == /\ NamesInv /\ FilesEmpty /\ LinkInv /\ OneParent /\ NoCircle
           /\ type[Root] = "dir"

LockMove(p, place, l, what) == \A i \in Inum :
    /\ lock'[i] = p <=> HasLock(place, l, what, i)
    /\ lock'[i] = lock[i] \/ {lock[i], lock'[i]} \subseteq {p, NoProc}

EntriesStay(p) == \A q \in Proc \ {p} : EntryOK(dir', type', pc[q], loc[q])

SlotsOf(E, d, i) == {s \in Slot : E[d][s].inum = i}

OneSlot(d, s, e) ==
    /\ dir' \in Entries /\ dir'[d][s] = e
    /\ \A x \in Inum, y \in Slot : x # d \/ y # s => dir'[x][y] = dir[x][y]

-----------------------------------------------------------------------------
(* Users of inodes, for paths without ".." *)

NoUp == \A f \in Path : \A k \in DOMAIN f.elems : f.elems[k] # ".."

\* Everything that a process has in hand has a type.
LiveAt(t, f, c, place, l) ==
    /\ f # NoInum => t[f] # "free"
    /\ place # "chdir2" => t[c] # "free"
    /\ place \in {"walk", "create", "createold", "open", "chdir", "link1", "link2", "linkbad",
                  "unlink", "unlink2"} => t[l.at] # "free"
    /\ place \in {"created", "chdir2", "unlink3", "link2"} \/ Walks(place, l, {"link2"})
          => t[l.ip] # "free"
    /\ place = "unlink2" => t[l.dp] # "free"
NoUpAt(place, l) ==
    /\ place = "walk" => \A k \in DOMAIN l.path : l.path[k] # ".."
    /\ place \in {"create", "link2"} => l.name # ".."
LiveInv == \A p \in Proc : LiveAt(type, fd[p], cwd[p], pc[p], loc[p])
NoUpInv == \A p \in Proc : NoUpAt(pc[p], loc[p])
UInv == LiveInv /\ NoUpInv

-----------------------------------------------------------------------------
(* Order of locks, for link()s to a name *)

EndsInName(s) == s[Len(s)] \in Name
LinksNamed == \A p \in Proc : \A c \in Calls[p] : c.call = "link" => EndsInName(c.path2.elems)

\* What link() will enter, or has found, is a name.
NamedOK(place, l) ==
    /\ place = "link1" \/ Walks(place, l, {"link1"}) => EndsInName(l.path2.elems)
    /\ Walks(place, l, {"link2"}) => EndsInName(l.path)
    /\ place = "link2" => l.name \in Name

\* No iput() of what the call has locked itself.
PutsBefore(s) == \A k, m \in DOMAIN s : m < k /\ s[k].op = "unlock" => s[m].ino # s[k].ino
PutsOther(place, l, s) ==
    LockedAt(place, l) # NoInum => \A k \in DOMAIN s : s[k].ino # LockedAt(place, l)

OrderOK(place, l, s) == NamedOK(place, l) /\ PutsBefore(s) /\ PutsOther(place, l, s)
OrderInv == \A p \in Proc : OrderOK(pc[p], loc[p], todo[p])

-----------------------------------------------------------------------------
(* rename() while no other call runs *)

RenamesAlone == \A p \in Proc : \A c \in Calls[p] : c.call # "rename"

\* Entries, types, counts and ".."s that fit together, when no call counts a link.
LinksAt(t, d, g, i) ==
    Cardinality(NamesIn(d, i)) + Cardinality(SubsIn(d, t, i)) + g[i] + Is(Root, i)
NamesFit(d) == \A x \in Inum, s \in Slot :
    /\ d[x][s].inum = NoInum <=> d[x][s] = Empty
    /\ d[x][s].inum # NoInum => d[x][s].name \in Name
    /\ \A r \in Slot : d[x][s].inum # NoInum /\ d[x][r].name = d[x][s].name => r = s
LinksFit(t, n, d, g) == \A i \in Inum :
    IF t[i] = "free" THEN NamesIn(d, i) = {} /\ g[i] = 0 ELSE n[i] = LinksAt(t, d, g, i)
ParentsFit(t, d, u) == \A x \in Inum, s \in Slot :
    LET i == d[x][s].inum
    IN  i # NoInum /\ t[i] = "dir" => i # Root /\ u[i] = x /\ NamesIn(d, i) = {<<x, s>>}
DirsIn(t, d) == {i \in Inum : t[i] = "dir" /\ NamesIn(d, i) # {}}
Acyclic(t, d, u) == \A S \in SUBSET DirsIn(t, d) : S # {} => \E i \in S : u[i] \notin S
Sound(t, n, d, u, g) ==
    /\ NamesFit(d) /\ LinksFit(t, n, d, g) /\ ParentsFit(t, d, u) /\ Acyclic(t, d, u)
    /\ t[Root] = "dir" /\ \A i \in Inum : t[i] # "dir" => d[i] = NoEntries
Typed(t, n, d, u, g) ==
    /\ t \in [Inum -> {"free", "file", "dir"}] /\ n \in [Inum -> Int] /\ d \in Entries
    /\ u \in [Inum -> Inum \cup {NoInum}] /\ g \in [Inum -> Nat]

\* The disk as it would be if the steps of a rename() that are left to do, once the old
\* entry of the new name or the new entry is written, had been done.
Moving(t, l) == t[l.ip] = "dir" /\ l.olddp # l.dp
DirsMeant(d, place, l) ==
    CASE place = "ren5" /\ l.xip # NoInum ->
             [d EXCEPT ![l.dp] = [s \in Slot
                                   |-> IF d[l.dp][s].name = l.name THEN Empty ELSE d[l.dp][s]]]
      [] place = "ren6" ->
             [d EXCEPT ![l.olddp] = [s \in Slot |-> IF s = l.slot THEN Empty ELSE d[l.olddp][s]]]
      [] OTHER -> d
LinksMeant(t, n, place, l) ==
    IF place = "ren6" /\ Moving(t, l) THEN [n EXCEPT ![l.olddp] = n[l.olddp] - 1] ELSE n
UpMeant(t, u, place, l) ==
    IF place \in {"ren6", "ren7", "ren8"} /\ Moving(t, l) THEN [u EXCEPT ![l.ip] = l.dp] ELSE u
Meant(place, l) ==
    Sound(type, LinksMeant(type, nlink, place, l), DirsMeant(dir, place, l),
          UpMeant(type, dotdot, place, l), gone)

\* What a rename() knows at a place.
RenPlaces == {"ren1", "ren2", "cycle", "ren3", "ren4", "ren5", "ren6", "ren7", "ren8"}
Found(place, l) == place \in RenPlaces \ {"ren1"} \/ Walks(place, l, {"ren2"})
Replaces(d, l) == /\ l.xip \in Inum \ {l.ip, l.dp}
                  /\ \E s \in Slot : /\ d[l.dp][s] = [name |-> l.name, inum |-> l.xip]
                                    /\ \A z \in Slot : d[l.dp][z].name = l.name => z = s
RenOK(t, d, u, place, l) ==
    /\ place \in RenPlaces \/ Walks(place, l, {"ren1", "ren2"})
    /\ l.call = "rename_alone"
    /\ Found(place, l) => t[l.ip] # "free"
    /\ Found(place, l) /\ place \notin {"ren7", "ren8"} =>
           l.slot \in Slot /\ d[l.olddp][l.slot].inum = l.ip
    /\ place \in {"ren4", "ren5"} => l.name \in Name
    /\ ~Found(place, l) \/ Walks(place, l, {"ren2"}) \/ place \in {"ren2", "cycle", "ren3"} =>
           l.xip = NoInum
    /\ place = "ren3" => l.at = l.dp
    /\ place = "ren4" => l.at = l.xip /\ Replaces(d, l)
    /\ place = "ren5" =>
           IF l.xip = NoInum THEN \A s \in Slot : d[l.dp][s].name # l.name ELSE Replaces(d, l)
    /\ place \in {"ren7", "ren8"} => Moving(t, l)
    /\ place \in {"ren6", "ren7", "ren8"} /\ Moving(t, l) => u[l.ip] # l.ip

\* Going up from the new directory does not lead to what is moved.
Above(t, d, u, A) == \A i \in A : t[i] = "dir" /\ NamesIn(d, i) # {} => u[i] \in A
Seen(t, d, u, l, A) ==
    /\ l.at \in A /\ l.dp \in A /\ l.ip \notin A \ {l.at}
    /\ \A i \in A \ {l.at} : t[i] = "dir" /\ NamesIn(d, i) # {} => u[i] \in A
UpOK(t, d, u, place, l) ==
    /\ place = "cycle" => t[l.ip] = "dir" /\ \E A \in SUBSET Inum : Seen(t, d, u, l, A)
    /\ place \in {"ren3", "ren4", "ren5"} /\ t[l.ip] = "dir" =>
           \E A \in SUBSET Inum : l.dp \in A /\ l.ip \notin A /\ Above(t, d, u, A)

RenLock(place, l) ==
    CASE place \in {"ren4", "ren5"} -> l.dp
      [] place = "ren8" -> l.ip
      [] OTHER -> NoInum
NoUnlock(s) == \A k \in DOMAIN s : s[k].op # "unlock"
Quiet(q) == pc[q] \in {"user", "return"} /\ loc[q] = NoCall /\ NoUnlock(todo[q])
RenLocks(place, l, s) ==
    /\ NoUnlock(s)
    /\ RenLock(place, l) # NoInum => \A k \in DOMAIN s : s[k].ino # RenLock(place, l)
RInv(p) ==
    /\ \A q \in Proc \ {p} : Quiet(q)
    /\ \A i \in Inum : lock[i] = IF i = RenLock(pc[p], loc[p]) THEN p ELSE NoProc
    /\ RenLocks(pc[p], loc[p], todo[p])
    /\ RenOK(type, dir, dotdot, pc[p], loc[p]) /\ UpOK(type, dir, dotdot, pc[p], loc[p])
    /\ Meant(pc[p], loc[p])

\* Either no rename() runs, or one does, alone, and the rest of it would leave what JInv says.
KInv == JInv \/ \E p \in Proc : RInv(p)

Fits == Sound(type, nlink, dir, dotdot, gone)

\* Before the entry of the new name is touched, what is meant is what is there.
Early(place) == place \notin {"ren5", "ren6", "ren7", "ren8"}
\* A step of a rename() that goes on.
RMove(p, place, l, what) ==
    /\ RenLocks(place, l, what)
    /\ \A i \in Inum : lock'[i] = IF i = RenLock(place, l) THEN p ELSE NoProc
    /\ RenOK(type', dir', dotdot', place, l) /\ UpOK(type', dir', dotdot', place, l)
    /\ Meant(place, l)'

-----------------------------------------------------------------------------
(* The steps of a rename() that write entries *)

\* The entry of i in slot r of o goes to slot s of x under the name a.
MovesEntry(t, n, e, u, o, r, i, x, s, a, A, w, m, f) ==
    /\ o \in Inum /\ r \in Slot /\ e[o][r].inum = i /\ i # NoInum
    /\ x \in Inum /\ t[x] = "dir" /\ s \in Slot /\ e[x][s] = Empty
    /\ a \in Name /\ \A z \in Slot : e[x][z].name # a
    /\ A \in SUBSET Inum /\ (t[i] = "dir" => x \in A /\ i \notin A /\ Above(t, e, u, A))
    /\ (t[i] = "dir" => w[i] = x) /\ \A k \in Inum : k # i => w[k] = u[k]
    /\ f \in Entries /\ f[o][r] = Empty /\ f[x][s] = [name |-> a, inum |-> i]
    /\ \A y \in Inum, z \in Slot : ~(y = o /\ z = r) /\ ~(y = x /\ z = s) => f[y][z] = e[y][z]
    /\ \A k \in Inum : m[k] = n[k] - (IF k = o THEN IsDir(t, i) ELSE 0)
                                + (IF k = x THEN IsDir(t, i) ELSE 0)

\* The slot that the new entry goes to: that of the replaced one, or a free one.
NewSlot(c, l, s) ==
    /\ s \in Slot /\ l.xip = NoInum => c[l.dp][s] = Empty
    /\ l.xip = NoInum => \A z \in Slot : c[l.dp][z].name # l.name
    /\ l.xip # NoInum => /\ c[l.dp][s] = [name |-> l.name, inum |-> l.xip] /\ l.xip # l.ip
                         /\ \A z \in Slot : c[l.dp][z].name = l.name <=> z = s

Entered(l) ==
    IF l.xip = NoInum THEN DirLink(l.dp, l.name, l.ip)
    ELSE [dir EXCEPT ![l.dp][SlotOf(l.dp, l.name)] = [name |-> l.name, inum |-> l.ip]]

\* What a rename() means its entries to be, before and after it enters the new one.
Enters(t, n, c, u, g, l, s, k, x, m) ==
    /\ NewSlot(c, l, s) /\ s \in Slot /\ l.dp \in Inum /\ t[l.dp] = "dir" /\ l.name \in Name
    /\ l.olddp \in Inum /\ l.ip \in Inum /\ l.slot \in Slot /\ c[l.olddp][l.slot].inum = l.ip
    /\ Sound(t, LinksMeant(t, n, "ren5", l), DirsMeant(c, "ren5", l), UpMeant(t, u, "ren5", l), g)
    /\ UpOK(t, c, u, "ren5", l)
    /\ k.ip = l.ip /\ k.dp = l.dp /\ k.olddp = l.olddp /\ k.slot = l.slot
    /\ x \in Entries /\ x = [c EXCEPT ![l.dp][s] = [name |-> l.name, inum |-> l.ip]]
    /\ m \in [Inum -> Int]
    /\ \A i \in Inum : m[i] = n[i] + (IF i = l.dp /\ Moving(t, l) THEN 1 ELSE 0)
=============================================================================
