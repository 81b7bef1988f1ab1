------------------------------- MODULE Events -------------------------------
(***************************************************************************)
(* Event loops: processes that wait in epoll_pwait() (kernel/epoll.c) for  *)
(* the console and the mouse (kernel/mouse.c) and read what it reports,    *)
(* while others read the same devices.                                     *)
(*                                                                         *)
(* epoll_pwait() does not wait for a device: it asks each one in turn,     *)
(* each under that device's own lock, and sleeps until the next tick.      *)
(***************************************************************************)
EXTENDS Console

CONSTANTS
    Fd,            \* descriptors, 1..n
    MOUSEBUFSIZE,  \* MOUSEBUFSIZE: packets
    EPOLL_MAXFDS,  \* EPOLL_MAXFDS: slots of an instance
    Timeout,       \* timeouts of epoll_pwait(), in ticks; Forever among them
    Maxevents,
    Room,          \* events that fit between eventsp and p->sz
    Calls          \* what the program of each process does

Forever == -1
File == {"console", "mouse"}
NoFile == "closed"
NoProc == "nobody"
Slot == 1..EPOLL_MAXFDS
Unused == [fd |-> 0, file |-> NoFile]
Call == {"wait", "add", "del", "close", "open", "console", "mouse", "mode"}

ASSUME EventsAssumption ==
    /\ IsFiniteSet(Fd) /\ Fd = 1..Cardinality(Fd) /\ MOUSEBUFSIZE \in Nat \ {0}
    /\ EPOLL_MAXFDS \in Nat \ {0}
    /\ Timeout \subseteq Nat \cup {Forever} /\ Maxevents \in Nat \ {0} /\ Room \subseteq Nat
    /\ Calls \in [Proc -> SUBSET Call] /\ NoProc \notin Proc

VARIABLES
    packets,    \* mouse.nwrite - mouse.nread
    mouselock,  \* holder of the lock of the mouse's inode
    ofile,      \* p->ofile, as far as these devices go
    item,       \* e->items: unused, or a descriptor; ghost: the file it then stood for
    timeleft,   \* deadline - ticks
    room,       \* events that fit where its caller wants them
    next,       \* the slot epoll_pwait() asks next
    out,        \* slots it has found ready
    promised    \* ghost: files it said were ready, and whose data nobody has taken since

eventVars == <<packets, mouselock, ofile, item, timeleft, room, next, out, promised>>
vars == <<consoleVars, eventVars>>
processVars == <<left, target, killed>>

\* Every process has the console and the mouse open, and keeps them open: for
\* one that does not, see ReopenNext.
Init ==
    /\ ConsoleInit
    /\ packets = 0 /\ mouselock = NoProc
    /\ ofile = [p \in Proc |-> [d \in Fd |-> IF d = 1 THEN "console" ELSE "mouse"]]
    /\ item = [s \in Slot |-> Unused]
    /\ timeleft = [p \in Proc |-> 0]
    /\ room = [p \in Proc |-> 0]
    /\ next = [p \in Proc |-> 1]
    /\ out = [p \in Proc |-> {}]
    /\ promised = [p \in Proc |-> {}]

Has(p, f) == \E d \in Fd : ofile[p][d] = f
Free(p, c) == pc[p] = "user" /\ ~killed[p] /\ c \in Calls[p]

-----------------------------------------------------------------------------
(* The console *)

ConsoleInput == Keystroke /\ UNCHANGED eventVars

ConsoleRead(p) == \E n \in Size :
    /\ Free(p, "console") /\ Has(p, "console")
    /\ ReadConsole(p, n)
    /\ UNCHANGED eventVars

\* Who takes something breaks the promise made to the others, and fulfils its
\* own when it is back: not while it sleeps with part of a line.
Breaks(p, q) ==
    \/ q # p /\ r' # r
    \/ q = p /\ pc'[p] # "console sleep" /\ (r' # r \/ Some(p))
ConsoleReader(p) ==
    /\ ConsoleStep(p)
    /\ promised' = [q \in Proc |->
            IF Breaks(p, q) THEN promised[q] \ {"console"} ELSE promised[q]]
    /\ UNCHANGED <<packets, mouselock, ofile, item, timeleft, room, next, out>>

Termios == (\E p \in Proc : Free(p, "mode")) /\ SetMode /\ UNCHANGED eventVars
Killed(p) == Kill(p) /\ UNCHANGED eventVars

-----------------------------------------------------------------------------
(* The mouse *)

\* mousepush(): a packet that finds the ring full is dropped.
MousePacket ==
    /\ packets' = Min({packets + 1, MOUSEBUFSIZE})
    /\ pc' = [p \in Proc |-> IF pc[p] = "mouse sleep" THEN "mouse" ELSE pc[p]]
    /\ UNCHANGED <<input, mode, processVars, mouselock, ofile, item, timeleft, room, next, out, promised>>

\* fileread() takes the inode's lock, which mouseread() keeps while it sleeps.
ReadMouse(p) == \E n \in Size :
    /\ Free(p, "mouse") /\ Has(p, "mouse")
    /\ pc' = [pc EXCEPT ![p] = "mouse lock"]
    /\ left' = [left EXCEPT ![p] = n]
    /\ UNCHANGED <<input, mode, target, killed, eventVars>>

MouseLock(p) ==
    /\ pc[p] \in {"mouse lock", "mouse again lock"} /\ mouselock = NoProc
    /\ mouselock' = p
    /\ pc' = [pc EXCEPT ![p] = IF @ = "mouse lock" THEN "mouse" ELSE "mouse again"]
    /\ UNCHANGED <<input, mode, processVars, packets, ofile, item, timeleft, room, next, out, promised>>

\* mouseread().  The -1 of a killed reader sends fileread() round once more,
\* through begin_op() and for the lock again; the second one is final.
MouseTake(p) ==
    /\ packets > 0
    /\ packets' = packets - Min({left[p], packets})
    /\ mouselock' = NoProc
    /\ pc' = [pc EXCEPT ![p] = "user"]
    /\ left' = [left EXCEPT ![p] = 0]
    /\ promised' = [q \in Proc |-> promised[q] \ {"mouse"}]
    /\ UNCHANGED killed
MouseSleep(p) ==
    /\ packets = 0 /\ ~killed[p]
    /\ pc' = [pc EXCEPT ![p] = "mouse sleep"]
    /\ KillBeforeSleep(p)
    /\ UNCHANGED <<packets, mouselock, left, promised>>
MouseFail(p) ==
    /\ packets = 0 /\ killed[p]
    /\ mouselock' = NoProc
    /\ \/ pc[p] = "mouse" /\ pc' = [pc EXCEPT ![p] = "mouse again lock"] /\ UNCHANGED left
       \/ pc[p] = "mouse again" /\ pc' = [pc EXCEPT ![p] = "user"] /\ left' = [left EXCEPT ![p] = 0]
    /\ UNCHANGED <<packets, killed, promised>>
MouseStep(p) ==
    /\ pc[p] \in {"mouse", "mouse again"}
    /\ MouseTake(p) \/ MouseSleep(p) \/ MouseFail(p)
    /\ UNCHANGED <<input, mode, target, ofile, item, timeleft, room, next, out>>

-----------------------------------------------------------------------------
(* epoll_ctl() *)

\* epoll_pwait() holds e->lock from the first slot to the last it asks.
Asking(p) == pc[p] = "scan" /\ next[p] \in Slot \ {1} /\ Cardinality(out[p]) < Maxevents

\* ADD takes the first free slot, and refuses a descriptor that has one; DEL
\* and ADD refuse one that is not open.
Registered(d) == {s \in Slot : item[s].fd = d}
Add(p, d) ==
    /\ Free(p, "add") /\ ofile[p][d] # NoFile /\ \A q \in Proc : ~Asking(q)
    /\ Registered(d) = {}
    /\ \E s \in Registered(0) :
          /\ \A c \in Registered(0) : s <= c
          /\ item' = [item EXCEPT ![s] = [fd |-> d, file |-> ofile[p][d]]]
    /\ UNCHANGED <<consoleVars, packets, mouselock, ofile, timeleft, room, next, out, promised>>
Del(p, d) ==
    /\ Free(p, "del") /\ ofile[p][d] # NoFile /\ \A q \in Proc : ~Asking(q)
    /\ Registered(d) # {}
    /\ item' = [s \in Slot |-> IF s \in Registered(d) THEN Unused ELSE item[s]]
    /\ UNCHANGED <<consoleVars, packets, mouselock, ofile, timeleft, room, next, out, promised>>

-----------------------------------------------------------------------------
(* epoll_pwait() *)

Wait(p) == \E t \in Timeout, n \in Room :
    /\ Free(p, "wait")
    /\ pc' = [pc EXCEPT ![p] = "scan"]
    /\ timeleft' = [timeleft EXCEPT ![p] = t]
    /\ room' = [room EXCEPT ![p] = n]
    /\ next' = [next EXCEPT ![p] = 1] /\ out' = [out EXCEPT ![p] = {}]
    /\ UNCHANGED <<input, mode, processVars, packets, mouselock, ofile, item, promised>>

\* fdready()
Ready(f) == (f = "console" /\ ConsoleReadable) \/ (f = "mouse" /\ packets > 0)

\* What a slot stands for in p: its descriptor may have been closed.
FileAt(p, s) == IF item[s].fd \in Fd THEN ofile[p][item[s].fd] ELSE NoFile

\* One slot.  An event that would lie beyond p->sz ends the scan.
ScanReady(p, f) ==
    /\ Ready(f) /\ Cardinality(out[p]) < room[p]
    /\ next' = [next EXCEPT ![p] = @ + 1]
    /\ out' = [out EXCEPT ![p] = @ \cup {next[p]}]
    /\ promised' = [promised EXCEPT ![p] = @ \cup {f}]
ScanBreak(p, f) ==
    /\ Ready(f) /\ Cardinality(out[p]) >= room[p]
    /\ next' = [next EXCEPT ![p] = EPOLL_MAXFDS + 1]
    /\ UNCHANGED <<out, promised>>
ScanPast(p, f) ==
    /\ ~Ready(f)
    /\ next' = [next EXCEPT ![p] = @ + 1]
    /\ UNCHANGED <<out, promised>>
Scan(p) ==
    /\ pc[p] = "scan" /\ next[p] \in Slot /\ Cardinality(out[p]) < Maxevents
    /\ \A q \in Proc \ {p} : ~Asking(q)
    /\ LET f == FileAt(p, next[p]) IN ScanReady(p, f) \/ ScanBreak(p, f) \/ ScanPast(p, f)
    /\ UNCHANGED <<consoleVars, packets, mouselock, ofile, item, timeleft, room>>

Report(p) ==
    /\ pc[p] = "scan" /\ (next[p] \notin Slot \/ Cardinality(out[p]) = Maxevents)
    /\ out[p] # {}
    /\ pc' = [pc EXCEPT ![p] = "user"]
    /\ out' = [out EXCEPT ![p] = {}] /\ timeleft' = [timeleft EXCEPT ![p] = 0]
    /\ next' = [next EXCEPT ![p] = 1] /\ room' = [room EXCEPT ![p] = 0]
    /\ UNCHANGED <<input, mode, processVars, packets, mouselock, ofile, item, promised>>

StopsWaiting_AtDeadline(p) == timeleft[p] = 0      \* mutant: p->killed is not tested

StopsWaiting(p) == timeleft[p] = 0 \/ killed[p]

\* Nothing to report: give up, or sleep until the next tick.
Sleep(p) ==
    /\ pc[p] = "scan" /\ next[p] \notin Slot /\ out[p] = {}
    /\ \/ /\ StopsWaiting(p)
          /\ pc' = [pc EXCEPT ![p] = "user"] /\ room' = [room EXCEPT ![p] = 0]
          /\ UNCHANGED killed
       \/ /\ ~StopsWaiting(p)
          /\ pc' = [pc EXCEPT ![p] = "ticks sleep"]
          /\ KillBeforeSleep(p) /\ UNCHANGED room
    /\ next' = [next EXCEPT ![p] = 1]
    /\ UNCHANGED <<input, mode, left, target, packets, mouselock, ofile, item, timeleft, out, promised>>

\* mutant: only those whose time is up are woken
Tick_Deadline ==
    /\ \E p \in Proc : pc[p] \in {"scan", "ticks sleep"}
    /\ pc' = [p \in Proc |-> IF pc[p] = "ticks sleep" /\ timeleft[p] = 1 THEN "scan" ELSE pc[p]]
    /\ timeleft' = [p \in Proc |-> IF timeleft[p] > 0 THEN timeleft[p] - 1 ELSE timeleft[p]]
    /\ UNCHANGED <<input, mode, processVars, packets, mouselock, ofile, item, room, next, out, promised>>

\* The timer interrupt wakes everybody who sleeps on ticks.
Tick ==
    /\ \E p \in Proc : pc[p] \in {"scan", "ticks sleep"}
    /\ pc' = [p \in Proc |-> IF pc[p] = "ticks sleep" THEN "scan" ELSE pc[p]]
    /\ timeleft' = [p \in Proc |-> IF timeleft[p] > 0 THEN timeleft[p] - 1 ELSE timeleft[p]]
    /\ UNCHANGED <<input, mode, processVars, packets, mouselock, ofile, item, room, next, out, promised>>

Poll(p) == Scan(p) \/ Report(p) \/ Sleep(p)
Step(p) == ConsoleReader(p) \/ MouseLock(p) \/ MouseStep(p) \/ Poll(p)

Next ==
    \/ ConsoleInput \/ Termios \/ MousePacket \/ Tick
    \/ \E p \in Proc :
          \/ Step(p) \/ ConsoleRead(p) \/ ReadMouse(p) \/ Wait(p) \/ Killed(p)
          \/ \E d \in Fd : Add(p, d) \/ Del(p, d)

Spec == Init /\ [][Next]_vars

\* The scheduler runs a process that is in epoll_pwait() and can run, and the
\* timer ticks.  Nobody has to type, move the mouse or read.
FairSpec == Spec /\ WF_vars(Tick) /\ \A p \in Proc : WF_vars(Poll(p))

-----------------------------------------------------------------------------
(* Event loops that close and open files: an item of epoll_ctl() names a   *)
(* descriptor, and stays when the descriptor is closed or stands for       *)
(* another file.                                                           *)

\* close() leaves the item alone; open() may use the descriptor again.
Close(p, d) ==
    /\ Free(p, "close") /\ ofile[p][d] # NoFile
    /\ ofile' = [ofile EXCEPT ![p][d] = NoFile]
    /\ UNCHANGED <<consoleVars, packets, mouselock, item, timeleft, room, next, out, promised>>
Open(p, d) ==
    /\ Free(p, "open") /\ ofile[p][d] = NoFile
    /\ \A c \in 1..d - 1 : ofile[p][c] # NoFile
    /\ \E f \in File : ofile' = [ofile EXCEPT ![p][d] = f]
    /\ UNCHANGED <<consoleVars, packets, mouselock, item, timeleft, room, next, out, promised>>

ReopenNext ==
    \/ Next
    \/ \E p \in Proc, d \in Fd : Close(p, d) \/ Open(p, d)

ReopenSpec == Init /\ [][ReopenNext]_vars

-----------------------------------------------------------------------------
(* Properties *)

\* A reader sleeps only while there is nothing to read, whatever the mode was
\* when the characters came and whoever else was woken for them.
SleepersJustified == \A p \in Proc :
    /\ pc[p] = "console sleep" => r = w
    /\ pc[p] = "mouse sleep" => packets = 0 /\ mouselock = p

\* The ring and its three indices are a terminal with lines: what is typed is
\* read in order and once, what is entered can no longer be edited, a full
\* ring can be emptied, also when the mode changes in the middle of a line
\* (console.c:352-357).
Index(from, to) == [i \in 1..Minus(to, from) |-> At(from + i - 1)]
Lines == INSTANCE Terminal WITH
    Ends <- {NEWLINE, EOF}, Capacity <- INPUT_BUF,
    entered <- Index(r, w), editing <- Index(w, e), raw <- rawmode
RefinesTerminal == Lines!Spec

\* An event loop that reads a device epoll_pwait() has reported gets something
\* at once, unless somebody else has read it (console.c:493-503, mouse.c:90-95,
\* epoll.c:50-64): it may sleep for the rest of a line, but never for its start.
ReadAfterPoll == \A p \in Proc :
    /\ pc[p] = "console sleep" /\ "console" \in promised[p] => Some(p)
    /\ ~(pc[p] = "mouse sleep" /\ "mouse" \in promised[p])

\* ... and never for the rest either.
NeverHangs == \A p \in Proc : pc[p] = "console sleep" => "console" \notin promised[p]

\* Who waits for a device that is ready, and stays so, returns from
\* epoll_pwait() (epoll.c:189-249: it is woken by the tick, not by the device)
\* if there is room for one event where it wants them.
Asked(p, s) == pc[p] \in {"scan", "ticks sleep"} /\ Ready(FileAt(p, s))
Watching(p, s) == Asked(p, s) /\ room[p] > 0
Waiters == {p \in Proc : "wait" \in Calls[p]}
WatchedReported == \A p \in Waiters, s \in Slot : Watching(p, s) ~> ~Watching(p, s)

\* ... and also if there is none.
AlwaysReported == \A p \in Waiters, s \in Slot : Asked(p, s) ~> ~Asked(p, s)

\* A killed process leaves epoll_pwait() even if it waits without a deadline
\* for devices that stay silent, and even if kill() came when it had tested
\* p->killed and not yet slept: the next tick wakes it (epoll.c:242-246).
KilledLeavesPoll == \A p \in Killable :
    killed[p] /\ pc[p] \in {"scan", "ticks sleep"} ~> pc[p] = "user"

\* ... which is not so in read() (console.c:534, mouse.c:115): the process
\* sleeps on, until somebody types or moves the mouse.
KilledLeavesRead == \A p \in Killable :
    killed[p] /\ pc[p] = "console sleep" ~> pc[p] = "user"

\* Nobody who has the log's transaction open waits for a process that waits
\* for the mouse (file.c:185-191, mouse.c:119).
NoTransactionWaits == \A p \in Proc :
    pc[p] = "mouse again lock" /\ mouselock \in Proc => pc[mouselock] # "mouse sleep"

\* epoll_pwait() reports for a descriptor only what was added for the file it
\* stands for now (epoll.c:217-218).
NoStaleReport == [][\A p \in Proc : \A s \in out'[p] \ out[p] : item[s].file = FileAt(p, s)]_vars
=============================================================================
