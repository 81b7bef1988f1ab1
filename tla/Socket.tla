------------------------------- MODULE Socket -------------------------------
(***************************************************************************)
(* The AF_UNIX sockets of kernel/socket.c and kernel/sysnet.c: the table   *)
(* of sockets, the table of bound paths, connections with a queue of       *)
(* messages each way, and file references that travel in messages.         *)
(*                                                                         *)
(* stable.lock, sbind.lock, a listener's listenlock and a connection's     *)
(* lock are never held together across a sleep, and connect(), accept()    *)
(* and close() let go of one before they take the next: a step is the part *)
(* of a call between two such points.  The memory of a struct socket is    *)
(* never unmapped: a pointer to a slot that has been given to someone else *)
(* reads whatever is there now.                                            *)
(***************************************************************************)
EXTENDS Integers, Sequences, FiniteSets, Functions

CONSTANTS
    Proc,         \* processes
    NSOCKET,      \* slots of stable
    SOCKBINDMAX,  \* entries of sbind
    SOCKBACKLOG,  \* pending connections of a listener
    SOCKQLEN,     \* queued messages, each way
    MAXFDMSG,     \* files in one message
    Conn,         \* pages for struct sockconn
    Path,         \* names to bind to
    Data,         \* contents of a message
    MaxRefs,      \* bound: references to the file that is passed around
    HasFile,      \* processes that hold a file they may pass around
    Killable,     \* processes that may be killed
    Calls,        \* what programs do besides: see Habit
    NoConn, NoPath

\* connect(); close() of a listening socket, or of one that is bound and never
\* listened; socketpair(); fork(); filealloc() or fdalloc() failing in accept()
\* or socketpair(); a bad fd in sendmsg().
Habit == {"connect", "close_listener", "close_bound", "socketpair", "fork",
          "files_run_out", "bad_fd"}

ASSUME SocketAssumption ==
    /\ NSOCKET \in Nat \ {0} /\ SOCKBINDMAX \in Nat
    /\ SOCKBACKLOG \in Nat \ {0} /\ SOCKQLEN \in Nat \ {0}
    /\ MAXFDMSG \in Nat /\ MaxRefs \in Nat
    /\ NoConn \notin Conn /\ NoPath \notin Path
    /\ IsFiniteSet(Proc) /\ IsFiniteSet(Conn) /\ Data # {}
    /\ HasFile \subseteq Proc /\ Cardinality(HasFile) <= MaxRefs
    /\ Killable \subseteq Proc /\ Calls \subseteq Habit

Slot == 1..NSOCKET
NoSlot == 0

VARIABLES
    sock,     \* stable.sock[]
    binds,    \* sbind.b[]
    conn,     \* the struct sockconn pages
    fds,      \* sockets in each process's file table
    files,    \* descriptors each process has of the file passed around
    ref,      \* f->ref of that file
    lost,     \* ghost: references to it that nothing will ever drop
    pc,       \* where each process is
    at,       \* the socket its call is on
    target,   \* connect(): the listener found
    hand,     \* the connection the call is about
    out,      \* sendmsg(): the message to send
    got,      \* what the latest step received: a message, the end, or nothing
    killed    \* p->killed

sockets == <<sock, binds, conn>>
tables  == <<fds, files, ref, lost>>
locals  == <<at, target, hand, out>>
vars    == <<sock, binds, conn, fds, files, ref, lost, pc, at, target, hand, out, got, killed>>

Message == [data : Data, nfds : 0..MAXFDMSG]
NoMessage == [data |-> CHOOSE d \in Data : TRUE, nfds |-> 0]
End == {0, 1}

\* A slot after sockalloc(), and a connection after kalloc() and after kfree().
Fresh == [inuse |-> TRUE, state |-> "unbound", path |-> NoPath, conn |-> NoConn,
          end |-> 0, backlog |-> <<>>]
Connected(c, e) == [Fresh EXCEPT !.state = "connected", !.conn = c, !.end = e]
Opened == [live |-> TRUE, open |-> [e \in End |-> TRUE], q |-> [e \in End |-> <<>>]]
Freed  == [live |-> FALSE, open |-> [e \in End |-> FALSE], q |-> [e \in End |-> <<>>]]

Init ==
    /\ sock = [s \in Slot |-> [Fresh EXCEPT !.inuse = FALSE]]
    /\ binds = [i \in 1..SOCKBINDMAX |-> [path |-> NoPath, sock |-> NoSlot]]
    /\ conn = [c \in Conn |-> Freed]
    /\ fds = [p \in Proc |-> {}]
    /\ files = [p \in Proc |-> IF p \in HasFile THEN 1 ELSE 0]
    /\ ref = Cardinality(HasFile)
    /\ lost = 0
    /\ pc = [p \in Proc |-> "user"]
    /\ at = [p \in Proc |-> NoSlot]
    /\ target = [p \in Proc |-> NoSlot]
    /\ hand = [p \in Proc |-> NoConn]
    /\ out = [p \in Proc |-> NoMessage]
    /\ got = <<>>
    /\ killed = [p \in Proc |-> FALSE]

\* The first slot, or entry, of a table that satisfies Is.
First(S, Is(_)) == {i \in S : Is(i) /\ \A j \in S : j < i => ~Is(j)}

FreeSlot == First(Slot, LAMBDA s : ~sock[s].inuse)

\* p makes a call on s; p is back in user space.
Calling(p, s) == pc[p] = "user" /\ ~killed[p] /\ s \in fds[p]
Return(p) ==
    /\ pc' = [pc EXCEPT ![p] = "user"]
    /\ at' = [at EXCEPT ![p] = NoSlot]
    /\ target' = [target EXCEPT ![p] = NoSlot]
    /\ hand' = [hand EXCEPT ![p] = NoConn]
    /\ out' = [out EXCEPT ![p] = NoMessage]

\* kill() takes none of these locks: it may come between the test of p->killed
\* and sleep(), and then wakes nobody.
KillBeforeSleep(p) ==
    \/ UNCHANGED killed
    \/ p \in Killable /\ killed' = [killed EXCEPT ![p] = TRUE]

\* wakeup(c) and wakeup(ls) over the processes' places.
WakeConn_Nobody(c, places) == places           \* mutant: no wakeup

WakeConn(c, places) ==
    [p \in Proc |-> IF hand[p] # c THEN places[p]
                    ELSE IF places[p] = "send_sleep" THEN "send"
                    ELSE IF places[p] = "recv_sleep" THEN "recv" ELSE places[p]]

WakeListen_Nobody(s, places) == places         \* mutant: no wakeup

WakeListen(s, places) ==
    [p \in Proc |-> IF at[p] = s /\ places[p] = "accept_sleep" THEN "accept"
                    ELSE places[p]]

-----------------------------------------------------------------------------
(* socket(), socketpair(), bind(), listen() *)

SockCreate(p) ==
    /\ pc[p] = "user" /\ ~killed[p]
    /\ \E s \in FreeSlot :
        /\ sock' = [sock EXCEPT ![s] = Fresh]
        /\ fds' = [fds EXCEPT ![p] = @ \cup {s}]
    /\ UNCHANGED <<binds, conn, files, ref, lost, pc, locals, killed>> /\ got' = <<>>

SockPair(p) ==
    /\ pc[p] = "user" /\ ~killed[p] /\ "socketpair" \in Calls
    /\ \E c \in Conn, s, t \in Slot :
        /\ ~conn[c].live
        /\ s \in FreeSlot
        /\ t \in First(Slot \ {s}, LAMBDA u : ~sock[u].inuse)
        /\ conn' = [conn EXCEPT ![c] = Opened]
        /\ sock' = [sock EXCEPT ![s] = Connected(c, 0), ![t] = Connected(c, 1)]
        /\ fds' = [fds EXCEPT ![p] = @ \cup {s, t}]
    /\ UNCHANGED <<binds, files, ref, lost, pc, locals, killed>> /\ got' = <<>>

\* sockpair() succeeds but filealloc() fails: the slots are given back.
SockPairNoFile(p) ==
    /\ pc[p] = "user" /\ ~killed[p] /\ {"socketpair", "files_run_out"} \subseteq Calls
    /\ \E c \in Conn, s, t \in Slot :
        /\ ~conn[c].live
        /\ s \in FreeSlot
        /\ t \in First(Slot \ {s}, LAMBDA u : ~sock[u].inuse)
        /\ conn' = [conn EXCEPT ![c] = Opened]
        /\ sock' = [sock EXCEPT ![s] = [Connected(c, 0) EXCEPT !.inuse = FALSE],
                                ![t] = [Connected(c, 1) EXCEPT !.inuse = FALSE]]
    /\ UNCHANGED <<binds, tables, pc, locals, killed>> /\ got' = <<>>

SockBind(p, s, path) ==
    /\ Calling(p, s)
    /\ sock[s].state = "unbound"
    /\ \A i \in DOMAIN binds : binds[i].sock # NoSlot => binds[i].path # path
    /\ \E i \in First(DOMAIN binds, LAMBDA j : binds[j].sock = NoSlot) :
        binds' = [binds EXCEPT ![i] = [path |-> path, sock |-> s]]
    /\ sock' = [sock EXCEPT ![s].path = path]
    /\ UNCHANGED <<conn, tables, pc, locals, killed>> /\ got' = <<>>

SockListen(p, s) ==
    /\ Calling(p, s)
    /\ sock[s].state = "unbound" /\ sock[s].path # NoPath
    /\ sock' = [sock EXCEPT ![s].state = "listening"]
    /\ UNCHANGED <<binds, conn, tables, pc, locals, killed>> /\ got' = <<>>

-----------------------------------------------------------------------------
(* connect() *)

\* The search of sbind, under its lock.
Lookup(p, s, path) ==
    /\ Calling(p, s) /\ "connect" \in Calls
    /\ sock[s].state = "unbound"
    /\ \E i \in First(DOMAIN binds, LAMBDA j : binds[j].sock # NoSlot /\ binds[j].path = path) :
        target' = [target EXCEPT ![p] = binds[i].sock]
    /\ at' = [at EXCEPT ![p] = s]
    /\ pc' = [pc EXCEPT ![p] = "found"]
    /\ UNCHANGED <<sockets, tables, hand, out, killed>> /\ got' = <<>>

\* The listener's state is looked at without a lock; a page is allocated.
NewConn(p) ==
    /\ pc[p] = "found"
    /\ IF sock[target[p]].state # "listening" \/ \A c \in Conn : conn[c].live
       THEN Return(p) /\ UNCHANGED conn
       ELSE \E c \in Conn :
            /\ ~conn[c].live
            /\ conn' = [conn EXCEPT ![c] = Opened]
            /\ hand' = [hand EXCEPT ![p] = c]
            /\ pc' = [pc EXCEPT ![p] = "push"]
            /\ UNCHANGED <<at, target, out>>
    /\ UNCHANGED <<sock, binds, tables, killed>> /\ got' = <<>>

BacklogFull(s) == Len(sock[s].backlog) = SOCKBACKLOG

\* Under listenlock.
Push(p) ==
    LET c == hand[p]
        ls == target[p]
    IN
    /\ pc[p] = "push" /\ ~BacklogFull(ls)
    /\ sock' = [sock EXCEPT ![ls].backlog = Append(@, c)]
    /\ pc' = WakeListen(ls, [pc EXCEPT ![p] = "pushed"])
    /\ UNCHANGED <<binds, conn, tables, locals, killed>> /\ got' = <<>>

PushRefused(p) ==
    /\ pc[p] = "push" /\ BacklogFull(target[p])
    /\ conn' = [conn EXCEPT ![hand[p]] = Freed]
    /\ Return(p)
    /\ UNCHANGED <<sock, binds, tables, killed>> /\ got' = <<>>

\* The last assignments of sockconnect(), to the caller's own socket.
ConnectDone(p) ==
    /\ pc[p] = "pushed"
    /\ sock' = [sock EXCEPT ![at[p]].state = "connected", ![at[p]].conn = hand[p],
                            ![at[p]].end = 0]
    /\ Return(p)
    /\ UNCHANGED <<binds, conn, tables, killed>> /\ got' = <<>>

-----------------------------------------------------------------------------
(* accept() *)

CallAccept(p, s) ==
    /\ Calling(p, s) /\ sock[s].state = "listening"
    /\ at' = [at EXCEPT ![p] = s]
    /\ pc' = [pc EXCEPT ![p] = "accept"]
    /\ UNCHANGED <<sockets, tables, target, hand, out, killed>> /\ got' = <<>>

AcceptSleep(p) ==
    /\ pc[p] = "accept" /\ sock[at[p]].backlog = <<>> /\ ~killed[p]
    /\ pc' = [pc EXCEPT ![p] = "accept_sleep"]
    /\ KillBeforeSleep(p)
    /\ UNCHANGED <<sockets, tables, locals>> /\ got' = <<>>

AcceptKilled(p) ==
    /\ pc[p] = "accept" /\ sock[at[p]].backlog = <<>> /\ killed[p]
    /\ Return(p)
    /\ UNCHANGED <<sockets, tables, killed>> /\ got' = <<>>

Pop(p) ==
    LET s == at[p] IN
    /\ pc[p] = "accept" /\ sock[s].backlog # <<>>
    /\ hand' = [hand EXCEPT ![p] = Head(sock[s].backlog)]
    /\ sock' = [sock EXCEPT ![s].backlog = Tail(@)]
    /\ pc' = [pc EXCEPT ![p] = "popped"]
    /\ UNCHANGED <<binds, conn, tables, at, target, out, killed>> /\ got' = <<>>

\* mutant: accept() returns the connector's end
AcceptDone_WrongEnd(p) ==
    /\ pc[p] = "popped"
    /\ \E s \in FreeSlot :
        /\ sock' = [sock EXCEPT ![s] = Connected(hand[p], 0)]
        /\ fds' = [fds EXCEPT ![p] = @ \cup {s}]
    /\ Return(p)
    /\ UNCHANGED <<binds, conn, files, ref, lost, killed>> /\ got' = <<>>

AcceptDone(p) ==
    /\ pc[p] = "popped"
    /\ \E s \in FreeSlot :
        /\ sock' = [sock EXCEPT ![s] = Connected(hand[p], 1)]
        /\ fds' = [fds EXCEPT ![p] = @ \cup {s}]
    /\ Return(p)
    /\ UNCHANGED <<binds, conn, files, ref, lost, killed>> /\ got' = <<>>

\* The connection once end e is closed: freed if the other end is, too.
Freeable_Either(o) == ~o[0] \/ ~o[1]           \* mutant: one closed end is enough

Freeable(o) == ~o[0] /\ ~o[1]

EndClosed(k, e) ==
    LET o == [k.open EXCEPT ![e] = FALSE] IN
    IF Freeable(o) THEN Freed ELSE [k EXCEPT !.open = o]

\* Files in the messages of a queue, and of a connection.
Carried(q) == SumFunction([i \in DOMAIN q |-> q[i].nfds])
Queued(k) == SumFunction([e \in End |-> Carried(k.q[e])])

\* Files in messages of a connection that goes from old to new.
Dropped(old, new) == IF new.live THEN 0 ELSE Queued(old)

\* No free slot: end 1 is closed, queued messages are not looked at.
AcceptNoSlot(p) ==
    LET c == hand[p] IN
    /\ pc[p] = "popped" /\ FreeSlot = {}
    /\ conn' = [conn EXCEPT ![c] = EndClosed(@, 1)]
    /\ lost' = lost + Dropped(conn[c], EndClosed(conn[c], 1))
    /\ pc' = WakeConn(c, [pc EXCEPT ![p] = "user"])
    /\ at' = [at EXCEPT ![p] = NoSlot]
    /\ hand' = [hand EXCEPT ![p] = NoConn]
    /\ UNCHANGED <<sock, binds, fds, files, ref, target, out, killed>> /\ got' = <<>>

\* filealloc() fails: sys_accept() gives the slot back, and no more.
AcceptNoFile(p) ==
    /\ pc[p] = "popped" /\ "files_run_out" \in Calls
    /\ \E s \in FreeSlot :
        sock' = [sock EXCEPT ![s] = [Connected(hand[p], 1) EXCEPT !.inuse = FALSE]]
    /\ Return(p)
    /\ UNCHANGED <<binds, conn, tables, killed>> /\ got' = <<>>

\* fdalloc() fails: fileclose() of the new file.
AcceptNoFd(p) ==
    /\ pc[p] = "popped" /\ "files_run_out" \in Calls
    /\ \E s \in FreeSlot :
        /\ sock' = [sock EXCEPT ![s] = Connected(hand[p], 1)]
        /\ at' = [at EXCEPT ![p] = s]
    /\ hand' = [hand EXCEPT ![p] = NoConn]
    /\ pc' = [pc EXCEPT ![p] = "close"]
    /\ UNCHANGED <<binds, conn, tables, target, out, killed>> /\ got' = <<>>

-----------------------------------------------------------------------------
(* sendmsg() and recvmsg() *)

\* filedup() of the files to pass, then socksend().
CallSend(p, s, m) ==
    /\ Calling(p, s) /\ sock[s].state = "connected"
    /\ m.nfds > 0 => files[p] > 0 /\ ref + m.nfds <= MaxRefs
    /\ ref' = ref + m.nfds
    /\ out' = [out EXCEPT ![p] = m]
    /\ at' = [at EXCEPT ![p] = s]
    /\ hand' = [hand EXCEPT ![p] = sock[s].conn]
    /\ pc' = [pc EXCEPT ![p] = "send"]
    /\ UNCHANGED <<sockets, fds, files, lost, target, killed>> /\ got' = <<>>

\* A good descriptor followed by a bad one: sys_sendmsg() returns -1.
SendBadFd(p, s) ==
    /\ Calling(p, s) /\ "bad_fd" \in Calls
    /\ files[p] > 0 /\ ref < MaxRefs
    /\ ref' = ref + 1
    /\ lost' = lost + 1
    /\ UNCHANGED <<sockets, fds, files, pc, locals, killed>> /\ got' = <<>>

MyEnd(p) == sock[at[p]].end
Peer(p)  == 1 - MyEnd(p)

QueueFull(p) == Len(conn[hand[p]].q[MyEnd(p)]) = SOCKQLEN

PeerOpen(p) == conn[hand[p]].open[Peer(p)]

SendSleep(p) ==
    /\ pc[p] = "send" /\ QueueFull(p) /\ PeerOpen(p) /\ ~killed[p]
    /\ pc' = [WakeConn(hand[p], pc) EXCEPT ![p] = "send_sleep"]
    /\ KillBeforeSleep(p)
    /\ UNCHANGED <<sockets, tables, locals>> /\ got' = <<>>

\* References that sendmsg() gives back when socksend() fails.
Undo_Not(p) == ref                             \* mutant: it gives none back

Undo(p) == ref - out[p].nfds

SendFails(p) ==
    /\ pc[p] = "send"
    /\ ~PeerOpen(p) \/ (QueueFull(p) /\ killed[p])
    /\ ref' = Undo(p)
    /\ Return(p)
    /\ UNCHANGED <<sockets, fds, files, lost, killed>> /\ got' = <<>>

Enqueue_Front(k, m) == <<m>> \o k              \* mutant: the queue is a stack

Enqueue(k, m) == Append(k, m)

Send(p) ==
    LET c == hand[p] IN
    /\ pc[p] = "send" /\ ~QueueFull(p) /\ PeerOpen(p)
    /\ conn' = [conn EXCEPT ![c].q[MyEnd(p)] = Enqueue(@, out[p])]
    /\ pc' = WakeConn(c, [pc EXCEPT ![p] = "user"])
    /\ at' = [at EXCEPT ![p] = NoSlot]
    /\ hand' = [hand EXCEPT ![p] = NoConn]
    /\ out' = [out EXCEPT ![p] = NoMessage]
    /\ UNCHANGED <<sock, binds, tables, target, killed>> /\ got' = <<>>

CallRecv(p, s) ==
    /\ Calling(p, s) /\ sock[s].state = "connected"
    /\ at' = [at EXCEPT ![p] = s]
    /\ hand' = [hand EXCEPT ![p] = sock[s].conn]
    /\ pc' = [pc EXCEPT ![p] = "recv"]
    /\ UNCHANGED <<sockets, tables, target, out, killed>> /\ got' = <<>>

Incoming(p) == conn[hand[p]].q[Peer(p)]

RecvSleep(p) ==
    /\ pc[p] = "recv" /\ Incoming(p) = <<>> /\ PeerOpen(p) /\ ~killed[p]
    /\ pc' = [pc EXCEPT ![p] = "recv_sleep"]
    /\ KillBeforeSleep(p)
    /\ UNCHANGED <<sockets, tables, locals>> /\ got' = <<>>

RecvKilled(p) ==
    /\ pc[p] = "recv" /\ Incoming(p) = <<>> /\ PeerOpen(p) /\ killed[p]
    /\ Return(p)
    /\ UNCHANGED <<sockets, tables, killed>> /\ got' = <<>>

RecvEnd(p) ==
    /\ pc[p] = "recv" /\ Incoming(p) = <<>> /\ ~PeerOpen(p)
    /\ got' = <<"end">>
    /\ Return(p)
    /\ UNCHANGED <<sockets, tables, killed>>

\* The files go into the file table as far as there are free entries and the
\* caller gave room for them; the others are closed again.
Recv(p) ==
    LET c == hand[p]
        m == Head(Incoming(p))
    IN
    /\ pc[p] = "recv" /\ Incoming(p) # <<>>
    /\ got' = <<"message", m>>
    /\ conn' = [conn EXCEPT ![c].q[Peer(p)] = Tail(@)]
    /\ pc' = WakeConn(c, [pc EXCEPT ![p] = "user"])
    /\ \E n \in 0..m.nfds :
        /\ files' = [files EXCEPT ![p] = @ + n]
        /\ ref' = ref - (m.nfds - n)
    /\ at' = [at EXCEPT ![p] = NoSlot]
    /\ hand' = [hand EXCEPT ![p] = NoConn]
    /\ UNCHANGED <<sock, binds, fds, lost, target, out, killed>>

-----------------------------------------------------------------------------
(* fork(), close(), exit(), kill() *)

\* q is a new process with p's file table.
Inherit(p, q) ==
    /\ pc[p] = "user" /\ ~killed[p] /\ "fork" \in Calls
    /\ fds[p] # {} /\ fds[q] = {} /\ files[q] = 0 /\ pc[q] = "user" /\ ~killed[q]
    /\ ref + files[p] <= MaxRefs
    /\ fds' = [fds EXCEPT ![q] = fds[p]]
    /\ files' = [files EXCEPT ![q] = files[p]]
    /\ ref' = ref + files[p]
    /\ UNCHANGED <<sockets, lost, pc, locals, killed>> /\ got' = <<>>

LastHolder_Always(p, s) == TRUE                \* mutant: ignores f->ref

LastHolder(p, s) == \A q \in Proc \ {p} : s \notin fds[q]

\* fileclose(): the last reference is on its way to sockclose().
Close(p, s) ==
    /\ pc[p] = "user" /\ s \in fds[p]
    /\ sock[s].state = "listening" => "close_listener" \in Calls \/ ~LastHolder(p, s)
    /\ sock[s].state = "unbound" /\ sock[s].path # NoPath
          => "close_bound" \in Calls \/ ~LastHolder(p, s)
    /\ fds' = [fds EXCEPT ![p] = @ \ {s}]
    /\ IF LastHolder(p, s)
       THEN pc' = [pc EXCEPT ![p] = "close"] /\ at' = [at EXCEPT ![p] = s]
       ELSE UNCHANGED <<pc, at>>
    /\ UNCHANGED <<sockets, files, ref, lost, target, hand, out, killed>> /\ got' = <<>>

CloseFile(p) ==
    /\ pc[p] = "user" /\ files[p] > 0
    /\ files' = [files EXCEPT ![p] = @ - 1]
    /\ ref' = ref - 1
    /\ UNCHANGED <<sockets, fds, lost, pc, locals, killed>> /\ got' = <<>>

\* The files drained from a connection that is freed are closed.
Drain(old, new) == Dropped(old, new)

\* sockclose() of a connected socket; the drained files are closed.
CloseConn(p) ==
    LET s == at[p]
        c == sock[s].conn
    IN
    /\ pc[p] = "close" /\ sock[s].state = "connected"
    /\ conn' = [conn EXCEPT ![c] = EndClosed(@, sock[s].end)]
    /\ ref' = ref - Drain(conn[c], EndClosed(conn[c], sock[s].end))
    /\ sock' = [sock EXCEPT ![s].inuse = FALSE]
    /\ pc' = WakeConn(c, [pc EXCEPT ![p] = "user"])
    /\ at' = [at EXCEPT ![p] = NoSlot]
    /\ UNCHANGED <<binds, fds, files, lost, target, hand, out, killed>> /\ got' = <<>>

\* sockclose() of a socket that is neither connected nor listening.
CloseUnbound(p) ==
    /\ pc[p] = "close" /\ sock[at[p]].state = "unbound"
    /\ sock' = [sock EXCEPT ![at[p]].inuse = FALSE]
    /\ Return(p)
    /\ UNCHANGED <<binds, conn, tables, killed>> /\ got' = <<>>

\* sockclose() of a listener, under listenlock: close the accepting ends of
\* the pending connections; queued messages are not looked at.
CloseListener(p) ==
    LET s == at[p]
        pending == {sock[s].backlog[i] : i \in DOMAIN sock[s].backlog}
    IN
    /\ pc[p] = "close" /\ sock[s].state = "listening"
    /\ conn' = [c \in Conn |-> IF c \in pending THEN EndClosed(conn[c], 1) ELSE conn[c]]
    /\ lost' = lost + SumFunction([c \in pending |-> Dropped(conn[c], EndClosed(conn[c], 1))])
    /\ sock' = [sock EXCEPT ![s].backlog = <<>>]
    /\ pc' = [q \in Proc |-> IF q = p THEN "unbind"
                             ELSE IF hand[q] \in pending THEN WakeConn(hand[q], pc)[q]
                             ELSE pc[q]]
    /\ UNCHANGED <<binds, fds, files, ref, locals, killed>> /\ got' = <<>>

\* Its path is free again, and then its slot; the rest of the slot remains.
Unbind(p) ==
    /\ pc[p] = "unbind"
    /\ binds' = [i \in DOMAIN binds |->
                    IF i \in First(DOMAIN binds, LAMBDA j : binds[j].sock = at[p])
                    THEN [binds[i] EXCEPT !.sock = NoSlot] ELSE binds[i]]
    /\ sock' = [sock EXCEPT ![at[p]].inuse = FALSE]
    /\ Return(p)
    /\ UNCHANGED <<conn, tables, killed>> /\ got' = <<>>

Kill(p) ==
    /\ ~killed[p]
    /\ killed' = [killed EXCEPT ![p] = TRUE]
    /\ pc' = [pc EXCEPT ![p] = IF @ = "accept_sleep" THEN "accept"
                               ELSE IF @ = "send_sleep" THEN "send"
                               ELSE IF @ = "recv_sleep" THEN "recv" ELSE @]
    /\ UNCHANGED <<sockets, tables, locals>> /\ got' = <<>>

-----------------------------------------------------------------------------
CallStep(p) ==
    \/ NewConn(p) \/ Push(p) \/ PushRefused(p) \/ ConnectDone(p)
    \/ AcceptSleep(p) \/ AcceptKilled(p) \/ Pop(p)
    \/ AcceptDone(p) \/ AcceptNoSlot(p) \/ AcceptNoFile(p) \/ AcceptNoFd(p)
    \/ SendSleep(p) \/ SendFails(p) \/ Send(p)
    \/ RecvSleep(p) \/ RecvKilled(p) \/ RecvEnd(p) \/ Recv(p)
    \/ CloseConn(p) \/ CloseUnbound(p) \/ CloseListener(p) \/ Unbind(p)

Next ==
    \/ \E p \in Proc :
        \/ CallStep(p)
        \/ SockCreate(p) \/ SockPair(p) \/ SockPairNoFile(p)
        \/ CloseFile(p)
        \/ \E q \in Proc : Inherit(p, q)
        \/ \E s \in Slot :
            \/ \E path \in Path : SockBind(p, s, path) \/ Lookup(p, s, path)
            \/ SockListen(p, s) \/ CallAccept(p, s)
            \/ \E m \in Message : CallSend(p, s, m)
            \/ SendBadFd(p, s)
            \/ CallRecv(p, s)
            \/ Close(p, s)
    \/ \E p \in Killable : Kill(p)

Spec == Init /\ [][Next]_vars

\* A process that can run gets the lock it needs and goes on.
FairSpec == Spec /\ \A p \in Proc : WF_vars(CallStep(p))

-----------------------------------------------------------------------------
(* Properties *)

Places == {"user", "found", "push", "pushed", "accept", "accept_sleep", "popped",
           "send", "send_sleep", "recv", "recv_sleep", "close", "unbind"}

TypeOK ==
    /\ sock \in [Slot -> [inuse : BOOLEAN, state : {"unbound", "listening", "connected"},
                          path : Path \cup {NoPath}, conn : Conn \cup {NoConn},
                          end : End, backlog : Seq(Conn)]]
    /\ binds \in [1..SOCKBINDMAX -> [path : Path \cup {NoPath}, sock : Slot \cup {NoSlot}]]
    /\ conn \in [Conn -> [live : BOOLEAN, open : [End -> BOOLEAN], q : [End -> Seq(Message)]]]
    /\ fds \in [Proc -> SUBSET Slot]
    /\ files \in [Proc -> 0..MaxRefs] /\ ref \in 0..MaxRefs /\ lost \in 0..MaxRefs
    /\ pc \in [Proc -> Places]
    /\ at \in [Proc -> Slot \cup {NoSlot}] /\ target \in [Proc -> Slot \cup {NoSlot}]
    /\ hand \in [Proc -> Conn \cup {NoConn}]
    /\ out \in [Proc -> Message]
    /\ got \in {<<>>, <<"end">>} \cup ({"message"} \X Message)
    /\ killed \in [Proc -> BOOLEAN]

\* A socket that some process can use, or is closing.
Held(s) == (\E p \in Proc : s \in fds[p]) \/ \E p \in Proc : pc[p] = "close" /\ at[p] = s

\* socket.h:35-37 "freed only once both sides have closed": whoever can reach
\* a connection, from a socket, a backlog or the middle of a call, finds a
\* page that is still allocated, although the two ends, connect(), accept()
\* and the closing listener each decide to free it under different locks.
NoUseAfterFree ==
    /\ \A s \in Slot : Held(s) /\ sock[s].state = "connected" => conn[sock[s].conn].live
    /\ \A s \in Slot : \A i \in DOMAIN sock[s].backlog : conn[sock[s].backlog[i]].live
    /\ \A p \in Proc : hand[p] # NoConn => conn[hand[p]].live

\* A slot is given to somebody else only after its last holder closed it, and
\* each end of a connection belongs to one socket.
OneSocketPerEnd ==
    /\ \A s \in Slot : Held(s) => sock[s].inuse
    /\ \A s, t \in Slot :
          /\ Held(s) /\ Held(t)
          /\ sock[s].state = "connected" /\ sock[t].state = "connected"
          /\ sock[s].conn = sock[t].conn /\ sock[s].end = sock[t].end
          => s = t

\* No wakeup is lost: a sender sleeps only while the queue is full, a receiver
\* while it is empty, an acceptor while nothing is pending; and the first two
\* only while the other end is open.
SleepersJustified ==
    \A p \in Proc :
        /\ pc[p] = "send_sleep" => QueueFull(p) /\ PeerOpen(p)
        /\ pc[p] = "recv_sleep" => Incoming(p) = <<>> /\ PeerOpen(p)
        /\ pc[p] = "accept_sleep" => sock[at[p]].backlog = <<>>

\* The ring of pending connections and the rings of messages stay in bounds.
RingBound ==
    /\ \A s \in Slot : Len(sock[s].backlog) <= SOCKBACKLOG
    /\ \A c \in Conn, e \in End : Len(conn[c].q[e]) <= SOCKQLEN

\* A file that travels in messages is not freed while somebody can still reach
\* it, nor kept longer: f->ref counts the descriptors, the messages that carry
\* it, those about to be sent (filedup() in sys_sendmsg()), and what was lost.
RefsAccounted ==
    ref = lost + SumFunction(files) + SumFunction([c \in Conn |-> Queued(conn[c])])
          + SumFunction([p \in Proc |-> out[p].nfds])

\* socket.c:391-392 "closing their passed fds rather than leaking the
\* reference filedup() took": no path drops a message and keeps its files.
NothingLost == lost = 0

\* The peer of end 0 of connection c can still accept it, use it or close it.
AcceptorExists(c) ==
    \/ \E s \in Slot : /\ Held(s) \/ \E p \in Proc : pc[p] = "unbind" /\ at[p] = s
                       /\ \/ sock[s].state = "listening" /\ \E i \in DOMAIN sock[s].backlog : sock[s].backlog[i] = c
                          \/ sock[s].state = "connected" /\ sock[s].conn = c /\ sock[s].end = 1
    \/ \E p \in Proc : pc[p] = "popped" /\ hand[p] = c

\* socket.c:334-335 "a closed peer makes the fd immediately ready rather than
\* blocking forever": a connected socket whose peer is gone is told so.
PeerGoneIsSeen ==
    \A s \in Slot :
        /\ Held(s) /\ sock[s].state = "connected" /\ sock[s].end = 0
        /\ conn[sock[s].conn].open[1]
        => AcceptorExists(sock[s].conn)

\* socket.c:30-31 "path -> listening struct socket*, populated by sockbind()": a bound path leads to a
\* socket that exists and was bound to that path.
PathsLeadToTheirSockets ==
    \A i \in DOMAIN binds :
        LET s == binds[i].sock IN
        s # NoSlot => sock[s].inuse /\ sock[s].path = binds[i].path

\* Connections carry messages whole, in order and once each, and report the
\* end only when there is one: sockets implement MessageChannels.
Channels == INSTANCE MessageChannels
    WITH live <- {c \in Conn : conn[c].live},
         open <- [c \in Conn |-> conn[c].open],
         q <- [c \in Conn |-> conn[c].q],
         QueueLen <- SOCKQLEN

RefinesChannels == Channels!Spec

\* A process blocked on a connection whose other end closes gets an answer.
PeerCloseWakes ==
    \A p \in Proc :
        pc[p] \in {"send", "send_sleep", "recv", "recv_sleep"} /\ ~PeerOpen(p)
            ~> pc[p] = "user"
=============================================================================
