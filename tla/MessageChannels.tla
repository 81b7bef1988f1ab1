-------------------------- MODULE MessageChannels --------------------------
(***************************************************************************)
(* What connected sockets promise: a connection is two bounded queues of   *)
(* messages, one each way.  Messages arrive whole, once each and in the    *)
(* order they were sent; a receiver that gets none is told so only after   *)
(* the other end has closed, and nothing is sent to an end that is closed. *)
(***************************************************************************)
EXTENDS Naturals, Sequences

CONSTANTS Conn, Message, QueueLen

VARIABLES
    live,       \* connections that exist
    open,       \* open[c][e]: end e of connection c is open
    q,          \* q[c][e]: messages on their way from end e to end 1 - e
    got         \* what the latest step received: a message, the end, or nothing

vars == <<live, open, q, got>>

End == {0, 1}

Init ==
    /\ live = {}
    /\ open = [c \in Conn |-> [e \in End |-> FALSE]]
    /\ q = [c \in Conn |-> [e \in End |-> <<>>]]
    /\ got = <<>>

Create(c) ==
    /\ c \notin live
    /\ live' = live \cup {c}
    /\ open' = [open EXCEPT ![c] = [e \in End |-> TRUE]]
    /\ UNCHANGED q /\ got' = <<>>

Send(c, e, m) ==
    /\ c \in live /\ open[c][1 - e]
    /\ Len(q[c][e]) < QueueLen
    /\ q' = [q EXCEPT ![c][e] = Append(@, m)]
    /\ UNCHANGED <<live, open>> /\ got' = <<>>

Receive(c, e) ==
    /\ c \in live /\ q[c][1 - e] # <<>>
    /\ got' = <<"message", Head(q[c][1 - e])>>
    /\ q' = [q EXCEPT ![c][1 - e] = Tail(@)]
    /\ UNCHANGED <<live, open>>

EndOfFile(c, e) ==
    /\ c \in live /\ q[c][1 - e] = <<>> /\ ~open[c][1 - e]
    /\ got' = <<"end">>
    /\ UNCHANGED <<live, open, q>>

Close(c, e) ==
    /\ c \in live /\ open[c][e] /\ open[c][1 - e]
    /\ open' = [open EXCEPT ![c][e] = FALSE]
    /\ UNCHANGED <<live, q>> /\ got' = <<>>

\* The second end closes; messages nobody will receive are dropped.
CloseLast(c, e) ==
    /\ c \in live /\ open[c][e] /\ ~open[c][1 - e]
    /\ live' = live \ {c}
    /\ open' = [open EXCEPT ![c][e] = FALSE]
    /\ q' = [q EXCEPT ![c] = [d \in End |-> <<>>]]
    /\ got' = <<>>

\* A listening socket closes: so do the accepting ends it had pending, and a
\* connection whose other end has closed before is gone.
CloseSome(C) ==
    LET gone == {c \in C : ~open[c][0]} IN
    /\ C \subseteq live
    /\ live' = live \ gone
    /\ open' = [c \in Conn |-> IF c \in C THEN [open[c] EXCEPT ![1] = FALSE] ELSE open[c]]
    /\ q' = [c \in Conn |-> IF c \in gone THEN [d \in End |-> <<>>] ELSE q[c]]
    /\ got' = <<>>

\* connect() is refused, or socketpair() fails: the connection never was.
Refuse(c) ==
    /\ c \in live
    /\ live' = live \ {c}
    /\ open' = [open EXCEPT ![c] = [e \in End |-> FALSE]]
    /\ UNCHANGED q /\ got' = <<>>

\* Nothing is sent, received or closed.
Other == UNCHANGED <<live, open, q>> /\ got' = <<>>

Next ==
    \/ Other
    \/ \E c \in Conn :
        \/ Create(c) \/ Refuse(c)
        \/ \E e \in End :
            \/ \E m \in Message : Send(c, e, m)
            \/ Receive(c, e) \/ EndOfFile(c, e)
            \/ Close(c, e) \/ CloseLast(c, e)
    \/ \E C \in SUBSET Conn : CloseSome(C)

Spec == Init /\ [][Next]_vars
=============================================================================
