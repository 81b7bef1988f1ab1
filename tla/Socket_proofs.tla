---------------------------- MODULE Socket_proofs ----------------------------
(***************************************************************************)
(* Proofs about Socket, for every set of processes, connections, paths and *)
(* messages, every size of the tables and queues, and whatever the         *)
(* programs do besides (Calls).                                            *)
(***************************************************************************)
EXTENDS Socket, Counters, SequenceTheorems, TLAPS

-----------------------------------------------------------------------------
(* The inductive invariant *)

\* Places in a call: with connect(), with an end of a connection, on the way
\* out of close(), in a call on a socket the process holds, asleep.
Connecting == {"found", "push", "pushed"}
Talking    == {"send", "send_sleep", "recv", "recv_sleep"}
Handing    == {"push", "pushed", "popped"} \cup Talking
Closing    == {"close", "unbind"}
Inside     == Connecting \cup {"accept", "accept_sleep", "popped"} \cup Talking

Letter == Message \cup {NoMessage}

\* The types, without the counts of references, which need the sums below.
Struct == [inuse : BOOLEAN, state : {"unbound", "listening", "connected"},
           path : Path \cup {NoPath}, conn : Conn \cup {NoConn},
           end : End, backlog : Seq(Conn)]
Entry == [path : Path \cup {NoPath}, sock : Slot \cup {NoSlot}]
Page == [live : BOOLEAN, open : [End -> BOOLEAN], q : [End -> Seq(Letter)]]
LocalTypes ==
    /\ pc \in [Proc -> Places]
    /\ at \in [Proc -> Slot \cup {NoSlot}] /\ target \in [Proc -> Slot \cup {NoSlot}]
    /\ hand \in [Proc -> Conn \cup {NoConn}]
    /\ out \in [Proc -> Letter]
TypeInv ==
    /\ sock \in [Slot -> Struct]
    /\ binds \in [1..SOCKBINDMAX -> Entry]
    /\ conn \in [Conn -> Page]
    /\ fds \in [Proc -> SUBSET Slot]
    /\ LocalTypes
    /\ killed \in [Proc -> BOOLEAN]

\* Only connected sockets have a connection, or are the second end of one.
SlotInv == \A s \in Slot :
    /\ sock[s].state # "connected" => sock[s].end = 0
    /\ sock[s].state = "connected" => sock[s].conn \in Conn

\* Where a process is says what its locals hold, and what its socket is.
InPlace(p) ==
    /\ pc[p] # "user" => at[p] \in Slot
    /\ pc[p] \in {"found", "push"} => target[p] \in Slot
    /\ IF pc[p] \in Handing THEN hand[p] \in Conn ELSE hand[p] = NoConn
    /\ pc[p] \in Inside => at[p] \in fds[p]
    /\ pc[p] \in Connecting => sock[at[p]].end = 0
    /\ pc[p] \in Talking => sock[at[p]].state = "connected"
    /\ pc[p] = "unbind" => sock[at[p]].state = "listening"

PlaceInv == \A p \in Proc : InPlace(p)

\* Who closes a socket is alone with it.
ClosingInv == \A p \in Proc : pc[p] \in Closing =>
    \A q \in Proc : /\ at[p] \notin fds[q]
                    /\ pc[q] \in Closing /\ at[q] = at[p] => q = p

\* A slot is in use while anybody can get at it.
Kept(s) == \E p \in Proc : s \in fds[p] \/ (pc[p] \in Closing /\ at[p] = s)
UseInv == \A s \in Slot : Kept(s) => sock[s].inuse

\* Who is to close end e of connection c: a socket, or a call that still uses
\* what was its connection; the backlog of a socket; a process on its way from
\* one to the other.
SocketHas(s, c, e) ==
    /\ sock[s].end = e
    /\ \/ Held(s) /\ sock[s].state = "connected" /\ sock[s].conn = c
       \/ \E p \in Proc : pc[p] \in Talking /\ at[p] = s /\ hand[p] = c
BacklogHas(s, c, e) == e = 1 /\ \E i \in DOMAIN sock[s].backlog : sock[s].backlog[i] = c
ProcessHas(p, c, e) ==
    /\ hand[p] = c
    /\ pc[p] = "push" \/ (pc[p] = "pushed" /\ e = 0) \/ (pc[p] = "popped" /\ e = 1)

Owns(o, c, e) ==
    \/ \E s \in Slot : o = <<"socket", s>> /\ SocketHas(s, c, e)
    \/ \E s \in Slot : o = <<"backlog", s>> /\ BacklogHas(s, c, e)
    \/ \E p \in Proc : o = <<"process", p>> /\ ProcessHas(p, c, e)
Owner == ({"socket", "backlog"} \X Slot) \cup ({"process"} \X Proc)

\* Each end has one owner at most; while it has one, it is open.
OwnerInv == \A c \in Conn, e \in End, x \in Owner, y \in Owner :
    Owns(x, c, e) /\ Owns(y, c, e) => x = y
OpenInv == \A c \in Conn, e \in End, x \in Owner :
    Owns(x, c, e) => conn[c].live /\ conn[c].open[e]

\* A connection is pending once.
BacklogInv == \A s \in Slot : \A i, j \in DOMAIN sock[s].backlog :
    sock[s].backlog[i] = sock[s].backlog[j] => i = j

IInv ==
    /\ TypeInv
    /\ SlotInv
    /\ PlaceInv
    /\ ClosingInv
    /\ UseInv
    /\ OwnerInv
    /\ OpenInv
    /\ BacklogInv
    /\ SleepersJustified
-----------------------------------------------------------------------------
(* Slots, ends, places *)

LEMMA Sizes ==
    /\ NSOCKET \in Nat \ {0} /\ SOCKBINDMAX \in Nat
    /\ SOCKBACKLOG \in Nat \ {0} /\ NoConn \notin Conn /\ NoSlot \notin Slot
    /\ Killable \subseteq Proc /\ 0 \in End /\ 1 \in End
  BY SocketAssumption DEF Slot, NoSlot, End

LEMMA FreeSlots == FreeSlot \subseteq Slot /\ \A s \in FreeSlot : ~sock[s].inuse
  BY DEF FreeSlot, First

\* A record that is stored in a table of records.
LEMMA FreshTyped ==
    Fresh \in Struct
<1>1. <<>> \in Seq(Conn)
  OBVIOUS
<1> QED
  BY <1>1 DEF Fresh, End, Struct

LEMMA ConnectedTyped ==
    ASSUME NEW c \in Conn \cup {NoConn}, NEW x \in End
    PROVE  /\ Connected(c, x) \in Struct
           /\ Connected(c, x).inuse /\ Connected(c, x).state = "connected"
           /\ Connected(c, x).conn = c /\ Connected(c, x).end = x
           /\ Connected(c, x).backlog = <<>>
  BY FreshTyped DEF Connected, Fresh, Struct

LEMMA PagesTyped ==
    /\ Opened \in Page
    /\ Freed \in Page
    /\ Opened.live /\ \A x \in End : Opened.open[x]
<1>1. <<>> \in Seq(Letter)
  OBVIOUS
<1> QED
  BY <1>1 DEF Opened, Freed, Page

LEMMA UnusedTyped ==
    ASSUME NEW r \in Struct, NEW k, k = [r EXCEPT !.inuse = FALSE]
    PROVE  /\ k \in Struct /\ ~k.inuse /\ k.state = r.state /\ k.conn = r.conn
           /\ k.backlog = r.backlog
<1>1. r = [inuse |-> r.inuse, state |-> r.state, path |-> r.path, conn |-> r.conn,
           end |-> r.end, backlog |-> r.backlog]
  BY DEF Struct
<1>2. k = [inuse |-> FALSE, state |-> r.state, path |-> r.path, conn |-> r.conn,
           end |-> r.end, backlog |-> r.backlog]
  BY <1>1
<1> QED
  BY <1>2 DEF Struct

LEMMA PendingTyped ==
    ASSUME NEW r \in Struct, NEW z \in Seq(Conn), NEW k, k = [r EXCEPT !.backlog = z]
    PROVE  /\ k \in Struct /\ k.inuse = r.inuse /\ k.state = r.state /\ k.conn = r.conn
           /\ k.end = r.end /\ k.backlog = z
  BY DEF Struct

\* What closing one end does to the other.
LEMMA EndClosedIs ==
    ASSUME NEW k \in Page,
           NEW x \in End
    PROVE  /\ EndClosed(k, x) \in Page
           /\ \A y \in End \ {x} : k.live /\ k.open[y]
                 => EndClosed(k, x).live /\ EndClosed(k, x).open[y]
  BY PagesTyped DEF EndClosed, Freeable, End, Page

\* kill() and the wakeups make sleepers runnable, and do nothing else.
Woken(x, y) ==
    \/ y = x
    \/ x = "send_sleep" /\ y = "send"
    \/ x = "recv_sleep" /\ y = "recv"
    \/ x = "accept_sleep" /\ y = "accept"

LEMMA WakeConnIs ==
    ASSUME NEW c, NEW places \in [Proc -> Places]
    PROVE  /\ WakeConn(c, places) \in [Proc -> Places]
           /\ \A p \in Proc :
                 /\ Woken(places[p], WakeConn(c, places)[p])
                 /\ WakeConn(c, places)[p] \in {"send_sleep", "recv_sleep"} => hand[p] # c
                 /\ hand[p] # c => WakeConn(c, places)[p] = places[p]
  BY DEF WakeConn, Woken, Places

LEMMA WakeListenIs ==
    ASSUME NEW s, NEW places \in [Proc -> Places]
    PROVE  /\ WakeListen(s, places) \in [Proc -> Places]
           /\ \A p \in Proc :
                 /\ Woken(places[p], WakeListen(s, places)[p])
                 /\ WakeListen(s, places)[p] = "accept_sleep" => at[p] # s
                 /\ at[p] # s => WakeListen(s, places)[p] = places[p]
  BY DEF WakeListen, Woken, Places

-----------------------------------------------------------------------------
(* Backlogs *)

LEMMA PendingAppend ==
    ASSUME NEW b \in Seq(Conn), NEW c \in Conn
    PROVE  /\ Append(b, c) \in Seq(Conn)
           /\ \A d : (\E i \in DOMAIN Append(b, c) : Append(b, c)[i] = d)
                        => d = c \/ \E i \in DOMAIN b : b[i] = d
           /\ /\ \A i \in DOMAIN b : b[i] # c
              /\ \A i, j \in DOMAIN b : b[i] = b[j] => i = j
              => \A i, j \in DOMAIN Append(b, c) : Append(b, c)[i] = Append(b, c)[j] => i = j
<1>1. /\ Append(b, c) \in Seq(Conn) /\ Len(b) \in Nat
      /\ DOMAIN b = 1..Len(b) /\ DOMAIN Append(b, c) = 1..Len(b) + 1
      /\ \A i \in 1..Len(b) : Append(b, c)[i] = b[i]
      /\ Append(b, c)[Len(b) + 1] = c
  BY AppendProperties
<1>2. \A i \in DOMAIN Append(b, c) : i \in DOMAIN b \/ i = Len(b) + 1
  BY <1>1
<1> QED
  BY <1>1, <1>2

LEMMA PendingTail ==
    ASSUME NEW b \in Seq(Conn), b # <<>>
    PROVE  /\ Tail(b) \in Seq(Conn) /\ Head(b) \in Conn
           /\ \E i \in DOMAIN b : b[i] = Head(b)
           /\ \A d : (\E i \in DOMAIN Tail(b) : Tail(b)[i] = d) => \E i \in DOMAIN b : b[i] = d
           /\ (\A i, j \in DOMAIN b : b[i] = b[j] => i = j)
              => /\ \A i, j \in DOMAIN Tail(b) : Tail(b)[i] = Tail(b)[j] => i = j
                 /\ \A i \in DOMAIN Tail(b) : Tail(b)[i] # Head(b)
<1>1. /\ Tail(b) \in Seq(Conn) /\ Head(b) \in Conn /\ Len(b) \in Nat \ {0} /\ Head(b) = b[1]
      /\ DOMAIN b = 1..Len(b) /\ DOMAIN Tail(b) = 1..Len(b) - 1
      /\ \A i \in 1..Len(b) - 1 : Tail(b)[i] = b[i + 1]
  BY HeadTailProperties
<1>2. \A i \in DOMAIN Tail(b) : i + 1 \in DOMAIN b /\ i + 1 # 1 /\ Tail(b)[i] = b[i + 1]
  BY <1>1
<1>3. 1 \in DOMAIN b
  BY <1>1
<1>4. ASSUME \A i, j \in DOMAIN b : b[i] = b[j] => i = j,
             NEW i \in DOMAIN Tail(b), NEW j \in DOMAIN Tail(b), Tail(b)[i] = Tail(b)[j]
      PROVE  i = j
  <2>1. i + 1 = j + 1
    BY <1>2, <1>4
  <2> QED
    BY <1>1, <2>1
<1> QED
  BY <1>1, <1>2, <1>3, <1>4

-----------------------------------------------------------------------------
(* What a step does to places, ends and sleepers *)

Asleep == {"send_sleep", "recv_sleep", "accept_sleep"}

\* A step of p wakes others, and does nothing else to them.
OthersWait(p) == \A q \in Proc \ {p} :
    /\ Woken(pc[q], pc'[q])
    /\ at'[q] = at[q] /\ target'[q] = target[q] /\ hand'[q] = hand[q]

\* What others rely on in the slots that are in use; p may give up the one it
\* is closing, and connect one that it holds.
SlotsStay(p) == \A s \in Slot : sock[s].inuse =>
    /\ sock'[s].inuse \/ (pc[p] \in Closing /\ pc'[p] = "user" /\ at[p] = s)
    /\ sock'[s].end = sock[s].end
    /\ sock[s].state = "connected" => sock'[s].state = "connected"
    /\ sock[s].state = "listening" => sock'[s].state = "listening" \/ s \in fds[p]

LEMMA PlacesKept ==
    ASSUME TypeInv, PlaceInv, ClosingInv, UseInv, NEW p \in Proc, OthersWait(p), SlotsStay(p),
           InPlace(p)',
           fds' \in [Proc -> SUBSET Slot], pc' \in [Proc -> Places],
           \A q \in Proc \ {p} : fds'[q] = fds[q],
           \A s \in fds'[p] \ fds[p] :
              sock'[s].inuse /\ \A q \in Proc : ~(pc[q] \in Closing /\ at[q] = s),
           pc'[p] \in Closing =>
              \/ pc[p] \in Closing /\ at'[p] = at[p]
              \/ /\ sock'[at'[p]].inuse /\ \A q \in Proc : at'[p] \notin fds'[q]
                 /\ \A q \in Proc \ {p} : ~(pc[q] \in Closing /\ at[q] = at'[p])
    PROVE  PlaceInv' /\ ClosingInv' /\ UseInv'
<1>1. ASSUME NEW q \in Proc \ {p} PROVE InPlace(q)'
  <2>0. /\ InPlace(q) /\ Woken(pc[q], pc'[q]) /\ fds'[q] = fds[q]
        /\ at'[q] = at[q] /\ target'[q] = target[q] /\ hand'[q] = hand[q]
    BY <1>1 DEF PlaceInv, OthersWait
  <2>1. CASE pc[q] \in Inside
    <3>1. at[q] \in fds[q] /\ at[q] \in Slot
      BY <2>0, <2>1 DEF InPlace, TypeInv
    <3>2. sock[at[q]].inuse /\ ~(pc[p] \in Closing /\ at[p] = at[q])
      BY <3>1 DEF UseInv, Kept, ClosingInv
    <3>3. /\ sock'[at[q]].end = sock[at[q]].end
          /\ sock[at[q]].state = "connected" => sock'[at[q]].state = "connected"
      BY <3>1, <3>2 DEF SlotsStay
    <3>4. pc'[q] \in Inside /\ (pc'[q] \in Handing <=> pc[q] \in Handing)
          /\ (pc'[q] \in Connecting => pc[q] \in Connecting)
          /\ (pc'[q] \in Talking => pc[q] \in Talking)
          /\ (pc'[q] \in {"found", "push"} => pc[q] \in {"found", "push"})
          /\ pc'[q] # "unbind" /\ pc[q] # "user"
      BY <2>0, <2>1 DEF Woken, Inside, Handing, Connecting, Talking
    <3> QED
      BY <2>0, <3>1, <3>3, <3>4 DEF InPlace
  <2>2. CASE pc[q] \notin Inside
    <3>1. pc'[q] = pc[q]
      BY <2>0, <2>2 DEF Woken, Inside, Talking
    <3>2. pc[q] = "unbind" => sock'[at[q]].state = "listening"
      <4> SUFFICES ASSUME pc[q] = "unbind" PROVE sock'[at[q]].state = "listening"
        OBVIOUS
      <4>1. at[q] \in Slot /\ sock[at[q]].inuse /\ at[q] \notin fds[p]
        BY <2>0 DEF InPlace, UseInv, Kept, ClosingInv, Closing
      <4> QED
        BY <2>0, <4>1 DEF SlotsStay, InPlace
    <3>3. pc[q] \notin Connecting /\ pc[q] \notin Talking
      BY <2>2 DEF Inside
    <3> QED
      BY <2>0, <2>2, <3>1, <3>2, <3>3 DEF InPlace
  <2> QED
    BY <2>1, <2>2
<1>2. ASSUME NEW q \in Proc \ {p} PROVE pc'[q] \in Closing <=> pc[q] \in Closing
  BY <1>2 DEF OthersWait, Woken, Closing
<1>3. ClosingInv'
  <2>1. ASSUME NEW q \in Proc, pc'[q] \in Closing, q # p
        PROVE  \A t \in Proc : at'[q] \notin fds'[t]
    <3>1. pc[q] \in Closing /\ at'[q] = at[q]
      BY <1>2, <2>1 DEF OthersWait
    <3> QED
      BY <3>1 DEF ClosingInv
  <2>2. ASSUME pc'[p] \in Closing PROVE \A t \in Proc : at'[p] \notin fds'[t]
    BY <2>2 DEF ClosingInv
  <2>3. ASSUME NEW q \in Proc, NEW t \in Proc, pc'[q] \in Closing, pc'[t] \in Closing,
               at'[q] = at'[t], q # p, t # p
        PROVE  q = t
    BY <1>2, <2>3 DEF ClosingInv, OthersWait
  <2>4. ASSUME NEW q \in Proc \ {p}, pc'[q] \in Closing, pc'[p] \in Closing, at'[q] = at'[p]
        PROVE  FALSE
    <3>1. pc[q] \in Closing /\ at'[q] = at[q]
      BY <1>2, <2>4 DEF OthersWait
    <3> QED
      BY <2>4, <3>1 DEF ClosingInv
  <2> QED
    BY <2>1, <2>2, <2>3, <2>4 DEF ClosingInv
<1>4. UseInv'
  <2> SUFFICES ASSUME NEW s \in Slot, Kept(s)' PROVE sock'[s].inuse
    BY DEF UseInv
  <2>1. PICK q \in Proc : s \in fds'[q] \/ (pc'[q] \in Closing /\ at'[q] = s)
    BY DEF Kept
  <2>2. CASE s \in fds'[p] \ fds[p]
    BY <2>2
  <2>3. CASE q = p /\ ~(pc[p] \in Closing /\ at'[p] = at[p]) /\ pc'[p] \in Closing /\ at'[p] = s
    BY <2>3
  <2>4. CASE \/ s \in fds[q]
             \/ q # p /\ pc[q] \in Closing /\ at[q] = s
             \/ q = p /\ pc[p] \in Closing /\ at[p] = s /\ pc'[p] \in Closing
    <3>1. sock[s].inuse
      BY <2>4 DEF UseInv, Kept
    <3>2. ~(pc[p] \in Closing /\ pc'[p] = "user" /\ at[p] = s)
      BY <2>4 DEF ClosingInv, Closing
    <3> QED
      BY <3>1, <3>2 DEF SlotsStay
  <2> QED
    BY <1>2, <2>1, <2>2, <2>3, <2>4 DEF OthersWait
<1> QED
  BY <1>1, <1>3, <1>4 DEF PlaceInv

LEMMA SleepersKept ==
    ASSUME TypeInv, PlaceInv, UseInv, SleepersJustified, NEW p \in Proc,
           OthersWait(p), SlotsStay(p),
           \A q \in Proc \ {p} : pc'[q] \in {"send_sleep", "recv_sleep"} =>
              conn'[hand[q]].q = conn[hand[q]].q /\ conn'[hand[q]].open = conn[hand[q]].open,
           \A q \in Proc \ {p} : pc'[q] = "accept_sleep" =>
              (sock[at[q]].backlog = <<>> => sock'[at[q]].backlog = <<>>),
           /\ pc'[p] = "send_sleep" => QueueFull(p)' /\ PeerOpen(p)'
           /\ pc'[p] = "recv_sleep" => (Incoming(p) = <<>>)' /\ PeerOpen(p)'
           /\ pc'[p] = "accept_sleep" => sock'[at'[p]].backlog = <<>>
    PROVE  SleepersJustified'
<1>1. ASSUME NEW q \in Proc \ {p}, pc'[q] \in {"send_sleep", "recv_sleep"}
      PROVE  /\ pc[q] = pc'[q] /\ at'[q] = at[q] /\ hand'[q] = hand[q]
             /\ conn'[hand[q]].q = conn[hand[q]].q /\ conn'[hand[q]].open = conn[hand[q]].open
             /\ sock'[at[q]].end = sock[at[q]].end
  <2>1. pc[q] = pc'[q] /\ at'[q] = at[q] /\ hand'[q] = hand[q]
    BY <1>1 DEF OthersWait, Woken
  <2>2. at[q] \in Slot /\ sock[at[q]].inuse
    BY <1>1, <2>1 DEF PlaceInv, InPlace, Inside, Talking, UseInv, Kept
  <2> QED
    BY <1>1, <2>1, <2>2 DEF SlotsStay
<1>2. ASSUME NEW q \in Proc \ {p}, pc'[q] = "accept_sleep"
      PROVE  sock'[at'[q]].backlog = <<>>
  BY <1>2 DEF OthersWait, Woken, SleepersJustified
<1>3. ASSUME NEW q \in Proc \ {p}, pc'[q] = "send_sleep" PROVE QueueFull(q)' /\ PeerOpen(q)'
  <2>1. QueueFull(q) /\ PeerOpen(q)
    BY <1>1, <1>3 DEF SleepersJustified
  <2> QED
    BY <1>1, <1>3, <2>1 DEF QueueFull, PeerOpen, Peer, MyEnd
<1>4. ASSUME NEW q \in Proc \ {p}, pc'[q] = "recv_sleep" PROVE (Incoming(q) = <<>>)' /\ PeerOpen(q)'
  <2>1. Incoming(q) = <<>> /\ PeerOpen(q)
    BY <1>1, <1>4 DEF SleepersJustified
  <2> QED
    BY <1>1, <1>4, <2>1 DEF Incoming, PeerOpen, Peer, MyEnd
<1> QED
  BY <1>2, <1>3, <1>4 DEF SleepersJustified
-----------------------------------------------------------------------------
(* What a step does to the owners of ends *)

LEMMA OwnsIs ==
    /\ \A s \in Slot, c \in Conn, e \in End :
          /\ Owns(<<"socket", s>>, c, e) <=> SocketHas(s, c, e)
          /\ Owns(<<"backlog", s>>, c, e) <=> BacklogHas(s, c, e)
    /\ \A p \in Proc, c \in Conn, e \in End : Owns(<<"process", p>>, c, e) <=> ProcessHas(p, c, e)
  BY DEF Owns

LEMMA OwnsIsNext ==
    /\ \A s \in Slot, c \in Conn, e \in End :
          /\ Owns(<<"socket", s>>, c, e)' <=> SocketHas(s, c, e)'
          /\ Owns(<<"backlog", s>>, c, e)' <=> BacklogHas(s, c, e)'
    /\ \A p \in Proc, c \in Conn, e \in End : Owns(<<"process", p>>, c, e)' <=> ProcessHas(p, c, e)'
  BY DEF Owns

\* Who owns an end after a step is who owned it before, or everybody who owns
\* it is the same one.
LEMMA OwnersKept ==
    ASSUME OwnerInv,
           \A c \in Conn, e \in End :
              \/ \A x \in Owner : Owns(x, c, e)' => Owns(x, c, e)
              \/ \E z \in Owner : \A x \in Owner : Owns(x, c, e)' => x = z,
           \A c \in Conn, e \in End, x \in Owner :
              Owns(x, c, e)' => conn'[c].live /\ conn'[c].open[e]
    PROVE  OwnerInv' /\ OpenInv'
<1>1. OwnerInv'
  <2> SUFFICES ASSUME NEW c \in Conn, NEW e \in End, NEW x \in Owner, NEW y \in Owner,
                      Owns(x, c, e)', Owns(y, c, e)'
               PROVE  x = y
    BY DEF OwnerInv
  <2>1. CASE \A z \in Owner : Owns(z, c, e)' => Owns(z, c, e)
    BY <2>1 DEF OwnerInv
  <2>2. CASE \E z \in Owner : \A u \in Owner : Owns(u, c, e)' => u = z
    BY <2>2
  <2> QED
    BY <2>1, <2>2
<1>2. OpenInv'
  BY DEF OpenInv
<1> QED
  BY <1>1, <1>2

\* A slot nobody holds owns nothing.
LEMMA NobodyHas ==
    ASSUME TypeInv, PlaceInv, UseInv, NEW s \in Slot, ~sock[s].inuse
    PROVE  /\ \A q \in Proc : s \notin fds[q] /\ ~(pc[q] \in Closing /\ at[q] = s)
           /\ \A q \in Proc : ~(pc[q] \in Inside /\ at[q] = s)
           /\ ~Held(s)
           /\ \A c \in Conn, e \in End : ~SocketHas(s, c, e)
<1>1. \A q \in Proc : s \notin fds[q] /\ ~(pc[q] \in Closing /\ at[q] = s)
  BY DEF UseInv, Kept
<1>2. \A q \in Proc : ~(pc[q] \in Inside /\ at[q] = s)
  BY <1>1 DEF PlaceInv, InPlace
<1>3. ~Held(s)
  BY <1>1 DEF Held, Closing
<1>4. \A q \in Proc : ~(pc[q] \in Talking /\ at[q] = s)
  BY <1>2 DEF Inside
<1> QED
  BY <1>1, <1>2, <1>3, <1>4 DEF SocketHas

\* A call of p begins to talk on its socket's connection, or goes on talking.
Speaks(p, s) == pc'[p] \in Talking /\ at'[p] = s =>
    \/ pc[p] \in Talking /\ at[p] = s /\ hand'[p] = hand[p]
    \/ s \in fds[p] /\ sock[s].state = "connected" /\ hand'[p] = sock[s].conn

LEMMA SocketStays ==
    ASSUME TypeInv, NEW p \in Proc, OthersWait(p), NEW s \in Slot,
           sock'[s].end = sock[s].end, Speaks(p, s),
           Held(s)' /\ sock'[s].state = "connected"
              => Held(s) /\ sock[s].state = "connected" /\ sock'[s].conn = sock[s].conn,
           NEW c \in Conn, NEW e \in End, SocketHas(s, c, e)'
    PROVE  SocketHas(s, c, e)
<1>1. sock[s].end = e
  BY DEF SocketHas
<1>2. CASE Held(s)' /\ sock'[s].state = "connected" /\ sock'[s].conn = c
  BY <1>1, <1>2 DEF SocketHas
<1>3. ASSUME NEW q \in Proc, pc'[q] \in Talking, at'[q] = s, hand'[q] = c
      PROVE  SocketHas(s, c, e)
  <2>1. CASE q = p
    BY <1>1, <1>3, <2>1 DEF SocketHas, Speaks, Held
  <2>2. CASE q # p
    <3>1. pc[q] \in Talking /\ at[q] = s /\ hand[q] = c
      BY <1>3, <2>2 DEF OthersWait, Woken, Talking
    <3> QED
      BY <1>1, <3>1 DEF SocketHas
  <2> QED
    BY <2>1, <2>2
<1> QED
  BY <1>2, <1>3 DEF SocketHas

LEMMA ProcessStays ==
    ASSUME NEW p \in Proc, OthersWait(p), NEW q \in Proc \ {p}, NEW c \in Conn, NEW e \in End,
           ProcessHas(q, c, e)'
    PROVE  ProcessHas(q, c, e)
  BY DEF ProcessHas, OthersWait, Woken

LEMMA HeldStays ==
    ASSUME NEW p \in Proc, OthersWait(p), NEW s \in Slot, Held(s)',
           \A q \in Proc \ {p} : fds'[q] = fds[q],
           s \notin fds'[p] \ fds[p],
           pc'[p] = "close" /\ at'[p] = s => (pc[p] = "close" /\ at[p] = s) \/ s \in fds[p]
    PROVE  Held(s)
  BY DEF Held, OthersWait, Woken

\* Nobody but the owners in E owns after a step what it did not own before.
NothingGained(p, E) ==
    /\ \A s \in Slot : <<"socket", s>> \notin E =>
          /\ Speaks(p, s)
          /\ Held(s)' /\ sock'[s].state = "connected"
                => Held(s) /\ sock[s].state = "connected" /\ sock'[s].conn = sock[s].conn
    /\ \A s \in Slot : <<"backlog", s>> \notin E => \A i \in DOMAIN sock'[s].backlog :
          \E j \in DOMAIN sock[s].backlog : sock[s].backlog[j] = sock'[s].backlog[i]
    /\ <<"process", p>> \notin E =>
          (pc'[p] \in {"push", "pushed", "popped"} => pc'[p] = pc[p] /\ hand'[p] = hand[p])

LEMMA OwnersStay ==
    ASSUME TypeInv, PlaceInv, UseInv, NEW p \in Proc, OthersWait(p), SlotsStay(p),
           NEW E, NothingGained(p, E),
           NEW c \in Conn, NEW e \in End, NEW x \in Owner \ E, Owns(x, c, e)'
    PROVE  Owns(x, c, e)
<1>1. ASSUME NEW s \in Slot, x = <<"socket", s>> PROVE Owns(x, c, e)
  <2>0. /\ Speaks(p, s)
        /\ Held(s)' /\ sock'[s].state = "connected"
              => Held(s) /\ sock[s].state = "connected" /\ sock'[s].conn = sock[s].conn
    BY <1>1 DEF NothingGained
  <2>1. SocketHas(s, c, e)'
    BY <1>1, OwnsIsNext
  <2>2. CASE sock[s].inuse
    <3>1. sock'[s].end = sock[s].end
      BY <2>2 DEF SlotsStay
    <3>2. SocketHas(s, c, e)
      BY <2>0, <2>1, <3>1, SocketStays
    <3> QED
      BY <1>1, <3>2, OwnsIs
  <2>3. CASE ~sock[s].inuse
    <3>1. (\A q \in Proc : ~(pc[q] \in Inside /\ at[q] = s)) /\ s \notin fds[p] /\ ~Held(s)
      BY <2>3, NobodyHas
    <3>2. \A q \in Proc : ~(pc[q] \in Talking /\ at[q] = s)
      BY <3>1 DEF Inside
    <3>3. ~(pc'[p] \in Talking /\ at'[p] = s)
      BY <2>0, <3>1, <3>2 DEF Speaks
    <3>4. \A q \in Proc : ~(pc'[q] \in Talking /\ at'[q] = s)
      <4> SUFFICES ASSUME NEW q \in Proc \ {p}, pc'[q] \in Talking, at'[q] = s PROVE FALSE
        BY <3>3
      <4>1. pc[q] \in Talking /\ at[q] = s
        BY DEF OthersWait, Woken, Talking
      <4> QED
        BY <3>2, <4>1
    <3> QED
      BY <2>0, <2>1, <3>1, <3>4 DEF SocketHas
  <2> QED
    BY <2>2, <2>3
<1>2. ASSUME NEW s \in Slot, x = <<"backlog", s>> PROVE Owns(x, c, e)
  <2>1. BacklogHas(s, c, e)'
    BY <1>2, OwnsIsNext
  <2>2. BacklogHas(s, c, e)
    BY <1>2, <2>1 DEF BacklogHas, NothingGained
  <2> QED
    BY <1>2, <2>2, OwnsIs
<1>3. ASSUME NEW q \in Proc, x = <<"process", q>> PROVE Owns(x, c, e)
  <2>1. ProcessHas(q, c, e)'
    BY <1>3, OwnsIsNext
  <2>2. ProcessHas(q, c, e)
    <3>1. CASE q # p
      BY <2>1, <3>1, ProcessStays
    <3>2. CASE q = p
      BY <1>3, <2>1, <3>2 DEF ProcessHas, NothingGained
    <3> QED
      BY <3>1, <3>2
  <2> QED
    BY <1>3, <2>2, OwnsIs
<1> QED
  BY <1>1, <1>2, <1>3 DEF Owner
-----------------------------------------------------------------------------
(* Steps that change the place of a process, and nothing it can get at *)

LEMMA ReturnIs ==
    ASSUME LocalTypes, NEW p \in Proc, Return(p)
    PROVE  LocalTypes' /\ OthersWait(p) /\ pc'[p] = "user" /\ InPlace(p)'
<1>1. NoMessage \in Letter /\ "user" \in Places
  BY DEF Letter, Places
<1>2. LocalTypes'
  BY <1>1 DEF LocalTypes, Return
<1>3. OthersWait(p)
  BY DEF OthersWait, Woken, Return, LocalTypes
<1>4. pc'[p] = "user" /\ hand'[p] = NoConn
  BY DEF Return, LocalTypes
<1> QED
  BY <1>2, <1>3, <1>4 DEF InPlace, Handing, Inside, Connecting, Talking

LEMMA LocalStep ==
    ASSUME IInv, NEW p \in Proc, UNCHANGED <<sock, binds, conn, fds>>,
           LocalTypes', killed' \in [Proc -> BOOLEAN], OthersWait(p), InPlace(p)',
           pc'[p] \in Closing => pc[p] = pc'[p] /\ at'[p] = at[p],
           pc'[p] \in {"push", "pushed", "popped"} => pc'[p] = pc[p] /\ hand'[p] = hand[p],
           \A s \in Slot : Speaks(p, s),
           /\ pc'[p] = "send_sleep" => QueueFull(p)' /\ PeerOpen(p)'
           /\ pc'[p] = "recv_sleep" => (Incoming(p) = <<>>)' /\ PeerOpen(p)'
           /\ pc'[p] = "accept_sleep" => sock'[at'[p]].backlog = <<>>
    PROVE  IInv'
<1> USE DEF IInv
<1>1. TypeInv' /\ SlotInv' /\ BacklogInv'
  BY DEF TypeInv, SlotInv, BacklogInv
<1>2. SlotsStay(p)
  BY DEF SlotsStay
<1>3. PlaceInv' /\ ClosingInv' /\ UseInv'
  BY <1>1, <1>2, PlacesKept DEF TypeInv, LocalTypes
<1>4. SleepersJustified'
  BY <1>2, SleepersKept
<1>5. \A c \in Conn, e \in End, x \in Owner : Owns(x, c, e)' => Owns(x, c, e)
  <2>1. ASSUME NEW s \in Slot, Held(s)' PROVE Held(s)
    BY <2>1, HeldStays DEF Closing
  <2>2. NothingGained(p, {})
    BY <2>1 DEF NothingGained
  <2> QED
    BY <1>2, <2>2, OwnersStay
<1>6. OwnerInv' /\ OpenInv'
  BY <1>5, OwnersKept DEF OpenInv
<1> QED
  BY <1>1, <1>3, <1>4, <1>6

\* A step that leaves the processes where they are, and the slots alone.
LEMMA SameStep ==
    ASSUME IInv, NEW p \in Proc, UNCHANGED <<sock, binds, conn, fds, pc, at, target, hand>>,
           out' \in [Proc -> Letter], killed' \in [Proc -> BOOLEAN]
    PROVE  IInv'
<1>1. LocalTypes' /\ OthersWait(p)
  BY DEF IInv, TypeInv, LocalTypes, OthersWait, Woken
<1>2. InPlace(p)'
  BY DEF IInv, PlaceInv, InPlace
<1>3. \A s \in Slot : Speaks(p, s)
  BY DEF Speaks
<1>4. /\ pc'[p] = "send_sleep" => QueueFull(p)' /\ PeerOpen(p)'
      /\ pc'[p] = "recv_sleep" => (Incoming(p) = <<>>)' /\ PeerOpen(p)'
      /\ pc'[p] = "accept_sleep" => sock'[at'[p]].backlog = <<>>
  BY DEF IInv, SleepersJustified, QueueFull, PeerOpen, Peer, MyEnd, Incoming
<1> QED
  BY <1>1, <1>2, <1>3, <1>4, LocalStep

\* A call that fails, or ends without a trace in the tables.
LEMMA ReturnStep ==
    ASSUME IInv, NEW p \in Proc, UNCHANGED <<sock, binds, conn, fds, killed>>, Return(p)
    PROVE  IInv'
<1>1. LocalTypes' /\ OthersWait(p) /\ pc'[p] = "user" /\ InPlace(p)'
  BY ReturnIs DEF IInv, TypeInv
<1>2. killed' \in [Proc -> BOOLEAN]
  BY DEF IInv, TypeInv
<1>3. \A s \in Slot : Speaks(p, s)
  BY <1>1 DEF Speaks, Talking
<1>4. pc'[p] \notin Closing
  BY <1>1 DEF Closing
<1> QED
  BY <1>1, <1>2, <1>3, <1>4, LocalStep

LEMMA Returns ==
    ASSUME IInv, NEW p \in Proc,
           AcceptKilled(p) \/ SendFails(p) \/ RecvKilled(p) \/ RecvEnd(p)
    PROVE  IInv'
<1>1. UNCHANGED <<sock, binds, conn, fds, killed>> /\ Return(p)
  BY DEF AcceptKilled, SendFails, RecvKilled, RecvEnd, sockets, tables
<1> QED
  BY <1>1, ReturnStep

\* A call on a socket that the process holds.
LEMMA Begins ==
    ASSUME IInv, NEW p \in Proc, NEW s \in fds[p], pc[p] = "user",
           UNCHANGED <<sock, binds, conn, fds, killed>>, LocalTypes', OthersWait(p), at'[p] = s,
           \/ pc'[p] = "found" /\ target'[p] \in Slot /\ hand'[p] = hand[p] /\ sock[s].state = "unbound"
           \/ pc'[p] = "accept" /\ hand'[p] = hand[p]
           \/ pc'[p] \in {"send", "recv"} /\ sock[s].state = "connected" /\ hand'[p] = sock[s].conn
    PROVE  IInv'
<1>1. s \in Slot /\ hand[p] = NoConn /\ (sock[s].state = "unbound" => sock[s].end = 0)
      /\ (sock[s].state = "connected" => sock[s].conn \in Conn)
  BY DEF IInv, TypeInv, PlaceInv, InPlace, Handing, Talking, SlotInv
<1>2. InPlace(p)'
  BY <1>1 DEF InPlace, Handing, Inside, Connecting, Talking
<1>3. \A t \in Slot : Speaks(p, t)
  BY DEF Speaks, Talking
<1>4. pc'[p] \notin Closing \cup {"push", "pushed", "popped"} \cup Asleep
  BY DEF Closing, Asleep
<1>5. killed' \in [Proc -> BOOLEAN]
  BY DEF IInv, TypeInv
<1> QED
  BY <1>2, <1>3, <1>4, <1>5, LocalStep DEF Asleep

LEMMA LookupStep ==
    ASSUME IInv, NEW p \in Proc, NEW s \in Slot, NEW path \in Path, Lookup(p, s, path)
    PROVE  IInv'
<1>1. PICK i \in DOMAIN binds : binds[i].sock # NoSlot /\ target' = [target EXCEPT ![p] = binds[i].sock]
  BY DEF Lookup, First
<1>2. binds[i].sock \in Slot
  BY <1>1 DEF IInv, TypeInv, Entry
<1>3. LocalTypes' /\ OthersWait(p)
  BY <1>1, <1>2 DEF IInv, TypeInv, LocalTypes, Lookup, OthersWait, Woken, locals, Places
<1>4. target'[p] \in Slot /\ at'[p] = s /\ pc'[p] = "found"
  BY <1>1, <1>2 DEF IInv, TypeInv, LocalTypes, Lookup
<1> QED
  BY <1>3, <1>4, Begins DEF Lookup, Calling, sockets, tables

LEMMA CallAcceptStep ==
    ASSUME IInv, NEW p \in Proc, NEW s \in Slot, CallAccept(p, s)
    PROVE  IInv'
<1>1. LocalTypes' /\ OthersWait(p) /\ at'[p] = s /\ pc'[p] = "accept"
  BY DEF IInv, TypeInv, LocalTypes, CallAccept, OthersWait, Woken, Places
<1> QED
  BY <1>1, Begins DEF CallAccept, Calling, sockets, tables

LEMMA CallRecvStep ==
    ASSUME IInv, NEW p \in Proc, NEW s \in Slot, CallRecv(p, s)
    PROVE  IInv'
<1>1. LocalTypes' /\ OthersWait(p) /\ at'[p] = s /\ pc'[p] = "recv" /\ hand'[p] = sock[s].conn
  BY DEF IInv, TypeInv, LocalTypes, CallRecv, OthersWait, Woken, Places, Struct
<1> QED
  BY <1>1, Begins DEF CallRecv, Calling, sockets, tables

LEMMA CallSendStep ==
    ASSUME IInv, NEW p \in Proc, NEW s \in Slot, NEW m \in Message, CallSend(p, s, m)
    PROVE  IInv'
<1>1. LocalTypes' /\ OthersWait(p) /\ at'[p] = s /\ pc'[p] = "send" /\ hand'[p] = sock[s].conn
  BY DEF IInv, TypeInv, LocalTypes, CallSend, OthersWait, Woken, Places, Letter, Struct
<1> QED
  BY <1>1, Begins DEF CallSend, Calling, sockets, tables

LEMMA NothingMoves ==
    ASSUME IInv, NEW p \in Proc,
           CloseFile(p) \/ (\E s \in Slot : SendBadFd(p, s)) \/ UNCHANGED vars
    PROVE  IInv'
<1>1. UNCHANGED <<sock, binds, conn, fds, pc, at, target, hand, out, killed>>
  BY DEF CloseFile, SendBadFd, vars, sockets, tables, locals
<1> QED
  BY <1>1, SameStep DEF IInv, TypeInv, LocalTypes

\* kill() between the test of p->killed and sleep() changes nothing but the flag.
LEMMA KillFlag ==
    ASSUME TypeInv, NEW p \in Proc, KillBeforeSleep(p)
    PROVE  killed' \in [Proc -> BOOLEAN]
  BY Sizes DEF TypeInv, KillBeforeSleep

LEMMA SendSleepStep ==
    ASSUME IInv, NEW p \in Proc, SendSleep(p)
    PROVE  IInv'
<1>0. TypeInv /\ InPlace(p) /\ pc \in [Proc -> Places]
  BY DEF IInv, PlaceInv, TypeInv, LocalTypes
<1>1. PICK places : places = WakeConn(hand[p], pc)
  OBVIOUS
<1>2. places \in [Proc -> Places] /\ \A q \in Proc : Woken(pc[q], places[q])
  BY <1>0, <1>1, WakeConnIs
<1>3. pc' = [places EXCEPT ![p] = "send_sleep"] /\ pc[p] = "send"
      /\ UNCHANGED <<sock, binds, conn, fds, at, target, hand, out>>
  BY <1>1 DEF SendSleep, sockets, tables, locals
<1>4. LocalTypes' /\ OthersWait(p) /\ pc'[p] = "send_sleep"
  BY <1>0, <1>2, <1>3 DEF TypeInv, LocalTypes, OthersWait, Places
<1>5. InPlace(p)'
  BY <1>0, <1>3, <1>4 DEF InPlace, Handing, Inside, Connecting, Talking
<1>6. \A s \in Slot : Speaks(p, s)
  BY <1>3 DEF Speaks, Talking
<1>7. QueueFull(p)' /\ PeerOpen(p)'
  BY <1>3 DEF SendSleep, QueueFull, PeerOpen, Peer, MyEnd
<1>8. killed' \in [Proc -> BOOLEAN]
  BY <1>0, KillFlag DEF SendSleep
<1>9. pc'[p] \notin Closing
  BY <1>4 DEF Closing
<1> QED
  BY <1>3, <1>4, <1>5, <1>6, <1>7, <1>8, <1>9, LocalStep

LEMMA RecvSleepStep ==
    ASSUME IInv, NEW p \in Proc, RecvSleep(p)
    PROVE  IInv'
<1>0. TypeInv /\ InPlace(p)
  BY DEF IInv, PlaceInv
<1>1. pc' = [pc EXCEPT ![p] = "recv_sleep"] /\ pc[p] = "recv"
      /\ UNCHANGED <<sock, binds, conn, fds, at, target, hand, out>>
  BY DEF RecvSleep, sockets, tables, locals
<1>2. LocalTypes' /\ OthersWait(p) /\ pc'[p] = "recv_sleep"
  BY <1>0, <1>1 DEF TypeInv, LocalTypes, OthersWait, Woken, Places
<1>3. InPlace(p)'
  BY <1>0, <1>1, <1>2 DEF InPlace, Handing, Inside, Connecting, Talking
<1>4. \A s \in Slot : Speaks(p, s)
  BY <1>1 DEF Speaks, Talking
<1>5. (Incoming(p) = <<>>)' /\ PeerOpen(p)'
  BY <1>1 DEF RecvSleep, Incoming, PeerOpen, Peer, MyEnd
<1>6. killed' \in [Proc -> BOOLEAN]
  BY <1>0, KillFlag DEF RecvSleep
<1>7. pc'[p] \notin Closing
  BY <1>2 DEF Closing
<1> QED
  BY <1>1, <1>2, <1>3, <1>4, <1>5, <1>6, <1>7, LocalStep

LEMMA AcceptSleepStep ==
    ASSUME IInv, NEW p \in Proc, AcceptSleep(p)
    PROVE  IInv'
<1>0. TypeInv /\ InPlace(p)
  BY DEF IInv, PlaceInv
<1>1. pc' = [pc EXCEPT ![p] = "accept_sleep"] /\ pc[p] = "accept"
      /\ UNCHANGED <<sock, binds, conn, fds, at, target, hand, out>>
  BY DEF AcceptSleep, sockets, tables, locals
<1>2. LocalTypes' /\ OthersWait(p) /\ pc'[p] = "accept_sleep"
  BY <1>0, <1>1 DEF TypeInv, LocalTypes, OthersWait, Woken, Places
<1>3. InPlace(p)'
  BY <1>0, <1>1, <1>2 DEF InPlace, Handing, Inside, Connecting, Talking
<1>4. \A s \in Slot : Speaks(p, s)
  BY <1>2 DEF Speaks, Talking
<1>5. sock'[at'[p]].backlog = <<>>
  BY <1>1 DEF AcceptSleep
<1>6. killed' \in [Proc -> BOOLEAN]
  BY <1>0, KillFlag DEF AcceptSleep
<1>7. pc'[p] \notin Closing
  BY <1>2 DEF Closing
<1> QED
  BY <1>1, <1>2, <1>3, <1>4, <1>5, <1>6, <1>7, LocalStep

LEMMA KillStep ==
    ASSUME IInv, NEW p \in Killable, Kill(p)
    PROVE  IInv'
<1>0. TypeInv /\ InPlace(p) /\ p \in Proc
  BY Sizes DEF IInv, PlaceInv
<1>1. UNCHANGED <<sock, binds, conn, fds, at, target, hand, out>> /\ killed' \in [Proc -> BOOLEAN]
  BY <1>0 DEF Kill, sockets, tables, locals, TypeInv
<1>2. LocalTypes' /\ OthersWait(p) /\ Woken(pc[p], pc'[p]) /\ pc'[p] \notin Asleep
  BY <1>0, <1>1 DEF TypeInv, LocalTypes, OthersWait, Woken, Places, Kill, Asleep
<1>3. InPlace(p)'
  BY <1>0, <1>1, <1>2 DEF InPlace, Handing, Inside, Connecting, Talking, Woken
<1>4. \A s \in Slot : Speaks(p, s)
  BY <1>1, <1>2 DEF Speaks, Talking, Woken
<1>5. /\ pc'[p] \in Closing => pc[p] = pc'[p]
      /\ pc'[p] \in {"push", "pushed", "popped"} => pc'[p] = pc[p]
  BY <1>2 DEF Woken, Closing
<1> QED
  BY <1>0, <1>1, <1>2, <1>3, <1>4, <1>5, LocalStep DEF Asleep
-----------------------------------------------------------------------------
(* Steps on slots: socket(), bind(), listen(), fork(), close() *)

LEMMA TalkersOwn ==
    ASSUME TypeInv, PlaceInv, OpenInv, NEW q \in Proc, pc[q] \in Talking
    PROVE  /\ hand[q] \in Conn /\ at[q] \in Slot /\ MyEnd(q) \in End
           /\ Owns(<<"socket", at[q]>>, hand[q], MyEnd(q))
           /\ conn[hand[q]].live /\ conn[hand[q]].open[MyEnd(q)]
<1>1. hand[q] \in Conn /\ at[q] \in Slot
  BY DEF PlaceInv, InPlace, Handing, Talking
<1>2. sock[at[q]].end \in End
  BY <1>1 DEF TypeInv, Struct
<1>3. SocketHas(at[q], hand[q], sock[at[q]].end)
  BY DEF SocketHas
<1>4. <<"socket", at[q]>> \in Owner
  BY <1>1 DEF Owner
<1>5. Owns(<<"socket", at[q]>>, hand[q], sock[at[q]].end)
  BY <1>1, <1>2, <1>3, OwnsIs
<1>6. conn[hand[q]].live /\ conn[hand[q]].open[sock[at[q]].end]
  BY <1>1, <1>2, <1>4, <1>5 DEF OpenInv
<1> QED
  BY <1>1, <1>2, <1>5, <1>6 DEF MyEnd

\* Steps that move no end and change no connection.
LEMMA SlotStep ==
    ASSUME IInv, NEW p \in Proc, OthersWait(p), SlotsStay(p), NothingGained(p, {}),
           TypeInv', SlotInv', BacklogInv', InPlace(p)', UNCHANGED conn,
           \A q \in Proc \ {p} : fds'[q] = fds[q],
           \A s \in fds'[p] \ fds[p] :
              sock'[s].inuse /\ \A q \in Proc : ~(pc[q] \in Closing /\ at[q] = s),
           pc'[p] \in Closing =>
              \/ pc[p] \in Closing /\ at'[p] = at[p]
              \/ /\ sock'[at'[p]].inuse /\ \A q \in Proc : at'[p] \notin fds'[q]
                 /\ \A q \in Proc \ {p} : ~(pc[q] \in Closing /\ at[q] = at'[p]),
           pc'[p] \notin Asleep,
           \A s \in Slot : sock[s].backlog = <<>> => sock'[s].backlog = <<>>
    PROVE  IInv'
<1> USE DEF IInv
<1>1. fds' \in [Proc -> SUBSET Slot] /\ pc' \in [Proc -> Places]
  BY DEF TypeInv, LocalTypes
<1>2. PlaceInv' /\ ClosingInv' /\ UseInv'
  BY <1>1, PlacesKept
<1>3. SleepersJustified'
  <2>1. \A q \in Proc \ {p} : pc'[q] = "accept_sleep" => at[q] \in Slot
    BY DEF PlaceInv, InPlace, OthersWait, Woken
  <2> QED
    BY <2>1, SleepersKept DEF Asleep
<1>4. \A c \in Conn, e \in End, x \in Owner : Owns(x, c, e)' => Owns(x, c, e)
  BY OwnersStay
<1>5. OwnerInv' /\ OpenInv'
  BY <1>4, OwnersKept DEF OpenInv
<1> QED
  BY <1>2, <1>3, <1>5

LEMMA SockCreateStep ==
    ASSUME IInv, NEW p \in Proc, SockCreate(p)
    PROVE  IInv'
<1> USE DEF IInv
<1>1. PICK s \in FreeSlot : sock' = [sock EXCEPT ![s] = Fresh] /\ fds' = [fds EXCEPT ![p] = @ \cup {s}]
  BY DEF SockCreate
<1>2. /\ UNCHANGED <<binds, conn, pc, at, target, hand, out, killed>> /\ pc[p] = "user"
      /\ s \in Slot /\ ~sock[s].inuse
  BY <1>1, FreeSlots DEF SockCreate, locals
<1>3. /\ Fresh.inuse /\ Fresh.state = "unbound" /\ Fresh.end = 0 /\ Fresh.backlog = <<>>
      /\ sock'[s] = Fresh /\ \A t \in Slot \ {s} : sock'[t] = sock[t]
      /\ fds'[p] = fds[p] \cup {s} /\ \A q \in Proc \ {p} : fds'[q] = fds[q]
  BY <1>1, <1>2 DEF TypeInv, Fresh
<1>4. TypeInv' /\ SlotInv' /\ BacklogInv'
  <2>1. TypeInv'
    BY <1>1, <1>2, FreshTyped DEF TypeInv, LocalTypes
  <2>2. SlotInv'
    BY <1>3 DEF SlotInv
  <2>3. BacklogInv'
    BY <1>3 DEF BacklogInv
  <2> QED
    BY <2>1, <2>2, <2>3
<1>5. OthersWait(p) /\ SlotsStay(p)
  BY <1>2, <1>3 DEF OthersWait, SlotsStay, Woken
<1>6. InPlace(p)'
  BY <1>2, <1>3 DEF PlaceInv, InPlace, Inside, Connecting, Talking
<1>7. \A q \in Proc : ~(pc[q] \in Closing /\ at[q] = s)
  BY <1>2, NobodyHas
<1>8. NothingGained(p, {})
  <2>1. ASSUME NEW t \in Slot PROVE Speaks(p, t)
    BY <1>2 DEF Speaks
  <2>2. ASSUME NEW t \in Slot \ {s}, Held(t)' PROVE Held(t)
    BY <1>2, <1>3, <1>5, <2>2, HeldStays
  <2>3. \A t \in Slot : \A i \in DOMAIN sock'[t].backlog :
            \E j \in DOMAIN sock[t].backlog : sock[t].backlog[j] = sock'[t].backlog[i]
    BY <1>3
  <2> QED
    BY <1>2, <1>3, <2>1, <2>2, <2>3 DEF NothingGained
<1>9. pc'[p] \notin Asleep \cup Closing
  BY <1>2 DEF Asleep, Closing
<1> QED
  BY <1>2, <1>3, <1>4, <1>5, <1>6, <1>7, <1>8, <1>9, SlotStep

\* bind() and listen().
LEMMA NamedStep ==
    ASSUME IInv, NEW p \in Proc, NEW s \in fds[p], pc[p] = "user", binds' \in [1..SOCKBINDMAX -> Entry],
           UNCHANGED <<conn, fds, pc, at, target, hand, out, killed>>,
           NEW k \in Struct,
           sock' = [sock EXCEPT ![s] = k], sock[s].state = "unbound", k.state # "connected",
           k.inuse = sock[s].inuse, k.end = sock[s].end, k.conn = sock[s].conn, k.backlog = sock[s].backlog
    PROVE  IInv'
<1> USE DEF IInv
<1>1. s \in Slot /\ sock'[s] = k /\ \A t \in Slot \ {s} : sock'[t] = sock[t]
  BY DEF TypeInv
<1>2. TypeInv' /\ SlotInv' /\ BacklogInv'
  <2>1. TypeInv'
    BY <1>1 DEF TypeInv, LocalTypes
  <2>2. SlotInv'
    BY <1>1 DEF SlotInv
  <2>3. BacklogInv'
    BY <1>1 DEF BacklogInv
  <2> QED
    BY <2>1, <2>2, <2>3
<1>3. OthersWait(p) /\ SlotsStay(p)
  BY <1>1 DEF OthersWait, SlotsStay, Woken
<1>4. InPlace(p)'
  BY DEF PlaceInv, InPlace, Inside, Connecting, Talking
<1>5. NothingGained(p, {})
  <2>1. ASSUME NEW t \in Slot PROVE Speaks(p, t)
    BY DEF Speaks
  <2>2. ASSUME NEW t \in Slot, Held(t)' PROVE Held(t)
    BY <1>3, <2>2, HeldStays
  <2>3. \A t \in Slot : \A i \in DOMAIN sock'[t].backlog :
            \E j \in DOMAIN sock[t].backlog : sock[t].backlog[j] = sock'[t].backlog[i]
    BY <1>1
  <2> QED
    BY <1>1, <2>1, <2>2, <2>3 DEF NothingGained
<1>6. pc'[p] \notin Asleep \cup Closing
  BY DEF Asleep, Closing
<1>7. \A t \in Slot : sock[t].backlog = <<>> => sock'[t].backlog = <<>>
  BY <1>1
<1> QED
  BY <1>2, <1>3, <1>4, <1>5, <1>6, <1>7, SlotStep

LEMMA SockBindStep ==
    ASSUME IInv, NEW p \in Proc, NEW s \in Slot, NEW path \in Path, SockBind(p, s, path)
    PROVE  IInv'
<1>1. PICK i \in DOMAIN binds : binds' = [binds EXCEPT ![i] = [path |-> path, sock |-> s]]
  BY DEF SockBind, First
<1>2. binds' \in [1..SOCKBINDMAX -> Entry]
  BY <1>1 DEF IInv, TypeInv, Entry
<1>3. UNCHANGED <<conn, fds, pc, at, target, hand, out, killed>>
  BY DEF SockBind, tables, locals
<1>4. PICK k : k = [sock[s] EXCEPT !.path = path]
  OBVIOUS
<1>5. /\ k \in Struct
      /\ k.state = sock[s].state
      /\ k.inuse = sock[s].inuse /\ k.end = sock[s].end /\ k.conn = sock[s].conn
      /\ k.backlog = sock[s].backlog
  BY <1>4 DEF IInv, TypeInv, Struct
<1>6. sock' = [sock EXCEPT ![s] = k]
  BY <1>4 DEF SockBind, IInv, TypeInv
<1>7. s \in fds[p] /\ pc[p] = "user" /\ sock[s].state = "unbound" /\ k.state # "connected"
  BY <1>5 DEF SockBind, Calling
<1> QED
  BY <1>2, <1>3, <1>5, <1>6, <1>7, NamedStep

LEMMA SockListenStep ==
    ASSUME IInv, NEW p \in Proc, NEW s \in Slot, SockListen(p, s)
    PROVE  IInv'
<1>1. UNCHANGED <<binds, conn, fds, pc, at, target, hand, out, killed>>
  BY DEF SockListen, tables, locals
<1>2. PICK k : k = [sock[s] EXCEPT !.state = "listening"]
  OBVIOUS
<1>3. /\ k \in Struct
      /\ k.state = "listening"
      /\ k.inuse = sock[s].inuse /\ k.end = sock[s].end /\ k.conn = sock[s].conn
      /\ k.backlog = sock[s].backlog
  BY <1>2 DEF IInv, TypeInv, Struct
<1>4. sock' = [sock EXCEPT ![s] = k]
  BY <1>2 DEF SockListen, IInv, TypeInv
<1>5. binds' \in [1..SOCKBINDMAX -> Entry]
  BY <1>1 DEF IInv, TypeInv
<1> QED
  BY <1>1, <1>3, <1>4, <1>5, NamedStep DEF SockListen, Calling

LEMMA InheritStep ==
    ASSUME IInv, NEW p \in Proc, NEW q \in Proc, Inherit(p, q)
    PROVE  IInv'
<1> USE DEF IInv
<1>1. /\ UNCHANGED <<sock, binds, conn, pc, at, target, hand, out, killed>>
      /\ fds' = [fds EXCEPT ![q] = fds[p]] /\ fds'[q] = fds[p] /\ fds[q] = {} /\ pc[q] = "user"
      /\ \A t \in Proc \ {q} : fds'[t] = fds[t]
  BY DEF Inherit, sockets, locals, TypeInv
<1>2. TypeInv' /\ SlotInv' /\ BacklogInv'
  <2>1. TypeInv'
    BY <1>1 DEF TypeInv, LocalTypes
  <2> QED
    BY <1>1, <2>1 DEF SlotInv, BacklogInv
<1>3. OthersWait(q) /\ SlotsStay(q)
  BY <1>1 DEF OthersWait, SlotsStay, Woken
<1>4. InPlace(q)'
  BY <1>1 DEF PlaceInv, InPlace, Inside, Connecting, Talking
<1>5. ASSUME NEW s \in fds'[q] PROVE sock'[s].inuse /\ \A t \in Proc : ~(pc[t] \in Closing /\ at[t] = s)
  BY <1>1, <1>5 DEF UseInv, Kept, ClosingInv, TypeInv
<1>6. NothingGained(q, {})
  <2>1. ASSUME NEW s \in Slot PROVE Speaks(q, s)
    BY <1>1 DEF Speaks
  <2>2. ASSUME NEW s \in Slot, Held(s)' PROVE Held(s)
    BY <1>1, <2>2 DEF Held
  <2> QED
    BY <1>1, <2>1, <2>2 DEF NothingGained
<1>7. pc'[q] \notin Asleep \cup Closing
  BY <1>1 DEF Asleep, Closing
<1> QED
  BY <1>1, <1>2, <1>3, <1>4, <1>5, <1>6, <1>7, SlotStep

LEMMA CloseStep ==
    ASSUME IInv, NEW p \in Proc, NEW s \in Slot, Close(p, s)
    PROVE  IInv'
<1> USE DEF IInv
<1>1. /\ UNCHANGED <<sock, binds, conn, target, hand, out, killed>>
      /\ fds' = [fds EXCEPT ![p] = fds[p] \ {s}] /\ pc[p] = "user" /\ s \in fds[p]
      /\ \/ /\ pc' = [pc EXCEPT ![p] = "close"] /\ at' = [at EXCEPT ![p] = s]
            /\ \A q \in Proc \ {p} : s \notin fds[q]
         \/ UNCHANGED <<pc, at>>
  BY DEF Close, sockets, LastHolder
<1>2. TypeInv' /\ SlotInv' /\ BacklogInv'
  <2>1. LocalTypes'
    BY <1>1 DEF TypeInv, LocalTypes, Places
  <2>2. TypeInv'
    BY <1>1, <2>1 DEF TypeInv
  <2> QED
    BY <1>1, <2>2 DEF SlotInv, BacklogInv
<1>3. OthersWait(p) /\ SlotsStay(p)
  BY <1>1 DEF OthersWait, SlotsStay, Woken, TypeInv, LocalTypes
<1>4. /\ fds'[p] = fds[p] \ {s} /\ \A q \in Proc \ {p} : fds'[q] = fds[q]
      /\ \/ pc'[p] = "user" /\ at'[p] = at[p]
         \/ pc'[p] = "close" /\ at'[p] = s /\ \A q \in Proc : s \notin fds'[q]
  BY <1>1 DEF TypeInv, LocalTypes
<1>5. InPlace(p)'
  BY <1>1, <1>4 DEF PlaceInv, InPlace, Inside, Connecting, Talking, Handing
<1>6. sock'[s].inuse /\ \A q \in Proc : ~(pc[q] \in Closing /\ at[q] = s)
  BY <1>1 DEF UseInv, Kept, ClosingInv
<1>7. NothingGained(p, {})
  <2>1. ASSUME NEW t \in Slot PROVE Speaks(p, t)
    BY <1>4 DEF Speaks, Talking
  <2>2. ASSUME NEW t \in Slot, Held(t)' PROVE Held(t)
    BY <1>1, <1>3, <1>4, <2>2, HeldStays
  <2> QED
    BY <1>1, <1>4, <2>1, <2>2 DEF NothingGained
<1>8. pc'[p] \notin Asleep
  BY <1>4 DEF Asleep
<1>9. pc'[p] \in Closing => at'[p] = s /\ \A q \in Proc : s \notin fds'[q]
  BY <1>4 DEF Closing
<1> QED
  BY <1>1, <1>2, <1>3, <1>4, <1>5, <1>6, <1>7, <1>8, <1>9, SlotStep

\* A step that rewrites a slot that nobody holds afterwards, and returns.
LEMMA GiveUpStep ==
    ASSUME IInv, NEW p \in Proc, UNCHANGED <<conn, fds, killed>>, Return(p), NEW s \in Slot,
           binds' \in [1..SOCKBINDMAX -> Entry],
           NEW k \in Struct,
           sock' = [sock EXCEPT ![s] = k],
           \/ /\ ~sock[s].inuse /\ k.state = "connected" /\ k.conn \in Conn /\ ~k.inuse /\ k.backlog = <<>>
           \/ /\ pc[p] \in Closing /\ at[p] = s /\ k = [sock[s] EXCEPT !.inuse = FALSE]
    PROVE  IInv'
<1> USE DEF IInv
<1>1. sock'[s] = k /\ \A t \in Slot \ {s} : sock'[t] = sock[t]
  BY DEF TypeInv
<1>2. LocalTypes' /\ OthersWait(p) /\ pc'[p] = "user" /\ InPlace(p)'
  BY ReturnIs DEF TypeInv
<1>3. /\ k.state # "connected" => k.end = 0
      /\ k.state = "connected" => k.conn \in Conn
      /\ k.backlog = <<>> \/ k.backlog = sock[s].backlog
  BY DEF SlotInv, TypeInv, Struct
<1>4. TypeInv' /\ SlotInv' /\ BacklogInv'
  <2>1. TypeInv'
    BY <1>1, <1>2 DEF TypeInv
  <2>2. SlotInv'
    BY <1>1, <1>3 DEF SlotInv
  <2>3. BacklogInv'
    BY <1>1, <1>3 DEF BacklogInv
  <2> QED
    BY <2>1, <2>2, <2>3
<1>5. SlotsStay(p)
  BY <1>1, <1>2 DEF SlotsStay, TypeInv, Struct
<1>6. ASSUME NEW t \in Slot, Held(t)' PROVE Held(t) /\ t # s
  <2>1. Held(t)
    BY <1>2, <1>6, HeldStays
  <2>2. CASE ~sock[s].inuse
    BY <2>1, <2>2, NobodyHas
  <2>3. CASE pc[p] \in Closing /\ at[p] = s
    <3>1. \A q \in Proc \ {p} : s \notin fds'[q] /\ ~(pc'[q] \in Closing /\ at'[q] = s)
      BY <1>2, <2>3 DEF ClosingInv, OthersWait, Woken, Closing
    <3>2. s \notin fds'[p] /\ pc'[p] \notin Closing
      BY <1>2, <2>3 DEF ClosingInv, Closing
    <3> QED
      BY <1>6, <2>1, <3>1, <3>2 DEF Held, Closing
  <2> QED
    BY <2>1, <2>2, <2>3
<1>7. NothingGained(p, {})
  <2>1. ASSUME NEW t \in Slot PROVE Speaks(p, t)
    BY <1>2 DEF Speaks, Talking
  <2>2. \A t \in Slot : \A i \in DOMAIN sock'[t].backlog :
            \E j \in DOMAIN sock[t].backlog : sock[t].backlog[j] = sock'[t].backlog[i]
    BY <1>1, <1>3
  <2> QED
    BY <1>1, <1>2, <1>6, <2>1, <2>2 DEF NothingGained
<1>8. pc'[p] \notin Asleep \cup Closing
  BY <1>2 DEF Asleep, Closing
<1>9. \A t \in Slot : sock[t].backlog = <<>> => sock'[t].backlog = <<>>
  BY <1>1, <1>3
<1> QED
  BY <1>2, <1>4, <1>5, <1>7, <1>8, <1>9, SlotStep

LEMMA CloseUnboundStep ==
    ASSUME IInv, NEW p \in Proc, CloseUnbound(p)
    PROVE  IInv'
<1>1. /\ UNCHANGED <<binds, conn, fds, killed>> /\ Return(p)
      /\ pc[p] = "close" /\ sock' = [sock EXCEPT ![at[p]].inuse = FALSE]
  BY DEF CloseUnbound, tables
<1>2. PICK s \in Slot : s = at[p]
  BY <1>1 DEF IInv, PlaceInv, InPlace
<1>3. PICK k : k = [sock[s] EXCEPT !.inuse = FALSE]
  OBVIOUS
<1>4. k \in Struct
  BY <1>3, UnusedTyped DEF IInv, TypeInv
<1>5. sock' = [sock EXCEPT ![s] = k]
  BY <1>1, <1>2, <1>3 DEF IInv, TypeInv
<1>6. binds' \in [1..SOCKBINDMAX -> Entry]
  BY <1>1 DEF IInv, TypeInv
<1>7. pc[p] \in Closing /\ at[p] = s
  BY <1>1, <1>2 DEF Closing
<1>8. UNCHANGED <<conn, fds, killed>> /\ Return(p)
  BY <1>1
<1> QED
  BY <1>3, <1>4, <1>5, <1>6, <1>7, <1>8, GiveUpStep

LEMMA UnbindStep ==
    ASSUME IInv, NEW p \in Proc, Unbind(p)
    PROVE  IInv'
<1>1. /\ UNCHANGED <<conn, fds, killed>> /\ Return(p)
      /\ pc[p] = "unbind" /\ sock' = [sock EXCEPT ![at[p]].inuse = FALSE]
  BY DEF Unbind, tables
<1>2. PICK s \in Slot : s = at[p]
  BY <1>1 DEF IInv, PlaceInv, InPlace
<1>3. PICK k : k = [sock[s] EXCEPT !.inuse = FALSE]
  OBVIOUS
<1>4. k \in Struct
  BY <1>3, UnusedTyped DEF IInv, TypeInv
<1>5. sock' = [sock EXCEPT ![s] = k]
  BY <1>1, <1>2, <1>3 DEF IInv, TypeInv
<1>6. binds' \in [1..SOCKBINDMAX -> Entry]
  <2>1. ASSUME NEW i \in DOMAIN binds PROVE [binds[i] EXCEPT !.sock = NoSlot] \in Entry
    <3>1. binds[i] \in Entry
      BY <2>1 DEF IInv, TypeInv
    <3> QED
      BY <3>1 DEF Entry
  <2> QED
    BY <2>1 DEF Unbind, IInv, TypeInv
<1>7. pc[p] \in Closing /\ at[p] = s
  BY <1>1, <1>2 DEF Closing
<1>8. UNCHANGED <<conn, fds, killed>> /\ Return(p)
  BY <1>1
<1> QED
  BY <1>3, <1>4, <1>5, <1>6, <1>7, <1>8, GiveUpStep

LEMMA AcceptNoFileStep ==
    ASSUME IInv, NEW p \in Proc, AcceptNoFile(p)
    PROVE  IInv'
<1>1. PICK s \in FreeSlot : sock' = [sock EXCEPT ![s] = [Connected(hand[p], 1) EXCEPT !.inuse = FALSE]]
  BY DEF AcceptNoFile
<1>2. s \in Slot /\ ~sock[s].inuse
  BY FreeSlots
<1>3. /\ UNCHANGED <<binds, conn, fds, killed>> /\ Return(p) /\ hand[p] \in Conn
  BY DEF AcceptNoFile, tables, IInv, PlaceInv, InPlace, Handing
<1>4. PICK k : k = [Connected(hand[p], 1) EXCEPT !.inuse = FALSE]
  OBVIOUS
<1>5. /\ k \in Struct
      /\ k.state = "connected" /\ k.conn \in Conn /\ ~k.inuse /\ k.backlog = <<>>
  <2>1. Connected(hand[p], 1) \in Struct
    BY <1>3, ConnectedTyped, Sizes
  <2> QED
    BY <1>3, <1>4, <2>1, ConnectedTyped, UnusedTyped, Sizes
<1>6. binds' \in [1..SOCKBINDMAX -> Entry]
  BY <1>3 DEF IInv, TypeInv
<1>7. sock' = [sock EXCEPT ![s] = k]
  BY <1>1, <1>4
<1> QED
  BY <1>2, <1>3, <1>5, <1>6, <1>7, GiveUpStep
-----------------------------------------------------------------------------
(* Steps on connections *)

LEMMA EndStep ==
    ASSUME IInv, NEW p \in Proc, OthersWait(p), SlotsStay(p),
           TypeInv', SlotInv', BacklogInv', OwnerInv', OpenInv', InPlace(p)',
           \A q \in Proc \ {p} : fds'[q] = fds[q],
           \A s \in fds'[p] \ fds[p] :
              sock'[s].inuse /\ \A q \in Proc : ~(pc[q] \in Closing /\ at[q] = s),
           pc'[p] \in Closing =>
              \/ pc[p] \in Closing /\ at'[p] = at[p]
              \/ /\ sock'[at'[p]].inuse /\ \A q \in Proc : at'[p] \notin fds'[q]
                 /\ \A q \in Proc \ {p} : ~(pc[q] \in Closing /\ at[q] = at'[p]),
           pc'[p] \notin Asleep,
           \A q \in Proc \ {p} : pc'[q] \in {"send_sleep", "recv_sleep"} =>
              conn'[hand[q]].q = conn[hand[q]].q /\ conn'[hand[q]].open = conn[hand[q]].open,
           \A q \in Proc \ {p} : pc'[q] = "accept_sleep" =>
              (sock[at[q]].backlog = <<>> => sock'[at[q]].backlog = <<>>)
    PROVE  IInv'
<1> USE DEF IInv
<1>1. fds' \in [Proc -> SUBSET Slot] /\ pc' \in [Proc -> Places]
  BY DEF TypeInv, LocalTypes
<1>2. PlaceInv' /\ ClosingInv' /\ UseInv'
  BY <1>1, PlacesKept
<1>3. SleepersJustified'
  BY SleepersKept DEF Asleep
<1> QED
  BY <1>2, <1>3

\* p leaves its call and wakes those who sleep on connection c.
LEMMA WakePlaces ==
    ASSUME TypeInv, PlaceInv, OpenInv, NEW p \in Proc, NEW c \in Conn,
           pc' = WakeConn(c, [pc EXCEPT ![p] = "user"]), at' = [at EXCEPT ![p] = NoSlot],
           hand' = [hand EXCEPT ![p] = NoConn], target' = target, out' \in [Proc -> Letter]
    PROVE  /\ LocalTypes' /\ OthersWait(p) /\ pc'[p] = "user" /\ InPlace(p)'
           /\ \A q \in Proc \ {p} : pc'[q] \in {"send_sleep", "recv_sleep"}
                 => hand[q] # c /\ hand[q] \in Conn
<1>1. PICK places : places = [pc EXCEPT ![p] = "user"]
  OBVIOUS
<1>2. places \in [Proc -> Places] /\ places[p] = "user" /\ \A q \in Proc \ {p} : places[q] = pc[q]
  BY <1>1 DEF TypeInv, LocalTypes, Places
<1>3. pc' = WakeConn(c, places)
  BY <1>1
<1>4. /\ pc' \in [Proc -> Places]
      /\ \A q \in Proc : /\ Woken(places[q], pc'[q])
                         /\ pc'[q] \in {"send_sleep", "recv_sleep"} => hand[q] # c
  <2>1. /\ WakeConn(c, places) \in [Proc -> Places]
        /\ \A q \in Proc : /\ Woken(places[q], WakeConn(c, places)[q])
                           /\ WakeConn(c, places)[q] \in {"send_sleep", "recv_sleep"} => hand[q] # c
    BY <1>2, WakeConnIs
  <2> QED
    BY <1>3, <2>1
<1>5. pc'[p] = "user"
  BY <1>2, <1>4 DEF Woken
<1>6. LocalTypes'
  BY <1>4 DEF TypeInv, LocalTypes
<1>7. OthersWait(p)
  BY <1>2, <1>4 DEF OthersWait, TypeInv, LocalTypes
<1>8. InPlace(p)'
  BY <1>5 DEF TypeInv, LocalTypes, InPlace, Handing, Inside, Connecting, Talking
<1>9. ASSUME NEW q \in Proc \ {p}, pc'[q] \in {"send_sleep", "recv_sleep"} PROVE hand[q] \in Conn
  <2>1. pc[q] \in Talking
    BY <1>7, <1>9 DEF OthersWait, Woken, Talking
  <2> QED
    BY <2>1, TalkersOwn
<1> QED
  BY <1>4, <1>5, <1>6, <1>7, <1>8, <1>9

\* Who is in the middle of a call keeps its end open.
LEMMA HoldersOwn ==
    ASSUME TypeInv, PlaceInv, OpenInv, NEW p \in Proc, NEW e \in End,
           pc[p] = "push" \/ (pc[p] = "pushed" /\ e = 0) \/ (pc[p] = "popped" /\ e = 1)
    PROVE  /\ hand[p] \in Conn /\ <<"process", p>> \in Owner /\ Owns(<<"process", p>>, hand[p], e)
           /\ conn[hand[p]].live /\ conn[hand[p]].open[e]
<1>1. hand[p] \in Conn
  BY DEF PlaceInv, InPlace, Handing
<1>2. Owns(<<"process", p>>, hand[p], e)
  BY <1>1, OwnsIs DEF ProcessHas
<1>3. <<"process", p>> \in Owner
  BY DEF Owner
<1> QED
  BY <1>1, <1>2, <1>3 DEF OpenInv

\* A message goes into a queue, or comes out of one.
LEMMA TalkStep ==
    ASSUME IInv, NEW p \in Proc, pc[p] \in Talking, UNCHANGED <<sock, binds, fds, target, killed>>,
           pc' = WakeConn(hand[p], [pc EXCEPT ![p] = "user"]), at' = [at EXCEPT ![p] = NoSlot],
           hand' = [hand EXCEPT ![p] = NoConn], out' \in [Proc -> Letter],
           NEW k \in Page, conn' = [conn EXCEPT ![hand[p]] = k],
           k.live = conn[hand[p]].live, k.open = conn[hand[p]].open
    PROVE  IInv'
<1> USE DEF IInv
<1>1. PICK c \in Conn : c = hand[p]
  BY TalkersOwn
<1>2. /\ LocalTypes' /\ OthersWait(p) /\ pc'[p] = "user" /\ InPlace(p)'
      /\ \A q \in Proc \ {p} : pc'[q] \in {"send_sleep", "recv_sleep"} => hand[q] # c /\ hand[q] \in Conn
  BY <1>1, WakePlaces
<1>3. conn'[c] = k /\ \A d \in Conn \ {c} : conn'[d] = conn[d]
  BY <1>1 DEF TypeInv
<1>4. TypeInv' /\ SlotInv' /\ BacklogInv'
  BY <1>1, <1>2 DEF TypeInv, SlotInv, BacklogInv
<1>5. SlotsStay(p)
  BY DEF SlotsStay
<1>6. NothingGained(p, {})
  <2>1. ASSUME NEW t \in Slot PROVE Speaks(p, t)
    BY <1>2 DEF Speaks, Talking
  <2>2. ASSUME NEW t \in Slot, Held(t)' PROVE Held(t)
    BY <1>2, <2>2, HeldStays
  <2> QED
    BY <1>2, <2>1, <2>2 DEF NothingGained
<1>7. \A d \in Conn, e \in End, x \in Owner : Owns(x, d, e)' => Owns(x, d, e)
  BY <1>2, <1>5, <1>6, OwnersStay
<1>8. \A d \in Conn : conn'[d].live = conn[d].live /\ conn'[d].open = conn[d].open
  BY <1>1, <1>3
<1>9. OwnerInv' /\ OpenInv'
  BY <1>7, <1>8, OwnersKept DEF OpenInv
<1>10. pc'[p] \notin Asleep \cup Closing
  BY <1>2 DEF Asleep, Closing
<1> QED
  BY <1>2, <1>3, <1>4, <1>5, <1>9, <1>10, EndStep

LEMMA SendStep ==
    ASSUME IInv, NEW p \in Proc, Send(p)
    PROVE  IInv'
<1> USE DEF IInv
<1>1. pc[p] = "send" /\ pc[p] \in Talking
  BY DEF Send, Talking
<1>2. PICK c \in Conn : c = hand[p]
  BY <1>1, TalkersOwn
<1>3. PICK e \in End : e = MyEnd(p)
  BY <1>1, TalkersOwn
<1>4. PICK z : z = Append(conn[c].q[e], out[p])
  OBVIOUS
<1>5. conn[c] \in Page /\ out[p] \in Letter
  BY DEF TypeInv, LocalTypes
<1>6. z \in Seq(Letter)
  BY <1>4, <1>5, AppendProperties DEF Page
<1>7. PICK k : k = [conn[c] EXCEPT !.q[e] = z]
  OBVIOUS
<1>8. k \in Page /\ k.live = conn[c].live /\ k.open = conn[c].open
  BY <1>5, <1>6, <1>7 DEF Page
<1>9. conn' = [conn EXCEPT ![c] = k]
  BY <1>2, <1>3, <1>4, <1>7 DEF Send, Enqueue
<1>10. NoMessage \in Letter
  BY DEF Letter
<1>11. /\ UNCHANGED <<sock, binds, fds, target, killed>>
       /\ pc' = WakeConn(hand[p], [pc EXCEPT ![p] = "user"]) /\ at' = [at EXCEPT ![p] = NoSlot]
       /\ hand' = [hand EXCEPT ![p] = NoConn] /\ out' \in [Proc -> Letter]
  BY <1>10 DEF Send, tables, TypeInv, LocalTypes
<1> HIDE DEF IInv
<1> QED
  BY <1>1, <1>2, <1>8, <1>9, <1>11, TalkStep

LEMMA RecvStep ==
    ASSUME IInv, NEW p \in Proc, Recv(p)
    PROVE  IInv'
<1> USE DEF IInv
<1>1. pc[p] = "recv" /\ pc[p] \in Talking
  BY DEF Recv, Talking
<1>2. PICK c \in Conn : c = hand[p]
  BY <1>1, TalkersOwn
<1>3. PICK e \in End : e = Peer(p)
  <2>1. MyEnd(p) = 0 \/ MyEnd(p) = 1
    BY <1>1, TalkersOwn DEF End
  <2> QED
    BY <2>1 DEF Peer, End
<1>4. PICK z : z = Tail(conn[c].q[e])
  OBVIOUS
<1>5. conn[c] \in Page /\ conn[c].q[e] # <<>>
  BY <1>2, <1>3 DEF TypeInv, Recv, Incoming
<1>6. z \in Seq(Letter)
  BY <1>4, <1>5, HeadTailProperties DEF Page
<1>7. PICK k : k = [conn[c] EXCEPT !.q[e] = z]
  OBVIOUS
<1>8. k \in Page /\ k.live = conn[c].live /\ k.open = conn[c].open
  BY <1>5, <1>6, <1>7 DEF Page
<1>9. conn' = [conn EXCEPT ![c] = k]
  BY <1>2, <1>3, <1>4, <1>7 DEF Recv
<1>10. /\ UNCHANGED <<sock, binds, fds, target, killed>>
       /\ pc' = WakeConn(hand[p], [pc EXCEPT ![p] = "user"]) /\ at' = [at EXCEPT ![p] = NoSlot]
       /\ hand' = [hand EXCEPT ![p] = NoConn] /\ out' \in [Proc -> Letter]
  BY DEF Recv, TypeInv, LocalTypes
<1> HIDE DEF IInv
<1> QED
  BY <1>1, <1>2, <1>8, <1>9, <1>10, TalkStep

\* A step that leaves a slot that was not in use with an end.
LEMMA FreshHas ==
    ASSUME TypeInv, PlaceInv, UseInv, NEW p \in Proc, OthersWait(p), pc'[p] \notin Talking,
           NEW s \in Slot, ~sock[s].inuse,
           NEW c \in Conn, NEW e \in End, SocketHas(s, c, e)'
    PROVE  sock'[s].state = "connected" /\ sock'[s].conn = c /\ sock'[s].end = e
<1>1. \A q \in Proc : ~(pc[q] \in Talking /\ at[q] = s)
  BY NobodyHas DEF Inside
<1>2. ASSUME NEW q \in Proc, pc'[q] \in Talking, at'[q] = s PROVE FALSE
  <2>1. pc[q] \in Talking /\ at[q] = s
    BY <1>2 DEF OthersWait, Woken, Talking
  <2> QED
    BY <1>1, <2>1
<1> QED
  BY <1>2 DEF SocketHas

LEMMA NewConnStep ==
    ASSUME IInv, NEW p \in Proc, NewConn(p)
    PROVE  IInv'
<1> USE DEF IInv
<1>1. CASE Return(p) /\ UNCHANGED conn
  <2>1. UNCHANGED <<sock, binds, conn, fds, killed>>
    BY <1>1 DEF NewConn, tables
  <2> HIDE DEF IInv
  <2> QED
    BY <1>1, <2>1, ReturnStep
<1>2. ASSUME NEW c \in Conn, ~conn[c].live, conn' = [conn EXCEPT ![c] = Opened],
             hand' = [hand EXCEPT ![p] = c], pc' = [pc EXCEPT ![p] = "push"],
             UNCHANGED <<at, target, out>>
      PROVE  IInv'
  <2>1. UNCHANGED <<sock, binds, fds, killed>> /\ pc[p] = "found"
    BY <1>2 DEF NewConn, tables
  <2>2. conn'[c] = Opened /\ \A d \in Conn \ {c} : conn'[d] = conn[d]
    BY <1>2 DEF TypeInv
  <2>3. TypeInv' /\ SlotInv' /\ BacklogInv'
    BY <1>2, <2>1, PagesTyped DEF TypeInv, LocalTypes, Places, SlotInv, BacklogInv
  <2>4. OthersWait(p) /\ SlotsStay(p) /\ pc'[p] = "push" /\ hand'[p] = c
    BY <1>2, <2>1 DEF OthersWait, Woken, SlotsStay, TypeInv, LocalTypes
  <2>5. InPlace(p)'
    BY <1>2, <2>1, <2>4 DEF PlaceInv, InPlace, Handing, Inside, Connecting, Talking
  <2>6. PICK E : E = {<<"process", p>>}
    OBVIOUS
  <2>7. NothingGained(p, E)
    <3>1. ASSUME NEW t \in Slot PROVE Speaks(p, t)
      BY <2>4 DEF Speaks, Talking
    <3>2. ASSUME NEW t \in Slot, Held(t)' PROVE Held(t)
      BY <2>1, <2>4, <3>2, HeldStays
    <3> QED
      BY <2>1, <2>6, <3>1, <3>2 DEF NothingGained
  <2>8. \A d \in Conn, e \in End, x \in Owner \ E : Owns(x, d, e)' => Owns(x, d, e)
    BY <2>4, <2>7, OwnersStay
  <2>9. \A d \in Conn, e \in End : Owns(<<"process", p>>, d, e)' => d = c
    BY <2>4, OwnsIsNext DEF ProcessHas
  <2>10. <<"process", p>> \in Owner
    BY DEF Owner
  <2>11. \A e \in End, x \in Owner : ~Owns(x, c, e)
    BY <1>2 DEF OpenInv
  <2>12. \A d \in Conn, e \in End :
            \/ \A x \in Owner : Owns(x, d, e)' => Owns(x, d, e)
            \/ \E z \in Owner : \A x \in Owner : Owns(x, d, e)' => x = z
    <3> SUFFICES ASSUME NEW d \in Conn, NEW e \in End
                 PROVE  \/ \A x \in Owner : Owns(x, d, e)' => Owns(x, d, e)
                        \/ \E z \in Owner : \A x \in Owner : Owns(x, d, e)' => x = z
      OBVIOUS
    <3>1. CASE d = c
      <4>1. \A x \in Owner : Owns(x, d, e)' => x = <<"process", p>>
        BY <2>6, <2>8, <2>11, <3>1
      <4> QED
        BY <2>10, <4>1
    <3>2. CASE d # c
      <4>1. \A x \in Owner : Owns(x, d, e)' => Owns(x, d, e)
        BY <2>6, <2>8, <2>9, <3>2
      <4> QED
        BY <4>1
    <3> QED
      BY <3>1, <3>2
  <2>13. \A d \in Conn, e \in End, x \in Owner : Owns(x, d, e)' => conn'[d].live /\ conn'[d].open[e]
    <3> SUFFICES ASSUME NEW d \in Conn, NEW e \in End, NEW x \in Owner, Owns(x, d, e)'
                 PROVE  conn'[d].live /\ conn'[d].open[e]
      OBVIOUS
    <3>1. CASE d = c
      BY <2>2, <3>1, PagesTyped
    <3>2. CASE d # c
      <4>1. Owns(x, d, e)
        BY <2>6, <2>8, <2>9, <3>2
      <4> QED
        BY <2>2, <3>2, <4>1 DEF OpenInv
    <3> QED
      BY <3>1, <3>2
  <2>14. OwnerInv' /\ OpenInv'
    BY <2>12, <2>13, OwnersKept
  <2>15. \A q \in Proc \ {p} : pc'[q] \in {"send_sleep", "recv_sleep"} => hand[q] \in Conn /\ hand[q] # c
    <3> SUFFICES ASSUME NEW q \in Proc \ {p}, pc'[q] \in {"send_sleep", "recv_sleep"}
                 PROVE  hand[q] \in Conn /\ hand[q] # c
      OBVIOUS
    <3>1. pc[q] \in Talking
      BY <2>4 DEF OthersWait, Woken, Talking
    <3> QED
      BY <1>2, <3>1, TalkersOwn
  <2>16. pc'[p] \notin Asleep \cup Closing
    BY <2>4 DEF Asleep, Closing
  <2> QED
    BY <2>1, <2>2, <2>3, <2>4, <2>5, <2>14, <2>15, <2>16, EndStep
<1> QED
  BY <1>1, <1>2 DEF NewConn

LEMMA PushRefusedStep ==
    ASSUME IInv, NEW p \in Proc, PushRefused(p)
    PROVE  IInv'
<1> USE DEF IInv
<1>1. UNCHANGED <<sock, binds, fds, killed>> /\ Return(p) /\ pc[p] = "push"
  BY DEF PushRefused, tables
<1>2. PICK c \in Conn : c = hand[p]
  BY <1>1, Sizes, HoldersOwn
<1>3. conn'[c] = Freed /\ \A d \in Conn \ {c} : conn'[d] = conn[d]
  BY <1>2 DEF TypeInv, PushRefused
<1>4. LocalTypes' /\ OthersWait(p) /\ pc'[p] = "user" /\ InPlace(p)'
  BY <1>1, ReturnIs DEF TypeInv
<1>5. TypeInv' /\ SlotInv' /\ BacklogInv'
  BY <1>1, <1>2, <1>4, PagesTyped DEF TypeInv, SlotInv, BacklogInv, PushRefused
<1>6. SlotsStay(p)
  BY <1>1 DEF SlotsStay
<1>7. NothingGained(p, {})
  <2>1. ASSUME NEW t \in Slot PROVE Speaks(p, t)
    BY <1>4 DEF Speaks, Talking
  <2>2. ASSUME NEW t \in Slot, Held(t)' PROVE Held(t)
    BY <1>1, <1>4, <2>2, HeldStays
  <2> QED
    BY <1>1, <1>4, <2>1, <2>2 DEF NothingGained
<1>8. \A d \in Conn, e \in End, x \in Owner : Owns(x, d, e)' => Owns(x, d, e)
  BY <1>4, <1>6, <1>7, OwnersStay
<1>9. \A e \in End : <<"process", p>> \in Owner /\ Owns(<<"process", p>>, c, e)
  BY <1>1, <1>2, HoldersOwn
<1>10. \A e \in End, x \in Owner : ~Owns(x, c, e)'
  <2> SUFFICES ASSUME NEW e \in End, NEW x \in Owner, Owns(x, c, e)' PROVE FALSE
    OBVIOUS
  <2>1. x = <<"process", p>>
    BY <1>8, <1>9 DEF OwnerInv
  <2>2. ProcessHas(p, c, e)'
    BY <2>1, OwnsIsNext
  <2> QED
    BY <1>4, <2>2 DEF ProcessHas
<1>11. OwnerInv' /\ OpenInv'
  <2>1. \A d \in Conn, e \in End, x \in Owner : Owns(x, d, e)' => conn'[d].live /\ conn'[d].open[e]
    BY <1>3, <1>8, <1>10 DEF OpenInv
  <2> QED
    BY <1>8, <2>1, OwnersKept
<1>12. ASSUME NEW q \in Proc \ {p}, pc'[q] \in {"send_sleep", "recv_sleep"}
       PROVE  hand[q] \in Conn /\ hand[q] # c
  <2>1. pc[q] \in Talking
    BY <1>4, <1>12 DEF OthersWait, Woken, Talking
  <2>2. /\ hand[q] \in Conn /\ at[q] \in Slot /\ MyEnd(q) \in End
        /\ Owns(<<"socket", at[q]>>, hand[q], MyEnd(q))
    BY <2>1, TalkersOwn
  <2>3. <<"socket", at[q]>> \in Owner /\ <<"socket", at[q]>> # <<"process", p>>
    BY <2>2 DEF Owner
  <2> QED
    BY <1>9, <2>2, <2>3 DEF OwnerInv
<1>13. pc'[p] \notin Asleep \cup Closing
  BY <1>4 DEF Asleep, Closing
<1> QED
  BY <1>1, <1>3, <1>4, <1>5, <1>6, <1>11, <1>12, <1>13, EndStep

LEMMA AcceptNoSlotStep ==
    ASSUME IInv, NEW p \in Proc, AcceptNoSlot(p)
    PROVE  IInv'
<1> USE DEF IInv
<1>1. /\ UNCHANGED <<sock, binds, fds, target, out, killed>> /\ pc[p] = "popped"
      /\ at' = [at EXCEPT ![p] = NoSlot] /\ hand' = [hand EXCEPT ![p] = NoConn]
  BY DEF AcceptNoSlot
<1>2. PICK c \in Conn : c = hand[p]
  BY <1>1, Sizes, HoldersOwn
<1>3. PICK k : k = EndClosed(conn[c], 1)
  OBVIOUS
<1>4. conn' = [conn EXCEPT ![c] = k] /\ pc' = WakeConn(c, [pc EXCEPT ![p] = "user"])
  BY <1>2, <1>3 DEF AcceptNoSlot
<1>5. k \in Page /\ \A e \in End \ {1} : conn[c].live /\ conn[c].open[e] => k.live /\ k.open[e]
  BY <1>3, EndClosedIs, Sizes DEF TypeInv
<1>6. conn'[c] = k /\ \A d \in Conn \ {c} : conn'[d] = conn[d]
  BY <1>4 DEF TypeInv
<1>7. /\ LocalTypes' /\ OthersWait(p) /\ pc'[p] = "user" /\ InPlace(p)'
      /\ \A q \in Proc \ {p} : pc'[q] \in {"send_sleep", "recv_sleep"} => hand[q] # c /\ hand[q] \in Conn
  <2>1. out' \in [Proc -> Letter] /\ target' = target
    BY <1>1 DEF TypeInv, LocalTypes
  <2> QED
    BY <1>1, <1>4, <2>1, WakePlaces
<1>8. TypeInv' /\ SlotInv' /\ BacklogInv'
  BY <1>1, <1>4, <1>5, <1>7 DEF TypeInv, SlotInv, BacklogInv
<1>9. SlotsStay(p)
  BY <1>1 DEF SlotsStay
<1>10. NothingGained(p, {})
  <2>1. ASSUME NEW t \in Slot PROVE Speaks(p, t)
    BY <1>7 DEF Speaks, Talking
  <2>2. ASSUME NEW t \in Slot, Held(t)' PROVE Held(t)
    BY <1>1, <1>7, <2>2, HeldStays
  <2> QED
    BY <1>1, <1>7, <2>1, <2>2 DEF NothingGained
<1>11. \A d \in Conn, e \in End, x \in Owner : Owns(x, d, e)' => Owns(x, d, e)
  BY <1>7, <1>9, <1>10, OwnersStay
<1>12. <<"process", p>> \in Owner /\ Owns(<<"process", p>>, c, 1)
  BY <1>1, <1>2, Sizes, HoldersOwn
<1>13. \A x \in Owner : ~Owns(x, c, 1)'
  <2> SUFFICES ASSUME NEW x \in Owner, Owns(x, c, 1)' PROVE FALSE
    OBVIOUS
  <2>1. x = <<"process", p>>
    BY <1>11, <1>12, Sizes DEF OwnerInv
  <2>2. ProcessHas(p, c, 1)'
    BY <2>1, OwnsIsNext, Sizes
  <2> QED
    BY <1>7, <2>2 DEF ProcessHas
<1>14. OwnerInv' /\ OpenInv'
  <2>1. \A d \in Conn, e \in End, x \in Owner : Owns(x, d, e)' => conn'[d].live /\ conn'[d].open[e]
    BY <1>5, <1>6, <1>11, <1>13 DEF OpenInv
  <2> QED
    BY <1>11, <2>1, OwnersKept
<1>15. pc'[p] \notin Asleep \cup Closing
  BY <1>7 DEF Asleep, Closing
<1> QED
  BY <1>1, <1>6, <1>7, <1>8, <1>9, <1>14, <1>15, EndStep

LEMMA CloseConnStep ==
    ASSUME IInv, NEW p \in Proc, CloseConn(p)
    PROVE  IInv'
<1> USE DEF IInv
<1>1. /\ UNCHANGED <<binds, fds, target, hand, out, killed>> /\ pc[p] = "close"
      /\ at' = [at EXCEPT ![p] = NoSlot]
  BY DEF CloseConn
<1>2. PICK s \in Slot : s = at[p]
  BY <1>1 DEF PlaceInv, InPlace
<1>3. PICK c \in Conn, f \in End : c = sock[s].conn /\ f = sock[s].end
  BY <1>2 DEF CloseConn, SlotInv, TypeInv, Struct
<1>4. PICK k : k = EndClosed(conn[c], f)
  OBVIOUS
<1>5. /\ conn' = [conn EXCEPT ![c] = k] /\ pc' = WakeConn(c, [pc EXCEPT ![p] = "user"])
      /\ sock' = [sock EXCEPT ![s].inuse = FALSE] /\ sock[s].state = "connected"
  BY <1>2, <1>3, <1>4 DEF CloseConn
<1>6. k \in Page /\ \A e \in End \ {f} : conn[c].live /\ conn[c].open[e] => k.live /\ k.open[e]
  BY <1>4, EndClosedIs DEF TypeInv
<1>7. conn'[c] = k /\ \A d \in Conn \ {c} : conn'[d] = conn[d]
  BY <1>5 DEF TypeInv
<1>8. /\ LocalTypes' /\ OthersWait(p) /\ pc'[p] = "user" /\ InPlace(p)'
      /\ \A q \in Proc \ {p} : pc'[q] \in {"send_sleep", "recv_sleep"} => hand[q] # c /\ hand[q] \in Conn
  <2>1. out' \in [Proc -> Letter] /\ target' = target
    BY <1>1 DEF TypeInv, LocalTypes
  <2>2. hand' = [hand EXCEPT ![p] = NoConn]
    BY <1>1 DEF TypeInv, LocalTypes, PlaceInv, InPlace, Handing, Talking
  <2> QED
    BY <1>1, <1>5, <2>1, <2>2, WakePlaces
<1>9. PICK r : r = [sock[s] EXCEPT !.inuse = FALSE]
  OBVIOUS
<1>10. /\ r \in Struct /\ r.state = "connected" /\ r.conn = c /\ r.end = f
       /\ r.backlog = sock[s].backlog /\ sock' = [sock EXCEPT ![s] = r]
       /\ sock'[s] = r /\ \A t \in Slot \ {s} : sock'[t] = sock[t]
  BY <1>3, <1>5, <1>9, UnusedTyped DEF TypeInv, Struct
<1>11. TypeInv' /\ SlotInv' /\ BacklogInv'
  <2>1. TypeInv'
    BY <1>1, <1>5, <1>6, <1>8, <1>10 DEF TypeInv
  <2>2. SlotInv'
    BY <1>10 DEF SlotInv
  <2>3. BacklogInv'
    BY <1>10 DEF BacklogInv
  <2> QED
    BY <2>1, <2>2, <2>3
<1>12. SlotsStay(p)
  BY <1>1, <1>2, <1>3, <1>5, <1>8, <1>10 DEF SlotsStay, Closing
<1>13. /\ \A q \in Proc : s \notin fds[q] /\ ~(pc[q] \in Talking /\ at[q] = s)
       /\ \A q \in Proc \ {p} : ~(pc[q] \in Closing /\ at[q] = s)
  BY <1>1, <1>2 DEF ClosingInv, Closing, PlaceInv, InPlace, Inside
<1>14. NothingGained(p, {})
  <2>1. ASSUME NEW t \in Slot PROVE Speaks(p, t)
    BY <1>8 DEF Speaks, Talking
  <2>2. ASSUME NEW t \in Slot, Held(t)' PROVE Held(t)
    BY <1>1, <1>8, <2>2, HeldStays
  <2> QED
    BY <1>3, <1>5, <1>8, <1>10, <2>1, <2>2 DEF NothingGained
<1>15. \A d \in Conn, e \in End, x \in Owner : Owns(x, d, e)' => Owns(x, d, e)
  BY <1>8, <1>12, <1>14, OwnersStay
<1>16. <<"socket", s>> \in Owner /\ Owns(<<"socket", s>>, c, f)
  <2>1. SocketHas(s, c, f)
    BY <1>1, <1>2, <1>3, <1>5 DEF SocketHas, Held
  <2> QED
    BY <2>1, OwnsIs DEF Owner
<1>17. ~SocketHas(s, c, f)'
  <2>1. ASSUME NEW q \in Proc, pc'[q] \in Talking \cup {"close"}, at'[q] = s PROVE FALSE
    BY <1>8, <1>13, <2>1 DEF OthersWait, Woken, Talking, Closing
  <2> QED
    BY <1>1, <1>13, <2>1 DEF SocketHas, Held
<1>18. \A x \in Owner : ~Owns(x, c, f)'
  <2> SUFFICES ASSUME NEW x \in Owner, Owns(x, c, f)' PROVE FALSE
    OBVIOUS
  <2>1. x = <<"socket", s>>
    BY <1>15, <1>16 DEF OwnerInv
  <2> QED
    BY <1>17, <2>1, OwnsIsNext
<1>19. OwnerInv' /\ OpenInv'
  <2>1. \A d \in Conn, e \in End, x \in Owner : Owns(x, d, e)' => conn'[d].live /\ conn'[d].open[e]
    BY <1>6, <1>7, <1>15, <1>18 DEF OpenInv
  <2> QED
    BY <1>15, <2>1, OwnersKept
<1>20. pc'[p] \notin Asleep \cup Closing
  BY <1>8 DEF Asleep, Closing
<1>21. \A q \in Proc \ {p} : pc'[q] = "accept_sleep" =>
          (sock[at[q]].backlog = <<>> => sock'[at[q]].backlog = <<>>)
  <2>1. \A q \in Proc \ {p} : pc'[q] = "accept_sleep" => at[q] \in Slot
    BY <1>8 DEF OthersWait, Woken, PlaceInv, InPlace
  <2> QED
    BY <1>10, <2>1
<1> QED
  BY <1>1, <1>7, <1>8, <1>11, <1>12, <1>19, <1>20, <1>21, EndStep

\* End f of connection c goes to z, and no other end to anybody.
LEMMA OneMoves ==
    ASSUME OwnerInv, OpenInv, UNCHANGED conn,
           NEW c \in Conn, NEW f \in End, NEW z \in Owner, conn[c].live /\ conn[c].open[f],
           \A x \in Owner : Owns(x, c, f)' => x = z,
           \A d \in Conn, e \in End, x \in Owner :
              Owns(x, d, e)' /\ ~(d = c /\ e = f) => Owns(x, d, e)
    PROVE  OwnerInv' /\ OpenInv'
<1>1. ASSUME NEW d \in Conn, NEW e \in End
      PROVE  \/ \A x \in Owner : Owns(x, d, e)' => Owns(x, d, e)
             \/ \E y \in Owner : \A x \in Owner : Owns(x, d, e)' => x = y
  <2>1. CASE d = c /\ e = f
    BY <2>1
  <2>2. CASE ~(d = c /\ e = f)
    BY <2>2
  <2> QED
    BY <2>1, <2>2
<1>2. ASSUME NEW d \in Conn, NEW e \in End, NEW x \in Owner, Owns(x, d, e)'
      PROVE  conn'[d].live /\ conn'[d].open[e]
  <2>1. CASE d = c /\ e = f
    BY <2>1
  <2>2. CASE ~(d = c /\ e = f)
    BY <1>2, <2>2 DEF OpenInv
  <2> QED
    BY <2>1, <2>2
<1> QED
  BY <1>1, <1>2, OwnersKept

LEMMA PushStep ==
    ASSUME IInv, NEW p \in Proc, Push(p)
    PROVE  IInv'
<1> USE DEF IInv
<1>1. /\ UNCHANGED <<binds, conn, fds, at, target, hand, out, killed>> /\ pc[p] = "push"
  BY DEF Push, tables, locals
<1>2. PICK c \in Conn : c = hand[p]
  BY <1>1, Sizes, HoldersOwn
<1>3. PICK ls \in Slot : ls = target[p]
  BY <1>1 DEF PlaceInv, InPlace
<1>4. PICK b : b = sock[ls].backlog
  OBVIOUS
<1>5. b \in Seq(Conn)
  BY <1>4 DEF TypeInv, Struct
<1>6. PICK z : z = Append(b, c)
  OBVIOUS
<1>7. /\ z \in Seq(Conn)
      /\ \A d : (\E i \in DOMAIN z : z[i] = d) => d = c \/ \E i \in DOMAIN b : b[i] = d
      /\ /\ \A i \in DOMAIN b : b[i] # c
         /\ \A i, j \in DOMAIN b : b[i] = b[j] => i = j
         => \A i, j \in DOMAIN z : z[i] = z[j] => i = j
  BY <1>5, <1>6, PendingAppend
<1>8. PICK r : r = [sock[ls] EXCEPT !.backlog = z]
  OBVIOUS
<1>9. /\ r \in Struct /\ r.inuse = sock[ls].inuse /\ r.state = sock[ls].state
      /\ r.conn = sock[ls].conn /\ r.end = sock[ls].end /\ r.backlog = z
  <2>1. sock[ls] \in Struct
    BY DEF TypeInv
  <2> QED
    BY <1>7, <1>8, <2>1, PendingTyped
<1>10. sock' = [sock EXCEPT ![ls] = r] /\ sock'[ls] = r /\ \A t \in Slot \ {ls} : sock'[t] = sock[t]
  BY <1>2, <1>3, <1>4, <1>6, <1>8 DEF Push, TypeInv
<1>11. PICK places : places = [pc EXCEPT ![p] = "pushed"]
  OBVIOUS
<1>12. places \in [Proc -> Places] /\ places[p] = "pushed" /\ \A q \in Proc \ {p} : places[q] = pc[q]
  BY <1>11 DEF TypeInv, LocalTypes, Places
<1>13. pc' = WakeListen(ls, places)
  BY <1>3, <1>11 DEF Push
<1>14. /\ pc' \in [Proc -> Places]
       /\ \A q \in Proc : /\ Woken(places[q], pc'[q])
                          /\ pc'[q] = "accept_sleep" => at[q] # ls
  <2>1. /\ WakeListen(ls, places) \in [Proc -> Places]
        /\ \A q \in Proc : /\ Woken(places[q], WakeListen(ls, places)[q])
                           /\ WakeListen(ls, places)[q] = "accept_sleep" => at[q] # ls
    BY <1>12, WakeListenIs
  <2> QED
    BY <1>13, <2>1
<1>15. pc'[p] = "pushed" /\ OthersWait(p) /\ LocalTypes'
  BY <1>1, <1>12, <1>14 DEF Woken, OthersWait, LocalTypes, TypeInv
<1>16. SlotsStay(p)
  BY <1>9, <1>10 DEF SlotsStay
<1>17. \A e \in End : <<"process", p>> \in Owner /\ Owns(<<"process", p>>, c, e)
  BY <1>1, <1>2, HoldersOwn
<1>18. \A i \in DOMAIN b : b[i] # c
  <2> SUFFICES ASSUME NEW i \in DOMAIN b, b[i] = c PROVE FALSE
    OBVIOUS
  <2>1. Owns(<<"backlog", ls>>, c, 1)
    BY <1>4, OwnsIs, Sizes DEF BacklogHas
  <2>2. <<"backlog", ls>> \in Owner /\ <<"backlog", ls>> # <<"process", p>>
    BY DEF Owner
  <2> QED
    BY <1>17, <2>1, <2>2, Sizes DEF OwnerInv
<1>19. TypeInv' /\ SlotInv' /\ BacklogInv'
  <2>1. TypeInv'
    BY <1>1, <1>9, <1>10, <1>15 DEF TypeInv
  <2>2. SlotInv'
    BY <1>9, <1>10 DEF SlotInv
  <2>3. \A i, j \in DOMAIN z : z[i] = z[j] => i = j
    BY <1>4, <1>7, <1>18 DEF BacklogInv
  <2>4. BacklogInv'
    BY <1>9, <1>10, <2>3 DEF BacklogInv
  <2> QED
    BY <2>1, <2>2, <2>4
<1>20. InPlace(p)'
  <2>1. at[p] \in Slot /\ sock[at[p]].end = 0 /\ at[p] \in fds[p] /\ hand[p] \in Conn
    BY <1>1, <1>2 DEF PlaceInv, InPlace, Inside, Connecting
  <2>2. sock'[at[p]].end = 0
    BY <1>9, <1>10, <2>1
  <2> QED
    BY <1>1, <1>15, <2>1, <2>2 DEF InPlace, Handing, Inside, Connecting, Talking
<1>21. PICK E : E = {<<"process", p>>, <<"backlog", ls>>}
  OBVIOUS
<1>22. NothingGained(p, E)
  <2>1. ASSUME NEW t \in Slot PROVE Speaks(p, t)
    BY <1>15 DEF Speaks, Talking
  <2>2. ASSUME NEW t \in Slot, Held(t)' PROVE Held(t)
    BY <1>1, <1>15, <2>2, HeldStays
  <2>3. \A t \in Slot : sock'[t].state = sock[t].state /\ sock'[t].conn = sock[t].conn
    BY <1>9, <1>10
  <2>4. \A t \in Slot : <<"backlog", t>> \notin E => sock'[t] = sock[t]
    BY <1>10, <1>21
  <2> QED
    BY <1>21, <2>1, <2>2, <2>3, <2>4 DEF NothingGained
<1>23. \A d \in Conn, e \in End, x \in Owner \ E : Owns(x, d, e)' => Owns(x, d, e)
  BY <1>15, <1>16, <1>22, OwnersStay
<1>24. \A d \in Conn, e \in End : Owns(<<"process", p>>, d, e)' => d = c /\ e = 0
  BY <1>1, <1>2, <1>15, OwnsIsNext DEF ProcessHas
<1>25. \A d \in Conn, e \in End : Owns(<<"backlog", ls>>, d, e)' =>
          (d = c /\ e = 1) \/ Owns(<<"backlog", ls>>, d, e)
  <2> SUFFICES ASSUME NEW d \in Conn, NEW e \in End, Owns(<<"backlog", ls>>, d, e)',
                      ~(d = c /\ e = 1)
               PROVE  Owns(<<"backlog", ls>>, d, e)
    OBVIOUS
  <2>1. BacklogHas(ls, d, e)'
    BY OwnsIsNext
  <2>2. e = 1 /\ \E i \in DOMAIN z : z[i] = d
    BY <1>9, <1>10, <2>1 DEF BacklogHas
  <2>3. BacklogHas(ls, d, e)
    BY <1>4, <1>7, <2>2 DEF BacklogHas
  <2> QED
    BY <2>3, OwnsIs
<1>26. <<"backlog", ls>> \in Owner
  BY DEF Owner
<1>27. ASSUME NEW d \in Conn, NEW e \in End, NEW x \in Owner, Owns(x, d, e)', ~(d = c /\ e = 1)
       PROVE  Owns(x, d, e)
  BY <1>17, <1>21, <1>23, <1>24, <1>25, <1>27
<1>28. ASSUME NEW x \in Owner, Owns(x, c, 1)' PROVE x = <<"backlog", ls>>
  <2>1. CASE x \notin E
    <3>1. Owns(x, c, 1) /\ Owns(<<"process", p>>, c, 1)
      BY <1>17, <1>23, <1>28, <2>1, Sizes
    <3>2. x = <<"process", p>>
      BY <1>17, <3>1, Sizes DEF OwnerInv
    <3> QED
      BY <1>21, <2>1, <3>2
  <2>2. x # <<"process", p>>
    BY <1>24, <1>28, Sizes
  <2> QED
    BY <1>21, <2>1, <2>2
<1>29. OwnerInv' /\ OpenInv'
  <2>1. conn[c].live /\ conn[c].open[1]
    BY <1>17, Sizes DEF OpenInv
  <2> QED
    BY <1>1, <1>26, <1>27, <1>28, <2>1, Sizes, OneMoves
<1>30. \A q \in Proc \ {p} : pc'[q] = "accept_sleep" =>
          (sock[at[q]].backlog = <<>> => sock'[at[q]].backlog = <<>>)
  <2>1. \A q \in Proc \ {p} : pc'[q] = "accept_sleep" => at[q] \in Slot /\ at[q] # ls
    BY <1>14, <1>15 DEF OthersWait, Woken, PlaceInv, InPlace
  <2> QED
    BY <1>10, <2>1
<1>31. pc'[p] \notin Asleep \cup Closing
  BY <1>15 DEF Asleep, Closing
<1> QED
  BY <1>1, <1>15, <1>16, <1>19, <1>20, <1>29, <1>30, <1>31, EndStep

LEMMA PopStep ==
    ASSUME IInv, NEW p \in Proc, Pop(p)
    PROVE  IInv'
<1> USE DEF IInv
<1>1. /\ UNCHANGED <<binds, conn, fds, at, target, out, killed>> /\ pc[p] = "accept"
      /\ pc' = [pc EXCEPT ![p] = "popped"]
  BY DEF Pop, tables
<1>2. PICK s \in Slot : s = at[p]
  BY <1>1 DEF PlaceInv, InPlace
<1>3. PICK b : b = sock[s].backlog
  OBVIOUS
<1>4. b \in Seq(Conn) /\ b # <<>>
  BY <1>2, <1>3 DEF TypeInv, Struct, Pop
<1>5. PICK c : c = Head(b)
  OBVIOUS
<1>6. PICK z : z = Tail(b)
  OBVIOUS
<1>7. /\ z \in Seq(Conn) /\ c \in Conn
      /\ \E i \in DOMAIN b : b[i] = c
      /\ \A d : (\E i \in DOMAIN z : z[i] = d) => \E i \in DOMAIN b : b[i] = d
      /\ (\A i, j \in DOMAIN b : b[i] = b[j] => i = j)
         => /\ \A i, j \in DOMAIN z : z[i] = z[j] => i = j
            /\ \A i \in DOMAIN z : z[i] # c
  BY <1>4, <1>5, <1>6, PendingTail
<1>8. /\ \A i, j \in DOMAIN z : z[i] = z[j] => i = j
      /\ \A i \in DOMAIN z : z[i] # c
  BY <1>3, <1>7 DEF BacklogInv
<1>9. PICK r : r = [sock[s] EXCEPT !.backlog = z]
  OBVIOUS
<1>10. /\ r \in Struct /\ r.inuse = sock[s].inuse /\ r.state = sock[s].state
       /\ r.conn = sock[s].conn /\ r.end = sock[s].end /\ r.backlog = z
  <2>1. sock[s] \in Struct
    BY DEF TypeInv
  <2> QED
    BY <1>7, <1>9, <2>1, PendingTyped
<1>11. sock' = [sock EXCEPT ![s] = r] /\ sock'[s] = r /\ \A t \in Slot \ {s} : sock'[t] = sock[t]
  BY <1>2, <1>3, <1>6, <1>9 DEF Pop, TypeInv
<1>12. hand' = [hand EXCEPT ![p] = c]
  BY <1>2, <1>3, <1>5 DEF Pop
<1>13. pc'[p] = "popped" /\ hand'[p] = c /\ OthersWait(p) /\ LocalTypes'
  BY <1>1, <1>7, <1>12 DEF Woken, OthersWait, LocalTypes, TypeInv, Places
<1>14. SlotsStay(p)
  BY <1>10, <1>11 DEF SlotsStay
<1>15. TypeInv' /\ SlotInv' /\ BacklogInv'
  <2>1. TypeInv'
    BY <1>1, <1>10, <1>11, <1>13 DEF TypeInv
  <2>2. SlotInv'
    BY <1>10, <1>11 DEF SlotInv
  <2>3. BacklogInv'
    BY <1>8, <1>10, <1>11 DEF BacklogInv
  <2> QED
    BY <2>1, <2>2, <2>3
<1>16. InPlace(p)'
  BY <1>1, <1>2, <1>7, <1>13 DEF PlaceInv, InPlace, Handing, Inside, Connecting, Talking
<1>17. PICK E : E = {<<"process", p>>}
  OBVIOUS
<1>18. NothingGained(p, E)
  <2>1. ASSUME NEW t \in Slot PROVE Speaks(p, t)
    BY <1>13 DEF Speaks, Talking
  <2>2. ASSUME NEW t \in Slot, Held(t)' PROVE Held(t)
    BY <1>1, <1>13, <2>2, HeldStays
  <2>3. \A t \in Slot : sock'[t].state = sock[t].state /\ sock'[t].conn = sock[t].conn
    BY <1>10, <1>11
  <2>4. \A t \in Slot : \A i \in DOMAIN sock'[t].backlog :
            \E j \in DOMAIN sock[t].backlog : sock[t].backlog[j] = sock'[t].backlog[i]
    BY <1>3, <1>7, <1>10, <1>11
  <2> QED
    BY <1>17, <2>1, <2>2, <2>3, <2>4 DEF NothingGained
<1>19. \A d \in Conn, e \in End, x \in Owner \ E : Owns(x, d, e)' => Owns(x, d, e)
  BY <1>13, <1>14, <1>18, OwnersStay
<1>20. \A d \in Conn, e \in End : Owns(<<"process", p>>, d, e)' => d = c /\ e = 1
  BY <1>13, OwnsIsNext DEF ProcessHas
<1>21. <<"backlog", s>> \in Owner /\ <<"process", p>> \in Owner
  BY DEF Owner
<1>22. Owns(<<"backlog", s>>, c, 1)
  BY <1>3, <1>7, OwnsIs, Sizes DEF BacklogHas
<1>23. ~Owns(<<"backlog", s>>, c, 1)'
  <2> SUFFICES ASSUME Owns(<<"backlog", s>>, c, 1)' PROVE FALSE
    OBVIOUS
  <2>1. BacklogHas(s, c, 1)'
    BY <1>7, OwnsIsNext, Sizes
  <2> QED
    BY <1>8, <1>10, <1>11, <2>1 DEF BacklogHas
<1>24. ASSUME NEW x \in Owner, Owns(x, c, 1)' PROVE x = <<"process", p>>
  <2> SUFFICES ASSUME x \notin E PROVE FALSE
    BY <1>17
  <2>1. Owns(x, c, 1)
    BY <1>7, <1>19, <1>24, Sizes
  <2>2. x = <<"backlog", s>>
    BY <1>7, <1>21, <1>22, <2>1, Sizes DEF OwnerInv
  <2> QED
    BY <1>23, <1>24, <2>2
<1>25. ASSUME NEW d \in Conn, NEW e \in End, NEW x \in Owner, Owns(x, d, e)', ~(d = c /\ e = 1)
       PROVE  Owns(x, d, e)
  BY <1>17, <1>19, <1>20, <1>25
<1>26. OwnerInv' /\ OpenInv'
  <2>1. conn[c].live /\ conn[c].open[1]
    BY <1>7, <1>21, <1>22, Sizes DEF OpenInv
  <2> QED
    BY <1>1, <1>7, <1>21, <1>24, <1>25, <2>1, Sizes, OneMoves
<1>27. \A q \in Proc \ {p} : pc'[q] = "accept_sleep" =>
          (sock[at[q]].backlog = <<>> => sock'[at[q]].backlog = <<>>)
  <2>1. \A q \in Proc \ {p} : pc'[q] = "accept_sleep" => at[q] \in Slot
    BY <1>13 DEF OthersWait, Woken, PlaceInv, InPlace
  <2> QED
    BY <1>3, <1>4, <1>11, <2>1
<1>28. pc'[p] \notin Asleep \cup Closing
  BY <1>13 DEF Asleep, Closing
<1> QED
  BY <1>1, <1>13, <1>14, <1>15, <1>16, <1>26, <1>27, <1>28, EndStep

LEMMA ConnectDoneStep ==
    ASSUME IInv, NEW p \in Proc, ConnectDone(p)
    PROVE  IInv'
<1> USE DEF IInv
<1>1. UNCHANGED <<binds, conn, fds, killed>> /\ pc[p] = "pushed" /\ Return(p)
  BY DEF ConnectDone, tables
<1>2. /\ hand[p] \in Conn /\ <<"process", p>> \in Owner /\ Owns(<<"process", p>>, hand[p], 0)
      /\ conn[hand[p]].live /\ conn[hand[p]].open[0]
  BY <1>1, Sizes, HoldersOwn
<1>3. PICK c \in Conn : c = hand[p]
  BY <1>2
<1>4. PICK s \in Slot : s = at[p] /\ s \in fds[p] /\ sock[s].end = 0
  BY <1>1 DEF PlaceInv, InPlace, Inside, Connecting
<1>5. PICK r : r = [sock[s] EXCEPT !.state = "connected", !.conn = c, !.end = 0]
  OBVIOUS
<1>6. /\ r \in Struct /\ r.inuse = sock[s].inuse /\ r.state = "connected" /\ r.conn = c /\ r.end = 0
      /\ r.backlog = sock[s].backlog
  BY <1>5, Sizes DEF TypeInv, Struct
<1>7. sock' = [sock EXCEPT ![s] = r] /\ sock'[s] = r /\ \A t \in Slot \ {s} : sock'[t] = sock[t]
  BY <1>3, <1>4, <1>5 DEF ConnectDone, TypeInv
<1>8. LocalTypes' /\ OthersWait(p) /\ pc'[p] = "user" /\ InPlace(p)'
  BY <1>1, ReturnIs DEF TypeInv
<1>9. SlotsStay(p)
  BY <1>4, <1>6, <1>7 DEF SlotsStay
<1>10. TypeInv' /\ SlotInv' /\ BacklogInv'
  <2>1. TypeInv'
    BY <1>1, <1>6, <1>7, <1>8 DEF TypeInv
  <2>2. SlotInv'
    BY <1>6, <1>7 DEF SlotInv
  <2>3. BacklogInv'
    BY <1>6, <1>7 DEF BacklogInv
  <2> QED
    BY <2>1, <2>2, <2>3
<1>11. PICK E : E = {<<"socket", s>>}
  OBVIOUS
<1>12. NothingGained(p, E)
  <2>1. ASSUME NEW t \in Slot PROVE Speaks(p, t)
    BY <1>8 DEF Speaks, Talking
  <2>2. ASSUME NEW t \in Slot, Held(t)' PROVE Held(t)
    BY <1>1, <1>8, <2>2, HeldStays
  <2>3. \A t \in Slot : <<"socket", t>> \notin E => sock'[t] = sock[t]
    BY <1>7, <1>11
  <2>4. \A t \in Slot : sock'[t].backlog = sock[t].backlog
    BY <1>6, <1>7
  <2> QED
    BY <1>8, <2>1, <2>2, <2>3, <2>4 DEF NothingGained
<1>13. \A d \in Conn, e \in End, x \in Owner \ E : Owns(x, d, e)' => Owns(x, d, e)
  BY <1>8, <1>9, <1>12, OwnersStay
<1>14. ASSUME NEW d \in Conn, NEW e \in End, Owns(<<"socket", s>>, d, e)', ~(d = c /\ e = 0)
       PROVE  Owns(<<"socket", s>>, d, e)
  <2>1. SocketHas(s, d, e)'
    BY <1>14, OwnsIsNext
  <2>2. e = 0 /\ d # c
    BY <1>6, <1>7, <1>14, <2>1 DEF SocketHas
  <2>3. PICK q \in Proc : pc'[q] \in Talking /\ at'[q] = s /\ hand'[q] = d
    BY <1>6, <1>7, <2>1, <2>2 DEF SocketHas
  <2>4. pc[q] \in Talking /\ at[q] = s /\ hand[q] = d
    BY <1>8, <2>3 DEF OthersWait, Woken, Talking
  <2>5. SocketHas(s, d, e)
    BY <1>4, <2>2, <2>4 DEF SocketHas
  <2> QED
    BY <2>5, OwnsIs
<1>15. <<"socket", s>> \in Owner
  BY DEF Owner
<1>16. ~Owns(<<"process", p>>, c, 0)'
  BY <1>8, OwnsIsNext, Sizes DEF ProcessHas
<1>17. ASSUME NEW x \in Owner, Owns(x, c, 0)' PROVE x = <<"socket", s>>
  <2> SUFFICES ASSUME x \notin E PROVE FALSE
    BY <1>11
  <2>1. Owns(x, c, 0)
    BY <1>13, <1>17, Sizes
  <2>2. x = <<"process", p>>
    BY <1>2, <1>3, <2>1, Sizes DEF OwnerInv
  <2> QED
    BY <1>16, <1>17, <2>2
<1>18. ASSUME NEW d \in Conn, NEW e \in End, NEW x \in Owner, Owns(x, d, e)', ~(d = c /\ e = 0)
       PROVE  Owns(x, d, e)
  BY <1>11, <1>13, <1>14, <1>18
<1>19. OwnerInv' /\ OpenInv'
  BY <1>1, <1>2, <1>3, <1>15, <1>17, <1>18, Sizes, OneMoves
<1>20. \A q \in Proc \ {p} : pc'[q] = "accept_sleep" =>
          (sock[at[q]].backlog = <<>> => sock'[at[q]].backlog = <<>>)
  <2>1. \A q \in Proc \ {p} : pc'[q] = "accept_sleep" => at[q] \in Slot
    BY <1>8 DEF OthersWait, Woken, PlaceInv, InPlace
  <2> QED
    BY <1>6, <1>7, <2>1
<1>21. pc'[p] \notin Asleep \cup Closing
  BY <1>8 DEF Asleep, Closing
<1> QED
  BY <1>1, <1>8, <1>9, <1>10, <1>19, <1>20, <1>21, EndStep

\* accept() takes a slot for the connection it popped, and either returns a
\* descriptor for it or closes it at once.
LEMMA AcceptStep ==
    ASSUME IInv, NEW p \in Proc, pc[p] = "popped", UNCHANGED <<binds, conn, killed>>,
           NEW s \in Slot, ~sock[s].inuse, sock' = [sock EXCEPT ![s] = Connected(hand[p], 1)],
           LocalTypes', OthersWait(p), InPlace(p)', fds' \in [Proc -> SUBSET Slot],
           \A q \in Proc \ {p} : fds'[q] = fds[q],
           \/ pc'[p] = "user" /\ fds'[p] = fds[p] \cup {s}
           \/ pc'[p] = "close" /\ at'[p] = s /\ fds'[p] = fds[p]
    PROVE  IInv'
<1> USE DEF IInv
<1>1. /\ hand[p] \in Conn /\ <<"process", p>> \in Owner /\ Owns(<<"process", p>>, hand[p], 1)
      /\ conn[hand[p]].live /\ conn[hand[p]].open[1]
  BY Sizes, HoldersOwn
<1>2. PICK c \in Conn : c = hand[p]
  BY <1>1
<1>3. PICK r : r = Connected(c, 1)
  OBVIOUS
<1>4. r \in Struct /\ r.inuse /\ r.state = "connected" /\ r.conn = c /\ r.end = 1 /\ r.backlog = <<>>
  BY <1>3, ConnectedTyped, Sizes
<1>5. sock' = [sock EXCEPT ![s] = r] /\ sock'[s] = r /\ \A t \in Slot \ {s} : sock'[t] = sock[t]
  BY <1>2, <1>3 DEF TypeInv
<1>6. SlotsStay(p)
  BY <1>5 DEF SlotsStay
<1>7. TypeInv' /\ SlotInv' /\ BacklogInv'
  <2>1. TypeInv'
    BY <1>4, <1>5 DEF TypeInv
  <2>2. SlotInv'
    BY <1>4, <1>5 DEF SlotInv
  <2>3. BacklogInv'
    BY <1>4, <1>5 DEF BacklogInv
  <2> QED
    BY <2>1, <2>2, <2>3
<1>8. /\ \A q \in Proc : s \notin fds[q] /\ ~(pc[q] \in Closing /\ at[q] = s)
      /\ ~Held(s)
  BY NobodyHas
<1>9. pc'[p] \notin Talking \cup Asleep \cup {"push", "pushed", "popped"}
  BY DEF Talking, Asleep
<1>10. PICK E : E = {<<"socket", s>>}
  OBVIOUS
<1>11. NothingGained(p, E)
  <2>1. ASSUME NEW t \in Slot PROVE Speaks(p, t)
    BY <1>9 DEF Speaks
  <2>2. ASSUME NEW t \in Slot \ {s}, Held(t)' PROVE Held(t)
    BY <2>2, HeldStays
  <2>3. \A t \in Slot : <<"socket", t>> \notin E => t # s
    BY <1>10
  <2>4. \A t \in Slot : \A i \in DOMAIN sock'[t].backlog :
            \E j \in DOMAIN sock[t].backlog : sock[t].backlog[j] = sock'[t].backlog[i]
    BY <1>4, <1>5
  <2> QED
    BY <1>5, <1>9, <2>1, <2>2, <2>3, <2>4 DEF NothingGained
<1>12. \A d \in Conn, e \in End, x \in Owner \ E : Owns(x, d, e)' => Owns(x, d, e)
  BY <1>6, <1>11, OwnersStay
<1>13. \A d \in Conn, e \in End : Owns(<<"socket", s>>, d, e)' => d = c /\ e = 1
  <2> SUFFICES ASSUME NEW d \in Conn, NEW e \in End, Owns(<<"socket", s>>, d, e)'
               PROVE  d = c /\ e = 1
    OBVIOUS
  <2>1. SocketHas(s, d, e)'
    BY OwnsIsNext
  <2>2. sock'[s].conn = d /\ sock'[s].end = e
    BY <1>9, <2>1, FreshHas
  <2> QED
    BY <1>4, <1>5, <2>2
<1>14. <<"socket", s>> \in Owner
  BY DEF Owner
<1>15. ~Owns(<<"process", p>>, c, 1)'
  BY <1>9, OwnsIsNext, Sizes DEF ProcessHas
<1>16. ASSUME NEW x \in Owner, Owns(x, c, 1)' PROVE x = <<"socket", s>>
  <2> SUFFICES ASSUME x \notin E PROVE FALSE
    BY <1>10
  <2>1. Owns(x, c, 1)
    BY <1>12, <1>16, Sizes
  <2>2. x = <<"process", p>>
    BY <1>1, <1>2, <2>1, Sizes DEF OwnerInv
  <2> QED
    BY <1>15, <1>16, <2>2
<1>17. ASSUME NEW d \in Conn, NEW e \in End, NEW x \in Owner, Owns(x, d, e)', ~(d = c /\ e = 1)
       PROVE  Owns(x, d, e)
  BY <1>10, <1>12, <1>13, <1>17
<1>18. OwnerInv' /\ OpenInv'
  BY <1>1, <1>2, <1>14, <1>16, <1>17, Sizes, OneMoves
<1>19. \A q \in Proc \ {p} : pc'[q] = "accept_sleep" =>
          (sock[at[q]].backlog = <<>> => sock'[at[q]].backlog = <<>>)
  <2>1. \A q \in Proc \ {p} : pc'[q] = "accept_sleep" => at[q] \in Slot
    BY DEF OthersWait, Woken, PlaceInv, InPlace
  <2> QED
    BY <1>4, <1>5, <2>1
<1>20. \A t \in fds'[p] \ fds[p] : sock'[t].inuse /\ \A q \in Proc : ~(pc[q] \in Closing /\ at[q] = t)
  BY <1>4, <1>5, <1>8
<1>21. pc'[p] \in Closing =>
          /\ sock'[at'[p]].inuse /\ \A q \in Proc : at'[p] \notin fds'[q]
          /\ \A q \in Proc \ {p} : ~(pc[q] \in Closing /\ at[q] = at'[p])
  BY <1>4, <1>5, <1>8 DEF Closing
<1> QED
  BY <1>6, <1>7, <1>9, <1>18, <1>19, <1>20, <1>21, EndStep

LEMMA AcceptDoneStep ==
    ASSUME IInv, NEW p \in Proc, AcceptDone(p) \/ AcceptNoFd(p)
    PROVE  IInv'
<1>0. TypeInv /\ LocalTypes /\ InPlace(p)
  BY DEF IInv, TypeInv, PlaceInv
<1>1. CASE AcceptDone(p)
  <2>1. PICK s \in FreeSlot : sock' = [sock EXCEPT ![s] = Connected(hand[p], 1)]
                              /\ fds' = [fds EXCEPT ![p] = fds[p] \cup {s}]
    BY <1>1 DEF AcceptDone
  <2>2. s \in Slot /\ ~sock[s].inuse
    BY FreeSlots
  <2>3. UNCHANGED <<binds, conn, killed>> /\ pc[p] = "popped" /\ Return(p)
    BY <1>1 DEF AcceptDone
  <2>4. LocalTypes' /\ OthersWait(p) /\ pc'[p] = "user" /\ InPlace(p)'
    BY <1>0, <2>3, ReturnIs
  <2>5. /\ fds' \in [Proc -> SUBSET Slot] /\ fds'[p] = fds[p] \cup {s}
        /\ \A q \in Proc \ {p} : fds'[q] = fds[q]
    BY <1>0, <2>1, <2>2 DEF TypeInv
  <2> QED
    BY <2>1, <2>2, <2>3, <2>4, <2>5, AcceptStep
<1>2. CASE AcceptNoFd(p)
  <2>1. PICK s \in FreeSlot : sock' = [sock EXCEPT ![s] = Connected(hand[p], 1)]
                              /\ at' = [at EXCEPT ![p] = s]
    BY <1>2 DEF AcceptNoFd
  <2>2. s \in Slot /\ ~sock[s].inuse
    BY FreeSlots
  <2>3. /\ UNCHANGED <<binds, conn, killed, fds, target, out>> /\ pc[p] = "popped"
        /\ hand' = [hand EXCEPT ![p] = NoConn] /\ pc' = [pc EXCEPT ![p] = "close"]
    BY <1>2 DEF AcceptNoFd, tables
  <2>4. LocalTypes' /\ OthersWait(p) /\ pc'[p] = "close" /\ at'[p] = s /\ hand'[p] = NoConn
    BY <1>0, <2>1, <2>2, <2>3 DEF LocalTypes, OthersWait, Woken, Places
  <2>5. InPlace(p)'
    BY <2>2, <2>4 DEF InPlace, Handing, Inside, Connecting, Talking
  <2>6. fds' \in [Proc -> SUBSET Slot]
    BY <1>0, <2>3 DEF TypeInv
  <2> QED
    BY <2>1, <2>2, <2>3, <2>4, <2>5, <2>6, AcceptStep
<1> QED
  BY <1>1, <1>2

\* socketpair() takes two slots and a page; it makes descriptors for them or
\* gives the slots back.
LEMMA PairStep ==
    ASSUME IInv, NEW p \in Proc, pc[p] = "user",
           UNCHANGED <<binds, pc, at, target, hand, out, killed>>,
           NEW c \in Conn, ~conn[c].live, conn' = [conn EXCEPT ![c] = Opened],
           NEW s \in Slot, NEW t \in Slot \ {s}, ~sock[s].inuse, ~sock[t].inuse,
           sock' \in [Slot -> Struct], \A v \in Slot \ {s, t} : sock'[v] = sock[v],
           /\ sock'[s].state = "connected" /\ sock'[s].conn = c /\ sock'[s].end = 0
           /\ sock'[t].state = "connected" /\ sock'[t].conn = c /\ sock'[t].end = 1
           /\ sock'[s].backlog = <<>> /\ sock'[t].backlog = <<>>,
           fds' \in [Proc -> SUBSET Slot], \A q \in Proc \ {p} : fds'[q] = fds[q],
           \/ sock'[s].inuse /\ sock'[t].inuse /\ fds'[p] = fds[p] \cup {s, t}
           \/ fds'[p] = fds[p]
    PROVE  IInv'
<1> USE DEF IInv
<1>1. conn'[c] = Opened /\ \A d \in Conn \ {c} : conn'[d] = conn[d]
  BY DEF TypeInv
<1>2. OthersWait(p) /\ SlotsStay(p)
  <2>1. \A v \in Slot : sock[v].inuse => v \in Slot \ {s, t}
    OBVIOUS
  <2> QED
    BY <2>1 DEF OthersWait, Woken, SlotsStay
<1>3. TypeInv' /\ SlotInv' /\ BacklogInv'
  <2>1. TypeInv'
    BY <1>1, PagesTyped DEF TypeInv, LocalTypes
  <2>2. SlotInv'
    <3>1. ASSUME NEW v \in Slot
          PROVE  /\ sock'[v].state # "connected" => sock'[v].end = 0
                 /\ sock'[v].state = "connected" => sock'[v].conn \in Conn
      <4>1. CASE v \in {s, t}
        BY <4>1
      <4>2. CASE v \notin {s, t}
        BY <4>2 DEF SlotInv
      <4> QED
        BY <4>1, <4>2
    <3> QED
      BY <3>1 DEF SlotInv
  <2>3. BacklogInv'
    <3>1. \A v \in Slot : sock'[v].backlog = <<>> \/ sock'[v].backlog = sock[v].backlog
      OBVIOUS
    <3> QED
      BY <3>1 DEF BacklogInv
  <2> QED
    BY <2>1, <2>2, <2>3
<1>4. InPlace(p)'
  BY DEF PlaceInv, InPlace, Inside, Connecting, Talking
<1>5. /\ \A q \in Proc : s \notin fds[q] /\ ~(pc[q] \in Closing /\ at[q] = s)
      /\ \A q \in Proc : t \notin fds[q] /\ ~(pc[q] \in Closing /\ at[q] = t)
  BY NobodyHas
<1>6. pc'[p] \notin Talking \cup Asleep \cup Closing
  BY DEF Talking, Asleep, Closing
<1>7. PICK E : E = {<<"socket", s>>, <<"socket", t>>}
  OBVIOUS
<1>8. NothingGained(p, E)
  <2>1. ASSUME NEW v \in Slot PROVE Speaks(p, v)
    BY <1>6 DEF Speaks
  <2>2. ASSUME NEW v \in Slot \ {s, t}, Held(v)' PROVE Held(v)
    BY <1>2, <2>2, HeldStays
  <2>3. \A v \in Slot : <<"socket", v>> \notin E => v # s /\ v # t
    BY <1>7
  <2>4. \A v \in Slot : \A i \in DOMAIN sock'[v].backlog :
            \E j \in DOMAIN sock[v].backlog : sock[v].backlog[j] = sock'[v].backlog[i]
    <3>1. \A v \in Slot : sock'[v].backlog = <<>> \/ sock'[v].backlog = sock[v].backlog
      OBVIOUS
    <3> QED
      BY <3>1
  <2> QED
    BY <1>1, <2>1, <2>2, <2>3, <2>4 DEF NothingGained
<1>9. \A d \in Conn, e \in End, x \in Owner \ E : Owns(x, d, e)' => Owns(x, d, e)
  BY <1>2, <1>8, OwnersStay
<1>10. ASSUME NEW d \in Conn, NEW e \in End
       PROVE  /\ Owns(<<"socket", s>>, d, e)' => d = c /\ e = 0
              /\ Owns(<<"socket", t>>, d, e)' => d = c /\ e = 1
  <2>1. ASSUME SocketHas(s, d, e)' PROVE sock'[s].conn = d /\ sock'[s].end = e
    BY <1>2, <1>6, <2>1, FreshHas
  <2>2. ASSUME SocketHas(t, d, e)' PROVE sock'[t].conn = d /\ sock'[t].end = e
    BY <1>2, <1>6, <2>2, FreshHas
  <2> QED
    BY <1>1, <2>1, <2>2, OwnsIsNext
<1>11. <<"socket", s>> \in Owner /\ <<"socket", t>> \in Owner
  BY DEF Owner
<1>12. \A e \in End, x \in Owner : ~Owns(x, c, e)
  BY DEF OpenInv
<1>13. ASSUME NEW d \in Conn, NEW e \in End
       PROVE  \/ \A x \in Owner : Owns(x, d, e)' => Owns(x, d, e)
              \/ \E z \in Owner : \A x \in Owner : Owns(x, d, e)' => x = z
  <2>1. CASE d = c /\ e = 0
    <3>1. \A x \in Owner : Owns(x, d, e)' => x = <<"socket", s>>
      BY <1>7, <1>9, <1>10, <1>12, <2>1
    <3> QED
      BY <1>11, <3>1
  <2>2. CASE d = c /\ e = 1
    <3>1. \A x \in Owner : Owns(x, d, e)' => x = <<"socket", t>>
      BY <1>7, <1>9, <1>10, <1>12, <2>2
    <3> QED
      BY <1>11, <3>1
  <2>3. CASE d # c
    <3>1. \A x \in Owner : Owns(x, d, e)' => Owns(x, d, e)
      BY <1>7, <1>9, <1>10, <2>3
    <3> QED
      BY <3>1
  <2>4. e = 0 \/ e = 1
    BY DEF End
  <2> QED
    BY <2>1, <2>2, <2>3, <2>4
<1>14. ASSUME NEW d \in Conn, NEW e \in End, NEW x \in Owner, Owns(x, d, e)'
       PROVE  conn'[d].live /\ conn'[d].open[e]
  <2>1. CASE d = c
    BY <1>1, <2>1, PagesTyped
  <2>2. CASE d # c
    <3>1. Owns(x, d, e)
      BY <1>7, <1>9, <1>10, <1>14, <2>2
    <3> QED
      BY <1>1, <2>2, <3>1 DEF OpenInv
  <2> QED
    BY <2>1, <2>2
<1>15. OwnerInv' /\ OpenInv'
  BY <1>13, <1>14, OwnersKept
<1>16. ASSUME NEW q \in Proc \ {p}, pc'[q] \in {"send_sleep", "recv_sleep"}
       PROVE  hand[q] \in Conn /\ hand[q] # c
  <2>1. pc[q] \in Talking
    BY <1>16 DEF Talking
  <2> QED
    BY <2>1, TalkersOwn
<1>17. \A q \in Proc \ {p} : pc'[q] = "accept_sleep" =>
          (sock[at[q]].backlog = <<>> => sock'[at[q]].backlog = <<>>)
  <2>1. \A q \in Proc \ {p} : pc'[q] = "accept_sleep" => at[q] \in Slot
    BY DEF PlaceInv, InPlace
  <2> QED
    BY <1>1, <2>1
<1>18. \A v \in fds'[p] \ fds[p] : sock'[v].inuse /\ \A q \in Proc : ~(pc[q] \in Closing /\ at[q] = v)
  BY <1>1, <1>5
<1> QED
  BY <1>1, <1>2, <1>3, <1>4, <1>6, <1>15, <1>16, <1>17, <1>18, EndStep

LEMMA SockPairStep ==
    ASSUME IInv, NEW p \in Proc, SockPair(p)
    PROVE  IInv'
<1>1. PICK c \in Conn, s \in Slot, t \in Slot :
         /\ ~conn[c].live
         /\ s \in FreeSlot
         /\ t \in First(Slot \ {s}, LAMBDA v : ~sock[v].inuse)
         /\ conn' = [conn EXCEPT ![c] = Opened]
         /\ sock' = [sock EXCEPT ![s] = Connected(c, 0), ![t] = Connected(c, 1)]
         /\ fds' = [fds EXCEPT ![p] = @ \cup {s, t}]
  BY DEF SockPair
<1>2. ~sock[s].inuse /\ t \in Slot \ {s} /\ ~sock[t].inuse
  BY <1>1, FreeSlots DEF First
<1>3. UNCHANGED <<binds, pc, at, target, hand, out, killed>> /\ pc[p] = "user"
  BY DEF SockPair, locals
<1>4. PICK r : r = Connected(c, 0)
  OBVIOUS
<1>5. PICK u : u = Connected(c, 1)
  OBVIOUS
<1>6. r \in Struct /\ r.inuse /\ r.state = "connected" /\ r.conn = c /\ r.end = 0 /\ r.backlog = <<>>
  BY <1>4, ConnectedTyped, Sizes
<1>7. u \in Struct /\ u.inuse /\ u.state = "connected" /\ u.conn = c /\ u.end = 1 /\ u.backlog = <<>>
  BY <1>5, ConnectedTyped, Sizes
<1>8. /\ fds' \in [Proc -> SUBSET Slot] /\ fds'[p] = fds[p] \cup {s, t}
      /\ \A q \in Proc \ {p} : fds'[q] = fds[q]
  BY <1>1 DEF IInv, TypeInv
<1>9. sock' \in [Slot -> Struct] /\ sock'[s] = r /\ sock'[t] = u /\ \A v \in Slot \ {s, t} : sock'[v] = sock[v]
  BY <1>1, <1>2, <1>4, <1>5, <1>6, <1>7 DEF IInv, TypeInv
<1>10. /\ sock'[s].state = "connected" /\ sock'[s].conn = c /\ sock'[s].end = 0
       /\ sock'[t].state = "connected" /\ sock'[t].conn = c /\ sock'[t].end = 1
       /\ sock'[s].backlog = <<>> /\ sock'[t].backlog = <<>>
       /\ sock'[s].inuse /\ sock'[t].inuse
  BY <1>6, <1>7, <1>9
<1>11. ~conn[c].live /\ conn' = [conn EXCEPT ![c] = Opened] /\ ~sock[s].inuse
  BY <1>1, <1>2
<1> QED
  BY <1>2, <1>3, <1>8, <1>9, <1>10, <1>11, PairStep

LEMMA SockPairNoFileStep ==
    ASSUME IInv, NEW p \in Proc, SockPairNoFile(p)
    PROVE  IInv'
<1>1. PICK c \in Conn, s \in Slot, t \in Slot :
         /\ ~conn[c].live
         /\ s \in FreeSlot
         /\ t \in First(Slot \ {s}, LAMBDA v : ~sock[v].inuse)
         /\ conn' = [conn EXCEPT ![c] = Opened]
         /\ sock' = [sock EXCEPT ![s] = [Connected(c, 0) EXCEPT !.inuse = FALSE],
                                 ![t] = [Connected(c, 1) EXCEPT !.inuse = FALSE]]
  BY DEF SockPairNoFile
<1>2. ~sock[s].inuse /\ t \in Slot \ {s} /\ ~sock[t].inuse
  BY <1>1, FreeSlots DEF First
<1>3. UNCHANGED <<binds, fds, pc, at, target, hand, out, killed>> /\ pc[p] = "user"
  BY DEF SockPairNoFile, tables, locals
<1>4. PICK r : r = [Connected(c, 0) EXCEPT !.inuse = FALSE]
  OBVIOUS
<1>5. PICK u : u = [Connected(c, 1) EXCEPT !.inuse = FALSE]
  OBVIOUS
<1>6. r \in Struct /\ r.state = "connected" /\ r.conn = c /\ r.end = 0 /\ r.backlog = <<>>
  BY <1>4, ConnectedTyped, UnusedTyped, Sizes
<1>7. u \in Struct /\ u.state = "connected" /\ u.conn = c /\ u.end = 1 /\ u.backlog = <<>>
  BY <1>5, ConnectedTyped, UnusedTyped, Sizes
<1>8. fds' \in [Proc -> SUBSET Slot] /\ fds'[p] = fds[p] /\ \A q \in Proc \ {p} : fds'[q] = fds[q]
  BY <1>3 DEF IInv, TypeInv
<1>9. sock' \in [Slot -> Struct] /\ sock'[s] = r /\ sock'[t] = u /\ \A v \in Slot \ {s, t} : sock'[v] = sock[v]
  BY <1>1, <1>2, <1>4, <1>5, <1>6, <1>7 DEF IInv, TypeInv
<1>10. /\ sock'[s].state = "connected" /\ sock'[s].conn = c /\ sock'[s].end = 0
       /\ sock'[t].state = "connected" /\ sock'[t].conn = c /\ sock'[t].end = 1
       /\ sock'[s].backlog = <<>> /\ sock'[t].backlog = <<>>
  BY <1>6, <1>7, <1>9
<1>11. ~conn[c].live /\ conn' = [conn EXCEPT ![c] = Opened] /\ ~sock[s].inuse
  BY <1>1, <1>2
<1> QED
  BY <1>2, <1>3, <1>8, <1>9, <1>10, <1>11, PairStep

LEMMA CloseListenerStep ==
    ASSUME IInv, NEW p \in Proc, CloseListener(p)
    PROVE  IInv'
<1> USE DEF IInv
<1>1. /\ UNCHANGED <<binds, fds, at, target, hand, out, killed>> /\ pc[p] = "close"
  BY DEF CloseListener, locals
<1>2. PICK s \in Slot : s = at[p]
  BY <1>1 DEF PlaceInv, InPlace
<1>3. PICK b : b = sock[s].backlog
  OBVIOUS
<1>4. PICK pending : pending = {b[i] : i \in DOMAIN b}
  OBVIOUS
<1>5. /\ conn' = [c \in Conn |-> IF c \in pending THEN EndClosed(conn[c], 1) ELSE conn[c]]
      /\ sock[s].state = "listening" /\ sock' = [sock EXCEPT ![s].backlog = <<>>]
      /\ pc' = [q \in Proc |-> IF q = p THEN "unbind"
                               ELSE IF hand[q] \in pending THEN WakeConn(hand[q], pc)[q]
                               ELSE pc[q]]
  BY <1>2, <1>3, <1>4 DEF CloseListener
<1>6. PICK r : r = [sock[s] EXCEPT !.backlog = <<>>]
  OBVIOUS
<1>7. /\ r \in Struct /\ r.inuse = sock[s].inuse /\ r.state = sock[s].state
      /\ r.conn = sock[s].conn /\ r.end = sock[s].end /\ r.backlog = <<>>
  <2>1. sock[s] \in Struct
    BY DEF TypeInv
  <2>0. <<>> \in Seq(Conn)
    OBVIOUS
  <2>2. PICK z : z = <<>>
    OBVIOUS
  <2>3. PICK k : k = sock[s]
    OBVIOUS
  <2>4. r = [k EXCEPT !.backlog = z]
    BY <1>6, <2>2, <2>3
  <2>5. k \in Struct /\ z \in Seq(Conn)
    BY <2>0, <2>1, <2>2, <2>3
  <2>6. /\ r \in Struct /\ r.inuse = k.inuse /\ r.state = k.state /\ r.conn = k.conn
        /\ r.end = k.end /\ r.backlog = z
    BY <2>4, <2>5, PendingTyped
  <2> QED
    BY <2>2, <2>3, <2>6
<1>8. sock' = [sock EXCEPT ![s] = r] /\ sock'[s] = r /\ \A t \in Slot \ {s} : sock'[t] = sock[t]
  BY <1>5, <1>6 DEF TypeInv
<1>9. ASSUME NEW c \in Conn
      PROVE  /\ conn'[c] \in Page
             /\ c \notin pending => conn'[c] = conn[c]
             /\ \A e \in End \ {1} : conn[c].live /\ conn[c].open[e] => conn'[c].live /\ conn'[c].open[e]
  <2>1. conn[c] \in Page
    BY DEF TypeInv
  <2>2. CASE c \in pending
    BY <1>5, <2>1, <2>2, EndClosedIs, Sizes
  <2>3. CASE c \notin pending
    BY <1>5, <2>1, <2>3
  <2> QED
    BY <2>2, <2>3
<1>10. ASSUME NEW q \in Proc \ {p}
       PROVE  /\ pc'[q] \in Places /\ Woken(pc[q], pc'[q])
              /\ pc'[q] \in {"send_sleep", "recv_sleep"} => hand[q] \notin pending
  <2>1. pc \in [Proc -> Places]
    BY DEF TypeInv, LocalTypes
  <2>2. CASE hand[q] \in pending
    <3>1. PICK h : h = hand[q]
      OBVIOUS
    <3>2. /\ WakeConn(h, pc) \in [Proc -> Places] /\ Woken(pc[q], WakeConn(h, pc)[q])
          /\ WakeConn(h, pc)[q] \notin {"send_sleep", "recv_sleep"}
      BY <2>1, <3>1, WakeConnIs
    <3>3. pc'[q] = WakeConn(h, pc)[q]
      BY <1>5, <2>2, <3>1
    <3> QED
      BY <3>2, <3>3
  <2>3. CASE hand[q] \notin pending
    BY <1>5, <2>1, <2>3 DEF Woken
  <2> QED
    BY <2>2, <2>3
<1>11. pc'[p] = "unbind" /\ OthersWait(p) /\ LocalTypes'
  <2>1. pc' \in [Proc -> Places]
    BY <1>5, <1>10 DEF Places
  <2> QED
    BY <1>1, <1>5, <1>10, <2>1 DEF OthersWait, LocalTypes, TypeInv
<1>12. SlotsStay(p)
  BY <1>7, <1>8 DEF SlotsStay
<1>13. TypeInv' /\ SlotInv' /\ BacklogInv'
  <2>1. TypeInv'
    BY <1>1, <1>5, <1>7, <1>8, <1>9, <1>11 DEF TypeInv
  <2>2. SlotInv'
    BY <1>7, <1>8 DEF SlotInv
  <2>3. BacklogInv'
    BY <1>7, <1>8 DEF BacklogInv
  <2> QED
    BY <2>1, <2>2, <2>3
<1>14. InPlace(p)'
  BY <1>1, <1>2, <1>5, <1>7, <1>8, <1>11 DEF PlaceInv, InPlace, Handing, Inside, Connecting, Talking
<1>15. NothingGained(p, {})
  <2>1. ASSUME NEW t \in Slot PROVE Speaks(p, t)
    BY <1>11 DEF Speaks, Talking
  <2>2. ASSUME NEW t \in Slot, Held(t)' PROVE Held(t)
    BY <1>1, <1>11, <2>2, HeldStays
  <2>3. \A t \in Slot : sock'[t].state = sock[t].state /\ sock'[t].conn = sock[t].conn
    BY <1>7, <1>8
  <2>4. \A t \in Slot : \A i \in DOMAIN sock'[t].backlog :
            \E j \in DOMAIN sock[t].backlog : sock[t].backlog[j] = sock'[t].backlog[i]
    BY <1>7, <1>8
  <2> QED
    BY <1>11, <2>1, <2>2, <2>3, <2>4 DEF NothingGained
<1>16. \A d \in Conn, e \in End, x \in Owner : Owns(x, d, e)' => Owns(x, d, e)
  BY <1>11, <1>12, <1>15, OwnersStay
<1>17. ASSUME NEW c \in Conn, c \in pending, NEW x \in Owner, Owns(x, c, 1)' PROVE FALSE
  <2>1. <<"backlog", s>> \in Owner /\ Owns(<<"backlog", s>>, c, 1)
    <3>1. BacklogHas(s, c, 1)
      BY <1>3, <1>4, <1>17 DEF BacklogHas
    <3>2. Owns(<<"backlog", s>>, c, 1)
      BY <1>17, <3>1, OwnsIs, Sizes
    <3> QED
      BY <3>2 DEF Owner
  <2>2. x = <<"backlog", s>>
    BY <1>16, <1>17, <2>1, Sizes DEF OwnerInv
  <2>3. BacklogHas(s, c, 1)'
    BY <1>17, <2>2, OwnsIsNext, Sizes
  <2> QED
    BY <1>7, <1>8, <2>3 DEF BacklogHas
<1>18. OwnerInv' /\ OpenInv'
  <2>1. ASSUME NEW d \in Conn, NEW e \in End, NEW x \in Owner, Owns(x, d, e)'
        PROVE  conn'[d].live /\ conn'[d].open[e]
    <3>1. conn[d].live /\ conn[d].open[e]
      BY <1>16, <2>1 DEF OpenInv
    <3>2. ~(e = 1 /\ d \in pending)
      BY <1>17, <2>1
    <3> QED
      BY <1>9, <3>1, <3>2
  <2> QED
    BY <1>16, <2>1, OwnersKept
<1>19. \A q \in Proc \ {p} : pc'[q] \in {"send_sleep", "recv_sleep"} => conn'[hand[q]] = conn[hand[q]]
  <2> SUFFICES ASSUME NEW q \in Proc \ {p}, pc'[q] \in {"send_sleep", "recv_sleep"}
               PROVE  conn'[hand[q]] = conn[hand[q]]
    OBVIOUS
  <2>1. pc[q] \in Talking
    BY <1>10 DEF Woken, Talking
  <2>2. hand[q] \in Conn
    BY <2>1, TalkersOwn
  <2> QED
    BY <1>9, <1>10, <2>2
<1>20. \A q \in Proc \ {p} : pc'[q] = "accept_sleep" =>
          (sock[at[q]].backlog = <<>> => sock'[at[q]].backlog = <<>>)
  <2>1. \A q \in Proc \ {p} : pc'[q] = "accept_sleep" => at[q] \in Slot
    BY <1>11 DEF OthersWait, Woken, PlaceInv, InPlace
  <2> QED
    BY <1>7, <1>8, <2>1
<1>21. pc'[p] \notin Asleep /\ pc[p] \in Closing /\ at'[p] = at[p]
  BY <1>1, <1>11 DEF Asleep, Closing
<1> QED
  BY <1>1, <1>11, <1>12, <1>13, <1>14, <1>18, <1>19, <1>20, <1>21, EndStep

-----------------------------------------------------------------------------
(* The invariant, and what it implies *)

LEMMA Initially == Init => IInv
<1> SUFFICES ASSUME Init PROVE IInv
  OBVIOUS
<1>1. Fresh \in Struct /\ Fresh.state = "unbound" /\ Fresh.end = 0 /\ Fresh.backlog = <<>>
  BY FreshTyped DEF Fresh
<1>2. PICK r : r = [Fresh EXCEPT !.inuse = FALSE]
  OBVIOUS
<1>3. r \in Struct /\ ~r.inuse /\ r.state = "unbound" /\ r.end = 0 /\ r.backlog = <<>>
  <2>1. PICK k : k = Fresh
    OBVIOUS
  <2>2. k \in Struct /\ k.state = "unbound" /\ k.end = 0 /\ k.backlog = <<>>
    BY <1>1, <2>1
  <2>3. r = [k EXCEPT !.inuse = FALSE]
    BY <1>2, <2>1
  <2>4. r \in Struct /\ ~r.inuse /\ r.state = k.state /\ r.backlog = k.backlog
    BY <2>2, <2>3, UnusedTyped
  <2>5. r.end = k.end
    BY <2>2, <2>3 DEF Struct
  <2> QED
    BY <2>2, <2>4, <2>5
<1>4. sock = [s \in Slot |-> r]
  BY <1>2 DEF Init
<1>5. \A s \in Slot : sock[s] = r
  BY <1>4
<1>6. \A p \in Proc : pc[p] = "user" /\ hand[p] = NoConn /\ fds[p] = {}
  BY DEF Init
<1>7. TypeInv
  <2>1. NoMessage \in Letter /\ "user" \in Places
    BY DEF Letter, Places
  <2>2. LocalTypes
    BY <2>1 DEF Init, LocalTypes
  <2>3. binds \in [1..SOCKBINDMAX -> Entry]
    BY DEF Init, Entry
  <2>4. sock \in [Slot -> Struct]
    BY <1>3, <1>4
  <2> QED
    BY <2>2, <2>3, <2>4, PagesTyped DEF Init, TypeInv
<1>8. SlotInv /\ BacklogInv
  BY <1>3, <1>5 DEF SlotInv, BacklogInv
<1>9. PlaceInv /\ ClosingInv /\ UseInv /\ SleepersJustified
  BY <1>6 DEF PlaceInv, InPlace, Handing, Inside, Connecting, Talking, ClosingInv, Closing,
              UseInv, Kept, SleepersJustified
<1>10. \A c \in Conn, e \in End, x \in Owner : ~Owns(x, c, e)
  <2>1. \A s \in Slot, c \in Conn, e \in End : ~SocketHas(s, c, e)
    BY <1>6 DEF SocketHas, Held, Talking
  <2>2. \A s \in Slot, c \in Conn, e \in End : ~BacklogHas(s, c, e)
    BY <1>3, <1>5 DEF BacklogHas
  <2>3. \A p \in Proc, c \in Conn, e \in End : ~ProcessHas(p, c, e)
    BY <1>6 DEF ProcessHas
  <2> QED
    BY <2>1, <2>2, <2>3 DEF Owns
<1>11. OwnerInv /\ OpenInv
  BY <1>10 DEF OwnerInv, OpenInv
<1> QED
  BY <1>7, <1>8, <1>9, <1>11 DEF IInv

LEMMA CallsKeep ==
    ASSUME IInv, NEW p \in Proc, CallStep(p)
    PROVE  IInv'
<1>1. CASE NewConn(p) \/ Push(p) \/ PushRefused(p) \/ ConnectDone(p)
  BY <1>1, NewConnStep, PushStep, PushRefusedStep, ConnectDoneStep
<1>2. CASE AcceptSleep(p) \/ AcceptKilled(p) \/ Pop(p)
  BY <1>2, AcceptSleepStep, Returns, PopStep
<1>3. CASE AcceptDone(p) \/ AcceptNoSlot(p) \/ AcceptNoFile(p) \/ AcceptNoFd(p)
  BY <1>3, AcceptDoneStep, AcceptNoSlotStep, AcceptNoFileStep
<1>4. CASE SendSleep(p) \/ SendFails(p) \/ Send(p)
  BY <1>4, SendSleepStep, Returns, SendStep
<1>5. CASE RecvSleep(p) \/ RecvKilled(p) \/ RecvEnd(p) \/ Recv(p)
  BY <1>5, RecvSleepStep, Returns, RecvStep
<1>6. CASE CloseConn(p) \/ CloseUnbound(p) \/ CloseListener(p) \/ Unbind(p)
  BY <1>6, CloseConnStep, CloseUnboundStep, CloseListenerStep, UnbindStep
<1> QED
  BY <1>1, <1>2, <1>3, <1>4, <1>5, <1>6 DEF CallStep

LEMMA Inductive == IInv /\ [Next]_vars => IInv'
<1> SUFFICES ASSUME IInv, [Next]_vars PROVE IInv'
  OBVIOUS
<1>1. ASSUME NEW p \in Proc, SockCreate(p) \/ SockPair(p) \/ SockPairNoFile(p) \/ CloseFile(p)
      PROVE  IInv'
  BY <1>1, SockCreateStep, SockPairStep, SockPairNoFileStep, NothingMoves
<1>2. ASSUME NEW p \in Proc, NEW q \in Proc, Inherit(p, q) PROVE IInv'
  BY <1>2, InheritStep
<1>3. ASSUME NEW p \in Proc, NEW s \in Slot, NEW path \in Path, SockBind(p, s, path) \/ Lookup(p, s, path)
      PROVE  IInv'
  BY <1>3, SockBindStep, LookupStep
<1>4. ASSUME NEW p \in Proc, NEW s \in Slot, SockListen(p, s) \/ CallAccept(p, s)
      PROVE  IInv'
  BY <1>4, SockListenStep, CallAcceptStep
<1>5. ASSUME NEW p \in Proc, NEW s \in Slot, NEW m \in Message, CallSend(p, s, m) PROVE IInv'
  BY <1>5, CallSendStep
<1>6. ASSUME NEW p \in Proc, NEW s \in Slot, SendBadFd(p, s) \/ CallRecv(p, s) \/ Close(p, s)
      PROVE  IInv'
  BY <1>6, NothingMoves, CallRecvStep, CloseStep
<1>7. ASSUME NEW p \in Killable, Kill(p) PROVE IInv'
  BY <1>7, KillStep
<1>8. ASSUME UNCHANGED vars PROVE IInv'
  <2>1. CASE Proc = {}
    <3>1. UNCHANGED <<sock, binds, conn, fds, pc, at, target, hand, out, killed>>
      BY <1>8 DEF vars
    <3>2. TypeInv' /\ SlotInv' /\ BacklogInv'
      BY <3>1 DEF IInv, TypeInv, LocalTypes, SlotInv, BacklogInv
    <3>3. PlaceInv' /\ ClosingInv' /\ UseInv' /\ SleepersJustified'
      BY <2>1, <3>1 DEF PlaceInv, ClosingInv, UseInv, Kept, SleepersJustified
    <3>4. \A c \in Conn, e \in End, x \in Owner : Owns(x, c, e)' => Owns(x, c, e)
      BY <2>1, <3>1 DEF Owns, SocketHas, BacklogHas, ProcessHas, Held
    <3>5. OwnerInv' /\ OpenInv'
      BY <3>1, <3>4 DEF IInv, OwnerInv, OpenInv
    <3> QED
      BY <3>2, <3>3, <3>5 DEF IInv
  <2>2. CASE Proc # {}
    BY <1>8, <2>2, NothingMoves
  <2> QED
    BY <2>1, <2>2
<1> QED
  BY <1>1, <1>2, <1>3, <1>4, <1>5, <1>6, <1>7, <1>8, CallsKeep DEF Next

\* The strengthened invariant of sockets holds throughout.
THEOREM Invariance == Spec => []IInv
  BY Initially, Inductive, PTL DEF Spec

LEMMA LivePages == IInv => NoUseAfterFree
<1> SUFFICES ASSUME IInv PROVE NoUseAfterFree
  OBVIOUS
<1> USE DEF IInv
<1>1. ASSUME NEW s \in Slot, Held(s), sock[s].state = "connected"
      PROVE  conn[sock[s].conn].live
  <2>1. PICK c \in Conn, e \in End : c = sock[s].conn /\ e = sock[s].end
    BY <1>1 DEF SlotInv, TypeInv, Struct
  <2>2. SocketHas(s, c, e)
    BY <1>1, <2>1 DEF SocketHas
  <2>3. Owns(<<"socket", s>>, c, e) /\ <<"socket", s>> \in Owner
    BY <2>2, OwnsIs DEF Owner
  <2> QED
    BY <2>1, <2>3 DEF OpenInv
<1>2. ASSUME NEW s \in Slot, NEW i \in DOMAIN sock[s].backlog
      PROVE  conn[sock[s].backlog[i]].live
  <2>1. PICK b : b = sock[s].backlog
    OBVIOUS
  <2>2. b \in Seq(Conn)
    BY <2>1 DEF TypeInv, Struct
  <2>3. PICK c \in Conn : c = b[i]
    BY <1>2, <2>1, <2>2
  <2>4. BacklogHas(s, c, 1)
    BY <1>2, <2>1, <2>3 DEF BacklogHas
  <2>5. Owns(<<"backlog", s>>, c, 1) /\ <<"backlog", s>> \in Owner
    BY <2>4, OwnsIs, Sizes DEF Owner
  <2> QED
    BY <2>1, <2>3, <2>5, Sizes DEF OpenInv
<1>3. ASSUME NEW p \in Proc, hand[p] # NoConn PROVE conn[hand[p]].live
  <2>1. pc[p] \in Handing
    BY <1>3 DEF PlaceInv, InPlace
  <2>2. CASE pc[p] \in Talking
    BY <2>2, TalkersOwn
  <2>3. CASE pc[p] \in {"push", "pushed"}
    BY <2>3, HoldersOwn, Sizes
  <2>4. CASE pc[p] = "popped"
    BY <2>4, HoldersOwn, Sizes
  <2> QED
    BY <2>1, <2>2, <2>3, <2>4 DEF Handing
<1> QED
  BY <1>1, <1>2, <1>3 DEF NoUseAfterFree

LEMMA OneSocket == IInv => OneSocketPerEnd
<1> SUFFICES ASSUME IInv PROVE OneSocketPerEnd
  OBVIOUS
<1> USE DEF IInv
<1>1. ASSUME NEW s \in Slot, Held(s) PROVE sock[s].inuse
  BY <1>1 DEF Held, UseInv, Kept, Closing
<1>2. ASSUME NEW s \in Slot, NEW t \in Slot, Held(s), Held(t),
             sock[s].state = "connected", sock[t].state = "connected",
             sock[s].conn = sock[t].conn, sock[s].end = sock[t].end
      PROVE  s = t
  <2>1. PICK c \in Conn, e \in End : c = sock[s].conn /\ e = sock[s].end
    BY <1>2 DEF SlotInv, TypeInv, Struct
  <2>2. SocketHas(s, c, e) /\ SocketHas(t, c, e)
    BY <1>2, <2>1 DEF SocketHas
  <2>3. /\ Owns(<<"socket", s>>, c, e) /\ <<"socket", s>> \in Owner
        /\ Owns(<<"socket", t>>, c, e) /\ <<"socket", t>> \in Owner
    BY <2>2, OwnsIs DEF Owner
  <2> QED
    BY <2>3 DEF OwnerInv
<1> QED
  BY <1>1, <1>2 DEF OneSocketPerEnd

\* socket.h:35-37: nobody reaches a page that was freed, in whatever order the
\* two ends close, are accepted, refused or given up.
THEOREM ConnectionsLive == Spec => []NoUseAfterFree
  BY Invariance, LivePages, PTL

\* sockalloc() gives out no slot that somebody holds, and no end of a
\* connection comes to have two sockets.
THEOREM EndsHaveOneSocket == Spec => []OneSocketPerEnd
  BY Invariance, OneSocket, PTL

\* Nobody sleeps on a connection or in accept() while there is something to do.
THEOREM SleepersHaveReason == Spec => []SleepersJustified
<1>1. IInv => SleepersJustified
  BY DEF IInv
<1> QED
  BY <1>1, Invariance, PTL

-----------------------------------------------------------------------------
(* Sockets implement message channels *)

Sending == {"send", "send_sleep"}
Empty == [e \in End |-> <<>>]

\* What the refinement relies on besides: pages that are not in use hold no
\* messages, nor do connections that are not in a backlog yet; what is being
\* sent is a message; the rings of messages stay in bounds.
PageInv == \A c \in Conn :
    /\ ~conn[c].live => conn[c] = Freed
    /\ \A e \in End : Len(conn[c].q[e]) <= SOCKQLEN
PushInv == \A p \in Proc : pc[p] = "push" => conn[hand[p]].q = Empty
SendInv == \A p \in Proc : pc[p] \in Sending => out[p] \in Message

RInv == PageInv /\ PushInv /\ SendInv

\* Steps that change no connection.
Quiet ==
    /\ UNCHANGED conn
    /\ \A q \in Proc : pc'[q] = "push" => pc[q] = "push" /\ hand'[q] = hand[q]
    /\ \A q \in Proc : pc'[q] \in Sending =>
          out'[q] \in Message \/ (pc[q] \in Sending /\ out'[q] = out[q])

LEMMA QuietKeeps == RInv /\ Quiet => RInv'
  BY DEF RInv, Quiet, PageInv, PushInv, SendInv

\* A step of p that wakes others is quiet if p neither begins to connect nor to send.
LEMMA QuietIf ==
    ASSUME NEW p \in Proc, OthersWait(p), UNCHANGED conn,
           \A q \in Proc \ {p} : out'[q] = out[q],
           pc'[p] # "push" \/ (pc'[p] = pc[p] /\ hand'[p] = hand[p]),
           pc'[p] \in Sending => out'[p] \in Message \/ (pc[p] \in Sending /\ out'[p] = out[p])
    PROVE  Quiet
<1>1. ASSUME NEW q \in Proc, pc'[q] = "push" PROVE pc[q] = "push" /\ hand'[q] = hand[q]
  BY <1>1 DEF OthersWait, Woken
<1>2. ASSUME NEW q \in Proc, pc'[q] \in Sending
      PROVE  out'[q] \in Message \/ (pc[q] \in Sending /\ out'[q] = out[q])
  <2>1. CASE q = p
    BY <1>2, <2>1
  <2>2. CASE q # p
    BY <1>2, <2>2 DEF OthersWait, Woken, Sending
  <2> QED
    BY <2>1, <2>2
<1> QED
  BY <1>1, <1>2 DEF Quiet

LEMMA ReturnQuiet ==
    ASSUME TypeInv, NEW p \in Proc, Return(p), UNCHANGED conn
    PROVE  Quiet
<1>1. OthersWait(p) /\ pc'[p] = "user"
  BY ReturnIs DEF TypeInv
<1>2. \A q \in Proc \ {p} : out'[q] = out[q]
  BY DEF Return, TypeInv, LocalTypes
<1> QED
  BY <1>1, <1>2, QuietIf DEF Sending

LEMMA QuietSteps ==
    ASSUME TypeInv, NEW p \in Proc,
           \/ ConnectDone(p) \/ AcceptSleep(p) \/ AcceptKilled(p) \/ Pop(p)
           \/ AcceptDone(p) \/ AcceptNoFile(p) \/ AcceptNoFd(p)
           \/ SendFails(p) \/ RecvSleep(p) \/ RecvKilled(p)
           \/ CloseUnbound(p) \/ Unbind(p) \/ Kill(p) \/ SockCreate(p) \/ CloseFile(p)
    PROVE  Quiet /\ got' = <<>>
<1>0. pc \in [Proc -> Places] /\ hand \in [Proc -> Conn \cup {NoConn}]
  BY DEF TypeInv, LocalTypes
<1>1. CASE Return(p) /\ UNCHANGED conn /\ got' = <<>>
  BY <1>1, ReturnQuiet
<1>2. CASE AcceptSleep(p) \/ RecvSleep(p) \/ Pop(p) \/ AcceptNoFd(p)
  BY <1>0, <1>2 DEF AcceptSleep, RecvSleep, Pop, AcceptNoFd, Quiet, Sending, sockets, tables, locals
<1>3. CASE Kill(p)
  BY <1>0, <1>3 DEF Kill, Quiet, Sending, sockets, tables, locals
<1>4. CASE SockCreate(p) \/ CloseFile(p)
  BY <1>4 DEF SockCreate, CloseFile, Quiet, sockets, tables, locals
<1>5. CASE \/ ConnectDone(p) \/ AcceptKilled(p) \/ AcceptDone(p) \/ AcceptNoFile(p)
           \/ SendFails(p) \/ RecvKilled(p) \/ CloseUnbound(p) \/ Unbind(p)
  <2>1. Return(p) /\ UNCHANGED conn /\ got' = <<>>
    BY <1>5 DEF ConnectDone, AcceptKilled, AcceptDone, AcceptNoFile, SendFails, RecvKilled,
                CloseUnbound, Unbind, sockets, tables
  <2> QED
    BY <1>1, <2>1
<1> QED
  BY <1>2, <1>3, <1>4, <1>5

LEMMA QuietCalls ==
    ASSUME TypeInv, NEW p \in Proc, NEW s \in Slot,
           \/ \E path \in Path : SockBind(p, s, path) \/ Lookup(p, s, path)
           \/ SockListen(p, s) \/ CallAccept(p, s)
           \/ \E m \in Message : CallSend(p, s, m)
           \/ SendBadFd(p, s)
           \/ CallRecv(p, s)
           \/ Close(p, s)
           \/ \E q \in Proc : Inherit(p, q)
    PROVE  Quiet /\ got' = <<>>
<1>0. /\ pc \in [Proc -> Places] /\ hand \in [Proc -> Conn \cup {NoConn}]
      /\ out \in [Proc -> Letter]
  BY DEF TypeInv, LocalTypes
<1>1. CASE \E path \in Path : SockBind(p, s, path) \/ Lookup(p, s, path)
  BY <1>0, <1>1 DEF SockBind, Lookup, Quiet, Sending, sockets, tables, locals
<1>2. CASE SockListen(p, s) \/ CallAccept(p, s) \/ SendBadFd(p, s)
  BY <1>0, <1>2 DEF SockListen, CallAccept, SendBadFd, Quiet, Sending, sockets, tables, locals
<1>3. CASE \E m \in Message : CallSend(p, s, m)
  BY <1>0, <1>3 DEF CallSend, Quiet, Sending, sockets, tables
<1>4. CASE CallRecv(p, s) \/ Close(p, s)
  BY <1>0, <1>4 DEF CallRecv, Close, Quiet, Sending, sockets, tables
<1>5. CASE \E q \in Proc : Inherit(p, q)
  BY <1>5 DEF Inherit, Quiet, sockets, locals
<1> QED
  BY <1>1, <1>2, <1>3, <1>4, <1>5

LEMMA SleepQuiet ==
    ASSUME TypeInv, NEW p \in Proc, SendSleep(p)
    PROVE  Quiet /\ got' = <<>>
<1>0. pc \in [Proc -> Places]
  BY DEF TypeInv, LocalTypes
<1>1. PICK places : places = WakeConn(hand[p], pc)
  OBVIOUS
<1>2. \A q \in Proc : Woken(pc[q], places[q])
  BY <1>0, <1>1, WakeConnIs
<1>3. /\ pc' = [places EXCEPT ![p] = "send_sleep"] /\ pc[p] = "send" /\ got' = <<>>
      /\ UNCHANGED <<conn, at, target, hand, out>> /\ places \in [Proc -> Places]
  BY <1>0, <1>1, WakeConnIs DEF SendSleep, sockets, tables, locals
<1>4. OthersWait(p) /\ pc'[p] = "send_sleep"
  BY <1>2, <1>3 DEF OthersWait
<1> QED
  BY <1>3, <1>4, QuietIf DEF Sending

LEMMA PushQuiet ==
    ASSUME TypeInv, NEW p \in Proc, Push(p)
    PROVE  Quiet /\ got' = <<>>
<1>1. PICK places : places = [pc EXCEPT ![p] = "pushed"]
  OBVIOUS
<1>2. places \in [Proc -> Places] /\ places[p] = "pushed" /\ \A q \in Proc \ {p} : places[q] = pc[q]
  BY <1>1 DEF TypeInv, LocalTypes, Places
<1>3. PICK ls : ls = target[p]
  OBVIOUS
<1>4. \A q \in Proc : Woken(places[q], WakeListen(ls, places)[q])
  BY <1>2, WakeListenIs
<1>5. /\ pc' = WakeListen(ls, places) /\ got' = <<>>
      /\ UNCHANGED <<conn, at, target, hand, out>>
  BY <1>1, <1>3 DEF Push, tables, locals
<1>6. OthersWait(p) /\ pc'[p] = "pushed"
  BY <1>2, <1>4, <1>5 DEF OthersWait, Woken
<1> QED
  BY <1>5, <1>6, QuietIf DEF Sending

\* What message channels see of the connections.
LiveConns == {c \in Conn : conn[c].live}
Opens     == [c \in Conn |-> conn[c].open]
Queues    == [c \in Conn |-> conn[c].q]

LEMMA QuietIsOther ==
    ASSUME Quiet, got' = <<>>
    PROVE  Channels!Other
  BY DEF Quiet, Channels!Other

LEMMA Views ==
    ASSUME TypeInv, NEW c \in Conn, NEW k \in Page, conn' = [conn EXCEPT ![c] = k]
    PROVE  /\ LiveConns' = IF k.live THEN LiveConns \cup {c} ELSE LiveConns \ {c}
           /\ Opens' = [Opens EXCEPT ![c] = k.open]
           /\ Queues' = [Queues EXCEPT ![c] = k.q]
           /\ Opens[c] = conn[c].open /\ Queues[c] = conn[c].q
           /\ c \in LiveConns <=> conn[c].live
<1>1. conn \in [Conn -> Page]
  BY DEF TypeInv
<1>2. conn'[c] = k /\ \A d \in Conn \ {c} : conn'[d] = conn[d]
  BY <1>1
<1>3. LiveConns' = IF k.live THEN LiveConns \cup {c} ELSE LiveConns \ {c}
  BY <1>2 DEF LiveConns
<1>4. Opens' = [Opens EXCEPT ![c] = k.open]
  <2>1. Opens' = [d \in Conn |-> IF d = c THEN k.open ELSE conn[d].open]
    BY <1>2 DEF Opens
  <2> QED
    BY <2>1 DEF Opens
<1>5. Queues' = [Queues EXCEPT ![c] = k.q]
  <2>1. Queues' = [d \in Conn |-> IF d = c THEN k.q ELSE conn[d].q]
    BY <1>2 DEF Queues
  <2> QED
    BY <2>1 DEF Queues
<1> QED
  BY <1>3, <1>4, <1>5 DEF Opens, Queues, LiveConns

\* Who is about to queue a connection for accept() has it alone.
LEMMA PushAlone ==
    ASSUME TypeInv, PlaceInv, OwnerInv, OpenInv, NEW q \in Proc, pc[q] = "push",
           NEW e \in End, NEW x \in Owner, Owns(x, hand[q], e)
    PROVE  x = <<"process", q>>
<1>1. hand[q] \in Conn /\ <<"process", q>> \in Owner /\ Owns(<<"process", q>>, hand[q], e)
  BY HoldersOwn
<1> QED
  BY <1>1 DEF OwnerInv

\* A step of p that changes connection c.
LEMMA OneChanges ==
    ASSUME TypeInv, RInv, NEW p \in Proc, OthersWait(p), NEW c \in Conn, NEW k \in Page,
           conn' = [conn EXCEPT ![c] = k],
           ~k.live => k = Freed, \A e \in End : Len(k.q[e]) <= SOCKQLEN,
           \A q \in Proc \ {p} : out'[q] = out[q],
           pc'[p] \notin Sending, pc'[p] = "push" => hand'[p] = c /\ k.q = Empty,
           \A q \in Proc \ {p} : pc[q] = "push" => hand[q] \in Conn /\ hand[q] # c
    PROVE  RInv'
<1>1. conn'[c] = k /\ \A d \in Conn \ {c} : conn'[d] = conn[d]
  BY DEF TypeInv
<1>2. PageInv'
  BY <1>1 DEF RInv, PageInv
<1>3. PushInv'
  <2> SUFFICES ASSUME NEW q \in Proc, pc'[q] = "push" PROVE conn'[hand'[q]].q = Empty
    BY DEF PushInv
  <2>1. CASE q = p
    BY <1>1, <2>1
  <2>2. CASE q # p
    <3>1. pc[q] = "push" /\ hand'[q] = hand[q]
      BY <2>2 DEF OthersWait, Woken
    <3> QED
      BY <1>1, <2>2, <3>1 DEF RInv, PushInv
  <2> QED
    BY <2>1, <2>2
<1>4. SendInv'
  <2> SUFFICES ASSUME NEW q \in Proc, pc'[q] \in Sending PROVE out'[q] \in Message
    BY DEF SendInv
  <2>1. pc[q] \in Sending /\ out'[q] = out[q]
    BY DEF OthersWait, Woken, Sending
  <2> QED
    BY <2>1 DEF RInv, SendInv
<1> QED
  BY <1>2, <1>3, <1>4 DEF RInv

LEMMA FreshPages ==
    /\ Opened.live /\ Opened.q = Empty /\ Opened.open = [e \in End |-> TRUE]
    /\ ~Freed.live /\ Freed.q = Empty /\ Freed.open = [e \in End |-> FALSE]
    /\ \A e \in End : Len(Empty[e]) <= SOCKQLEN
<1>1. SOCKQLEN \in Nat
  BY SocketAssumption
<1>2. \A e \in End : Empty[e] = <<>>
  BY DEF Empty
<1>3. \A e \in End : Len(Empty[e]) = 0
  BY <1>2
<1> QED
  BY <1>1, <1>3 DEF Opened, Freed, Empty

\* A page is put to use.
LEMMA Creates ==
    ASSUME TypeInv, PlaceInv, OpenInv, RInv, NEW p \in Proc, OthersWait(p),
           NEW c \in Conn, ~conn[c].live, conn' = [conn EXCEPT ![c] = Opened], got' = <<>>,
           UNCHANGED out, pc'[p] = "user" \/ (pc'[p] = "push" /\ hand'[p] = c)
    PROVE  RInv' /\ Channels!Create(c)
<1>1. PICK k : k = Opened
  OBVIOUS
<1>2. k \in Page /\ k.live /\ k.q = Empty /\ k.open = [e \in End |-> TRUE] /\ \A e \in End : Len(k.q[e]) <= SOCKQLEN
  BY <1>1, PagesTyped, FreshPages
<1>3. \A q \in Proc : pc[q] = "push" => hand[q] \in Conn /\ hand[q] # c
  BY HoldersOwn, Sizes
<1>4. RInv'
  <2>1. conn' = [conn EXCEPT ![c] = k] /\ (\A q \in Proc \ {p} : out'[q] = out[q])
    BY <1>1
  <2>2. pc'[p] \notin Sending
    BY DEF Sending
  <2>3. pc'[p] = "push" => hand'[p] = c
    OBVIOUS
  <2> QED
    BY <1>2, <1>3, <2>1, <2>2, <2>3, OneChanges
<1>5. /\ LiveConns' = LiveConns \cup {c} /\ c \notin LiveConns
      /\ Opens' = [Opens EXCEPT ![c] = [e \in End |-> TRUE]]
      /\ Queues' = [Queues EXCEPT ![c] = Empty] /\ Queues[c] = conn[c].q
  BY <1>1, <1>2, Views
<1>6. conn[c] = Freed
  BY DEF RInv, PageInv
<1>7. Queues' = Queues
  BY <1>5, <1>6, FreshPages DEF Queues
<1> QED
  BY <1>4, <1>5, <1>7 DEF Channels!Create, Channels!End, End, LiveConns, Opens, Queues

\* An end closes: its page stays if the other end is open.
LEMMA ClosedEnd ==
    ASSUME NEW k \in Page, NEW f \in End, k.live
    PROVE  /\ EndClosed(k, f) \in Page
           /\ EndClosed(k, f).open = [k.open EXCEPT ![f] = FALSE]
           /\ k.open[1 - f] => EndClosed(k, f).live /\ EndClosed(k, f).q = k.q
           /\ ~k.open[1 - f] => EndClosed(k, f) = Freed
           /\ \A e \in End : Len(k.q[e]) <= SOCKQLEN => Len(EndClosed(k, f).q[e]) <= SOCKQLEN
<1>1. f \in {0, 1} /\ 1 - f \in {0, 1} /\ 1 - f # f /\ {f, 1 - f} = {0, 1}
  BY DEF End
<1>2. PICK o : o = [k.open EXCEPT ![f] = FALSE]
  OBVIOUS
<1>3. o \in [End -> BOOLEAN] /\ ~o[f] /\ o[1 - f] = k.open[1 - f]
  BY <1>1, <1>2 DEF Page, End
<1>4. PICK z : z = EndClosed(k, f)
  OBVIOUS
<1>5. z \in Page
  BY <1>4, EndClosedIs
<1>6. CASE k.open[1 - f]
  <2>1. ~Freeable(o)
    BY <1>1, <1>3, <1>6 DEF Freeable
  <2>2. z = [k EXCEPT !.open = o]
    BY <1>2, <1>4, <2>1 DEF EndClosed
  <2>3. z.live /\ z.open = o /\ z.q = k.q
    BY <2>2 DEF Page
  <2> QED
    BY <1>2, <1>4, <1>5, <1>6, <2>3
<1>7. CASE ~k.open[1 - f]
  <2>1. Freeable(o)
    BY <1>1, <1>3, <1>7 DEF Freeable
  <2>2. z = Freed
    BY <1>2, <1>4, <2>1 DEF EndClosed
  <2>3. z.open = o
    BY <1>1, <1>3, <1>7, <2>2, FreshPages DEF End
  <2>4. \A e \in End : Len(z.q[e]) <= SOCKQLEN
    BY <2>2, FreshPages
  <2> QED
    BY <1>2, <1>4, <1>5, <1>7, <2>2, <2>3, <2>4
<1> QED
  BY <1>6, <1>7

LEMMA Closes ==
    ASSUME TypeInv, NEW c \in Conn, NEW f \in End, conn[c].live, conn[c].open[f],
           conn' = [conn EXCEPT ![c] = EndClosed(conn[c], f)], got' = <<>>
    PROVE  Channels!Close(c, f) \/ Channels!CloseLast(c, f)
<1>1. PICK k : k = EndClosed(conn[c], f)
  OBVIOUS
<1>2. conn[c] \in Page
  BY DEF TypeInv
<1>3. /\ k \in Page /\ k.open = [conn[c].open EXCEPT ![f] = FALSE]
      /\ conn[c].open[1 - f] => k.live /\ k.q = conn[c].q
      /\ ~conn[c].open[1 - f] => k = Freed
  BY <1>1, <1>2, ClosedEnd
<1>4. conn' = [conn EXCEPT ![c] = k]
  BY <1>1
<1>5. /\ LiveConns' = IF k.live THEN LiveConns \cup {c} ELSE LiveConns \ {c}
      /\ Opens' = [Opens EXCEPT ![c] = k.open]
      /\ Queues' = [Queues EXCEPT ![c] = k.q]
      /\ Opens[c] = conn[c].open /\ Queues[c] = conn[c].q
      /\ c \in LiveConns
  BY <1>3, <1>4, Views
<1>6. Opens' = [Opens EXCEPT ![c][f] = FALSE]
  BY <1>3, <1>5
<1>7. CASE conn[c].open[1 - f]
  <2>1. LiveConns' = LiveConns /\ Queues' = Queues
    BY <1>3, <1>5, <1>7 DEF Queues
  <2>2. Channels!Close(c, f)
    BY <1>5, <1>6, <1>7, <2>1 DEF Channels!Close, LiveConns, Opens, Queues
  <2> QED
    BY <2>2
<1>8. CASE ~conn[c].open[1 - f]
  <2>1. ~k.live /\ k.q = Empty
    BY <1>3, <1>8, FreshPages
  <2>2. LiveConns' = LiveConns \ {c} /\ Queues' = [Queues EXCEPT ![c] = Empty]
    BY <1>5, <2>1
  <2>3. Channels!CloseLast(c, f)
    BY <1>5, <1>6, <1>8, <2>2 DEF Channels!CloseLast, Channels!End, End, Empty, LiveConns, Opens, Queues
  <2> QED
    BY <2>3
<1> QED
  BY <1>7, <1>8

LEMMA QuietImplements ==
    ASSUME RInv, Quiet, got' = <<>>
    PROVE  RInv' /\ Channels!Next
<1>1. Channels!Other
  BY QuietIsOther
<1> QED
  BY <1>1, QuietKeeps DEF Channels!Next

LEMMA PairImplements ==
    ASSUME IInv, RInv, NEW p \in Proc, SockPair(p) \/ SockPairNoFile(p)
    PROVE  RInv' /\ Channels!Next
<1>1. PICK c \in Conn : ~conn[c].live /\ conn' = [conn EXCEPT ![c] = Opened]
  BY DEF SockPair, SockPairNoFile
<1>2. UNCHANGED <<pc, at, target, hand, out>> /\ pc[p] = "user" /\ got' = <<>>
  BY DEF SockPair, SockPairNoFile, locals
<1>3. OthersWait(p) /\ pc'[p] = "user" /\ UNCHANGED out
  BY <1>2 DEF OthersWait, Woken
<1>4. TypeInv /\ PlaceInv /\ OpenInv
  BY DEF IInv
<1>5. RInv' /\ Channels!Create(c)
  BY <1>1, <1>2, <1>3, <1>4, Creates
<1> QED
  BY <1>5 DEF Channels!Next

LEMMA NewConnImplements ==
    ASSUME IInv, RInv, NEW p \in Proc, NewConn(p)
    PROVE  RInv' /\ Channels!Next
<1>1. TypeInv /\ PlaceInv /\ OpenInv /\ got' = <<>> /\ pc[p] = "found"
  BY DEF IInv, NewConn
<1>2. CASE Return(p) /\ UNCHANGED conn
  BY <1>1, <1>2, ReturnQuiet, QuietImplements
<1>3. ASSUME NEW c \in Conn, ~conn[c].live, conn' = [conn EXCEPT ![c] = Opened],
             hand' = [hand EXCEPT ![p] = c], pc' = [pc EXCEPT ![p] = "push"],
             UNCHANGED <<at, target, out>>
      PROVE  RInv' /\ Channels!Next
  <2>1. OthersWait(p) /\ pc'[p] = "push" /\ hand'[p] = c
    BY <1>1, <1>3 DEF OthersWait, Woken, TypeInv, LocalTypes
  <2>2. RInv' /\ Channels!Create(c)
    BY <1>1, <1>3, <2>1, Creates
  <2> QED
    BY <2>2 DEF Channels!Next
<1> QED
  BY <1>2, <1>3 DEF NewConn

LEMMA RefuseImplements ==
    ASSUME IInv, RInv, NEW p \in Proc, PushRefused(p)
    PROVE  RInv' /\ Channels!Next
<1>1. TypeInv /\ PlaceInv /\ OpenInv /\ OwnerInv
  BY DEF IInv
<1>2. Return(p) /\ pc[p] = "push" /\ got' = <<>>
  BY DEF PushRefused
<1>3. PICK c \in Conn : c = hand[p]
  BY <1>1, <1>2, Sizes, HoldersOwn
<1>4. conn[c].live /\ \A e \in End : <<"process", p>> \in Owner /\ Owns(<<"process", p>>, c, e)
  BY <1>1, <1>2, <1>3, HoldersOwn, Sizes
<1>5. OthersWait(p) /\ pc'[p] = "user" /\ \A q \in Proc \ {p} : out'[q] = out[q]
  BY <1>1, <1>2, ReturnIs DEF TypeInv, LocalTypes, Return
<1>6. PICK k : k = Freed
  OBVIOUS
<1>7. /\ k \in Page /\ ~k.live /\ k.q = Empty /\ k.open = [e \in End |-> FALSE]
      /\ \A e \in End : Len(k.q[e]) <= SOCKQLEN
  BY <1>6, PagesTyped, FreshPages
<1>8. conn' = [conn EXCEPT ![c] = k]
  BY <1>3, <1>6 DEF PushRefused
<1>9. \A q \in Proc \ {p} : pc[q] = "push" => hand[q] \in Conn /\ hand[q] # c
  <2> SUFFICES ASSUME NEW q \in Proc \ {p}, pc[q] = "push" PROVE hand[q] \in Conn /\ hand[q] # c
    OBVIOUS
  <2>1. hand[q] \in Conn
    BY <1>1, Sizes, HoldersOwn
  <2>2. hand[q] = c => <<"process", p>> = <<"process", q>>
    BY <1>1, <1>4, Sizes, PushAlone
  <2> QED
    BY <2>1, <2>2
<1>10. RInv'
  <2>1. pc'[p] \notin Sending /\ pc'[p] # "push"
    BY <1>5 DEF Sending
  <2> QED
    BY <1>1, <1>5, <1>6, <1>7, <1>8, <1>9, <2>1, OneChanges
<1>11. conn[c].q = Empty
  BY <1>2, <1>3 DEF RInv, PushInv
<1>12. /\ LiveConns' = LiveConns \ {c} /\ c \in LiveConns
       /\ Opens' = [Opens EXCEPT ![c] = [e \in End |-> FALSE]]
       /\ Queues' = [Queues EXCEPT ![c] = Empty]
  <2>1. /\ LiveConns' = IF k.live THEN LiveConns \cup {c} ELSE LiveConns \ {c}
        /\ Opens' = [Opens EXCEPT ![c] = k.open]
        /\ Queues' = [Queues EXCEPT ![c] = k.q]
        /\ c \in LiveConns
    BY <1>1, <1>4, <1>7, <1>8, Views
  <2> QED
    BY <1>7, <2>1
<1>13. Queues' = Queues
  BY <1>11, <1>12 DEF Queues
<1>14. Channels!Refuse(c)
  BY <1>2, <1>12, <1>13 DEF Channels!Refuse, Channels!End, End, LiveConns, Opens, Queues
<1> QED
  BY <1>10, <1>14 DEF Channels!Next

\* p closes end f of connection c, which it has in its hands, or its socket has.
LEMMA CloseImplements ==
    ASSUME IInv, RInv, NEW p \in Proc, OthersWait(p), pc'[p] = "user", pc[p] # "push",
           NEW c \in Conn, NEW f \in End, NEW x \in Owner, Owns(x, c, f),
           \A q \in Proc : pc[q] = "push" => x # <<"process", q>>,
           conn' = [conn EXCEPT ![c] = EndClosed(conn[c], f)], got' = <<>>,
           UNCHANGED out
    PROVE  RInv' /\ Channels!Next
<1>1. TypeInv /\ PlaceInv /\ OpenInv /\ OwnerInv
  BY DEF IInv
<1>2. conn[c] \in Page /\ conn[c].live /\ conn[c].open[f]
  BY <1>1 DEF OpenInv, TypeInv
<1>3. Channels!Close(c, f) \/ Channels!CloseLast(c, f)
  BY <1>1, <1>2, Closes
<1>4. PICK k : k = EndClosed(conn[c], f)
  OBVIOUS
<1>5. /\ k \in Page
      /\ conn[c].open[1 - f] => k.live
      /\ ~conn[c].open[1 - f] => k = Freed
      /\ \A e \in End : Len(conn[c].q[e]) <= SOCKQLEN => Len(k.q[e]) <= SOCKQLEN
  BY <1>2, <1>4, ClosedEnd
<1>6. ~k.live => k = Freed
  BY <1>5
<1>7. \A e \in End : Len(k.q[e]) <= SOCKQLEN
  BY <1>5 DEF RInv, PageInv
<1>8. \A q \in Proc \ {p} : pc[q] = "push" => hand[q] \in Conn /\ hand[q] # c
  <2> SUFFICES ASSUME NEW q \in Proc \ {p}, pc[q] = "push" PROVE hand[q] \in Conn /\ hand[q] # c
    OBVIOUS
  <2>1. hand[q] \in Conn
    BY <1>1, Sizes, HoldersOwn
  <2>2. hand[q] = c => x = <<"process", q>>
    BY <1>1, PushAlone
  <2> QED
    BY <2>1, <2>2
<1>9. RInv'
  <2>1. pc'[p] \notin Sending /\ pc'[p] # "push" /\ \A q \in Proc \ {p} : out'[q] = out[q]
    BY DEF Sending
  <2>2. conn' = [conn EXCEPT ![c] = k]
    BY <1>4
  <2> QED
    BY <1>1, <1>5, <1>6, <1>7, <1>8, <2>1, <2>2, OneChanges
<1>10. f \in Channels!End
  BY DEF End, Channels!End
<1> QED
  BY <1>3, <1>9, <1>10 DEF Channels!Next

LEMMA NoSlotImplements ==
    ASSUME IInv, RInv, NEW p \in Proc, AcceptNoSlot(p)
    PROVE  RInv' /\ Channels!Next
<1>1. TypeInv /\ PlaceInv /\ OpenInv
  BY DEF IInv
<1>2. /\ UNCHANGED <<target, out>> /\ pc[p] = "popped" /\ got' = <<>>
      /\ at' = [at EXCEPT ![p] = NoSlot] /\ hand' = [hand EXCEPT ![p] = NoConn]
  BY DEF AcceptNoSlot
<1>3. PICK c \in Conn : c = hand[p]
  BY <1>1, <1>2, Sizes, HoldersOwn
<1>4. /\ conn' = [conn EXCEPT ![c] = EndClosed(conn[c], 1)]
      /\ pc' = WakeConn(c, [pc EXCEPT ![p] = "user"])
  BY <1>3 DEF AcceptNoSlot
<1>5. OthersWait(p) /\ pc'[p] = "user"
  <2>1. out' \in [Proc -> Letter] /\ target' = target
    BY <1>1, <1>2 DEF TypeInv, LocalTypes
  <2> QED
    BY <1>1, <1>2, <1>4, <2>1, WakePlaces
<1>6. PICK x \in Owner : x = <<"process", p>> /\ Owns(x, c, 1)
  BY <1>1, <1>2, <1>3, Sizes, HoldersOwn
<1>7. \A q \in Proc : pc[q] = "push" => x # <<"process", q>>
  BY <1>2, <1>6
<1>8. 1 \in End /\ pc[p] # "push" /\ UNCHANGED out
  BY <1>2, Sizes
<1> QED
  BY <1>2, <1>4, <1>5, <1>6, <1>7, <1>8, CloseImplements

LEMMA CloseConnImplements ==
    ASSUME IInv, RInv, NEW p \in Proc, CloseConn(p)
    PROVE  RInv' /\ Channels!Next
<1>1. TypeInv /\ PlaceInv /\ OpenInv /\ SlotInv
  BY DEF IInv
<1>2. /\ UNCHANGED <<target, hand, out>> /\ pc[p] = "close" /\ got' = <<>>
      /\ at' = [at EXCEPT ![p] = NoSlot]
  BY DEF CloseConn
<1>3. PICK s \in Slot : s = at[p]
  BY <1>1, <1>2 DEF PlaceInv, InPlace
<1>4. PICK c \in Conn, f \in End : c = sock[s].conn /\ f = sock[s].end
  BY <1>1, <1>3 DEF CloseConn, SlotInv, TypeInv, Struct
<1>5. /\ conn' = [conn EXCEPT ![c] = EndClosed(conn[c], f)]
      /\ pc' = WakeConn(c, [pc EXCEPT ![p] = "user"]) /\ sock[s].state = "connected"
  BY <1>3, <1>4 DEF CloseConn
<1>6. OthersWait(p) /\ pc'[p] = "user"
  <2>1. out' \in [Proc -> Letter] /\ target' = target
    BY <1>1, <1>2 DEF TypeInv, LocalTypes
  <2>2. hand' = [hand EXCEPT ![p] = NoConn]
    BY <1>1, <1>2 DEF TypeInv, LocalTypes, PlaceInv, InPlace, Handing, Talking
  <2> QED
    BY <1>1, <1>2, <1>5, <2>1, <2>2, WakePlaces
<1>7. PICK x \in Owner : x = <<"socket", s>> /\ Owns(x, c, f)
  <2>1. SocketHas(s, c, f)
    BY <1>2, <1>3, <1>4, <1>5 DEF SocketHas, Held
  <2> QED
    BY <2>1, OwnsIs DEF Owner
<1>8. \A q \in Proc : pc[q] = "push" => x # <<"process", q>>
  BY <1>7
<1>9. pc[p] # "push" /\ UNCHANGED out
  BY <1>2
<1> QED
  BY <1>2, <1>5, <1>6, <1>7, <1>8, <1>9, CloseImplements

\* A queue of a connection changes.
LEMMA QueueBound ==
    ASSUME NEW k \in Page, NEW h \in Page, NEW e \in End, NEW z \in Seq(Letter),
           k.q = [h.q EXCEPT ![e] = z], Len(z) <= SOCKQLEN, \A d \in End : Len(h.q[d]) <= SOCKQLEN
    PROVE  \A d \in End : Len(k.q[d]) <= SOCKQLEN
<1>1. \A d \in End : k.q[d] = IF d = e THEN z ELSE h.q[d]
  BY DEF Page
<1>2. ASSUME NEW d \in End PROVE Len(k.q[d]) <= SOCKQLEN
  BY <1>1, <1>2
<1> QED
  BY <1>2

OnlyQueue(c, z) ==
    /\ LiveConns' = LiveConns /\ Opens' = Opens
    /\ Queues' = [Queues EXCEPT ![c] = z]
    /\ Opens[c] = conn[c].open /\ Queues[c] = conn[c].q /\ c \in LiveConns

\* p puts a message into a queue of the connection it is talking on, or takes one.
LEMMA TalkChanges ==
    ASSUME IInv, RInv, NEW p \in Proc, pc[p] \in Talking, OthersWait(p), pc'[p] = "user",
           \A q \in Proc \ {p} : out'[q] = out[q],
           NEW c \in Conn, c = hand[p], NEW k \in Page, k.live, k.open = conn[c].open,
           conn' = [conn EXCEPT ![c] = k], \A d \in End : Len(k.q[d]) <= SOCKQLEN
    PROVE  RInv' /\ OnlyQueue(c, k.q)
<1>1. TypeInv /\ PlaceInv /\ OpenInv /\ OwnerInv
  BY DEF IInv
<1>2. /\ MyEnd(p) \in End /\ Owns(<<"socket", at[p]>>, c, MyEnd(p)) /\ at[p] \in Slot
      /\ conn[c].live
  BY <1>1, TalkersOwn
<1>3. \A q \in Proc \ {p} : pc[q] = "push" => hand[q] \in Conn /\ hand[q] # c
  <2> SUFFICES ASSUME NEW q \in Proc \ {p}, pc[q] = "push" PROVE hand[q] \in Conn /\ hand[q] # c
    OBVIOUS
  <2>1. hand[q] \in Conn
    BY <1>1, Sizes, HoldersOwn
  <2>2. PICK x \in Owner : x = <<"socket", at[p]>> /\ Owns(x, c, MyEnd(p))
    BY <1>2 DEF Owner
  <2>3. hand[q] = c => x = <<"process", q>>
    BY <1>1, <1>2, <2>2, PushAlone
  <2> QED
    BY <2>1, <2>2, <2>3
<1>4. RInv'
  <2>1. pc'[p] \notin Sending /\ pc'[p] # "push"
    BY DEF Sending
  <2> QED
    BY <1>1, <1>3, <2>1, OneChanges
<1>5. /\ LiveConns' = IF k.live THEN LiveConns \cup {c} ELSE LiveConns \ {c}
      /\ Opens' = [Opens EXCEPT ![c] = k.open]
      /\ Queues' = [Queues EXCEPT ![c] = k.q]
      /\ Opens[c] = conn[c].open /\ Queues[c] = conn[c].q
  BY <1>1, Views
<1>6. c \in LiveConns
  BY <1>2 DEF LiveConns
<1>7. LiveConns' = LiveConns /\ Opens' = Opens
  BY <1>5, <1>6 DEF Opens
<1> QED
  BY <1>4, <1>5, <1>6, <1>7 DEF OnlyQueue

LEMMA SendImplements ==
    ASSUME IInv, RInv, NEW p \in Proc, Send(p)
    PROVE  RInv' /\ Channels!Next
<1>1. TypeInv /\ PlaceInv /\ OpenInv
  BY DEF IInv
<1>2. /\ pc[p] = "send" /\ pc[p] \in Talking /\ pc[p] \in Sending /\ got' = <<>> /\ UNCHANGED target
      /\ at' = [at EXCEPT ![p] = NoSlot] /\ hand' = [hand EXCEPT ![p] = NoConn]
      /\ out' = [out EXCEPT ![p] = NoMessage]
  BY DEF Send, Talking, Sending
<1>3. PICK c \in Conn : c = hand[p] /\ conn[c].live
  BY <1>1, <1>2, TalkersOwn
<1>4. PICK e \in End : e = MyEnd(p)
  BY <1>1, <1>2, TalkersOwn
<1>5. PICK m \in Message : m = out[p]
  BY <1>2 DEF RInv, SendInv
<1>6. PICK z : z = Append(conn[c].q[e], m)
  OBVIOUS
<1>7. conn[c] \in Page /\ conn[c].q[e] \in Seq(Letter) /\ m \in Letter
  BY <1>1 DEF TypeInv, Page, Letter
<1>8. z \in Seq(Letter) /\ Len(z) = Len(conn[c].q[e]) + 1 /\ Len(conn[c].q[e]) \in Nat
  BY <1>6, <1>7, AppendProperties, LenProperties
<1>9. Len(conn[c].q[e]) # SOCKQLEN /\ conn[c].open[1 - e]
  BY <1>3, <1>4 DEF Send, QueueFull, PeerOpen, Peer
<1>10. SOCKQLEN \in Nat /\ \A d \in End : Len(conn[c].q[d]) <= SOCKQLEN
  BY SocketAssumption DEF RInv, PageInv
<1>11. Len(conn[c].q[e]) < SOCKQLEN /\ Len(z) <= SOCKQLEN
  BY <1>8, <1>9, <1>10
<1>12. PICK k : k = [conn[c] EXCEPT !.q[e] = z]
  OBVIOUS
<1>13. conn' = [conn EXCEPT ![c] = k] /\ pc' = WakeConn(c, [pc EXCEPT ![p] = "user"])
  BY <1>3, <1>4, <1>5, <1>6, <1>12 DEF Send, Enqueue
<1>14. /\ k \in Page /\ k.live /\ k.open = conn[c].open
       /\ k.q = [conn[c].q EXCEPT ![e] = z]
  BY <1>3, <1>7, <1>8, <1>12 DEF Page
<1>15. \A d \in End : Len(k.q[d]) <= SOCKQLEN
  BY <1>7, <1>8, <1>10, <1>11, <1>14, QueueBound
<1>16. out' \in [Proc -> Letter] /\ \A q \in Proc \ {p} : out'[q] = out[q]
  BY <1>1, <1>2 DEF TypeInv, LocalTypes, Letter
<1>17. OthersWait(p) /\ pc'[p] = "user"
  BY <1>1, <1>2, <1>13, <1>16, WakePlaces
<1>18. RInv' /\ OnlyQueue(c, k.q)
  <2>1. k.open = conn[c].open /\ k.live /\ k \in Page
    BY <1>14
  <2>2. pc[p] \in Talking /\ c = hand[p] /\ conn' = [conn EXCEPT ![c] = k]
    BY <1>2, <1>3, <1>13
  <2>3. \A q \in Proc \ {p} : out'[q] = out[q]
    BY <1>16
  <2> QED
    BY <1>15, <1>17, <2>1, <2>2, <2>3, TalkChanges
<1>19. Queues' = [Queues EXCEPT ![c][e] = Append(@, m)]
  BY <1>6, <1>14, <1>18 DEF OnlyQueue
<1>20. Channels!Send(c, e, m)
  BY <1>2, <1>9, <1>11, <1>18, <1>19 DEF OnlyQueue, Channels!Send, LiveConns, Opens, Queues
<1> QED
  BY <1>18, <1>20 DEF Channels!Next, Channels!End, End

LEMMA RecvImplements ==
    ASSUME IInv, RInv, NEW p \in Proc, Recv(p)
    PROVE  RInv' /\ Channels!Next
<1>1. TypeInv /\ PlaceInv /\ OpenInv
  BY DEF IInv
<1>2. /\ pc[p] = "recv" /\ pc[p] \in Talking /\ UNCHANGED <<target, out>>
      /\ at' = [at EXCEPT ![p] = NoSlot] /\ hand' = [hand EXCEPT ![p] = NoConn]
  BY DEF Recv, Talking
<1>3. PICK c \in Conn : c = hand[p] /\ conn[c].live
  BY <1>1, <1>2, TalkersOwn
<1>4. PICK f \in End : f = MyEnd(p)
  BY <1>1, <1>2, TalkersOwn
<1>5. PICK e \in End : e = 1 - f
  BY DEF End
<1>6. e = Peer(p)
  BY <1>4, <1>5 DEF Peer
<1>7. PICK z : z = Tail(conn[c].q[e])
  OBVIOUS
<1>8. conn[c] \in Page /\ conn[c].q[e] \in Seq(Letter) /\ conn[c].q[e] # <<>>
  BY <1>1, <1>3, <1>6 DEF TypeInv, Page, Recv, Incoming
<1>9. z \in Seq(Letter) /\ Len(z) = Len(conn[c].q[e]) - 1 /\ Len(conn[c].q[e]) \in Nat
  BY <1>7, <1>8, HeadTailProperties, LenProperties
<1>10. SOCKQLEN \in Nat /\ \A d \in End : Len(conn[c].q[d]) <= SOCKQLEN
  BY SocketAssumption DEF RInv, PageInv
<1>11. Len(z) <= SOCKQLEN
  BY <1>9, <1>10
<1>12. PICK k : k = [conn[c] EXCEPT !.q[e] = z]
  OBVIOUS
<1>13. conn' = [conn EXCEPT ![c] = k] /\ pc' = WakeConn(c, [pc EXCEPT ![p] = "user"])
  BY <1>3, <1>6, <1>7, <1>12 DEF Recv
<1>14. /\ k \in Page /\ k.live /\ k.open = conn[c].open
       /\ k.q = [conn[c].q EXCEPT ![e] = z]
  BY <1>3, <1>8, <1>9, <1>12 DEF Page
<1>15. \A d \in End : Len(k.q[d]) <= SOCKQLEN
  BY <1>8, <1>9, <1>10, <1>11, <1>14, QueueBound
<1>16. out' \in [Proc -> Letter] /\ \A q \in Proc \ {p} : out'[q] = out[q]
  BY <1>1, <1>2 DEF TypeInv, LocalTypes
<1>17. OthersWait(p) /\ pc'[p] = "user"
  BY <1>1, <1>2, <1>13, <1>16, WakePlaces
<1>18. RInv' /\ OnlyQueue(c, k.q)
  <2>1. k.open = conn[c].open /\ k.live /\ k \in Page
    BY <1>14
  <2>2. pc[p] \in Talking /\ c = hand[p] /\ conn' = [conn EXCEPT ![c] = k]
    BY <1>2, <1>3, <1>13
  <2>3. \A q \in Proc \ {p} : out'[q] = out[q]
    BY <1>16
  <2> QED
    BY <1>15, <1>17, <2>1, <2>2, <2>3, TalkChanges
<1>19. Queues' = [Queues EXCEPT ![c][1 - f] = Tail(@)] /\ Queues[c][1 - f] # <<>>
  BY <1>5, <1>7, <1>8, <1>14, <1>18 DEF OnlyQueue
<1>20. got' = <<"message", Head(Queues[c][1 - f])>>
  BY <1>3, <1>5, <1>6, <1>18 DEF OnlyQueue, Recv, Incoming
<1>21. Channels!Receive(c, f)
  BY <1>18, <1>19, <1>20 DEF OnlyQueue, Channels!Receive, LiveConns, Opens, Queues
<1> QED
  BY <1>18, <1>21 DEF Channels!Next, Channels!End, End

LEMMA EndImplements ==
    ASSUME IInv, RInv, NEW p \in Proc, RecvEnd(p)
    PROVE  RInv' /\ Channels!Next
<1>1. TypeInv /\ PlaceInv /\ OpenInv
  BY DEF IInv
<1>2. pc[p] \in Talking /\ Return(p) /\ UNCHANGED conn /\ got' = <<"end">>
  BY DEF RecvEnd, Talking, sockets
<1>3. PICK c \in Conn : c = hand[p] /\ conn[c].live
  BY <1>1, <1>2, TalkersOwn
<1>4. PICK f \in End : f = MyEnd(p)
  BY <1>1, <1>2, TalkersOwn
<1>5. conn[c].q[1 - f] = <<>> /\ ~conn[c].open[1 - f]
  BY <1>3, <1>4 DEF RecvEnd, Incoming, PeerOpen, Peer
<1>6. Channels!EndOfFile(c, f)
  BY <1>2, <1>3, <1>5 DEF Channels!EndOfFile
<1>7. RInv'
  BY <1>1, <1>2, ReturnQuiet, QuietKeeps
<1> QED
  BY <1>6, <1>7 DEF Channels!Next, Channels!End, End

\* A listening socket closes the ends that are pending there.
LEMMA ListenerImplements ==
    ASSUME IInv, RInv, NEW p \in Proc, CloseListener(p)
    PROVE  RInv' /\ Channels!Next
<1>1. TypeInv /\ PlaceInv /\ OpenInv /\ OwnerInv
  BY DEF IInv
<1>2. UNCHANGED <<hand, out>> /\ pc[p] = "close" /\ got' = <<>>
  BY DEF CloseListener, locals
<1>3. PICK s \in Slot : s = at[p]
  BY <1>1, <1>2 DEF PlaceInv, InPlace
<1>4. PICK b : b = sock[s].backlog
  OBVIOUS
<1>5. PICK pending : pending = {b[i] : i \in DOMAIN b}
  OBVIOUS
<1>6. /\ conn' = [c \in Conn |-> IF c \in pending THEN EndClosed(conn[c], 1) ELSE conn[c]]
      /\ pc' = [q \in Proc |-> IF q = p THEN "unbind"
                               ELSE IF hand[q] \in pending THEN WakeConn(hand[q], pc)[q]
                               ELSE pc[q]]
  BY <1>3, <1>4, <1>5 DEF CloseListener
<1>7. ASSUME NEW q \in Proc
      PROVE  /\ pc'[q] = "push" => pc[q] = "push"
             /\ pc'[q] \in Sending => pc[q] \in Sending
  <2>1. pc \in [Proc -> Places]
    BY <1>1 DEF TypeInv, LocalTypes
  <2>2. CASE q = p
    BY <1>6, <2>2 DEF Sending
  <2>3. CASE q # p /\ hand[q] \in pending
    <3>1. PICK h : h = hand[q]
      OBVIOUS
    <3>2. Woken(pc[q], WakeConn(h, pc)[q])
      BY <2>1, <3>1, WakeConnIs
    <3>3. pc'[q] = WakeConn(h, pc)[q]
      BY <1>6, <2>3, <3>1
    <3> QED
      BY <3>2, <3>3 DEF Woken, Sending
  <2>4. CASE q # p /\ hand[q] \notin pending
    BY <1>6, <2>4
  <2> QED
    BY <2>2, <2>3, <2>4
<1>8. pending \subseteq Conn
  BY <1>1, <1>4, <1>5 DEF TypeInv, Struct
<1>9. ASSUME NEW c \in pending
      PROVE  /\ <<"backlog", s>> \in Owner /\ Owns(<<"backlog", s>>, c, 1)
             /\ conn[c].live /\ conn[c].open[1]
  <2>1. BacklogHas(s, c, 1) /\ c \in Conn
    BY <1>4, <1>5, <1>8 DEF BacklogHas
  <2>2. <<"backlog", s>> \in Owner /\ Owns(<<"backlog", s>>, c, 1)
    BY <2>1, OwnsIs, Sizes DEF Owner
  <2> QED
    BY <1>1, <2>1, <2>2, Sizes DEF OpenInv
<1>10. ASSUME NEW c \in Conn
       PROVE  /\ c \notin pending => conn'[c] = conn[c]
              /\ c \in pending =>
                    /\ conn'[c].open = [conn[c].open EXCEPT ![1] = FALSE]
                    /\ conn[c].open[0] => conn'[c].live /\ conn'[c].q = conn[c].q
                    /\ ~conn[c].open[0] => conn'[c] = Freed
              /\ \A e \in End : Len(conn'[c].q[e]) <= SOCKQLEN
  <2>1. conn[c] \in Page /\ \A e \in End : Len(conn[c].q[e]) <= SOCKQLEN
    BY <1>1 DEF TypeInv, RInv, PageInv
  <2>2. CASE c \in pending
    <3>1. PICK k : k = conn[c]
      OBVIOUS
    <3>2. k \in Page /\ k.live /\ 1 \in End /\ 1 - 1 = 0
      BY <1>9, <2>1, <2>2, <3>1, Sizes
    <3>3. PICK h : h = EndClosed(k, 1)
      OBVIOUS
    <3>4. /\ h.open = [k.open EXCEPT ![1] = FALSE]
          /\ k.open[1 - 1] => h.live /\ h.q = k.q
          /\ ~k.open[1 - 1] => h = Freed
          /\ \A e \in End : Len(k.q[e]) <= SOCKQLEN => Len(h.q[e]) <= SOCKQLEN
      BY <3>2, <3>3, ClosedEnd
    <3>5. conn'[c] = h
      BY <1>6, <2>2, <3>1, <3>3
    <3> QED
      BY <2>1, <2>2, <3>1, <3>2, <3>4, <3>5
  <2>3. CASE c \notin pending
    BY <1>6, <2>1, <2>3
  <2> QED
    BY <2>2, <2>3
<1>11. RInv'
  <2>1. PageInv'
    BY <1>9, <1>10 DEF RInv, PageInv
  <2>2. PushInv'
    <3> SUFFICES ASSUME NEW q \in Proc, pc'[q] = "push" PROVE conn'[hand'[q]].q = Empty
      BY DEF PushInv
    <3>1. pc[q] = "push" /\ hand'[q] = hand[q] /\ hand[q] \in Conn
      BY <1>1, <1>2, <1>7, Sizes, HoldersOwn
    <3>2. hand[q] \notin pending
      <4> SUFFICES ASSUME hand[q] \in pending PROVE FALSE
        OBVIOUS
      <4>1. PICK x \in Owner : x = <<"backlog", s>> /\ Owns(x, hand[q], 1)
        BY <1>9
      <4>2. x = <<"process", q>>
        BY <1>1, <3>1, <4>1, Sizes, PushAlone
      <4> QED
        BY <4>1, <4>2
    <3>3. PICK c \in Conn : c = hand[q]
      BY <3>1
    <3>4. conn'[c] = conn[c] /\ conn[c].q = Empty
      BY <1>6, <3>1, <3>2, <3>3 DEF RInv, PushInv
    <3> QED
      BY <3>1, <3>3, <3>4
  <2>3. SendInv'
    BY <1>2, <1>7 DEF RInv, SendInv
  <2> QED
    BY <2>1, <2>2, <2>3 DEF RInv
<1>12. PICK gone : gone = {c \in pending : ~Opens[c][0]}
  OBVIOUS
<1>13. gone = {c \in pending : ~conn[c].open[0]}
  BY <1>8, <1>12 DEF Opens
<1>14. pending \subseteq LiveConns /\ LiveConns' = LiveConns \ gone
  <2>1. pending \subseteq LiveConns
    BY <1>8, <1>9 DEF LiveConns
  <2>2. ASSUME NEW c \in Conn PROVE conn'[c].live <=> conn[c].live /\ c \notin gone
    <3>1. CASE c \in pending /\ conn[c].open[0]
      BY <1>9, <1>10, <1>13, <3>1
    <3>2. CASE c \in pending /\ ~conn[c].open[0]
      BY <1>10, <1>13, <3>2, FreshPages
    <3>3. CASE c \notin pending
      BY <1>10, <1>13, <3>3
    <3> QED
      BY <3>1, <3>2, <3>3
  <2> QED
    BY <2>1, <2>2 DEF LiveConns
<1>15. Opens' = [c \in Conn |-> IF c \in pending THEN [Opens[c] EXCEPT ![1] = FALSE] ELSE Opens[c]]
  <2>1. ASSUME NEW c \in Conn
        PROVE  conn'[c].open = IF c \in pending THEN [Opens[c] EXCEPT ![1] = FALSE] ELSE Opens[c]
    BY <1>10, <2>1 DEF Opens
  <2> QED
    BY <2>1 DEF Opens
<1>16. Queues' = [c \in Conn |-> IF c \in gone THEN Empty ELSE Queues[c]]
  <2>1. ASSUME NEW c \in Conn
        PROVE  conn'[c].q = IF c \in gone THEN Empty ELSE Queues[c]
    <3>1. CASE c \in pending /\ conn[c].open[0]
      BY <1>10, <1>13, <3>1 DEF Queues
    <3>2. CASE c \in pending /\ ~conn[c].open[0]
      BY <1>10, <1>13, <3>2, FreshPages
    <3>3. CASE c \notin pending
      BY <1>10, <1>13, <3>3 DEF Queues
    <3> QED
      BY <3>1, <3>2, <3>3
  <2> QED
    BY <2>1 DEF Queues
<1>17. Channels!CloseSome(pending)
  BY <1>2, <1>12, <1>14, <1>15, <1>16
     DEF Channels!CloseSome, Channels!End, End, Empty, LiveConns, Opens, Queues
<1> QED
  BY <1>8, <1>11, <1>17 DEF Channels!Next

-----------------------------------------------------------------------------
LEMMA CallsImplement ==
    ASSUME IInv, RInv, NEW p \in Proc, CallStep(p)
    PROVE  RInv' /\ Channels!Next
<1>1. TypeInv
  BY DEF IInv
<1>2. CASE \/ ConnectDone(p) \/ AcceptSleep(p) \/ AcceptKilled(p) \/ Pop(p)
           \/ AcceptDone(p) \/ AcceptNoFile(p) \/ AcceptNoFd(p)
           \/ SendFails(p) \/ RecvSleep(p) \/ RecvKilled(p)
           \/ CloseUnbound(p) \/ Unbind(p)
  BY <1>1, <1>2, QuietSteps, QuietImplements
<1>3. CASE Push(p) \/ SendSleep(p)
  BY <1>1, <1>3, PushQuiet, SleepQuiet, QuietImplements
<1>4. CASE NewConn(p) \/ PushRefused(p) \/ AcceptNoSlot(p)
  BY <1>4, NewConnImplements, RefuseImplements, NoSlotImplements
<1>5. CASE Send(p) \/ Recv(p) \/ RecvEnd(p)
  BY <1>5, SendImplements, RecvImplements, EndImplements
<1>6. CASE CloseConn(p) \/ CloseListener(p)
  BY <1>6, CloseConnImplements, ListenerImplements
<1> QED
  BY <1>2, <1>3, <1>4, <1>5, <1>6 DEF CallStep

LEMMA StepsImplement ==
    IInv /\ RInv /\ [Next]_vars => RInv' /\ [Channels!Next]_(Channels!vars)
<1> SUFFICES ASSUME IInv, RInv, [Next]_vars PROVE RInv' /\ [Channels!Next]_(Channels!vars)
  OBVIOUS
<1>1. TypeInv
  BY DEF IInv
<1>2. ASSUME NEW p \in Proc, SockCreate(p) \/ CloseFile(p) PROVE RInv' /\ Channels!Next
  BY <1>1, <1>2, QuietSteps, QuietImplements
<1>3. ASSUME NEW p \in Proc, SockPair(p) \/ SockPairNoFile(p) PROVE RInv' /\ Channels!Next
  BY <1>3, PairImplements
<1>4. ASSUME NEW p \in Proc, NEW q \in Proc, Inherit(p, q) PROVE RInv' /\ Channels!Next
  <2>1. PICK s \in Slot : TRUE
    BY Sizes DEF Slot
  <2>2. Quiet /\ got' = <<>>
    BY <1>1, <1>4, <2>1, QuietCalls
  <2> QED
    BY <2>2, QuietImplements
<1>5. ASSUME NEW p \in Proc, NEW s \in Slot,
             \/ \E path \in Path : SockBind(p, s, path) \/ Lookup(p, s, path)
             \/ SockListen(p, s) \/ CallAccept(p, s)
             \/ \E m \in Message : CallSend(p, s, m)
             \/ SendBadFd(p, s)
             \/ CallRecv(p, s)
             \/ Close(p, s)
      PROVE  RInv' /\ Channels!Next
  <2>1. Quiet /\ got' = <<>>
    BY <1>1, <1>5, QuietCalls
  <2> QED
    BY <2>1, QuietImplements
<1>6. ASSUME NEW p \in Killable, Kill(p) PROVE RInv' /\ Channels!Next
  <2>1. p \in Proc
    BY Sizes
  <2>2. Quiet /\ got' = <<>>
    BY <1>1, <1>6, <2>1, QuietSteps
  <2> QED
    BY <2>2, QuietImplements
<1>7. CASE UNCHANGED vars
  <2>1. UNCHANGED <<conn, pc, hand, out, got>>
    BY <1>7 DEF vars
  <2>2. RInv'
    BY <2>1 DEF RInv, PageInv, PushInv, SendInv
  <2>3. UNCHANGED Channels!vars
    BY <2>1 DEF Channels!vars
  <2> QED
    BY <2>2, <2>3
<1>8. CASE Next
  BY <1>2, <1>3, <1>4, <1>5, <1>6, <1>8, CallsImplement DEF Next
<1> QED
  BY <1>7, <1>8

LEMMA StartsEmpty == Init => RInv /\ Channels!Init
<1> SUFFICES ASSUME Init PROVE RInv /\ Channels!Init
  OBVIOUS
<1>1. \A c \in Conn : conn[c] = Freed
  BY DEF Init
<1>2. conn = [c \in Conn |-> Freed] /\ got = <<>>
  BY DEF Init
<1>3. RInv
  <2>1. PageInv
    BY <1>1, FreshPages DEF PageInv
  <2>2. PushInv /\ SendInv
    BY DEF Init, PushInv, SendInv, Sending
  <2> QED
    BY <2>1, <2>2 DEF RInv
<1>4. LiveConns = {} /\ Opens = [c \in Conn |-> [e \in End |-> FALSE]] /\ Queues = [c \in Conn |-> Empty]
  BY <1>1, FreshPages DEF LiveConns, Opens, Queues
<1>5. Channels!Init
  BY <1>2, <1>4 DEF Channels!Init, Channels!End, End, Empty, LiveConns, Opens, Queues
<1> QED
  BY <1>3, <1>5

\* Through shared tables, backlogs and calls that let go of one lock before
\* they take the next, connections are message channels (kernel/socket.c
\* 159-407): messages arrive whole, in order and once each, the end is
\* reported only when there is one, and a connection is gone when both of its
\* ends are.
THEOREM SocketsImplementChannels == Spec => RefinesChannels
<1>1. Init => RInv /\ Channels!Init
  BY StartsEmpty
<1>2. IInv /\ RInv /\ [Next]_vars => RInv' /\ [Channels!Next]_(Channels!vars)
  BY StepsImplement
<1>3. Spec => []IInv
  BY Invariance
<1>4. Spec => Channels!Spec
  BY <1>1, <1>2, <1>3, PTL DEF Spec, Channels!Spec
<1> QED
  BY <1>4 DEF RefinesChannels

\* The queues of pending connections stay in bounds as well.
BacklogBound == \A s \in Slot : Len(sock[s].backlog) <= SOCKBACKLOG

\* What a step does to the backlog of a socket.
Moved(b, z) ==
    \/ z = b \/ z = <<>>
    \/ b # <<>> /\ z = Tail(b)
    \/ Len(b) # SOCKBACKLOG /\ \E c \in Conn : z = Append(b, c)

LEMMA BacklogsMove ==
    ASSUME TypeInv, PlaceInv, Next, NEW s \in Slot
    PROVE  Moved(sock[s].backlog, sock'[s].backlog)
<1> DEFINE Same == sock'[s].backlog \in {sock[s].backlog, <<>>}
<1>0. sock \in [Slot -> Struct]
  BY DEF TypeInv
<1>1. ASSUME NEW p \in Proc, SockCreate(p) PROVE Same
  BY <1>0, <1>1 DEF SockCreate, Fresh
<1>2. ASSUME NEW p \in Proc, AcceptDone(p) PROVE Same
  BY <1>0, <1>2 DEF AcceptDone, Connected, Fresh
<1>3. ASSUME NEW p \in Proc, AcceptNoFd(p) PROVE Same
  BY <1>0, <1>3 DEF AcceptNoFd, Connected, Fresh
<1>4. ASSUME NEW p \in Proc, AcceptNoFile(p) PROVE Same
  BY <1>0, <1>4 DEF AcceptNoFile, Connected, Fresh
<1>5. ASSUME NEW p \in Proc, SockPair(p) PROVE Same
  <2>1. PICK c \in Conn, t, v \in Slot :
           sock' = [sock EXCEPT ![t] = Connected(c, 0), ![v] = Connected(c, 1)]
    BY <1>5 DEF SockPair
  <2>2. Connected(c, 0).backlog = <<>> /\ Connected(c, 1).backlog = <<>>
    BY DEF Connected, Fresh
  <2> QED
    BY <1>0, <2>1, <2>2
<1>6. ASSUME NEW p \in Proc, SockPairNoFile(p) PROVE Same
  BY <1>0, <1>6 DEF SockPairNoFile, Connected, Fresh
<1>7. ASSUME NEW p \in Proc, NEW t \in Slot, NEW path \in Path, SockBind(p, t, path) PROVE Same
  BY <1>0, <1>7 DEF SockBind, Struct
<1>8. ASSUME NEW p \in Proc, NEW t \in Slot, SockListen(p, t) PROVE Same
  BY <1>0, <1>8 DEF SockListen, Struct
<1>9. ASSUME NEW p \in Proc, ConnectDone(p) PROVE Same
  BY <1>0, <1>9 DEF ConnectDone, Struct
<1>10. ASSUME NEW p \in Proc, CloseConn(p) PROVE Same
  BY <1>0, <1>10 DEF CloseConn, Struct
<1>11. ASSUME NEW p \in Proc, CloseUnbound(p) PROVE Same
  BY <1>0, <1>11 DEF CloseUnbound, Struct
<1>12. ASSUME NEW p \in Proc, Unbind(p) PROVE Same
  BY <1>0, <1>12 DEF Unbind, Struct
<1>13. ASSUME NEW p \in Proc, CloseListener(p) PROVE Same
  BY <1>0, <1>13 DEF CloseListener, Struct
<1>14. ASSUME NEW p \in Proc, Pop(p) PROVE Moved(sock[s].backlog, sock'[s].backlog)
  <2>1. \/ sock'[s].backlog = sock[s].backlog
        \/ sock[s].backlog # <<>> /\ sock'[s].backlog = Tail(sock[s].backlog)
    BY <1>0, <1>14 DEF Pop, Struct
  <2> QED
    BY <2>1 DEF Moved
<1>15. ASSUME NEW p \in Proc, Push(p) PROVE Moved(sock[s].backlog, sock'[s].backlog)
  <2>1. hand[p] \in Conn
    BY <1>15 DEF Push, PlaceInv, InPlace, Handing
  <2>2. \/ sock'[s].backlog = sock[s].backlog
        \/ /\ Len(sock[s].backlog) # SOCKBACKLOG
           /\ \E c \in Conn : sock'[s].backlog = Append(sock[s].backlog, c)
    BY <1>0, <1>15, <2>1 DEF Push, BacklogFull, Struct
  <2> QED
    BY <2>2 DEF Moved
<1>16. ASSUME NEW p \in Proc,
             \/ NewConn(p) \/ PushRefused(p) \/ AcceptSleep(p) \/ AcceptKilled(p)
             \/ AcceptNoSlot(p) \/ SendSleep(p) \/ SendFails(p) \/ Send(p)
             \/ RecvSleep(p) \/ RecvKilled(p) \/ RecvEnd(p) \/ Recv(p)
      PROVE  Same
  <2>1. UNCHANGED sock
    BY <1>16 DEF NewConn, PushRefused, AcceptSleep, AcceptKilled, AcceptNoSlot, SendSleep,
                SendFails, Send, RecvSleep, RecvKilled, RecvEnd, Recv, sockets
  <2> QED
    BY <2>1
<1>17. ASSUME NEW p \in Proc,
             \/ CloseFile(p) \/ Kill(p) \/ \E q \in Proc : Inherit(p, q)
             \/ \E t \in Slot :
                   \/ \E path \in Path : Lookup(p, t, path)
                   \/ CallAccept(p, t) \/ SendBadFd(p, t) \/ CallRecv(p, t) \/ Close(p, t)
                   \/ \E m \in Message : CallSend(p, t, m)
      PROVE  Same
  <2>1. UNCHANGED sock
    BY <1>17 DEF CloseFile, Kill, Inherit, Lookup, CallAccept, SendBadFd, CallRecv, Close,
                CallSend, sockets
  <2> QED
    BY <2>1
<1>18. Same => Moved(sock[s].backlog, sock'[s].backlog)
  BY DEF Moved
<1> HIDE DEF Same
<1>19. ASSUME NEW p \in Proc, CallStep(p) PROVE Moved(sock[s].backlog, sock'[s].backlog)
  BY <1>2, <1>3, <1>4, <1>9, <1>10, <1>11, <1>12, <1>13, <1>14, <1>15, <1>16, <1>18, <1>19 DEF CallStep
<1>20. Killable \subseteq Proc
  BY Sizes
<1> QED
  BY <1>1, <1>5, <1>6, <1>7, <1>8, <1>17, <1>18, <1>19, <1>20 DEF Next

LEMMA BacklogsBounded == TypeInv /\ PlaceInv /\ BacklogBound /\ [Next]_vars => BacklogBound'
<1> SUFFICES ASSUME TypeInv, PlaceInv, BacklogBound, [Next]_vars, NEW s \in Slot
             PROVE  Len(sock'[s].backlog) <= SOCKBACKLOG
  BY DEF BacklogBound
<1>1. PICK b \in Seq(Conn) : b = sock[s].backlog
  BY DEF TypeInv, Struct
<1>2. PICK z : z = sock'[s].backlog
  OBVIOUS
<1>3. Moved(b, z)
  <2>1. CASE Next
    BY <1>1, <1>2, <2>1, BacklogsMove
  <2>2. CASE UNCHANGED vars
    BY <1>1, <1>2, <2>2 DEF vars, Moved
  <2> QED
    BY <2>1, <2>2
<1>4. Len(b) <= SOCKBACKLOG /\ Len(b) \in Nat /\ SOCKBACKLOG \in Nat
  BY <1>1, Sizes DEF BacklogBound
<1>5. ASSUME z = b PROVE Len(z) <= SOCKBACKLOG
  BY <1>4, <1>5
<1>6. ASSUME z = <<>> PROVE Len(z) <= SOCKBACKLOG
  BY <1>4, <1>6
<1>7. ASSUME b # <<>> /\ z = Tail(b) PROVE Len(z) <= SOCKBACKLOG
  <2>1. Len(z) = Len(b) - 1
    BY <1>7, HeadTailProperties
  <2> QED
    BY <1>4, <2>1
<1>8. ASSUME Len(b) # SOCKBACKLOG /\ \E c \in Conn : z = Append(b, c) PROVE Len(z) <= SOCKBACKLOG
  <2>1. Len(z) = Len(b) + 1
    BY <1>8, AppendProperties
  <2> QED
    BY <1>4, <1>8, <2>1
<1>9. Len(z) <= SOCKBACKLOG
  BY <1>3, <1>5, <1>6, <1>7, <1>8 DEF Moved
<1> QED
  BY <1>2, <1>9

\* No ring overflows: neither that of pending connections nor the two of
\* messages (socket.c, sockconnect() and socksend()).
THEOREM RingsBounded == Spec => []RingBound
<1>1. Init => BacklogBound
  BY Sizes DEF Init, BacklogBound, Fresh
<1>2. IInv => TypeInv /\ PlaceInv
  BY DEF IInv
<1>3. BacklogBound /\ RInv => RingBound
  BY DEF BacklogBound, RInv, PageInv, RingBound
<1> QED
  BY <1>1, <1>2, <1>3, BacklogsBounded, StartsEmpty, StepsImplement, Invariance, PTL DEF Spec

-----------------------------------------------------------------------------
(* References to the file that is passed around *)

Weights(k) == [i \in DOMAIN k |-> k[i].nfds]

LEMMA LetterCarries == NoMessage.nfds = 0 /\ \A m \in Letter : m.nfds \in Nat
  BY SocketAssumption DEF Letter, Message, NoMessage

LEMMA CarriedIs ==
    ASSUME NEW k \in Seq(Letter)
    PROVE  /\ Carried(k) = SumFunctionOnSet(Weights(k), 1..Len(k))
           /\ Counts(Weights(k), 1..Len(k))
           /\ Carried(k) \in Nat /\ Len(k) \in Nat
           /\ \A i \in 1..Len(k) : Weights(k)[i] = k[i].nfds /\ k[i] \in Letter
<1>1. Len(k) \in Nat /\ DOMAIN k = 1..Len(k) /\ \A i \in 1..Len(k) : k[i] \in Letter
  BY LenProperties, ElementOfSeq
<1>2. \A i \in 1..Len(k) : Weights(k)[i] = k[i].nfds
  BY <1>1 DEF Weights
<1>3. Carried(k) = SumFunctionOnSet(Weights(k), 1..Len(k))
  BY <1>1 DEF Carried, SumFunction, Weights
<1>4. IsFiniteSet(1..Len(k))
  BY <1>1, FS_Interval
<1>5. Counts(Weights(k), 1..Len(k))
  BY <1>1, <1>2, <1>4, LetterCarries DEF Counts
<1>6. SumFunctionOnSet(Weights(k), 1..Len(k)) \in Nat
  BY <1>5, SumType
<1> QED
  BY <1>1, <1>2, <1>3, <1>5, <1>6

LEMMA CarriedAppend ==
    ASSUME NEW k \in Seq(Letter), NEW m \in Letter
    PROVE  Carried(Append(k, m)) = Carried(k) + m.nfds
<1>1. PICK z \in Seq(Letter) : z = Append(k, m)
  BY AppendProperties
<1>2. PICK n \in Nat : n = Len(k)
  BY CarriedIs
<1>3. Len(z) = n + 1 /\ z[n + 1] = m /\ \A i \in 1..n : z[i] = k[i]
  BY <1>1, <1>2, AppendProperties
<1>4. /\ Carried(z) = SumFunctionOnSet(Weights(z), 1..n + 1) /\ Counts(Weights(z), 1..n + 1)
      /\ \A i \in 1..n + 1 : Weights(z)[i] = z[i].nfds
  BY <1>3, CarriedIs
<1>5. /\ Carried(k) = SumFunctionOnSet(Weights(k), 1..n) /\ Counts(Weights(k), 1..n)
      /\ \A i \in 1..n : Weights(k)[i] = k[i].nfds
  BY <1>2, CarriedIs
<1>6. n + 1 \in 1..n + 1 /\ (1..n + 1) \ {n + 1} = 1..n
  OBVIOUS
<1>7. Carried(z) = Weights(z)[n + 1] + SumFunctionOnSet(Weights(z), 1..n)
  <2>1. Carried(z) = Weights(z)[n + 1] + SumFunctionOnSet(Weights(z), (1..n + 1) \ {n + 1})
    BY <1>4, <1>6, SumSplit
  <2> QED
    BY <1>6, <2>1
<1>8. SumFunctionOnSet(Weights(z), 1..n) = Carried(k)
  <2>1. \A i \in 1..n : Weights(z)[i] = Weights(k)[i]
    BY <1>3, <1>4, <1>5
  <2>2. SumFunctionOnSet(Weights(z), 1..n) = SumFunctionOnSet(Weights(k), 1..n)
    BY <1>5, <2>1, SumSame
  <2> QED
    BY <1>5, <2>2
<1>9. Weights(z)[n + 1] = m.nfds /\ m.nfds \in Nat /\ Carried(k) \in Nat
  BY <1>3, <1>4, <1>6, LetterCarries, CarriedIs
<1> QED
  BY <1>1, <1>7, <1>8, <1>9

LEMMA CarriedTail ==
    ASSUME NEW k \in Seq(Letter), k # <<>>
    PROVE  /\ Carried(k) = Head(k).nfds + Carried(Tail(k))
           /\ Head(k) \in Letter /\ Tail(k) \in Seq(Letter)
<1>1. /\ Tail(k) \in Seq(Letter) /\ Head(k) \in Letter /\ Len(k) \in Nat \ {0} /\ Head(k) = k[1]
      /\ Len(Tail(k)) = Len(k) - 1 /\ \A i \in 1..Len(k) - 1 : Tail(k)[i] = k[i + 1]
  BY HeadTailProperties
<1>2. PICK z \in Seq(Letter), n \in Nat : z = Tail(k) /\ Len(k) = n + 1
  <2>1. Len(k) - 1 \in Nat /\ Len(k) = (Len(k) - 1) + 1
    BY <1>1
  <2> QED
    BY <1>1, <2>1
<1>3. Len(z) = n /\ \A i \in 1..n : z[i] = k[i + 1]
  BY <1>1, <1>2
<1>4. /\ Carried(k) = SumFunctionOnSet(Weights(k), 1..n + 1)
      /\ \A i \in 1..n + 1 : Weights(k)[i] \in Nat /\ Weights(k)[i] = k[i].nfds
  BY <1>2, CarriedIs DEF Counts
<1>5. /\ Carried(z) = SumFunctionOnSet(Weights(z), 1..n)
      /\ \A i \in 1..n : Weights(z)[i] = z[i].nfds
  BY <1>3, CarriedIs
<1>6. \A i \in 1..n : Weights(z)[i] = Weights(k)[i + 1]
  BY <1>3, <1>4, <1>5
<1>7. SumFunctionOnSet(Weights(k), 1..n + 1) = Weights(k)[1] + SumFunctionOnSet(Weights(z), 1..n)
  BY <1>4, <1>6, SumShift
<1>8. Weights(k)[1] = Head(k).nfds
  BY <1>1, <1>4
<1> QED
  BY <1>1, <1>2, <1>4, <1>5, <1>7, <1>8

LEMMA CarriedNothing == Carried(<<>>) = 0
<1>1. <<>> \in Seq(Letter) /\ Len(<<>>) = 0 /\ 1..0 = {}
  OBVIOUS
<1>2. PICK k \in Seq(Letter) : k = <<>>
  BY <1>1
<1>3. Carried(k) = SumFunctionOnSet(Weights(k), 1..Len(k))
  BY CarriedIs
<1>4. PICK S : S = 1..Len(k)
  OBVIOUS
<1>5. S = {}
  BY <1>1, <1>2, <1>4
<1>6. SumFunctionOnSet(Weights(k), S) = 0
  BY <1>5, SumEmpty
<1> QED
  BY <1>2, <1>3, <1>4, <1>6

Loads(k) == [e \in End |-> Carried(k.q[e])]

LEMMA QueuedIs ==
    ASSUME NEW k \in Page
    PROVE  /\ Queued(k) = SumFunctionOnSet(Loads(k), End) /\ Counts(Loads(k), End)
           /\ Queued(k) \in Nat
           /\ \A e \in End : Loads(k)[e] = Carried(k.q[e])
<1>1. Queued(k) = SumFunctionOnSet(Loads(k), End)
  BY DEF Queued, SumFunction, Loads
<1>2. IsFiniteSet(End)
  <2>1. IsFiniteSet({0})
    BY FS_Singleton
  <2>2. IsFiniteSet({0} \cup {1})
    BY <2>1, FS_AddElement
  <2>3. {0} \cup {1} = End
    BY DEF End
  <2> QED
    BY <2>2, <2>3
<1>3. \A e \in End : Loads(k)[e] = Carried(k.q[e])
  BY DEF Loads
<1>4. \A e \in End : k.q[e] \in Seq(Letter)
  BY DEF Page
<1>5. Counts(Loads(k), End)
  BY <1>2, <1>3, <1>4, CarriedIs DEF Counts
<1>6. SumFunctionOnSet(Loads(k), End) \in Nat
  BY <1>5, SumType
<1> QED
  BY <1>1, <1>3, <1>5, <1>6

LEMMA QueuedChange ==
    ASSUME NEW k \in Page, NEW h \in Page, NEW e \in End, NEW z \in Seq(Letter),
           h.q = [k.q EXCEPT ![e] = z]
    PROVE  /\ Queued(h) = Queued(k) - Carried(k.q[e]) + Carried(z)
           /\ Carried(k.q[e]) <= Queued(k) /\ Carried(k.q[e]) \in Nat /\ Carried(z) \in Nat
<1>1. h.q[e] = z /\ \A d \in End \ {e} : h.q[d] = k.q[d]
  BY DEF Page
<1>2. /\ Queued(k) = SumFunctionOnSet(Loads(k), End) /\ Counts(Loads(k), End)
      /\ \A d \in End : Loads(k)[d] = Carried(k.q[d])
  BY QueuedIs
<1>3. /\ Queued(h) = SumFunctionOnSet(Loads(h), End)
      /\ \A d \in End : Loads(h)[d] = Carried(h.q[d])
  BY QueuedIs
<1>4. Loads(h)[e] \in Nat /\ Loads(h)[e] = Carried(z)
  BY <1>1, <1>3, CarriedIs
<1>5. \A d \in End \ {e} : Loads(h)[d] = Loads(k)[d]
  BY <1>1, <1>2, <1>3
<1>6. Changes(Loads(k), Loads(h), End, e)
  BY <1>2, <1>4, <1>5 DEF Changes
<1>7. /\ SumFunctionOnSet(Loads(h), End) = SumFunctionOnSet(Loads(k), End) - Loads(k)[e] + Loads(h)[e]
      /\ Loads(k)[e] \in Nat /\ Loads(k)[e] <= SumFunctionOnSet(Loads(k), End)
  BY <1>6, SumChange
<1> QED
  BY <1>2, <1>3, <1>4, <1>7

LEMMA QueuedNothing ==
    ASSUME NEW k \in Page, k.q = Empty
    PROVE  Queued(k) = 0
<1>1. \A e \in End : Loads(k)[e] = 0
  BY QueuedIs, CarriedNothing DEF Empty
<1>2. IsFiniteSet(End) /\ Queued(k) = SumFunctionOnSet(Loads(k), End)
  BY QueuedIs DEF Counts
<1> QED
  BY <1>1, <1>2, SumZero

LEMMA QueuedSame ==
    ASSUME NEW k, NEW h, k.q = h.q
    PROVE  Queued(k) = Queued(h)
  BY DEF Queued

\* What connections carry and what is to be sent; the three sums, when one of
\* the terms changes.
ConnSum(f) == SumFunction([d \in Conn |-> Queued(f[d])])
OutSum(f)  == SumFunction([q \in Proc |-> f[q].nfds])

LEMMA FilesChange ==
    ASSUME NEW f \in [Proc -> Nat], NEW p \in Proc, NEW n \in Nat,
           NEW g, g = [f EXCEPT ![p] = n]
    PROVE  /\ SumFunction(g) = SumFunction(f) - f[p] + n
           /\ SumFunction(f) \in Nat /\ f[p] \in Nat /\ f[p] <= SumFunction(f)
<1>1. DOMAIN f = Proc /\ DOMAIN g = Proc /\ g[p] = n /\ \A q \in Proc \ {p} : g[q] = f[q]
  OBVIOUS
<1>2. SumFunction(f) = SumFunctionOnSet(f, Proc) /\ SumFunction(g) = SumFunctionOnSet(g, Proc)
  BY <1>1 DEF SumFunction
<1>3. Changes(f, g, Proc, p)
  BY <1>1, SocketAssumption DEF Counts, Changes
<1>4. /\ SumFunctionOnSet(g, Proc) = SumFunctionOnSet(f, Proc) - f[p] + g[p]
      /\ SumFunctionOnSet(f, Proc) \in Nat /\ f[p] \in Nat /\ f[p] <= SumFunctionOnSet(f, Proc)
  BY <1>3, SumChange
<1> QED
  BY <1>1, <1>2, <1>4

LEMMA ConnsChange ==
    ASSUME NEW f \in [Conn -> Page], NEW c \in Conn, NEW k \in Page,
           NEW g, g = [f EXCEPT ![c] = k]
    PROVE  /\ ConnSum(g) = ConnSum(f) - Queued(f[c]) + Queued(k)
           /\ ConnSum(f) \in Nat
           /\ Queued(f[c]) \in Nat /\ Queued(k) \in Nat
           /\ Queued(f[c]) <= ConnSum(f)
<1>1. PICK F : F = [d \in Conn |-> Queued(f[d])]
  OBVIOUS
<1>2. PICK G : G = [d \in Conn |-> Queued(g[d])]
  OBVIOUS
<1>3. SumFunction(F) = SumFunctionOnSet(F, Conn) /\ SumFunction(G) = SumFunctionOnSet(G, Conn)
  BY <1>1, <1>2 DEF SumFunction
<1>4. F[c] = Queued(f[c]) /\ G[c] = Queued(k) /\ \A d \in Conn \ {c} : G[d] = F[d]
  BY <1>1, <1>2
<1>5. Counts(F, Conn)
  <2>1. \A d \in Conn : F[d] = Queued(f[d]) /\ f[d] \in Page
    BY <1>1
  <2> QED
    BY <2>1, SocketAssumption, QueuedIs DEF Counts
<1>6. G[c] \in Nat /\ Changes(F, G, Conn, c)
  BY <1>4, <1>5, QueuedIs DEF Changes
<1>7. /\ SumFunctionOnSet(G, Conn) = SumFunctionOnSet(F, Conn) - F[c] + G[c]
      /\ SumFunctionOnSet(F, Conn) \in Nat /\ F[c] \in Nat /\ F[c] <= SumFunctionOnSet(F, Conn)
  BY <1>6, SumChange
<1> QED
  BY <1>1, <1>2, <1>3, <1>4, <1>6, <1>7 DEF ConnSum

LEMMA OutsChange ==
    ASSUME NEW f \in [Proc -> Letter], NEW p \in Proc, NEW m \in Letter,
           NEW g, g = [f EXCEPT ![p] = m]
    PROVE  /\ OutSum(g) = OutSum(f) - f[p].nfds + m.nfds
           /\ OutSum(f) \in Nat
           /\ f[p].nfds \in Nat /\ m.nfds \in Nat
           /\ f[p].nfds <= OutSum(f)
<1>1. PICK F : F = [q \in Proc |-> f[q].nfds]
  OBVIOUS
<1>2. PICK G : G = [q \in Proc |-> g[q].nfds]
  OBVIOUS
<1>3. F \in [Proc -> Nat] /\ m.nfds \in Nat
  BY <1>1, LetterCarries
<1>4. G = [F EXCEPT ![p] = m.nfds]
  BY <1>1, <1>2
<1>5. /\ SumFunction(G) = SumFunction(F) - F[p] + m.nfds
      /\ SumFunction(F) \in Nat /\ F[p] \in Nat /\ F[p] <= SumFunction(F)
  BY <1>3, <1>4, FilesChange
<1> QED
  BY <1>1, <1>2, <1>3, <1>5 DEF OutSum

-----------------------------------------------------------------------------
\* Only who is sending has a message to send.
OutInv == \A p \in Proc : pc[p] \notin Sending => out[p].nfds = 0
Counted ==
    /\ files \in [Proc -> Nat] /\ lost \in Nat /\ OutInv
    /\ RefsAccounted /\ ref <= MaxRefs

\* What a step of p has to say: whose descriptors, message and queue change,
\* and that the count of references changes as they do.
Balanced(p, n, m, d) ==
    /\ files' = [files EXCEPT ![p] = n] /\ n \in Nat
    /\ out' = [out EXCEPT ![p] = m] /\ m \in Letter
    /\ pc'[p] \notin Sending => m.nfds = 0
    /\ \A q \in Proc \ {p} : pc'[q] \in Sending <=> pc[q] \in Sending
    /\ lost' \in Nat
    /\ ref' = ref + (n - files[p]) + (m.nfds - out[p].nfds) + d + (lost' - lost)
    /\ ref' <= MaxRefs

LEMMA SumsTyped ==
    ASSUME TypeInv, files \in [Proc -> Nat]
    PROVE  SumFunction(files) \in Nat /\ ConnSum(conn) \in Nat /\ OutSum(out) \in Nat
<1>1. ASSUME NEW S, IsFiniteSet(S), NEW G, DOMAIN G = S, \A x \in S : G[x] \in Nat
      PROVE  SumFunction(G) \in Nat
  <2>1. Counts(G, S)
    BY <1>1 DEF Counts
  <2> QED
    BY <1>1, <2>1, SumType DEF SumFunction
<1>2. SumFunction(files) \in Nat
  BY <1>1, SocketAssumption
<1>3. ConnSum(conn) \in Nat
  <2>1. PICK G : G = [d \in Conn |-> Queued(conn[d])]
    OBVIOUS
  <2>2. DOMAIN G = Conn /\ \A d \in Conn : G[d] \in Nat
    BY <2>1, QueuedIs DEF TypeInv
  <2>3. SumFunction(G) \in Nat
    BY <1>1, <2>2, SocketAssumption
  <2> QED
    BY <2>1, <2>3 DEF ConnSum
<1>4. OutSum(out) \in Nat
  <2>1. PICK G : G = [q \in Proc |-> out[q].nfds]
    OBVIOUS
  <2>2. DOMAIN G = Proc /\ \A q \in Proc : G[q] \in Nat
    BY <2>1, LetterCarries DEF TypeInv, LocalTypes
  <2>3. SumFunction(G) \in Nat
    BY <1>1, <2>2, SocketAssumption
  <2> QED
    BY <2>1, <2>3 DEF OutSum
<1> QED
  BY <1>2, <1>3, <1>4

LEMMA CountedIs ==
    ASSUME TypeInv, Counted, NEW p \in Proc
    PROVE  /\ ref \in Nat /\ lost <= ref
           /\ files[p] \in Nat /\ files[p] <= ref
           /\ out[p] \in Letter /\ out[p].nfds \in Nat /\ out[p].nfds <= ref
           /\ ref - files[p] - out[p].nfds \in Nat
           /\ pc[p] \notin Sending => out[p].nfds = 0
           /\ ConnSum(conn) \in Nat
           /\ ConnSum(conn) <= ref
           /\ ConnSum(conn) + files[p] + lost <= ref
<1>1. files \in [Proc -> Nat] /\ lost \in Nat /\ out \in [Proc -> Letter]
  BY DEF Counted, TypeInv, LocalTypes
<1>2. PICK F, Q, O : /\ F = SumFunction(files)
                     /\ Q = ConnSum(conn)
                     /\ O = OutSum(out)
  OBVIOUS
<1>3. F \in Nat /\ files[p] \in Nat /\ files[p] <= F
  <2>1. files[p] \in Nat
    BY <1>1
  <2>2. PICK g : g = [files EXCEPT ![p] = files[p]]
    OBVIOUS
  <2> QED
    BY <1>1, <1>2, <2>1, <2>2, FilesChange
<1>4. O \in Nat /\ out[p].nfds \in Nat /\ out[p].nfds <= O /\ out[p] \in Letter
  <2>1. out[p] \in Letter
    BY <1>1
  <2>2. PICK g : g = [out EXCEPT ![p] = out[p]]
    OBVIOUS
  <2> QED
    BY <1>1, <1>2, <2>1, <2>2, OutsChange
<1>5. Q \in Nat
  BY <1>1, <1>2, SumsTyped
<1>6. ref = lost + F + Q + O
  BY <1>2 DEF Counted, RefsAccounted, ConnSum, OutSum
<1>7. pc[p] \notin Sending => out[p].nfds = 0
  BY DEF Counted, OutInv
<1> QED
  BY <1>1, <1>2, <1>3, <1>4, <1>5, <1>6, <1>7

\* The books after a step: with d, the change of what is queued.
LEMMA Books ==
    ASSUME TypeInv, Counted, NEW p \in Proc, NEW n, NEW m, NEW d \in Int, Balanced(p, n, m, d),
           ConnSum(conn') = ConnSum(conn) + d
    PROVE  Counted'
<1>1. files \in [Proc -> Nat] /\ lost \in Nat /\ out \in [Proc -> Letter]
  BY DEF Counted, TypeInv, LocalTypes
<1>2. /\ files' = [files EXCEPT ![p] = n] /\ n \in Nat
      /\ out' = [out EXCEPT ![p] = m] /\ m \in Letter
      /\ lost' \in Nat
      /\ ref' = ref + (n - files[p]) + (m.nfds - out[p].nfds) + d + (lost' - lost)
      /\ ref' <= MaxRefs
  BY DEF Balanced
<1>3. /\ SumFunction(files') = SumFunction(files) - files[p] + n
      /\ SumFunction(files) \in Nat /\ files[p] \in Nat
  BY <1>1, <1>2, FilesChange
<1>4. /\ OutSum(out') = OutSum(out) - out[p].nfds + m.nfds
      /\ OutSum(out) \in Nat
      /\ out[p].nfds \in Nat /\ m.nfds \in Nat
  BY <1>1, <1>2, OutsChange
<1>5. ConnSum(conn) \in Nat
  BY CountedIs
<1>6. ref = lost + SumFunction(files) + ConnSum(conn) + OutSum(out)
  BY DEF Counted, RefsAccounted, ConnSum, OutSum
<1>7. RefsAccounted'
  <2>1. ref' = lost' + SumFunction(files') + ConnSum(conn') + OutSum(out')
    <3>1. PICK F, Q, O, F1, Q1, O1 :
             /\ F = SumFunction(files) /\ F1 = SumFunction(files')
             /\ Q = ConnSum(conn)
             /\ Q1 = ConnSum(conn')
             /\ O = OutSum(out)
             /\ O1 = OutSum(out')
      OBVIOUS
    <3>2. /\ F1 = F - files[p] + n /\ F \in Nat /\ files[p] \in Nat
          /\ O1 = O - out[p].nfds + m.nfds /\ O \in Nat /\ out[p].nfds \in Nat /\ m.nfds \in Nat
          /\ Q1 = Q + d /\ Q \in Nat
          /\ ref = lost + F + Q + O
      BY <1>3, <1>4, <1>5, <1>6, <3>1
    <3>3. ref' = lost' + F1 + Q1 + O1
      BY <1>1, <1>2, <3>2
    <3> QED
      BY <3>1, <3>3
  <2> QED
    BY <2>1 DEF RefsAccounted, ConnSum, OutSum
<1>8. OutInv'
  <2>1. out'[p] = m /\ \A q \in Proc \ {p} : out'[q] = out[q]
    BY <1>1, <1>2
  <2>2. ASSUME NEW q \in Proc, pc'[q] \notin Sending PROVE out'[q].nfds = 0
    <3>1. CASE q = p
      BY <2>1, <2>2, <3>1 DEF Balanced
    <3>2. CASE q # p
      BY <2>1, <2>2, <3>2 DEF Balanced, Counted, OutInv
    <3> QED
      BY <3>1, <3>2
  <2> QED
    BY <2>2 DEF OutInv
<1>9. files' \in [Proc -> Nat] /\ lost' \in Nat
  BY <1>1, <1>2
<1> QED
  BY <1>2, <1>7, <1>8, <1>9 DEF Counted

LEMMA BooksQuiet ==
    ASSUME TypeInv, Counted, NEW p \in Proc, NEW n, NEW m, Balanced(p, n, m, 0), UNCHANGED conn
    PROVE  Counted'
<1>1. PICK Q : Q = ConnSum(conn)
  OBVIOUS
<1>2. Q \in Nat
  BY <1>1, CountedIs
<1>3. ConnSum(conn') = Q + 0
  BY <1>1, <1>2
<1> QED
  BY <1>1, <1>3, Books

LEMMA BooksConn ==
    ASSUME TypeInv, Counted, NEW p \in Proc, NEW n, NEW m, NEW c \in Conn, NEW k \in Page,
           conn' = [conn EXCEPT ![c] = k], NEW d, d = Queued(k) - Queued(conn[c]),
           Balanced(p, n, m, d)
    PROVE  Counted'
<1>1. conn \in [Conn -> Page]
  BY DEF TypeInv
<1>2. /\ ConnSum(conn') = ConnSum(conn) - Queued(conn[c]) + Queued(k)
      /\ ConnSum(conn) \in Nat
      /\ Queued(conn[c]) \in Nat /\ Queued(k) \in Nat
  BY <1>1, ConnsChange
<1>3. d \in Int
  BY <1>2
<1>4. ConnSum(conn') = ConnSum(conn) + d
  BY <1>2
<1> QED
  BY <1>3, <1>4, Books

\* Steps that move no reference.
LEMMA SendersStay ==
    ASSUME NEW p \in Proc, OthersWait(p)
    PROVE  \A q \in Proc \ {p} : pc'[q] \in Sending <=> pc[q] \in Sending
  BY DEF OthersWait, Woken, Sending

LEMMA StillCounts ==
    ASSUME Counted, UNCHANGED <<conn, files, ref, lost, out>>,
           \A q \in Proc : pc'[q] \in Sending <=> pc[q] \in Sending
    PROVE  Counted'
  BY DEF Counted, RefsAccounted, OutInv

LEMMA ReturnCounts ==
    ASSUME TypeInv, Counted, NEW p \in Proc, Return(p), pc[p] \notin Sending,
           UNCHANGED <<conn, files, ref, lost>>
    PROVE  Counted'
<1>1. /\ files \in [Proc -> Nat] /\ lost \in Nat /\ out \in [Proc -> Letter]
      /\ pc \in [Proc -> Places] /\ ref \in Nat /\ ref <= MaxRefs
  BY CountedIs DEF Counted, TypeInv, LocalTypes
<1>2. files[p] \in Nat /\ out[p].nfds = 0 /\ NoMessage.nfds = 0 /\ NoMessage \in Letter
  BY CountedIs, LetterCarries DEF Letter
<1>3. Balanced(p, files[p], NoMessage, 0)
  <2>1. files' = [files EXCEPT ![p] = files[p]]
    BY <1>1
  <2>2. out' = [out EXCEPT ![p] = NoMessage] /\ pc' = [pc EXCEPT ![p] = "user"]
    BY DEF Return
  <2>3. \A q \in Proc \ {p} : pc'[q] \in Sending <=> pc[q] \in Sending
    BY <1>1, <2>2
  <2>4. ref' = ref + (files[p] - files[p]) + (NoMessage.nfds - out[p].nfds) + 0 + (lost' - lost)
    BY <1>1, <1>2
  <2> QED
    BY <1>1, <1>2, <2>1, <2>2, <2>3, <2>4 DEF Balanced
<1> QED
  BY <1>3, BooksQuiet

LEMMA ReturnsCount ==
    ASSUME TypeInv, Counted, NEW p \in Proc,
           \/ ConnectDone(p) \/ AcceptKilled(p) \/ AcceptDone(p) \/ AcceptNoFile(p)
           \/ RecvKilled(p) \/ RecvEnd(p) \/ CloseUnbound(p) \/ Unbind(p)
    PROVE  Counted'
<1>1. Return(p) /\ UNCHANGED <<conn, files, ref, lost>>
  BY DEF ConnectDone, AcceptKilled, AcceptDone, AcceptNoFile, RecvKilled, RecvEnd,
         CloseUnbound, Unbind, sockets, tables
<1>2. pc[p] \notin Sending
  BY DEF ConnectDone, AcceptKilled, AcceptDone, AcceptNoFile, RecvKilled, RecvEnd,
         CloseUnbound, Unbind, Sending
<1> QED
  BY <1>1, <1>2, ReturnCounts

LEMMA StepsCount ==
    ASSUME TypeInv, Counted, NEW p \in Proc,
           \/ AcceptSleep(p) \/ Pop(p) \/ AcceptNoFd(p) \/ RecvSleep(p)
           \/ SockCreate(p) \/ Kill(p)
    PROVE  Counted'
<1>0. pc \in [Proc -> Places]
  BY DEF TypeInv, LocalTypes
<1>1. UNCHANGED <<conn, files, ref, lost, out>>
  BY DEF AcceptSleep, Pop, AcceptNoFd, RecvSleep, SockCreate, Kill, sockets, tables, locals
<1>2. \A q \in Proc : pc'[q] \in Sending <=> pc[q] \in Sending
  BY <1>0 DEF AcceptSleep, Pop, AcceptNoFd, RecvSleep, SockCreate, Kill, Sending
<1> QED
  BY <1>1, <1>2, StillCounts

LEMMA CallsCount ==
    ASSUME TypeInv, Counted, NEW p \in Proc, NEW s \in Slot,
           \/ \E path \in Path : SockBind(p, s, path) \/ Lookup(p, s, path)
           \/ SockListen(p, s) \/ CallAccept(p, s) \/ CallRecv(p, s) \/ Close(p, s)
    PROVE  Counted'
<1>0. pc \in [Proc -> Places]
  BY DEF TypeInv, LocalTypes
<1>1. UNCHANGED <<conn, files, ref, lost, out>>
  BY DEF SockBind, Lookup, SockListen, CallAccept, CallRecv, Close, sockets, tables, locals
<1>2. \A q \in Proc : pc'[q] \in Sending <=> pc[q] \in Sending
  BY <1>0 DEF SockBind, Lookup, SockListen, CallAccept, CallRecv, Close, Calling, Sending
<1> QED
  BY <1>1, <1>2, StillCounts

LEMMA SendSleepCounts ==
    ASSUME TypeInv, Counted, NEW p \in Proc, SendSleep(p)
    PROVE  Counted'
<1>0. pc \in [Proc -> Places]
  BY DEF TypeInv, LocalTypes
<1>1. PICK places : places = WakeConn(hand[p], pc)
  OBVIOUS
<1>2. places \in [Proc -> Places] /\ \A q \in Proc : Woken(pc[q], places[q])
  BY <1>0, <1>1, WakeConnIs
<1>3. /\ pc' = [places EXCEPT ![p] = "send_sleep"] /\ pc[p] = "send"
      /\ UNCHANGED <<conn, files, ref, lost, out>>
  BY <1>1 DEF SendSleep, sockets, tables, locals
<1>4. \A q \in Proc : pc'[q] \in Sending <=> pc[q] \in Sending
  BY <1>2, <1>3 DEF Woken, Sending
<1> QED
  BY <1>3, <1>4, StillCounts

LEMMA PushCounts ==
    ASSUME TypeInv, Counted, NEW p \in Proc, Push(p)
    PROVE  Counted'
<1>1. PICK places : places = [pc EXCEPT ![p] = "pushed"]
  OBVIOUS
<1>2. /\ places \in [Proc -> Places] /\ places[p] = "pushed"
      /\ \A q \in Proc \ {p} : places[q] = pc[q]
  BY <1>1 DEF TypeInv, LocalTypes, Places
<1>3. PICK ls : ls = target[p]
  OBVIOUS
<1>4. \A q \in Proc : Woken(places[q], WakeListen(ls, places)[q])
  BY <1>2, WakeListenIs
<1>5. pc' = WakeListen(ls, places) /\ pc[p] = "push" /\ UNCHANGED <<conn, files, ref, lost, out>>
  BY <1>1, <1>3 DEF Push, tables, locals
<1>6. \A q \in Proc : pc'[q] \in Sending <=> pc[q] \in Sending
  BY <1>2, <1>4, <1>5 DEF Woken, Sending
<1> QED
  BY <1>5, <1>6, StillCounts

\* Pages that are put to use, or refused, carry nothing.
LEMMA NothingOnIt ==
    /\ Opened \in Page /\ Queued(Opened) = 0
    /\ Freed \in Page /\ Queued(Freed) = 0
  BY PagesTyped, FreshPages, QueuedNothing

LEMMA PageCounts ==
    ASSUME TypeInv, Counted, NEW c \in Conn, NEW k \in Page, conn' = [conn EXCEPT ![c] = k],
           Queued(k) = Queued(conn[c]), UNCHANGED <<files, ref, lost, out>>,
           \A q \in Proc : pc'[q] \in Sending <=> pc[q] \in Sending
    PROVE  Counted'
<1>1. conn \in [Conn -> Page]
  BY DEF TypeInv
<1>2. /\ ConnSum(conn') = ConnSum(conn) - Queued(conn[c]) + Queued(k)
      /\ ConnSum(conn) \in Nat /\ Queued(conn[c]) \in Nat
  BY <1>1, ConnsChange
<1>3. ConnSum(conn') = ConnSum(conn)
  BY <1>2
<1> QED
  BY <1>3 DEF Counted, OutInv, RefsAccounted, ConnSum

LEMMA CreatesCount ==
    ASSUME TypeInv, RInv, Counted, NEW p \in Proc, SockPair(p) \/ SockPairNoFile(p) \/ NewConn(p)
    PROVE  Counted'
<1>0. pc \in [Proc -> Places]
  BY DEF TypeInv, LocalTypes
<1>1. CASE NewConn(p) /\ Return(p) /\ UNCHANGED conn
  <2>1. UNCHANGED <<conn, files, ref, lost>> /\ pc[p] \notin Sending
    BY <1>1 DEF NewConn, tables, Sending
  <2> QED
    BY <1>1, <2>1, ReturnCounts
<1>2. ASSUME NEW c \in Conn, ~conn[c].live, conn' = [conn EXCEPT ![c] = Opened],
             UNCHANGED <<files, ref, lost, out>>,
             \A q \in Proc : pc'[q] \in Sending <=> pc[q] \in Sending
      PROVE  Counted'
  <2>1. Queued(conn[c]) = 0
    BY <1>2, NothingOnIt DEF RInv, PageInv
  <2>2. PICK k \in Page : k = Opened /\ Queued(k) = 0
    BY NothingOnIt
  <2>3. conn' = [conn EXCEPT ![c] = k] /\ Queued(k) = Queued(conn[c])
    BY <1>2, <2>1, <2>2
  <2> QED
    BY <1>2, <2>3, PageCounts
<1>3. CASE SockPair(p) \/ SockPairNoFile(p)
  <2>1. PICK c \in Conn : ~conn[c].live /\ conn' = [conn EXCEPT ![c] = Opened]
    BY <1>3 DEF SockPair, SockPairNoFile
  <2>2. UNCHANGED <<files, ref, lost, out, pc>>
    BY <1>3 DEF SockPair, SockPairNoFile, tables, locals
  <2> QED
    BY <1>2, <2>1, <2>2
<1>4. CASE NewConn(p) /\ ~(Return(p) /\ UNCHANGED conn)
  <2>1. PICK c \in Conn : /\ ~conn[c].live /\ conn' = [conn EXCEPT ![c] = Opened]
                          /\ pc' = [pc EXCEPT ![p] = "push"] /\ UNCHANGED out
    BY <1>4 DEF NewConn
  <2>2. UNCHANGED <<files, ref, lost>> /\ pc[p] = "found"
    BY <1>4 DEF NewConn, tables
  <2>3. \A q \in Proc : pc'[q] \in Sending <=> pc[q] \in Sending
    BY <1>0, <2>1, <2>2 DEF Sending
  <2> QED
    BY <1>2, <2>1, <2>2, <2>3
<1> QED
  BY <1>1, <1>3, <1>4

LEMMA RefusedCounts ==
    ASSUME IInv, RInv, Counted, NEW p \in Proc, PushRefused(p)
    PROVE  Counted'
<1>1. TypeInv /\ PlaceInv /\ OpenInv /\ OwnerInv
  BY DEF IInv
<1>2. Return(p) /\ pc[p] = "push" /\ UNCHANGED <<files, ref, lost>>
  BY DEF PushRefused, tables
<1>3. PICK c \in Conn : c = hand[p]
  BY <1>1, <1>2, Sizes, HoldersOwn
<1>4. conn[c] \in Page /\ Queued(conn[c]) = 0
  <2>1. conn[c] \in Page /\ conn[c].q = Empty
    BY <1>1, <1>2, <1>3 DEF RInv, PushInv, TypeInv
  <2> QED
    BY <2>1, QueuedNothing
<1>5. PICK k \in Page : k = Freed /\ Queued(k) = 0
  BY NothingOnIt
<1>6. conn' = [conn EXCEPT ![c] = k]
  BY <1>3, <1>5 DEF PushRefused
<1>7. /\ files \in [Proc -> Nat] /\ lost \in Nat /\ ref \in Nat /\ ref <= MaxRefs
      /\ pc \in [Proc -> Places]
  BY <1>1, CountedIs DEF Counted, TypeInv, LocalTypes
<1>8. files[p] \in Nat /\ out[p].nfds = 0 /\ NoMessage.nfds = 0 /\ NoMessage \in Letter
  BY <1>1, <1>2, CountedIs, LetterCarries DEF Letter, Sending
<1>9. Balanced(p, files[p], NoMessage, 0)
  <2>1. files' = [files EXCEPT ![p] = files[p]]
    BY <1>2, <1>7
  <2>2. out' = [out EXCEPT ![p] = NoMessage] /\ pc' = [pc EXCEPT ![p] = "user"]
    BY <1>2 DEF Return
  <2>3. \A q \in Proc \ {p} : pc'[q] \in Sending <=> pc[q] \in Sending
    BY <1>7, <2>2
  <2>4. ref' = ref + (files[p] - files[p]) + (NoMessage.nfds - out[p].nfds) + 0 + (lost' - lost)
    BY <1>2, <1>7, <1>8
  <2> QED
    BY <1>2, <1>7, <1>8, <2>1, <2>2, <2>3, <2>4 DEF Balanced
<1>10. 0 = Queued(k) - Queued(conn[c])
  BY <1>4, <1>5
<1> QED
  BY <1>1, <1>6, <1>9, <1>10, BooksConn

\* What is on a connection is dropped when its second end closes, and only then.
LEMMA EndCounts ==
    ASSUME NEW k \in Page, NEW f \in End, k.live
    PROVE  /\ Dropped(k, EndClosed(k, f)) \in Nat
           /\ Queued(k) = Queued(EndClosed(k, f)) + Dropped(k, EndClosed(k, f))
           /\ EndClosed(k, f) \in Page /\ Queued(k) \in Nat
<1>1. PICK h : h = EndClosed(k, f)
  OBVIOUS
<1>2. /\ h \in Page
      /\ k.open[1 - f] => h.live /\ h.q = k.q
      /\ ~k.open[1 - f] => h = Freed
  BY <1>1, ClosedEnd
<1>3. Queued(k) \in Nat /\ Queued(h) \in Nat
  BY <1>2, QueuedIs
<1>4. CASE k.open[1 - f]
  <2>1. Dropped(k, h) = 0 /\ Queued(k) = Queued(h)
    BY <1>2, <1>4, QueuedSame DEF Dropped
  <2> QED
    BY <1>1, <1>2, <1>3, <2>1
<1>5. CASE ~k.open[1 - f]
  <2>1. Dropped(k, h) = Queued(k) /\ Queued(h) = 0
    BY <1>2, <1>5, NothingOnIt, FreshPages DEF Dropped
  <2> QED
    BY <1>1, <1>2, <1>3, <2>1
<1> QED
  BY <1>4, <1>5

LEMMA NoSlotCounts ==
    ASSUME IInv, RInv, Counted, NEW p \in Proc, AcceptNoSlot(p)
    PROVE  Counted'
<1>1. TypeInv /\ PlaceInv /\ OpenInv
  BY DEF IInv
<1>2. /\ UNCHANGED <<files, ref, target, out>> /\ pc[p] = "popped"
      /\ at' = [at EXCEPT ![p] = NoSlot] /\ hand' = [hand EXCEPT ![p] = NoConn]
  BY DEF AcceptNoSlot
<1>3. PICK c \in Conn : c = hand[p]
  BY <1>1, <1>2, Sizes, HoldersOwn
<1>4. PICK k \in Page, x \in Nat : /\ k = EndClosed(conn[c], 1) /\ x = Dropped(conn[c], k) /\ x \in Nat
                           /\ Queued(conn[c]) = Queued(k) + x
                           /\ Queued(conn[c]) \in Nat /\ Queued(k) \in Nat
  <2>1. conn[c] \in Page /\ conn[c].live /\ 1 \in End
    BY <1>1, <1>2, <1>3, Sizes, HoldersOwn DEF TypeInv
  <2> QED
    BY <2>1, EndCounts, QueuedIs
<1>5. /\ conn' = [conn EXCEPT ![c] = k] /\ lost' = lost + x
      /\ pc' = WakeConn(c, [pc EXCEPT ![p] = "user"])
  BY <1>3, <1>4 DEF AcceptNoSlot
<1>6. OthersWait(p) /\ pc'[p] = "user"
  <2>1. out' \in [Proc -> Letter] /\ target' = target
    BY <1>1, <1>2 DEF TypeInv, LocalTypes
  <2> QED
    BY <1>1, <1>2, <1>5, <2>1, WakePlaces
<1>7. /\ files \in [Proc -> Nat] /\ lost \in Nat /\ ref \in Nat /\ ref <= MaxRefs
      /\ out \in [Proc -> Letter]
  BY <1>1, CountedIs DEF Counted, TypeInv, LocalTypes
<1>8. files[p] \in Nat /\ out[p].nfds = 0 /\ out[p] \in Letter
  BY <1>1, <1>2, CountedIs DEF Sending
<1>9. PICK d \in Int : d = Queued(k) - Queued(conn[c]) /\ d = -x
  BY <1>4
<1>10. Balanced(p, files[p], out[p], d)
  <2>1. files' = [files EXCEPT ![p] = files[p]] /\ out' = [out EXCEPT ![p] = out[p]]
    BY <1>2, <1>7
  <2>2. \A q \in Proc \ {p} : pc'[q] \in Sending <=> pc[q] \in Sending
    BY <1>6, SendersStay
  <2>3. ref' = ref + (files[p] - files[p]) + (out[p].nfds - out[p].nfds) + d + (lost' - lost)
    BY <1>2, <1>4, <1>5, <1>7, <1>8, <1>9
  <2>4. lost' \in Nat /\ ref' <= MaxRefs
    BY <1>2, <1>4, <1>5, <1>7
  <2> QED
    BY <1>8, <2>1, <2>2, <2>3, <2>4 DEF Balanced
<1> QED
  BY <1>1, <1>5, <1>9, <1>10, BooksConn

LEMMA CloseConnCounts ==
    ASSUME IInv, RInv, Counted, NEW p \in Proc, CloseConn(p)
    PROVE  Counted'
<1>1. TypeInv /\ PlaceInv /\ OpenInv /\ SlotInv
  BY DEF IInv
<1>2. /\ UNCHANGED <<files, lost, target, hand, out>> /\ pc[p] = "close"
      /\ at' = [at EXCEPT ![p] = NoSlot]
  BY DEF CloseConn
<1>3. PICK s \in Slot : s = at[p]
  BY <1>1, <1>2 DEF PlaceInv, InPlace
<1>4. PICK c \in Conn, f \in End : c = sock[s].conn /\ f = sock[s].end
  BY <1>1, <1>3 DEF CloseConn, SlotInv, TypeInv, Struct
<1>5. sock[s].state = "connected"
  BY <1>3 DEF CloseConn
<1>6. conn[c] \in Page /\ conn[c].live
  <2>1. SocketHas(s, c, f)
    BY <1>2, <1>3, <1>4, <1>5 DEF SocketHas, Held
  <2>2. PICK x \in Owner : x = <<"socket", s>> /\ Owns(x, c, f)
    BY <2>1, OwnsIs DEF Owner
  <2> QED
    BY <1>1, <2>2 DEF OpenInv, TypeInv
<1>7. PICK k \in Page, x \in Nat : /\ k = EndClosed(conn[c], f) /\ x = Dropped(conn[c], k) /\ x \in Nat
                           /\ Queued(conn[c]) = Queued(k) + x
                           /\ Queued(conn[c]) \in Nat /\ Queued(k) \in Nat
  BY <1>6, EndCounts, QueuedIs
<1>8. /\ conn' = [conn EXCEPT ![c] = k] /\ ref' = ref - x
      /\ pc' = WakeConn(c, [pc EXCEPT ![p] = "user"])
  BY <1>3, <1>4, <1>7 DEF CloseConn, Drain
<1>9. OthersWait(p) /\ pc'[p] = "user"
  <2>1. out' \in [Proc -> Letter] /\ target' = target
    BY <1>1, <1>2 DEF TypeInv, LocalTypes
  <2>2. hand' = [hand EXCEPT ![p] = NoConn]
    BY <1>1, <1>2 DEF TypeInv, LocalTypes, PlaceInv, InPlace, Handing, Talking
  <2> QED
    BY <1>1, <1>2, <1>8, <2>1, <2>2, WakePlaces
<1>10. /\ files \in [Proc -> Nat] /\ lost \in Nat /\ ref \in Nat /\ ref <= MaxRefs
       /\ out \in [Proc -> Letter] /\ MaxRefs \in Nat
  BY <1>1, CountedIs, SocketAssumption DEF Counted, TypeInv, LocalTypes
<1>11. files[p] \in Nat /\ out[p].nfds = 0 /\ out[p] \in Letter
  BY <1>1, <1>2, CountedIs DEF Sending
<1>12. PICK d \in Int : d = Queued(k) - Queued(conn[c]) /\ d = -x
  BY <1>7
<1>13. Balanced(p, files[p], out[p], d)
  <2>1. files' = [files EXCEPT ![p] = files[p]] /\ out' = [out EXCEPT ![p] = out[p]]
    BY <1>2, <1>10
  <2>2. \A q \in Proc \ {p} : pc'[q] \in Sending <=> pc[q] \in Sending
    BY <1>9, SendersStay
  <2>3. ref' = ref + (files[p] - files[p]) + (out[p].nfds - out[p].nfds) + d + (lost' - lost)
    BY <1>2, <1>7, <1>8, <1>10, <1>11, <1>12
  <2>4. lost' \in Nat /\ ref' <= MaxRefs
    BY <1>2, <1>7, <1>8, <1>10
  <2> QED
    BY <1>11, <2>1, <2>2, <2>3, <2>4 DEF Balanced
<1> QED
  BY <1>1, <1>8, <1>12, <1>13, BooksConn

\* A sum over the connections, and one over those that a listener closes.
LEMMA ListenerCounts ==
    ASSUME IInv, RInv, Counted, NEW p \in Proc, CloseListener(p)
    PROVE  Counted'
<1>1. TypeInv /\ PlaceInv /\ OpenInv /\ OwnerInv
  BY DEF IInv
<1>2. UNCHANGED <<files, ref, out>> /\ pc[p] = "close"
  BY DEF CloseListener, locals
<1>3. PICK s \in Slot : s = at[p]
  BY <1>1, <1>2 DEF PlaceInv, InPlace
<1>4. PICK b : b = sock[s].backlog
  OBVIOUS
<1>5. PICK pending : pending = {b[i] : i \in DOMAIN b}
  OBVIOUS
<1>6. PICK g : g = [c \in pending |-> Dropped(conn[c], EndClosed(conn[c], 1))]
  OBVIOUS
<1>7. /\ conn' = [c \in Conn |-> IF c \in pending THEN EndClosed(conn[c], 1) ELSE conn[c]]
      /\ lost' = lost + SumFunction(g)
      /\ pc' = [q \in Proc |-> IF q = p THEN "unbind"
                               ELSE IF hand[q] \in pending THEN WakeConn(hand[q], pc)[q]
                               ELSE pc[q]]
  BY <1>3, <1>4, <1>5, <1>6 DEF CloseListener
<1>8. pending \subseteq Conn
  BY <1>1, <1>4, <1>5 DEF TypeInv, Struct
<1>9. ASSUME NEW c \in pending PROVE conn[c].live
  <2>1. BacklogHas(s, c, 1) /\ c \in Conn
    BY <1>4, <1>5, <1>8 DEF BacklogHas
  <2>2. PICK x \in Owner : x = <<"backlog", s>> /\ Owns(x, c, 1)
    BY <2>1, OwnsIs, Sizes DEF Owner
  <2> QED
    BY <1>1, <2>1, <2>2, Sizes DEF OpenInv
<1>10. PICK h : h = [c \in Conn |-> IF c \in pending THEN g[c] ELSE 0]
  OBVIOUS
<1>11. PICK F, G : /\ F = [c \in Conn |-> Queued(conn[c])]
                   /\ G = [c \in Conn |-> Queued(conn'[c])]
  OBVIOUS
<1>12. ASSUME NEW c \in Conn
       PROVE  F[c] \in Nat /\ G[c] \in Nat /\ h[c] \in Nat /\ F[c] = G[c] + h[c]
  <2>1. conn[c] \in Page /\ F[c] = Queued(conn[c]) /\ G[c] = Queued(conn'[c]) /\ F[c] \in Nat
    BY <1>1, <1>11, QueuedIs DEF TypeInv
  <2>2. CASE c \in pending
    <3>1. PICK k \in Page : k = EndClosed(conn[c], 1)
      BY <1>9, <2>1, <2>2, Sizes, EndCounts
    <3>2. /\ Dropped(conn[c], k) \in Nat
          /\ Queued(conn[c]) = Queued(k) + Dropped(conn[c], k)
      BY <1>9, <2>1, <2>2, <3>1, Sizes, EndCounts
    <3>3. conn'[c] = k /\ h[c] = Dropped(conn[c], k)
      BY <1>6, <1>7, <1>10, <2>2, <3>1
    <3>4. Queued(k) \in Nat
      BY QueuedIs
    <3> QED
      BY <2>1, <3>2, <3>3, <3>4
  <2>3. CASE c \notin pending
    <3>1. conn'[c] = conn[c] /\ h[c] = 0
      BY <1>7, <1>10, <2>3
    <3> QED
      BY <2>1, <3>1
  <2> QED
    BY <2>2, <2>3
<1>13. Counts(F, Conn) /\ Counts(G, Conn) /\ Counts(h, Conn)
  BY <1>12, SocketAssumption DEF Counts
<1>14. /\ SumFunctionOnSet(F, Conn) = SumFunctionOnSet(G, Conn) + SumFunctionOnSet(h, Conn)
       /\ SumFunctionOnSet(G, Conn) \in Nat /\ SumFunctionOnSet(h, Conn) \in Nat
  <2>1. \A c \in Conn : F[c] = G[c] + h[c]
    BY <1>12
  <2>2. SumFunctionOnSet(F, Conn) = SumFunctionOnSet(G, Conn) + SumFunctionOnSet(h, Conn)
    BY <1>13, <2>1, SumAdds
  <2> QED
    BY <1>13, <2>2, SumType
<1>15. SumFunction(g) = SumFunctionOnSet(h, Conn)
  <2>1. (\A c \in pending : h[c] = g[c]) /\ (\A c \in Conn \ pending : h[c] = 0)
    BY <1>8, <1>10
  <2>2. SumFunctionOnSet(h, Conn) = SumFunctionOnSet(g, pending)
    BY <1>8, <1>13, <2>1, SumWithin
  <2>3. DOMAIN g = pending
    BY <1>6
  <2> QED
    BY <2>2, <2>3 DEF SumFunction
<1>16. ConnSum(conn) = SumFunctionOnSet(F, Conn) /\ ConnSum(conn') = SumFunctionOnSet(G, Conn)
  BY <1>11 DEF ConnSum, SumFunction
<1>17. PICK x \in Nat : x = SumFunction(g)
  BY <1>14, <1>15
<1>18. ConnSum(conn') = ConnSum(conn) + (-x) /\ ConnSum(conn) \in Nat
  BY <1>1, <1>14, <1>15, <1>16, <1>17, CountedIs
<1>19. ASSUME NEW q \in Proc \ {p} PROVE pc'[q] \in Sending <=> pc[q] \in Sending
  <2>1. pc \in [Proc -> Places]
    BY <1>1 DEF TypeInv, LocalTypes
  <2>2. CASE hand[q] \in pending
    <3>1. PICK z : z = hand[q]
      OBVIOUS
    <3>2. Woken(pc[q], WakeConn(z, pc)[q])
      BY <2>1, WakeConnIs
    <3>3. pc'[q] = WakeConn(z, pc)[q]
      BY <1>7, <2>2, <3>1
    <3> QED
      BY <3>2, <3>3 DEF Woken, Sending
  <2>3. CASE hand[q] \notin pending
    BY <1>7, <2>3
  <2> QED
    BY <2>2, <2>3
<1>20. /\ files \in [Proc -> Nat] /\ lost \in Nat /\ ref \in Nat /\ ref <= MaxRefs
       /\ out \in [Proc -> Letter]
  BY <1>1, CountedIs DEF Counted, TypeInv, LocalTypes
<1>21. files[p] \in Nat /\ out[p].nfds = 0 /\ out[p] \in Letter
  BY <1>1, <1>2, CountedIs DEF Sending
<1>22. Balanced(p, files[p], out[p], -x)
  <2>1. files' = [files EXCEPT ![p] = files[p]] /\ out' = [out EXCEPT ![p] = out[p]]
    BY <1>2, <1>20
  <2>2. ref' = ref + (files[p] - files[p]) + (out[p].nfds - out[p].nfds) + (-x) + (lost' - lost)
    BY <1>2, <1>7, <1>17, <1>20, <1>21
  <2>3. lost' \in Nat /\ ref' <= MaxRefs
    BY <1>2, <1>7, <1>17, <1>20
  <2> QED
    BY <1>19, <1>21, <2>1, <2>2, <2>3 DEF Balanced
<1> QED
  BY <1>1, <1>17, <1>18, <1>22, Books

\* Steps that take references and give them back.
LEMMA CallSendCounts ==
    ASSUME TypeInv, Counted, NEW p \in Proc, NEW s \in Slot, NEW m \in Message, CallSend(p, s, m)
    PROVE  Counted'
<1>1. /\ files \in [Proc -> Nat] /\ lost \in Nat /\ ref \in Nat /\ ref <= MaxRefs
      /\ pc \in [Proc -> Places]
  BY CountedIs DEF Counted, TypeInv, LocalTypes
<1>2. /\ pc[p] = "user" /\ UNCHANGED <<conn, files, lost>> /\ ref' = ref + m.nfds
      /\ m.nfds > 0 => ref + m.nfds <= MaxRefs
      /\ out' = [out EXCEPT ![p] = m] /\ pc' = [pc EXCEPT ![p] = "send"]
  BY DEF CallSend, Calling, sockets
<1>3. files[p] \in Nat /\ out[p].nfds = 0 /\ m \in Letter /\ m.nfds \in Nat
  BY <1>2, CountedIs, LetterCarries DEF Letter, Sending
<1>4. Balanced(p, files[p], m, 0)
  <2>1. files' = [files EXCEPT ![p] = files[p]]
    BY <1>1, <1>2
  <2>2. pc'[p] \in Sending /\ \A q \in Proc \ {p} : pc'[q] \in Sending <=> pc[q] \in Sending
    BY <1>1, <1>2 DEF Sending
  <2>3. /\ ref' = ref + (files[p] - files[p]) + (m.nfds - out[p].nfds) + 0 + (lost' - lost)
        /\ ref' <= MaxRefs
    BY <1>1, <1>2, <1>3
  <2> QED
    BY <1>1, <1>2, <1>3, <2>1, <2>2, <2>3 DEF Balanced
<1> QED
  BY <1>2, <1>4, BooksQuiet

LEMMA BadFdCounts ==
    ASSUME TypeInv, Counted, NEW p \in Proc, NEW s \in Slot, SendBadFd(p, s)
    PROVE  Counted'
<1>1. /\ files \in [Proc -> Nat] /\ lost \in Nat /\ ref \in Nat /\ MaxRefs \in Nat
      /\ out \in [Proc -> Letter]
  BY CountedIs, SocketAssumption DEF Counted, TypeInv, LocalTypes
<1>2. /\ UNCHANGED <<conn, files, out, pc>> /\ ref' = ref + 1 /\ lost' = lost + 1
      /\ ref < MaxRefs /\ pc[p] = "user"
  BY DEF SendBadFd, Calling, sockets, locals
<1>3. files[p] \in Nat /\ out[p].nfds = 0 /\ out[p] \in Letter
  BY <1>2, CountedIs DEF Sending
<1>4. Balanced(p, files[p], out[p], 0)
  <2>1. files' = [files EXCEPT ![p] = files[p]] /\ out' = [out EXCEPT ![p] = out[p]]
    BY <1>1, <1>2
  <2>2. /\ ref' = ref + (files[p] - files[p]) + (out[p].nfds - out[p].nfds) + 0 + (lost' - lost)
        /\ ref' <= MaxRefs /\ lost' \in Nat
    BY <1>1, <1>2, <1>3
  <2> QED
    BY <1>2, <1>3, <2>1, <2>2 DEF Balanced
<1> QED
  BY <1>2, <1>4, BooksQuiet

LEMMA SendFailsCounts ==
    ASSUME TypeInv, Counted, NEW p \in Proc, SendFails(p)
    PROVE  Counted'
<1>1. /\ files \in [Proc -> Nat] /\ lost \in Nat /\ ref \in Nat /\ ref <= MaxRefs
      /\ MaxRefs \in Nat /\ pc \in [Proc -> Places]
  BY CountedIs, SocketAssumption DEF Counted, TypeInv, LocalTypes
<1>2. /\ UNCHANGED <<conn, files, lost>> /\ ref' = ref - out[p].nfds
      /\ out' = [out EXCEPT ![p] = NoMessage] /\ pc' = [pc EXCEPT ![p] = "user"]
  BY DEF SendFails, Return, Undo, sockets
<1>3. files[p] \in Nat /\ out[p].nfds \in Nat /\ NoMessage \in Letter /\ NoMessage.nfds = 0
  BY CountedIs, LetterCarries DEF Letter
<1>4. Balanced(p, files[p], NoMessage, 0)
  <2>1. files' = [files EXCEPT ![p] = files[p]]
    BY <1>1, <1>2
  <2>2. \A q \in Proc \ {p} : pc'[q] \in Sending <=> pc[q] \in Sending
    BY <1>1, <1>2
  <2>3. /\ ref' = ref + (files[p] - files[p]) + (NoMessage.nfds - out[p].nfds) + 0 + (lost' - lost)
        /\ ref' <= MaxRefs
    BY <1>1, <1>2, <1>3
  <2> QED
    BY <1>1, <1>2, <1>3, <2>1, <2>2, <2>3 DEF Balanced
<1> QED
  BY <1>2, <1>4, BooksQuiet

LEMMA DescriptorsCount ==
    ASSUME TypeInv, Counted, NEW p \in Proc, CloseFile(p) \/ \E q \in Proc : Inherit(p, q)
    PROVE  Counted'
<1>1. /\ files \in [Proc -> Nat] /\ lost \in Nat /\ ref \in Nat /\ ref <= MaxRefs
      /\ MaxRefs \in Nat /\ out \in [Proc -> Letter]
  BY CountedIs, SocketAssumption DEF Counted, TypeInv, LocalTypes
<1>2. UNCHANGED <<conn, lost, out, pc>>
  BY DEF CloseFile, Inherit, sockets, locals
<1>3. ASSUME NEW q \in Proc, pc[q] = "user", NEW n \in Nat, files' = [files EXCEPT ![q] = n],
             ref' = ref + (n - files[q]), ref' <= MaxRefs
      PROVE  Counted'
  <2>1. files[q] \in Nat /\ out[q].nfds = 0 /\ out[q] \in Letter
    BY <1>3, CountedIs DEF Sending
  <2>2. Balanced(q, n, out[q], 0)
    <3>1. out' = [out EXCEPT ![q] = out[q]]
      BY <1>1, <1>2
    <3>2. ref' = ref + (n - files[q]) + (out[q].nfds - out[q].nfds) + 0 + (lost' - lost)
      BY <1>1, <1>2, <1>3, <2>1
    <3> QED
      BY <1>1, <1>2, <1>3, <2>1, <3>1, <3>2 DEF Balanced
  <2> QED
    BY <1>2, <2>2, BooksQuiet
<1>4. CASE CloseFile(p)
  <2>1. /\ pc[p] = "user" /\ files[p] \in Nat \ {0} /\ files' = [files EXCEPT ![p] = files[p] - 1]
        /\ ref' = ref - 1
    BY <1>1, <1>4 DEF CloseFile
  <2>2. PICK n \in Nat : n = files[p] - 1
    BY <2>1
  <2>3. ref' = ref + (n - files[p]) /\ ref' <= MaxRefs
    BY <1>1, <2>1, <2>2
  <2> QED
    BY <1>3, <2>1, <2>2, <2>3
<1>5. ASSUME NEW q \in Proc, Inherit(p, q) PROVE Counted'
  <2>1. /\ pc[q] = "user" /\ files[q] = 0 /\ files' = [files EXCEPT ![q] = files[p]]
        /\ ref' = ref + files[p] /\ ref + files[p] <= MaxRefs /\ files[p] \in Nat
    BY <1>1, <1>5 DEF Inherit
  <2>2. ref' = ref + (files[p] - files[q])
    BY <1>1, <2>1
  <2> QED
    BY <1>3, <2>1, <2>2
<1> QED
  BY <1>4, <1>5

\* A message goes from the sender's hands into the queue, and from there into
\* the receiver's file table, as far as it has room.
LEMMA SendCounts ==
    ASSUME IInv, RInv, Counted, NEW p \in Proc, Send(p)
    PROVE  Counted'
<1>1. TypeInv /\ PlaceInv /\ OpenInv
  BY DEF IInv
<1>2. /\ pc[p] = "send" /\ pc[p] \in Talking /\ UNCHANGED <<target, files, ref, lost>>
      /\ at' = [at EXCEPT ![p] = NoSlot] /\ hand' = [hand EXCEPT ![p] = NoConn]
      /\ out' = [out EXCEPT ![p] = NoMessage]
  BY DEF Send, Talking, tables
<1>3. PICK c \in Conn : c = hand[p]
  BY <1>1, <1>2, TalkersOwn
<1>4. PICK e \in End : e = MyEnd(p)
  BY <1>1, <1>2, TalkersOwn
<1>5. PICK m \in Letter : m = out[p]
  BY <1>1, CountedIs
<1>6. PICK z : z = Append(conn[c].q[e], m)
  OBVIOUS
<1>7. conn[c] \in Page /\ conn[c].q[e] \in Seq(Letter)
  BY <1>1 DEF TypeInv, Page
<1>8. z \in Seq(Letter) /\ Carried(z) = Carried(conn[c].q[e]) + m.nfds
  BY <1>6, <1>7, CarriedAppend, AppendProperties
<1>9. PICK k : k = [conn[c] EXCEPT !.q[e] = z]
  OBVIOUS
<1>10. conn' = [conn EXCEPT ![c] = k] /\ pc' = WakeConn(c, [pc EXCEPT ![p] = "user"])
  BY <1>3, <1>4, <1>5, <1>6, <1>9 DEF Send, Enqueue
<1>11. k \in Page /\ k.q = [conn[c].q EXCEPT ![e] = z]
  BY <1>7, <1>8, <1>9 DEF Page
<1>12. /\ files \in [Proc -> Nat] /\ lost \in Nat /\ ref \in Nat /\ ref <= MaxRefs
       /\ out \in [Proc -> Letter]
  BY <1>1, CountedIs DEF Counted, TypeInv, LocalTypes
<1>13. files[p] \in Nat /\ m.nfds \in Nat /\ NoMessage \in Letter /\ NoMessage.nfds = 0
  BY <1>12, LetterCarries DEF Letter
<1>14. PICK d \in Int : d = Queued(k) - Queued(conn[c]) /\ d = m.nfds
  <2>1. Queued(k) = Queued(conn[c]) - Carried(conn[c].q[e]) + Carried(z)
    BY <1>7, <1>8, <1>11, QueuedChange
  <2>2. Queued(conn[c]) \in Nat /\ Carried(conn[c].q[e]) \in Nat
    BY <1>7, QueuedIs, CarriedIs
  <2> QED
    BY <1>8, <1>13, <2>1, <2>2
<1>15. OthersWait(p) /\ pc'[p] = "user"
  <2>1. out' \in [Proc -> Letter]
    BY <1>2, <1>12, <1>13
  <2> QED
    BY <1>1, <1>2, <1>10, <2>1, WakePlaces
<1>16. Balanced(p, files[p], NoMessage, d)
  <2>1. files' = [files EXCEPT ![p] = files[p]]
    BY <1>2, <1>12
  <2>2. \A q \in Proc \ {p} : pc'[q] \in Sending <=> pc[q] \in Sending
    BY <1>15, SendersStay
  <2>3. /\ ref' = ref + (files[p] - files[p]) + (NoMessage.nfds - out[p].nfds) + d + (lost' - lost)
        /\ ref' <= MaxRefs /\ lost' \in Nat
    BY <1>2, <1>5, <1>12, <1>13, <1>14
  <2> QED
    BY <1>2, <1>13, <2>1, <2>2, <2>3 DEF Balanced
<1> QED
  BY <1>1, <1>10, <1>11, <1>14, <1>16, BooksConn

LEMMA RecvCounts ==
    ASSUME IInv, RInv, Counted, NEW p \in Proc, Recv(p)
    PROVE  Counted'
<1>1. TypeInv /\ PlaceInv /\ OpenInv
  BY DEF IInv
<1>2. /\ pc[p] = "recv" /\ pc[p] \in Talking /\ UNCHANGED <<target, out, lost>>
      /\ at' = [at EXCEPT ![p] = NoSlot] /\ hand' = [hand EXCEPT ![p] = NoConn]
  BY DEF Recv, Talking
<1>3. PICK c \in Conn : c = hand[p]
  BY <1>1, <1>2, TalkersOwn
<1>4. PICK e \in End : e = Peer(p)
  <2>1. PICK f \in End : f = MyEnd(p)
    BY <1>1, <1>2, TalkersOwn
  <2>2. 1 - f \in End
    BY DEF End
  <2> QED
    BY <2>1, <2>2 DEF Peer
<1>5. conn[c] \in Page /\ conn[c].q[e] \in Seq(Letter) /\ conn[c].q[e] # <<>>
  BY <1>1, <1>3, <1>4 DEF TypeInv, Page, Recv, Incoming
<1>6. PICK z, m : z = Tail(conn[c].q[e]) /\ m = Head(conn[c].q[e])
  OBVIOUS
<1>7. /\ z \in Seq(Letter) /\ m \in Letter /\ m.nfds \in Nat
      /\ Carried(conn[c].q[e]) = m.nfds + Carried(z)
  BY <1>5, <1>6, CarriedTail, LetterCarries
<1>8. PICK k : k = [conn[c] EXCEPT !.q[e] = z]
  OBVIOUS
<1>9. conn' = [conn EXCEPT ![c] = k] /\ pc' = WakeConn(c, [pc EXCEPT ![p] = "user"])
  BY <1>3, <1>4, <1>6, <1>8 DEF Recv
<1>10. k \in Page /\ k.q = [conn[c].q EXCEPT ![e] = z]
  BY <1>5, <1>7, <1>8 DEF Page
<1>11. PICK n \in 0..m.nfds : files' = [files EXCEPT ![p] = files[p] + n] /\ ref' = ref - (m.nfds - n)
  BY <1>3, <1>4, <1>6 DEF Recv, Incoming
<1>12. /\ files \in [Proc -> Nat] /\ lost \in Nat /\ ref \in Nat /\ ref <= MaxRefs
       /\ MaxRefs \in Nat /\ out \in [Proc -> Letter]
  BY <1>1, CountedIs, SocketAssumption DEF Counted, TypeInv, LocalTypes
<1>13. files[p] \in Nat /\ out[p].nfds = 0 /\ out[p] \in Letter /\ n \in Nat /\ n <= m.nfds
  BY <1>1, <1>2, <1>7, CountedIs DEF Sending
<1>14. PICK d \in Int : d = Queued(k) - Queued(conn[c]) /\ d = -m.nfds
  <2>1. Queued(k) = Queued(conn[c]) - Carried(conn[c].q[e]) + Carried(z)
    BY <1>5, <1>7, <1>10, QueuedChange
  <2>2. Queued(conn[c]) \in Nat /\ Carried(z) \in Nat
    BY <1>5, <1>7, QueuedIs, CarriedIs
  <2> QED
    BY <1>7, <2>1, <2>2
<1>15. OthersWait(p) /\ pc'[p] = "user"
  BY <1>1, <1>2, <1>9, <1>12, WakePlaces
<1>16. Balanced(p, files[p] + n, out[p], d)
  <2>1. files[p] + n \in Nat /\ out' = [out EXCEPT ![p] = out[p]]
    BY <1>2, <1>12, <1>13
  <2>2. \A q \in Proc \ {p} : pc'[q] \in Sending <=> pc[q] \in Sending
    BY <1>15, SendersStay
  <2>3. /\ ref' = ref + ((files[p] + n) - files[p]) + (out[p].nfds - out[p].nfds) + d + (lost' - lost)
        /\ ref' <= MaxRefs /\ lost' \in Nat
    BY <1>2, <1>7, <1>11, <1>12, <1>13, <1>14
  <2> QED
    BY <1>11, <1>13, <2>1, <2>2, <2>3 DEF Balanced
<1> QED
  BY <1>1, <1>9, <1>10, <1>14, <1>16, BooksConn

-----------------------------------------------------------------------------
LEMMA CountsKept == IInv /\ RInv /\ Counted /\ [Next]_vars => Counted'
<1> SUFFICES ASSUME IInv, RInv, Counted, [Next]_vars PROVE Counted'
  OBVIOUS
<1>1. TypeInv
  BY DEF IInv
<1>2. ASSUME NEW p \in Proc, CallStep(p) PROVE Counted'
  <2>1. CASE \/ ConnectDone(p) \/ AcceptKilled(p) \/ AcceptDone(p) \/ AcceptNoFile(p)
             \/ RecvKilled(p) \/ RecvEnd(p) \/ CloseUnbound(p) \/ Unbind(p)
    BY <1>1, <2>1, ReturnsCount
  <2>2. CASE AcceptSleep(p) \/ Pop(p) \/ AcceptNoFd(p) \/ RecvSleep(p)
    BY <1>1, <2>2, StepsCount
  <2>3. CASE SendSleep(p) \/ Push(p) \/ NewConn(p) \/ SendFails(p)
    BY <1>1, <2>3, SendSleepCounts, PushCounts, CreatesCount, SendFailsCounts
  <2>4. CASE PushRefused(p) \/ AcceptNoSlot(p) \/ CloseConn(p) \/ CloseListener(p)
    BY <2>4, RefusedCounts, NoSlotCounts, CloseConnCounts, ListenerCounts
  <2>5. CASE Send(p) \/ Recv(p)
    BY <2>5, SendCounts, RecvCounts
  <2> QED
    BY <1>2, <2>1, <2>2, <2>3, <2>4, <2>5 DEF CallStep
<1>3. ASSUME NEW p \in Proc,
             \/ SockCreate(p) \/ SockPair(p) \/ SockPairNoFile(p) \/ CloseFile(p)
             \/ \E q \in Proc : Inherit(p, q)
      PROVE  Counted'
  BY <1>1, <1>3, StepsCount, CreatesCount, DescriptorsCount
<1>4. ASSUME NEW p \in Proc, NEW s \in Slot,
             \/ \E path \in Path : SockBind(p, s, path) \/ Lookup(p, s, path)
             \/ SockListen(p, s) \/ CallAccept(p, s)
             \/ \E m \in Message : CallSend(p, s, m)
             \/ SendBadFd(p, s)
             \/ CallRecv(p, s)
             \/ Close(p, s)
      PROVE  Counted'
  BY <1>1, <1>4, CallsCount, CallSendCounts, BadFdCounts
<1>5. ASSUME NEW p \in Killable, Kill(p) PROVE Counted'
  <2>1. p \in Proc
    BY Sizes
  <2> QED
    BY <1>1, <1>5, <2>1, StepsCount
<1>6. CASE UNCHANGED vars
  <2>1. UNCHANGED <<conn, files, ref, lost, out, pc>>
    BY <1>6 DEF vars
  <2> QED
    BY <2>1, StillCounts
<1>7. CASE Next
  BY <1>2, <1>3, <1>4, <1>5, <1>7 DEF Next
<1> QED
  BY <1>6, <1>7

LEMMA StartsCounted == Init => Counted
<1> SUFFICES ASSUME Init PROVE Counted
  OBVIOUS
<1>1. /\ files = [p \in Proc |-> IF p \in HasFile THEN 1 ELSE 0]
      /\ ref = Cardinality(HasFile) /\ lost = 0
      /\ conn = [c \in Conn |-> Freed] /\ out = [p \in Proc |-> NoMessage]
  BY DEF Init
<1>2. IsFiniteSet(HasFile) /\ Cardinality(HasFile) \in Nat
  BY SocketAssumption, FS_Subset, FS_CardinalityType
<1>3. SumFunction(files) = Cardinality(HasFile)
  <2>1. PICK g : g = [p \in HasFile |-> 1]
    OBVIOUS
  <2>2. (\A x \in HasFile : files[x] = g[x]) /\ (\A x \in Proc \ HasFile : files[x] = 0)
    BY <1>1, <2>1, SocketAssumption
  <2>3. Counts(files, Proc) /\ DOMAIN files = Proc /\ HasFile \in SUBSET Proc
    BY <1>1, SocketAssumption DEF Counts
  <2>4. SumFunctionOnSet(files, Proc) = SumFunctionOnSet(g, HasFile)
    BY <2>2, <2>3, SumWithin
  <2>5. SumFunctionOnSet(g, HasFile) = Cardinality(HasFile)
    BY <1>2, <2>1, SumOnes
  <2> QED
    BY <2>3, <2>4, <2>5 DEF SumFunction
<1>4. ConnSum(conn) = 0
  <2>1. PICK F : F = [c \in Conn |-> Queued(conn[c])]
    OBVIOUS
  <2>2. (\A c \in Conn : F[c] = 0) /\ DOMAIN F = Conn
    BY <1>1, <2>1, NothingOnIt
  <2>3. SumFunctionOnSet(F, Conn) = 0
    BY <2>2, SumZero, SocketAssumption
  <2> QED
    BY <2>1, <2>2, <2>3 DEF ConnSum, SumFunction
<1>5. OutSum(out) = 0
  <2>1. PICK F : F = [p \in Proc |-> out[p].nfds]
    OBVIOUS
  <2>2. (\A p \in Proc : F[p] = 0) /\ DOMAIN F = Proc
    BY <1>1, <2>1, LetterCarries
  <2>3. SumFunctionOnSet(F, Proc) = 0
    BY <2>2, SumZero, SocketAssumption
  <2> QED
    BY <2>1, <2>2, <2>3 DEF OutSum, SumFunction
<1>6. RefsAccounted
  <2>1. ref = lost + SumFunction(files) + ConnSum(conn) + OutSum(out)
    BY <1>1, <1>2, <1>3, <1>4, <1>5
  <2> QED
    BY <2>1 DEF RefsAccounted, ConnSum, OutSum
<1>7. OutInv
  <2>1. \A p \in Proc : out[p] = NoMessage
    BY <1>1
  <2>2. \A p \in Proc : out[p].nfds = 0
    BY <2>1, LetterCarries
  <2> QED
    BY <2>2 DEF OutInv
<1>8. files \in [Proc -> Nat] /\ lost \in Nat /\ ref <= MaxRefs
  BY <1>1, SocketAssumption
<1> QED
  BY <1>6, <1>7, <1>8 DEF Counted

LEMMA Counting == Spec => [](RInv /\ Counted)
<1>1. Init => RInv
  BY StartsEmpty
<1>2. IInv /\ RInv /\ [Next]_vars => RInv'
  BY StepsImplement
<1> QED
  BY <1>1, <1>2, StartsCounted, CountsKept, Invariance, PTL DEF Spec

\* filedup() and fileclose() of sys_sendmsg(), sys_recvmsg() and the closing of
\* a connection keep f->ref of a file that travels equal to what can still
\* reach it, plus what the paths that drop messages have lost: it is never
\* freed while somebody has it or it is on its way.
THEOREM ReferencesAccounted == Spec => []RefsAccounted
<1>1. Counted => RefsAccounted
  BY DEF Counted
<1> QED
  BY <1>1, Counting, PTL

\* What the latest step received: every step of message channels says what.
GotType == got \in {<<>>, <<"end">>} \cup ({"message"} \X Message)

LEMMA LettersAreMessages == Letter = Message
<1>1. (CHOOSE d \in Data : TRUE) \in Data
  BY SocketAssumption
<1>2. NoMessage \in Message
  BY <1>1, SocketAssumption DEF NoMessage, Message
<1> QED
  BY <1>2 DEF Letter

LEMMA GotTyped ==
    ASSUME TypeInv, [Channels!Next]_(Channels!vars), GotType
    PROVE  GotType'
<1>1. CASE got' = <<>> \/ got' = <<"end">> \/ got' = got
  BY <1>1 DEF GotType
<1>2. ASSUME NEW c \in Conn, NEW e \in Channels!End, Channels!Receive(c, e) PROVE GotType'
  <2>1. c \in Conn /\ 1 - e \in End /\ conn[c] \in Page
    BY DEF Channels!End, End, TypeInv
  <2>2. PICK k \in Seq(Letter) : k = conn[c].q[1 - e]
    BY <2>1 DEF Page
  <2>3. got' = <<"message", Head(k)>> /\ k # <<>>
    BY <1>2, <2>1, <2>2 DEF Channels!Receive, LiveConns
  <2>4. Head(k) \in Message
    BY <2>3, HeadTailProperties, LettersAreMessages
  <2> QED
    BY <2>3, <2>4 DEF GotType
<1>3. CASE Channels!Next
  <2>1. CASE Channels!Other \/ \E C \in SUBSET Conn : Channels!CloseSome(C)
    BY <1>1, <2>1 DEF Channels!Other, Channels!CloseSome
  <2>2. ASSUME NEW c \in Conn, Channels!Create(c) \/ Channels!Refuse(c) PROVE GotType'
    BY <1>1, <2>2 DEF Channels!Create, Channels!Refuse
  <2>3. ASSUME NEW c \in Conn, NEW e \in Channels!End,
               \/ \E m \in Message : Channels!Send(c, e, m)
               \/ Channels!EndOfFile(c, e) \/ Channels!Close(c, e) \/ Channels!CloseLast(c, e)
        PROVE  GotType'
    BY <1>1, <2>3 DEF Channels!Send, Channels!EndOfFile, Channels!Close, Channels!CloseLast
  <2> QED
    BY <1>2, <1>3, <2>1, <2>2, <2>3 DEF Channels!Next
<1>4. CASE UNCHANGED Channels!vars
  BY <1>1, <1>4 DEF Channels!vars
<1> QED
  BY <1>3, <1>4

LEMMA BooksTyped ==
    ASSUME TypeInv, Counted, GotType
    PROVE  TypeOK
<1>1. Letter = Message
  BY LettersAreMessages
<1>2. /\ sock \in [Slot -> Struct] /\ binds \in [1..SOCKBINDMAX -> Entry]
      /\ conn \in [Conn -> Page] /\ fds \in [Proc -> SUBSET Slot] /\ LocalTypes
      /\ killed \in [Proc -> BOOLEAN]
  BY DEF TypeInv
<1>3. MaxRefs \in Nat
  BY SocketAssumption
<1>4. ref \in 0..MaxRefs /\ lost \in 0..MaxRefs
  <2>1. SumFunction(files) \in Nat /\ ConnSum(conn) \in Nat /\ OutSum(out) \in Nat
    BY SumsTyped DEF Counted
  <2>2. ref = lost + SumFunction(files) + ConnSum(conn) + OutSum(out)
    BY DEF Counted, RefsAccounted, ConnSum, OutSum
  <2>3. lost \in Nat /\ ref <= MaxRefs
    BY DEF Counted
  <2> QED
    BY <1>3, <2>1, <2>2, <2>3
<1>5. files \in [Proc -> 0..MaxRefs]
  <2>1. \A p \in Proc : files[p] \in 0..MaxRefs
    <3>1. ASSUME NEW p \in Proc PROVE files[p] \in 0..MaxRefs
      <4>1. files[p] \in Nat /\ files[p] <= ref /\ ref \in Nat /\ ref <= MaxRefs
        BY CountedIs DEF Counted
      <4> QED
        BY <1>3, <4>1
    <3> QED
      BY <3>1
  <2> QED
    BY <2>1 DEF Counted
<1> QED
  BY <1>1, <1>2, <1>4, <1>5 DEF TypeOK, Struct, Entry, Page, LocalTypes, GotType

\* Types: the tables hold sockets, paths, connections and messages, and no
\* count of references goes below zero.
THEOREM TypesKept == Spec => []TypeOK
<1>1. Init => GotType
  BY DEF Init, GotType
<1>2. IInv /\ RInv /\ GotType /\ [Next]_vars => GotType'
  BY StepsImplement, GotTyped DEF IInv
<1>3. IInv /\ Counted /\ GotType => TypeOK
  BY BooksTyped DEF IInv
<1> QED
  BY <1>1, <1>2, <1>3, Invariance, Counting, PTL DEF Spec
=============================================================================
