----------------------------- MODULE ByteQueue -----------------------------
(***************************************************************************)
(* What a pipe promises: a bounded queue of bytes with a read end and a    *)
(* write end.  Bytes come out once each, in the order they went in, and a  *)
(* read that gets none is told so only after the write end has closed.     *)
(***************************************************************************)
EXTENDS Naturals, Sequences

CONSTANTS Data, Capacity

VARIABLES
    q,          \* the bytes in the pipe
    readopen,   \* the read end is open
    writeopen,  \* the write end is open
    got         \* what the latest read() returned

vars == <<q, readopen, writeopen, got>>

Init ==
    /\ q = <<>>
    /\ readopen = TRUE /\ writeopen = TRUE
    /\ got = <<>>

Put(s) ==
    /\ writeopen
    /\ Len(q) + Len(s) <= Capacity
    /\ q' = q \o s
    /\ UNCHANGED <<readopen, writeopen, got>>

Get(k) ==
    /\ readopen
    /\ got' = SubSeq(q, 1, k)
    /\ q' = SubSeq(q, k + 1, Len(q))
    /\ UNCHANGED <<readopen, writeopen>>

EndOfFile ==
    /\ q = <<>> /\ ~writeopen
    /\ got' = <<>>
    /\ UNCHANGED <<q, readopen, writeopen>>

CloseRead  == readopen' = FALSE /\ UNCHANGED <<q, writeopen, got>>
CloseWrite == writeopen' = FALSE /\ UNCHANGED <<q, readopen, got>>

Next ==
    \/ \E n \in 1..Capacity : \E s \in [1..n -> Data] : Put(s)
    \/ \E k \in 1..Len(q) : Get(k)
    \/ EndOfFile
    \/ CloseRead \/ CloseWrite

Spec == Init /\ [][Next]_vars
=============================================================================
