----------------------------- MODULE SparseFile -----------------------------
(***************************************************************************)
(* What kernel/fs.c lets a program rely on when it reads, writes and       *)
(* truncates files: a file is a size and that many words, a word nobody    *)
(* wrote is zero, and a file is changed by nobody else's calls.            *)
(*                                                                         *)
(* One weakness is part of the promise, because the code has it: a write   *)
(* that fills a hole without making the file longer may be forgotten when  *)
(* the file is closed or the system restarts.  Such words are in unsaved   *)
(* until a call that changes the size has written the inode out.           *)
(***************************************************************************)
EXTENDS Naturals

CONSTANTS File, Data, MaxSize,
    Write_,     \* writes that programs make: [at |-> offset, n |-> length]
    Length      \* lengths that programs truncate to

VARIABLES size, word, unsaved

vars == <<size, word, unsaved>>
Position == 0..MaxSize - 1

Init ==
    /\ size = [f \in File |-> 0]
    /\ word = [f \in File |-> [i \in Position |-> 0]]
    /\ unsaved = [f \in File |-> {}]

Write(f, w, d) ==
    LET end == w.at + w.n
    IN  /\ w.at <= size[f] /\ end <= MaxSize
        /\ word' = [word EXCEPT ![f] = [i \in Position |-> IF w.at <= i /\ i < end THEN d ELSE @[i]]]
        /\ size' = [size EXCEPT ![f] = IF end > @ THEN end ELSE @]
        /\ \A g \in File \ {f} : unsaved'[g] = unsaved[g]
        /\ IF end > size[f] THEN unsaved'[f] = {} ELSE unsaved'[f] \subseteq unsaved[f] \cup w.at..end - 1

Truncate(f, n) ==
    /\ n <= MaxSize
    /\ size' = [size EXCEPT ![f] = n]
    /\ word' = [word EXCEPT ![f] = [j \in Position |-> IF j < n THEN @[j] ELSE 0]]
    /\ unsaved' = [unsaved EXCEPT ![f] = {}]

Forget(f) ==
    /\ word' = [word EXCEPT ![f] = [j \in Position |-> IF j \in unsaved[f] THEN 0 ELSE @[j]]]
    /\ unsaved' = [unsaved EXCEPT ![f] = {}]
    /\ UNCHANGED size

Next == \E f \in File :
    \/ \E w \in Write_, d \in Data : Write(f, w, d)
    \/ \E n \in Length : Truncate(f, n)
    \/ Forget(f)

Spec == Init /\ [][Next]_vars
=============================================================================
