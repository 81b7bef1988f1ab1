--------------------------- MODULE PrivateMemory ---------------------------
(***************************************************************************)
(* What fork() promises about memory: every process has pages of its own.  *)
(* A child starts with the contents of its parent's, and from then on a    *)
(* store is seen by the process that made it and by no other.  The pages   *)
(* of a shared memory object are outside this promise: they read Shared.   *)
(***************************************************************************)
EXTENDS Naturals, Sequences

CONSTANTS Proc, Data, Zero, Shared

VARIABLES
    running,    \* processes that exist
    mem         \* contents of each process's pages

vars == <<running, mem>>

Init ==
    /\ \E p \in Proc : running = {p}
    /\ mem = [p \in Proc |-> <<>>]

Grow(p, d) ==
    /\ p \in running
    /\ mem' = [mem EXCEPT ![p] = Append(@, d)]
    /\ UNCHANGED running

Shrink(p) ==
    /\ p \in running /\ mem[p] # <<>>
    /\ mem' = [mem EXCEPT ![p] = SubSeq(@, 1, Len(@) - 1)]
    /\ UNCHANGED running

Store(p, i, d) ==
    /\ p \in running
    /\ mem' = [mem EXCEPT ![p][i] = d]
    /\ UNCHANGED running

Fork(p, c) ==
    /\ p \in running /\ c \notin running
    /\ running' = running \cup {c}
    /\ mem' = [mem EXCEPT ![c] = mem[p]]

Exit(p) ==
    /\ p \in running
    /\ running' = running \ {p}
    /\ mem' = [mem EXCEPT ![p] = <<>>]

Next ==
    \E p \in Proc :
        \/ \E d \in {Zero, Shared} : Grow(p, d)
        \/ Shrink(p) \/ Exit(p)
        \/ \E i \in 1..Len(mem[p]), d \in Data : Store(p, i, d)
        \/ \E c \in Proc : Fork(p, c)

Spec == Init /\ [][Next]_vars
=============================================================================
