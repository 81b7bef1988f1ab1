---------------------------- MODULE AtomicStore ----------------------------
(***************************************************************************)
(* What kernel/log.c promises the file system: operations run              *)
(* concurrently against the cached contents of the disk, and what they     *)
(* wrote becomes durable all at once, only when none of them is active.    *)
(***************************************************************************)
EXTENDS Naturals

CONSTANTS Block,    \* home blocks of the file system
          Data      \* contents a block can have

VARIABLES visible,  \* what bread() returns: the contents operations see
          durable,  \* what a recovery from the disk image yields
          active    \* operations between begin_op() and end_op()

vars == <<visible, durable, active>>

Init ==
    /\ visible \in [Block -> Data]
    /\ durable = visible
    /\ active = 0

Begin ==
    /\ active' = active + 1
    /\ UNCHANGED <<visible, durable>>

Write(b, d) ==
    /\ active > 0
    /\ visible' = [visible EXCEPT ![b] = d]
    /\ UNCHANGED <<durable, active>>

End ==
    /\ active > 0
    /\ active' = active - 1
    /\ UNCHANGED <<visible, durable>>

\* Everything written so far becomes durable in one step.
Commit ==
    /\ active = 0
    /\ durable' = visible
    /\ UNCHANGED <<visible, active>>

Next ==
    \/ Begin
    \/ \E b \in Block, d \in Data : Write(b, d)
    \/ End
    \/ Commit

Spec == Init /\ [][Next]_vars
=============================================================================
