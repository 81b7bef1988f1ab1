------------------------------ MODULE Terminal ------------------------------
(***************************************************************************)
(* What kernel/console.c promises about typed characters: they reach the   *)
(* readers in the order they were typed, each once; a line can be edited   *)
(* until it is entered and not after; and a reader gets at most one line   *)
(* at a time.  In raw mode every character is a line of its own.           *)
(***************************************************************************)
EXTENDS Naturals, Sequences, SequencesExt

CONSTANTS Key,          \* what can be typed
          Ends,         \* keys that end a line: newline and ^D
          EOF,          \* ^D
          ERASE, KILL,  \* keys that edit
          Capacity      \* characters the terminal holds

VARIABLES entered,      \* characters ready to be read, oldest first
          editing,      \* the line being typed
          raw

vars == <<entered, editing, raw>>

Init == entered = <<>> /\ editing = <<>> /\ raw = FALSE

HasRoom == Len(entered) + Len(editing) < Capacity

\* A full terminal enters what it has, or nobody could ever empty it.
Type(k) ==
    /\ HasRoom
    /\ LET line == Append(editing, k)
       IN  IF raw \/ k \in Ends \/ Len(entered) + Len(line) = Capacity
           THEN entered' = entered \o line /\ editing' = <<>>
           ELSE editing' = line /\ UNCHANGED entered
    /\ ~raw => k \notin {ERASE, KILL}
    /\ UNCHANGED raw

Erase ==
    /\ ~raw /\ editing # <<>>
    /\ editing' = Front(editing)
    /\ UNCHANGED <<entered, raw>>

Kill == ~raw /\ editing' = <<>> /\ UNCHANGED <<entered, raw>>

\* n characters leave, and no more than a line.
Take(n) ==
    /\ n \in 1..Len(entered)
    /\ ~raw => \A i \in 1..n - 1 : entered[i] \notin Ends
    /\ entered' = SubSeq(entered, n + 1, Len(entered))
    /\ UNCHANGED <<editing, raw>>

SetMode == raw' \in BOOLEAN /\ UNCHANGED <<entered, editing>>

Next ==
    \/ \E k \in Key : Type(k)
    \/ Erase \/ Kill \/ SetMode
    \/ \E n \in 1..Capacity : Take(n)

Spec == Init /\ [][Next]_vars
=============================================================================
