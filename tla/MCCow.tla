------------------------------- MODULE MCCow -------------------------------
(* Instances of Cow for TLC: pages are interchangeable, and so are the      *)
(* processes.                                                               *)
EXTENDS Cow, TLC

Symmetry == Permutations(Frame) \cup Permutations(Proc)
=============================================================================
