------------------------------ MODULE MCSocket ------------------------------
(* Instances of Socket for TLC in which processes and connections are       *)
(* interchangeable.                                                         *)
EXTENDS Socket, TLC

Symmetry == Permutations(Proc) \cup Permutations(Conn)
=============================================================================
