------------------------------- MODULE MCLog -------------------------------
EXTENDS Log, TLC

\* Processes, blocks and contents are interchangeable.
Symmetry == Permutations(Proc) \cup Permutations(Block)
=============================================================================
