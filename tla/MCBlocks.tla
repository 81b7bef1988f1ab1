------------------------------ MODULE MCBlocks ------------------------------
(* Instances of Blocks: where programs write and truncate, and how full the *)
(* disk is.                                                                 *)
EXTENDS Blocks

At(w, n) == [at |-> w, n |-> n]
\* With one direct address and three to a block of addresses, a chunk of three
\* blocks starting inside block 0, 3 or 6 covers the direct and indirect
\* blocks, the indirect and the first doubly indirect ones, and two leaves.
Chunks == {At(1, Chunk), At(3 * NIndirect + 1, Chunk), At(6 * NIndirect + 1, Chunk)}
Lengths == {0, 3 * NIndirect + 2, 10 * NIndirect}

\* A nearly full disk: every other block belongs to somebody else, so that
\* the free ones are scattered over all blocks of the bitmap.
Scattered == {b \in Block : b % 2 = 0}
Nobody == {}
=============================================================================
