------------------------------- MODULE Blocks -------------------------------
(***************************************************************************)
(* Where the bytes of a file are: the bitmap of used blocks, the direct,   *)
(* indirect and doubly indirect addresses of an inode, and the copy of the *)
(* inode that readers and writers work on (kernel/fs.c: balloc, bmap,      *)
(* readi, writei, itruncfrom, itruncto, iupdate, ilock), under the calls   *)
(* of kernel/file.c that use them.                                         *)
(*                                                                         *)
(* A call holds the inode's lock and is one transaction, or one for each   *)
(* chunk, so each transaction is a step.  The unit of data is the word of  *)
(* a block address, so that a block of data and a block of addresses both  *)
(* hold NIndirect of them.                                                 *)
(***************************************************************************)
EXTENDS Integers, FiniteSets, FiniteSetsExt, SequencesExt

CONSTANTS
    File,           \* inode numbers
    Data,           \* what programs write
    NDirect,        \* NDIRECT
    NIndirect,      \* NINDIRECT
    NBlock,         \* blocks of the disk that balloc() hands out
    BPB,            \* blocks that one block of the bitmap tells about
    Others,         \* blocks of files that are not in File
    MaxOpBlocks,    \* MAXOPBLOCKS
    Write_,         \* writes that programs make: [at |-> offset, n |-> length]
    Length          \* lengths that programs truncate to

NDIndirect == NIndirect * NIndirect
MaxFile == NDirect + NIndirect + NDIndirect
MaxSize == MaxFile * NIndirect
NoBlock == 0
Block == 1..NBlock

\* fileread() and filewrite(): the longest piece of one transaction.
Chunk_NoSlop == ((MaxOpBlocks - 1 - 1) \div 2) * NIndirect   \* mutant: aligned writes only
Chunk == ((MaxOpBlocks - 1 - 1 - 2) \div 2) * NIndirect

ASSUME BlocksAssumption ==
    /\ NDirect \in Nat /\ NIndirect \in Nat \ {0} /\ NBlock \in Nat \ {0}
    /\ BPB \in Nat \ {0} /\ MaxOpBlocks \in Nat
    /\ Others \subseteq Block
    /\ IsFiniteSet(File) /\ Data \subseteq Nat \ {0}
    /\ \A w \in Write_ : w.at \in Nat /\ w.n \in 1..Chunk
    /\ Length \subseteq Nat

VARIABLES
    used,     \* the bitmap
    blk,      \* contents of the blocks
    dinode,   \* the inodes on the disk: size and addrs
    inode     \* the inodes in the cache

vars == <<used, blk, dinode, inode>>

Zero == [w \in 0..NIndirect - 1 |-> 0]
NewInode == [size |-> 0, addrs |-> [k \in 0..NDirect + 1 |-> NoBlock]]

Init ==
    /\ used = Others
    /\ blk = [b \in Block |-> Zero]
    /\ dinode = [f \in File |-> NewInode]
    /\ inode = [f \in File |-> NewInode]

-----------------------------------------------------------------------------
(* A transaction on one inode works on S: the bitmap, the blocks, the inode *)
(* in the cache, the blocks it has logged, and whether the disk was full.   *)

State(f) == [used |-> used, blk |-> blk, size |-> inode[f].size, addrs |-> inode[f].addrs,
             log |-> {}, ok |-> TRUE]

\* Members of S.log: data and address blocks, blocks of the bitmap, the inode's.
InBlock(b) == <<"block", b>>
InBitmap(b) == <<"bitmap", (b - 1) \div BPB>>
InInode == <<"inode", 0>>

\* balloc(): the first free block, zeroed; panics when there is none.
NextFree(S) == IF S.used = Block THEN 1 ELSE Min(Block \ S.used)
Balloc(S) == LET b == NextFree(S) IN
    [S EXCEPT !.used = @ \cup {b}, !.blk[b] = Zero, !.ok = @ /\ S.used # Block,
              !.log = @ \cup {InBlock(b), InBitmap(b)}]

\* An address in the inode, and one in a block of addresses; found or filled.
FillAddr(S, k) ==
    IF S.addrs[k] # NoBlock THEN S ELSE [Balloc(S) EXCEPT !.addrs[k] = NextFree(S)]
FillWord(S, b, w) ==
    IF S.blk[b][w] # NoBlock THEN S
    ELSE [Balloc(S) EXCEPT !.blk[b][w] = NextFree(S), !.log = @ \cup {InBlock(b)}]

\* Which address of a doubly indirect block, and of the block it leads to.
Outer(bn) == (bn - NDirect - NIndirect) \div NIndirect
Inner(bn) == (bn - NDirect - NIndirect) % NIndirect
IsDirect(bn) == bn < NDirect
IsIndirect(bn) == bn >= NDirect /\ bn < NDirect + NIndirect

\* bmap(): block bn of the file has an address from now on.
Bmap(S, bn) ==
    IF IsDirect(bn) THEN FillAddr(S, bn)
    ELSE IF IsIndirect(bn)
    THEN LET A == FillAddr(S, NDirect) IN FillWord(A, A.addrs[NDirect], bn - NDirect)
    ELSE LET A == FillAddr(S, NDirect + 1)
             B == FillWord(A, A.addrs[NDirect + 1], Outer(bn))
         IN  FillWord(B, B.blk[A.addrs[NDirect + 1]][Outer(bn)], Inner(bn))

\* bmap_mapped(): the address of block bn, or NoBlock.
Follow(content, b, w) == IF b = NoBlock THEN NoBlock ELSE content[b][w]
Mapped(addrs, content, bn) ==
    IF IsDirect(bn) THEN addrs[bn]
    ELSE IF IsIndirect(bn) THEN Follow(content, addrs[NDirect], bn - NDirect)
    ELSE Follow(content, Follow(content, addrs[NDirect + 1], Outer(bn)), Inner(bn))

\* Blocks of the file that the n words from at lie in, in order.
Span(at, n) == [k \in 1..((at + n - 1) \div NIndirect - at \div NIndirect + 1) |->
                at \div NIndirect + k - 1]

BmapAll(S, bns) == FoldLeft(Bmap, S, bns)

\* Words lo..hi of the file, all in mapped blocks, become d.
Fill(S, lo, hi, d) ==
    LET bnOf(b) == CHOOSE bn \in lo \div NIndirect..hi \div NIndirect : Mapped(S.addrs, S.blk, bn) = b
        bs == {Mapped(S.addrs, S.blk, bn) : bn \in lo \div NIndirect..hi \div NIndirect}
    IN  [S EXCEPT
            !.blk = [b \in Block |-> IF b \notin bs THEN @[b] ELSE
                        [w \in 0..NIndirect - 1 |->
                            IF bnOf(b) * NIndirect + w \in lo..hi THEN d ELSE @[b][w]]],
            !.log = @ \cup {InBlock(b) : b \in bs}]

\* iupdate() and the end of the transaction.
Iupdate(S) == [S EXCEPT !.log = @ \cup {InInode}]
Saves(S) == InInode \in S.log
Done(f, S) ==
    LET i == [size |-> S.size, addrs |-> S.addrs]
    IN  /\ S.ok
        /\ used' = S.used /\ blk' = S.blk
        /\ inode' = [inode EXCEPT ![f] = i]
        /\ dinode' = IF Saves(S) THEN [dinode EXCEPT ![f] = i] ELSE dinode

-----------------------------------------------------------------------------
(* The calls *)

\* writei(): the inode is written out only when the file has grown.
Written(S, at, n, d) ==
    LET T == Fill(BmapAll(S, Span(at, n)), at, at + n - 1, d)
    IN  IF at + n > S.size THEN Iupdate([T EXCEPT !.size = at + n]) ELSE T
MayWrite(f, w) == w.at <= inode[f].size /\ w.at + w.n <= MaxSize

Write(f) == \E w \in Write_, d \in Data :
    MayWrite(f, w) /\ Done(f, Written(State(f), w.at, w.n, d))

\* fileread() of a range with a hole: readi() fills it, in chunks.  A range
\* without one changes nothing (readi_dense()).
Read(f) == \E w \in Write_ :
    LET n == Min({w.n, inode[f].size - w.at})
    IN  /\ w.at < inode[f].size
        /\ \E bn \in Range(Span(w.at, n)) : Mapped(inode[f].addrs, blk, bn) = NoBlock
        /\ Done(f, BmapAll(State(f), Span(w.at, n)))

\* itruncfrom(): blocks from start on are freed, and a block of addresses once
\* all it leads to is.
LeafBase(i) == NDirect + NIndirect + i * NIndirect
Leaf(S, i) == Follow(S.blk, S.addrs[NDirect + 1], i)
DataFrom(S, start) == {Mapped(S.addrs, S.blk, bn) : bn \in start..MaxFile - 1} \ {NoBlock}
AddressesFrom_NoLeaves(S, start) ==        \* mutant: frees the outer block only
    ( {S.addrs[NDirect] : k \in IF start <= NDirect THEN {0} ELSE {}}
      \cup {S.addrs[NDirect + 1] : k \in IF start <= NDirect + NIndirect THEN {0} ELSE {}} ) \ {NoBlock}

AddressesFrom(S, start) ==
    ( {S.addrs[NDirect] : k \in IF start <= NDirect THEN {0} ELSE {}}
      \cup {Leaf(S, i) : i \in {i \in 0..NIndirect - 1 : start <= LeafBase(i)}}
      \cup {S.addrs[NDirect + 1] : k \in IF start <= NDirect + NIndirect THEN {0} ELSE {}} ) \ {NoBlock}

TruncFrom_LeavesAddrs(S, start) ==         \* mutant: the inode keeps the addresses
    [S EXCEPT !.used = @ \ (DataFrom(S, start) \cup AddressesFrom(S, start))]

TruncFrom(S, start) ==
    LET freed == DataFrom(S, start) \cup AddressesFrom(S, start)
        tables == ({S.addrs[NDirect], S.addrs[NDirect + 1]} \cup {Leaf(S, i) : i \in 0..NIndirect - 1}) \ {NoBlock}
        changed == {b \in tables : \E w \in 0..NIndirect - 1 : S.blk[b][w] \in freed}
    IN  [S EXCEPT
            !.used = @ \ freed,
            !.blk = [b \in Block |-> IF b \notin changed THEN @[b] ELSE
                        [w \in 0..NIndirect - 1 |-> IF @[b][w] \in freed THEN NoBlock ELSE @[b][w]]],
            !.addrs = [k \in 0..NDirect + 1 |-> IF @[k] \in freed THEN NoBlock ELSE @[k]],
            !.log = @ \cup {InBitmap(b) : b \in freed} \cup {InBlock(b) : b \in changed}]

\* itruncto(): the tail of the last block is zeroed, so that growing again
\* does not bring it back.
TailCleared_Not(S, n) == S                 \* mutant: the tail stays

TailCleared(S, n) ==
    IF n % NIndirect = 0 THEN S
    ELSE LET last == n \div NIndirect
         IN  Fill(Bmap(S, last), n, (last + 1) * NIndirect - 1, 0)
Truncated(S, n) ==
    LET T == IF n < S.size THEN TailCleared(TruncFrom(S, (n + NIndirect - 1) \div NIndirect), n) ELSE S
    IN  Iupdate([T EXCEPT !.size = n])

Truncate(f) == \E n \in Length : n <= MaxSize /\ Done(f, Truncated(State(f), n))

\* The last iput() gives the cache entry up, or the system restarts; ilock()
\* reads the inode from the disk again.
Reload(f) ==
    /\ inode[f] # dinode[f]
    /\ inode' = [inode EXCEPT ![f] = dinode[f]]
    /\ UNCHANGED <<used, blk, dinode>>

Next == \E f \in File : Write(f) \/ Read(f) \/ Truncate(f) \/ Reload(f)

Spec == Init /\ [][Next]_vars

-----------------------------------------------------------------------------
(* Properties *)

\* The places an inode's addresses are in, each with the block it leads to.
AddressBlocks(i) == {i.addrs[NDirect]} \cup {i.addrs[NDirect + 1]}
    \cup {Follow(blk, i.addrs[NDirect + 1], w) : w \in 0..NIndirect - 1}
Places(f, i) ==
    { <<f, "data", bn, Mapped(i.addrs, blk, bn)>> : bn \in 0..MaxFile - 1 }
    \cup { <<f, "leaf", w, Follow(blk, i.addrs[NDirect + 1], w)>> : w \in 0..NIndirect - 1 }
    \cup { <<f, "addrs", k, i.addrs[k]>> : k \in NDirect..NDirect + 1 }
Held(inodes) == {p \in UNION {Places(f, inodes[f]) : f \in File} : p[4] # NoBlock}
BlocksOf(inodes) == {p[4] : p \in Held(inodes)}

\* A block that an inode leads to is marked in the bitmap, is none of another
\* file's, and nothing else leads to it: no file reads another's data, no block is freed twice, in the
\* cache's view and in the one a restart would find (fs.c:95 "freeing free
\* block").
UsedOnce == \A inodes \in {inode, dinode} :
    /\ BlocksOf(inodes) \subseteq used \ Others
    /\ \A p, q \in Held(inodes) : p[4] = q[4] => p = q

\* No call leaves a block marked that nothing leads to any more; that happens
\* only when the inode in the cache had addresses the one on the disk lacks.
Orphans == used \ BlocksOf(inode)
LeaksOnlyInReload == [][(\A f \in File : ~Reload(f)) => Orphans' = Orphans]_vars

\* What the next chunk of a write(), or of a read() that fills a hole, would
\* log: one set for each chunk that finds room on the disk.
ChunkLogs == UNION { {S.log : S \in {S \in
        { Written(State(f), w.at, w.n, d) : d \in {d \in Data : MayWrite(f, w)} }
        \cup { BmapAll(State(f), Span(w.at, n)) : n \in {n \in {w.n} : w.at + n <= inode[f].size} } :
            S.ok}} : f \in File, w \in Write_ }

\* The comment of filewrite() (file.c:219-224): in pieces of this length no
\* transaction exceeds what begin_op() reserves, "including i-node, indirect
\* block, allocation blocks, and 2 blocks of slop".
ChunkFits == \A log \in ChunkLogs : Cardinality(log) <= MaxOpBlocks

\* What the length of a piece does guarantee, wherever in the file it is and
\* however many levels of addresses it has to fill: apart from the bitmap it
\* logs so little that two blocks of the bitmap still fit the reservation.
ChunkLeavesTwo == \A log \in ChunkLogs :
    Cardinality({b \in log : b[1] # "bitmap"}) <= MaxOpBlocks - 2

\* "max # of blocks any FS op writes" (param.h:50), of a truncation.
TruncateFits == \A f \in File, n \in Length :
    n <= MaxSize => Cardinality(Truncated(State(f), n).log) <= MaxOpBlocks

\* A file as programs see it, and what of it the inode on the disk lacks.
WordOf(i, p) == LET b == Mapped(i.addrs, blk, p \div NIndirect)
                IN  IF b = NoBlock THEN 0 ELSE blk[b][p % NIndirect]
Content(i) == [p \in 0..MaxSize - 1 |-> WordOf(i, p)]
Sparse == INSTANCE SparseFile WITH
    size <- [f \in File |-> inode[f].size],
    word <- [f \in File |-> Content(inode[f])],
    unsaved <- [f \in File |-> {p \in 0..MaxSize - 1 : WordOf(inode[f], p) # WordOf(dinode[f], p)}]

\* Every call does to the file's size and words what a program expects, across
\* holes and block boundaries, and to no other file (fs.c:779-785).
RefinesFile == Sparse!Spec

\* "i-node cache is write-through" (fs.c:219): reading the inode again changes
\* nothing a program can see.
WriteThrough == [][\A f \in File : Reload(f) => Content(inode'[f]) = Content(inode[f])]_vars
=============================================================================
