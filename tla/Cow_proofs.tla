----------------------------- MODULE Cow_proofs -----------------------------
(***************************************************************************)
(* Proofs about Cow, for every finite set of processes and of frames, every *)
(* bound on pages and every set of contents.                               *)
(***************************************************************************)
EXTENDS Cow, FiniteSetTheorems, SequenceTheorems, TLAPS

\* What the programs do not do.  With any of the three habits TLC refutes what
\* is proved here.
Careful == Calls \cap {"mprotect_cow", "fork_shared", "close_mapped"} = {}

-----------------------------------------------------------------------------
(* The inductive invariant *)

Forking(p) == pc[p] \in {"fork", "addref"}
IsShm(p, i) == "SHM" \in pt[p][i].flags
IsCow(p, i) == "COW" \in pt[p][i].flags

SizeInv == \A p \in Proc :
    /\ Len(pt[p]) <= MaxPages
    /\ pc[p] = "none" => pt[p] = <<>>

\* A copy-on-write page is neither writable nor of a shared object.
FlagInv == \A p \in Proc : \A i \in 1..Len(pt[p]) :
    IsCow(p, i) => "W" \notin pt[p][i].flags /\ ~IsShm(p, i)

\* A fork() has a child of its own, with the first pages of its parent.
Copying(p, c) ==
    /\ pc[c] = "embryo"
    /\ Len(pt[c]) <= Len(pt[p])
    /\ \A i \in 1..Len(pt[p]) : ~IsShm(p, i)
    /\ \A i \in 1..Len(pt[c]) : pt[c][i] = pt[p][i]
    /\ pc[p] = "addref" => Len(pt[c]) > 0

ForkInv ==
    /\ \A p \in Proc : Forking(p) => Copying(p, child[p])
    /\ \A p, q \in Proc : Forking(p) /\ Forking(q) /\ child[p] = child[q] => p = q
    /\ \A c \in Proc : pc[c] = "embryo" => \A i \in 1..Len(pt[c]) : IsCow(c, i)

\* A write fault is about a page of its process, which stays copy-on-write.
FaultInv == \A p \in Proc :
    /\ pc[p] \in {"reclaim", "copy"} => at[p] \in 1..Len(pt[p]) /\ IsCow(p, at[p])
    /\ pc[p] = "drop" => old[p] \in Frame

\* The shared object lives as long as its descriptors; only they reach it.
ShmInv ==
    /\ shmframe # NoFrame <=> shmfd # {}
    /\ \A p \in shmfd : pc[p] \notin {"none", "embryo"}
    /\ \A p \in Live : \A i \in 1..Len(pt[p]) :
          IsShm(p, i) => p \in shmfd /\ pt[p][i].frame = shmframe
    /\ shmframe # NoFrame => Mappings(shmframe) = {} /\ Dropping(shmframe) = {}

\* <<p, i>> is the only owner of its frame.
Sole(p, i) ==
    /\ Mappings(pt[p][i].frame) = {<<p, i>>}
    /\ Dropping(pt[p][i].frame) = {}
    /\ shmframe # pt[p][i].frame

\* A page that is not copy-on-write, and the one a fault has found to have a
\* count of 1, is its process's alone.
SoleInv == \A p \in Proc : \A i \in 1..Len(pt[p]) :
    /\ ~IsShm(p, i)
    /\ ~IsCow(p, i) \/ (pc[p] = "reclaim" /\ at[p] = i)
    => Sole(p, i)

IInv ==
    /\ TypeOK
    /\ SizeInv
    /\ FlagInv
    /\ ForkInv
    /\ FaultInv
    /\ ShmInv
    /\ RefsCountOwners
    /\ SoleInv

-----------------------------------------------------------------------------
(* Sets of owners, and how a page table changes them *)

\* How many own a frame.
Owned(f) == Cardinality(Mappings(f)) + Cardinality(Dropping(f))
            + IF shmframe = f THEN 1 ELSE 0

LEMMA RefsCountOwnersIs ==
    RefsCountOwners <=> \A f \in Frame :
        /\ Owned(f) = ref[f] + Cardinality(Uncounted(f))
        /\ f \in free <=> Owned(f) = 0
  BY DEF RefsCountOwners, Owned

\* What a mapping of f is.
LEMMA MappingIs ==
    ASSUME NEW f, NEW p \in Proc, NEW i \in 1..MaxPages
    PROVE  <<p, i>> \in Mappings(f)
              <=> i <= Len(pt[p]) /\ pt[p][i].frame = f /\ ~IsShm(p, i)
  BY DEF Mappings, IsShm

LEMMA MappingPair ==
    ASSUME NEW f, NEW m \in Mappings(f)
    PROVE  m[1] \in Proc /\ m[2] \in 1..MaxPages /\ m = <<m[1], m[2]>>
           /\ m[2] <= Len(pt[m[1]]) /\ pt[m[1]][m[2]].frame = f /\ ~IsShm(m[1], m[2])
  BY DEF Mappings, IsShm

\* All of them are finite.
LEMMA OwnersFinite ==
    ASSUME NEW f
    PROVE  /\ IsFiniteSet(Mappings(f)) /\ Cardinality(Mappings(f)) \in Nat
           /\ IsFiniteSet(Dropping(f)) /\ Cardinality(Dropping(f)) \in Nat
           /\ IsFiniteSet(Uncounted(f)) /\ Cardinality(Uncounted(f)) \in Nat
           /\ Owned(f) \in Nat
<1>1. IsFiniteSet(Proc) /\ MaxPages \in Nat
  BY CowAssumption
<1>2. IsFiniteSet(1..MaxPages)
  BY <1>1, FS_Interval
<1>3. IsFiniteSet(Proc \X (1..MaxPages))
  BY <1>1, <1>2, FS_Product
<1>4. Mappings(f) \in SUBSET (Proc \X (1..MaxPages))
  BY DEF Mappings
<1>5. Dropping(f) \in SUBSET Proc /\ Uncounted(f) \in SUBSET Proc
  BY DEF Dropping, Uncounted
<1>6. IsFiniteSet(Mappings(f)) /\ IsFiniteSet(Dropping(f)) /\ IsFiniteSet(Uncounted(f))
  BY <1>1, <1>3, <1>4, <1>5, FS_Subset
<1> QED
  BY <1>6, FS_CardinalityType DEF Owned

\* The same in the next state.
LEMMA OwnersFiniteNext ==
    ASSUME NEW f
    PROVE  /\ IsFiniteSet(Mappings(f)') /\ Cardinality(Mappings(f)') \in Nat
           /\ IsFiniteSet(Dropping(f)') /\ Cardinality(Dropping(f)') \in Nat
           /\ IsFiniteSet(Uncounted(f)') /\ Cardinality(Uncounted(f)') \in Nat
<1>1. IsFiniteSet(Proc) /\ MaxPages \in Nat
  BY CowAssumption
<1>2. IsFiniteSet(1..MaxPages)
  BY <1>1, FS_Interval
<1>3. IsFiniteSet(Proc \X (1..MaxPages))
  BY <1>1, <1>2, FS_Product
<1>4. Mappings(f)' \in SUBSET (Proc \X (1..MaxPages))
  BY DEF Mappings
<1>5. Dropping(f)' \in SUBSET Proc /\ Uncounted(f)' \in SUBSET Proc
  BY DEF Dropping, Uncounted
<1>6. IsFiniteSet(Mappings(f)') /\ IsFiniteSet(Dropping(f)') /\ IsFiniteSet(Uncounted(f)')
  BY <1>1, <1>3, <1>4, <1>5, FS_Subset
<1> QED
  BY <1>6, FS_CardinalityType

\* A page is added at the end.
LEMMA AddPage ==
    ASSUME TypeOK, NEW p \in Proc, NEW e \in Entry, Len(pt[p]) < MaxPages,
           pt' = [pt EXCEPT ![p] = Append(@, e)]
    PROVE  /\ pt' \in [Proc -> Seq(Entry)]
           /\ Len(pt[p]) \in Nat /\ Len(pt'[p]) = Len(pt[p]) + 1
           /\ pt'[p][Len(pt[p]) + 1] = e
           /\ \A i \in 1..Len(pt[p]) : pt'[p][i] = pt[p][i]
           /\ \A q \in Proc \ {p} : pt'[q] = pt[q]
           /\ \A f : Mappings(f)' = IF e.frame = f /\ "SHM" \notin e.flags
                                    THEN Mappings(f) \cup {<<p, Len(pt[p]) + 1>>}
                                    ELSE Mappings(f)
           /\ \A f : <<p, Len(pt[p]) + 1>> \notin Mappings(f)
<1>1. MaxPages \in Nat /\ pt \in [Proc -> Seq(Entry)] /\ pt[p] \in Seq(Entry)
  BY CowAssumption DEF TypeOK
<1> DEFINE n == Len(pt[p]) + 1
<1>2. n \in 1..MaxPages
  BY <1>1
<1>3. pt' \in [Proc -> Seq(Entry)]
  BY <1>1
<1>4. /\ pt'[p] = Append(pt[p], e) /\ Len(pt'[p]) = n /\ pt'[p][n] = e
      /\ \A i \in 1..Len(pt[p]) : pt'[p][i] = pt[p][i]
  BY <1>1
<1>5. \A q \in Proc \ {p} : pt'[q] = pt[q]
  BY <1>1
<1>6. \A f : <<p, n>> \notin Mappings(f)
  BY <1>1 DEF Mappings
<1>7. ASSUME NEW f
      PROVE  Mappings(f)' = IF e.frame = f /\ "SHM" \notin e.flags
                            THEN Mappings(f) \cup {<<p, n>>} ELSE Mappings(f)
  <2>1. ASSUME NEW q \in Proc, NEW i \in 1..MaxPages
        PROVE  <<q, i>> \in Mappings(f)' <=>
                  IF <<q, i>> = <<p, n>> THEN e.frame = f /\ "SHM" \notin e.flags
                  ELSE <<q, i>> \in Mappings(f)
    <3>1. CASE q # p
      BY <1>5, <3>1 DEF Mappings
    <3>2. CASE q = p /\ i = n
      BY <1>1, <1>4, <3>2 DEF Mappings
    <3>3. CASE q = p /\ i # n
      <4>1. i <= Len(pt'[p]) <=> i <= Len(pt[p])
        BY <1>1, <1>4, <3>3
      <4>2. i <= Len(pt[p]) => pt'[p][i] = pt[p][i]
        BY <1>1, <1>4
      <4> QED
        BY <3>3, <4>1, <4>2 DEF Mappings
    <3> QED
      BY <3>1, <3>2, <3>3
  <2>2. Mappings(f)' \subseteq Proc \X (1..MaxPages) /\ Mappings(f) \subseteq Proc \X (1..MaxPages)
    BY DEF Mappings
  <2>3. <<p, n>> \in Proc \X (1..MaxPages)
    BY <1>2
  <2>4. <<p, n>> \notin Mappings(f)
    BY <1>6
  <2> HIDE DEF n
  <2>5. CASE e.frame = f /\ "SHM" \notin e.flags
    <3>1. \A m \in Proc \X (1..MaxPages) :
             m \in Mappings(f)' <=> m = <<p, n>> \/ m \in Mappings(f)
      BY <2>1, <2>5
    <3> QED
      BY <2>2, <2>3, <2>5, <3>1
  <2>6. CASE ~(e.frame = f /\ "SHM" \notin e.flags)
    <3>1. \A m \in Proc \X (1..MaxPages) : m \in Mappings(f)' <=> m \in Mappings(f)
      BY <2>1, <2>4, <2>6
    <3> QED
      BY <2>2, <2>6, <3>1
  <2> QED
    BY <2>5, <2>6
<1>8. Len(pt[p]) \in Nat
  BY <1>1
<1> QED
  BY <1>3, <1>4, <1>5, <1>6, <1>7, <1>8

\* The last page is dropped.
LEMMA LosePage ==
    ASSUME TypeOK, SizeInv, NEW p \in Proc, pt[p] # <<>>,
           pt' = [pt EXCEPT ![p] = SubSeq(@, 1, Len(@) - 1)]
    PROVE  /\ pt' \in [Proc -> Seq(Entry)]
           /\ Len(pt[p]) \in 1..MaxPages /\ Len(pt'[p]) = Len(pt[p]) - 1
           /\ \A i \in 1..Len(pt'[p]) : pt'[p][i] = pt[p][i]
           /\ \A q \in Proc \ {p} : pt'[q] = pt[q]
           /\ \A f : Mappings(f)' = Mappings(f) \ {<<p, Len(pt[p])>>}
<1>1. MaxPages \in Nat /\ pt \in [Proc -> Seq(Entry)] /\ pt[p] \in Seq(Entry)
  BY CowAssumption DEF TypeOK
<1> DEFINE n == Len(pt[p])
<1>2. n \in 1..MaxPages
  BY <1>1 DEF SizeInv
<1>3. pt' \in [Proc -> Seq(Entry)]
  BY <1>1, <1>2
<1>4. /\ pt'[p] = SubSeq(pt[p], 1, n - 1) /\ Len(pt'[p]) = n - 1
      /\ \A i \in 1..Len(pt'[p]) : pt'[p][i] = pt[p][i]
  <2>1. pt'[p] = SubSeq(pt[p], 1, n - 1)
    BY <1>1
  <2>2. n \in Nat /\ n - 1 \in 0..n
    BY <1>1, <1>2
  <2>3. \A i \in 1..(n - 1) : pt[p][i] \in Entry
    BY <1>1, <2>2
  <2>4. /\ Len(SubSeq(pt[p], 1, n - 1)) = IF 1 <= n - 1 THEN (n - 1) - 1 + 1 ELSE 0
        /\ \A i \in 1..((n - 1) - 1 + 1) : SubSeq(pt[p], 1, n - 1)[i] = pt[p][1 + i - 1]
    BY <2>2, <2>3, SubSeqProperties
  <2> HIDE DEF n
  <2> QED
    BY <2>1, <2>2, <2>4
<1>5. \A q \in Proc \ {p} : pt'[q] = pt[q]
  BY <1>1
<1>6. ASSUME NEW f
      PROVE  Mappings(f)' = Mappings(f) \ {<<p, n>>}
  <2>1. ASSUME NEW q \in Proc, NEW i \in 1..MaxPages
        PROVE  <<q, i>> \in Mappings(f)' <=>
                  <<q, i>> \in Mappings(f) /\ <<q, i>> # <<p, n>>
    <3>1. CASE q # p
      BY <1>5, <3>1 DEF Mappings
    <3>2. CASE q = p /\ i = n
      BY <1>1, <1>2, <1>4, <3>2 DEF Mappings
    <3>3. CASE q = p /\ i # n
      <4>1. i <= Len(pt'[p]) <=> i <= Len(pt[p])
        BY <1>1, <1>2, <1>4, <3>3
      <4>2. i <= Len(pt'[p]) => pt'[p][i] = pt[p][i]
        BY <1>1, <1>2, <1>4
      <4> QED
        BY <3>3, <4>1, <4>2 DEF Mappings
    <3> QED
      BY <3>1, <3>2, <3>3
  <2>2. Mappings(f)' \subseteq Proc \X (1..MaxPages) /\ Mappings(f) \subseteq Proc \X (1..MaxPages)
    BY DEF Mappings
  <2> HIDE DEF n
  <2> QED
    BY <2>1, <2>2
<1> QED
  BY <1>1, <1>2, <1>3, <1>4, <1>5, <1>6

\* A page-table entry changes.
LEMMA SetPage ==
    ASSUME TypeOK, SizeInv, NEW p \in Proc, NEW n \in 1..Len(pt[p]), NEW e \in Entry,
           pt' = [pt EXCEPT ![p][n] = e]
    PROVE  /\ pt' \in [Proc -> Seq(Entry)]
           /\ n \in 1..MaxPages /\ Len(pt'[p]) = Len(pt[p])
           /\ pt'[p][n] = e
           /\ \A i \in 1..Len(pt[p]) : i # n => pt'[p][i] = pt[p][i]
           /\ \A q \in Proc \ {p} : pt'[q] = pt[q]
           /\ \A f : Mappings(f)' = IF e.frame = f /\ "SHM" \notin e.flags
                                    THEN Mappings(f) \cup {<<p, n>>}
                                    ELSE Mappings(f) \ {<<p, n>>}
<1>1. MaxPages \in Nat /\ pt \in [Proc -> Seq(Entry)] /\ pt[p] \in Seq(Entry)
  BY CowAssumption DEF TypeOK
<1>2. n \in 1..MaxPages
  BY <1>1 DEF SizeInv
<1>3. pt'[p] = [pt[p] EXCEPT ![n] = e]
  BY <1>1
<1>4. /\ Len(pt'[p]) = Len(pt[p]) /\ pt'[p][n] = e /\ pt'[p] \in Seq(Entry)
      /\ \A i \in 1..Len(pt[p]) : i # n => pt'[p][i] = pt[p][i]
  BY <1>1, <1>3
<1>5. \A q \in Proc \ {p} : pt'[q] = pt[q]
  BY <1>1
<1>6. pt' \in [Proc -> Seq(Entry)]
  BY <1>1, <1>4, <1>5
<1>7. ASSUME NEW f
      PROVE  Mappings(f)' = IF e.frame = f /\ "SHM" \notin e.flags
                            THEN Mappings(f) \cup {<<p, n>>} ELSE Mappings(f) \ {<<p, n>>}
  <2>1. ASSUME NEW q \in Proc, NEW i \in 1..MaxPages
        PROVE  <<q, i>> \in Mappings(f)' <=>
                  IF <<q, i>> = <<p, n>> THEN e.frame = f /\ "SHM" \notin e.flags
                  ELSE <<q, i>> \in Mappings(f)
    <3>1. CASE q # p
      BY <1>5, <3>1 DEF Mappings
    <3>2. CASE q = p /\ i = n
      BY <1>1, <1>2, <1>4, <3>2 DEF Mappings
    <3>3. CASE q = p /\ i # n
      <4>1. i <= Len(pt[p]) => pt'[p][i] = pt[p][i]
        BY <1>1, <1>4, <3>3
      <4> QED
        BY <1>4, <3>3, <4>1 DEF Mappings
    <3> QED
      BY <3>1, <3>2, <3>3
  <2>2. Mappings(f)' \subseteq Proc \X (1..MaxPages) /\ Mappings(f) \subseteq Proc \X (1..MaxPages)
    BY DEF Mappings
  <2>3. <<p, n>> \in Proc \X (1..MaxPages)
    BY <1>2
  <2> QED
    BY <2>1, <2>2, <2>3
<1> QED
  BY <1>2, <1>4, <1>5, <1>6, <1>7

-----------------------------------------------------------------------------
(* Whoever drops the last counted reference is the only owner *)

\* The mapping that an uncounted reference is about, and its twin in the
\* parent, from which it was copied.
LEMMA Twins ==
    ASSUME IInv, NEW f, NEW q \in Uncounted(f)
    PROVE  LET n == Len(pt[child[q]])
           IN  /\ q \in Proc /\ pc[q] = "addref" /\ child[q] \in Proc
               /\ pc[child[q]] = "embryo" /\ n \in 1..MaxPages
               /\ <<q, n>> \in Mappings(f) /\ <<child[q], n>> \in Mappings(f)
<1> DEFINE c == child[q]
           n == Len(pt[c])
<1>1. q \in Proc /\ pc[q] = "addref" /\ pt[c][n].frame = f /\ c \in Proc
  BY DEF Uncounted, IInv, TypeOK
<1>2. /\ pc[c] = "embryo" /\ n > 0 /\ n <= Len(pt[q])
      /\ \A i \in 1..Len(pt[q]) : ~IsShm(q, i)
      /\ \A i \in 1..n : pt[c][i] = pt[q][i]
  BY <1>1 DEF IInv, ForkInv, Forking, Copying
<1>3. n \in 1..MaxPages
  <2>1. pt[c] \in Seq(Entry) /\ Len(pt[c]) <= MaxPages /\ MaxPages \in Nat
    BY <1>1, CowAssumption DEF IInv, TypeOK, SizeInv
  <2> QED
    BY <1>2, <2>1
<1>4. pt[q] \in Seq(Entry)
  BY <1>1 DEF IInv, TypeOK
<1>5. pt[q][n] = pt[c][n] /\ ~IsShm(q, n) /\ ~IsShm(c, n)
  BY <1>2, <1>3, <1>4 DEF IsShm
<1> HIDE DEF n
<1>6. <<q, n>> \in Mappings(f) /\ <<c, n>> \in Mappings(f)
  BY <1>1, <1>2, <1>3, <1>5, MappingIs DEF n
<1> QED
  BY <1>1, <1>2, <1>3, <1>6 DEF n

\* An owner that is no part of a fork() leaves, when the count is at most one,
\* no room for another.
LEMMA LoneOwner ==
    ASSUME IInv, NEW f \in Frame, ref[f] <= 1,
           \/ \E p \in Proc, i \in 1..MaxPages :
                 <<p, i>> \in Mappings(f) /\ pc[p] \notin {"addref", "embryo"}
           \/ Dropping(f) # {}
           \/ shmframe = f
    PROVE  Uncounted(f) = {} /\ Owned(f) = 1 /\ ref[f] = 1
<1> DEFINE M == Mappings(f)
           U == Uncounted(f)
           D == Dropping(f)
           place(q) == <<q, Len(pt[child[q]])>>
<1>1. /\ IsFiniteSet(M) /\ Cardinality(M) \in Nat
      /\ IsFiniteSet(U) /\ Cardinality(U) \in Nat
      /\ IsFiniteSet(D) /\ Cardinality(D) \in Nat
  BY OwnersFinite
<1>2. Owned(f) = ref[f] + Cardinality(U) /\ ref[f] \in Nat
  BY RefsCountOwnersIs DEF IInv, TypeOK
<1>3. Owned(f) = Cardinality(M) + Cardinality(D) + IF shmframe = f THEN 1 ELSE 0
  BY DEF Owned
<1>4. Cardinality(D) = 0 <=> D = {}
  BY <1>1, FS_EmptySet
<1>5. Cardinality(M) = 0 <=> M = {}
  BY <1>1, FS_EmptySet
<1> HIDE DEF M, U, D
<1>6. Owned(f) >= 1
  <2>1. M # {} \/ D # {} \/ shmframe = f
    BY DEF M, D
  <2> QED
    BY <1>1, <1>3, <1>4, <1>5, <2>1
\* Every parent has a mapping, and one child has another.
<1>7. ASSUME NEW T \in SUBSET M, \A q \in U : place(q) \in T
      PROVE  Cardinality(U) <= Cardinality(T)
  <2> DEFINE h == [q \in U |-> place(q)]
  <2>1. h \in [U -> T]
    BY <1>7
  <2>2. \A a, b \in U : h[a] = h[b] => a = b
    OBVIOUS
  <2>3. h \in Injection(U, T)
    BY <2>1, <2>2 DEF Injection, IsInjective
  <2>4. IsFiniteSet(T)
    BY <1>1, FS_Subset
  <2> HIDE DEF h
  <2> QED
    BY <2>3, <2>4, FS_Injection
<1>8. U = {}
  <2> SUFFICES ASSUME NEW q0 \in U PROVE FALSE
    OBVIOUS
  <2> DEFINE twin == <<child[q0], Len(pt[child[q0]])>>
  <2>1. twin \in M /\ pc[child[q0]] = "embryo" /\ child[q0] \in Proc
    BY Twins DEF M, U
  <2>2. \A q \in U : place(q) \in M /\ q \in Proc /\ pc[q] = "addref"
    BY Twins DEF M, U
  <2>3. \A q \in U : place(q) # twin
    BY <2>1, <2>2
  <2> DEFINE T == M \ {twin}
  <2>4. IsFiniteSet(T) /\ Cardinality(T) = Cardinality(M) - 1
    <3>1. twin \in M
      BY <2>1
    <3> HIDE DEF twin
    <3> QED
      BY <1>1, <3>1, FS_RemoveElement
  <2>5. \A q \in U : place(q) \in T
    BY <2>2, <2>3
  <2>6. Cardinality(U) <= Cardinality(M) - 1
    <3>1. Cardinality(U) <= Cardinality(T)
      <4> HIDE DEF twin, place
      <4> QED
        BY <1>7, <2>5
    <3> HIDE DEF T
    <3> QED
      BY <2>4, <3>1
  <2>7. CASE D # {} \/ shmframe = f
    BY <1>1, <1>2, <1>3, <1>4, <2>6, <2>7
  <2>8. ASSUME NEW p \in Proc, NEW i \in 1..MaxPages, <<p, i>> \in M,
               pc[p] \notin {"addref", "embryo"}
        PROVE  FALSE
    <3> DEFINE R == T \ {<<p, i>>}
    <3>1. <<p, i>> \in T
      BY <2>1, <2>8
    <3>2. \A q \in U : place(q) \in R
      BY <2>2, <2>5, <2>8
    <3>3. Cardinality(R) = Cardinality(T) - 1
      <4> HIDE DEF T
      <4> QED
        BY <2>4, <3>1, FS_RemoveElement
    <3>4. Cardinality(U) <= Cardinality(R)
      <4> HIDE DEF twin, place
      <4> QED
        BY <1>7, <3>2
    <3> HIDE DEF R, T
    <3> QED
      BY <1>1, <1>2, <1>3, <2>4, <3>3, <3>4
  <2>9. CASE \E p \in Proc, i \in 1..MaxPages :
                <<p, i>> \in M /\ pc[p] \notin {"addref", "embryo"}
    BY <2>8, <2>9
  <2> HIDE DEF T, twin, place
  <2> QED
    BY <2>7, <2>9 DEF M, D
<1>9. Cardinality(U) = 0
  BY <1>8, FS_EmptySet
<1> QED
  BY <1>2, <1>6, <1>8, <1>9 DEF U

\* So a mapping that is not part of a fork() is the only owner.
LEMMA LoneMapping ==
    ASSUME IInv, NEW p \in Proc, NEW i \in 1..Len(pt[p]), ~IsShm(p, i),
           pc[p] \notin {"addref", "embryo"}, ref[pt[p][i].frame] <= 1
    PROVE  Sole(p, i)
<1> DEFINE f == pt[p][i].frame
<1>1. pt[p] \in Seq(Entry) /\ Len(pt[p]) <= MaxPages /\ MaxPages \in Nat
  BY CowAssumption DEF IInv, TypeOK, SizeInv
<1>2. i \in 1..MaxPages /\ f \in Frame
  <2>1. pt[p][i] \in Entry
    BY <1>1
  <2> QED
    BY <1>1, <2>1 DEF Entry
<1>3. <<p, i>> \in Mappings(f)
  BY <1>2, MappingIs
<1>4. Owned(f) = 1
  <2> HIDE DEF f
  <2> QED
    BY <1>2, <1>3, LoneOwner DEF f
<1> HIDE DEF f
<1>5. /\ IsFiniteSet(Mappings(f)) /\ Cardinality(Mappings(f)) \in Nat
      /\ IsFiniteSet(Dropping(f)) /\ Cardinality(Dropping(f)) \in Nat
  BY OwnersFinite
<1>6. Cardinality(Mappings(f)) # 0
  BY <1>3, <1>5, FS_EmptySet
<1>7. Cardinality(Mappings(f)) = 1 /\ Cardinality(Dropping(f)) = 0 /\ shmframe # f
  BY <1>4, <1>5, <1>6 DEF Owned
<1>8. Dropping(f) = {}
  BY <1>5, <1>7, FS_EmptySet
<1>9. Mappings(f) = {<<p, i>>}
  BY <1>3, <1>5, <1>7, FS_Singleton
<1> QED
  BY <1>7, <1>8, <1>9 DEF Sole, f

\* A page that somebody owns alone has a count of one; one that is free has no
\* owner of any kind.
LEMMA FreeUnowned ==
    ASSUME IInv, NEW f \in free
    PROVE  /\ f \in Frame /\ ref[f] = 0
           /\ Mappings(f) = {} /\ Dropping(f) = {} /\ Uncounted(f) = {} /\ shmframe # f
<1>1. f \in Frame /\ ref[f] \in Nat
  BY DEF IInv, TypeOK
<1>2. Owned(f) = 0 /\ Owned(f) = ref[f] + Cardinality(Uncounted(f))
  BY <1>1, RefsCountOwnersIs DEF IInv
<1>3. /\ IsFiniteSet(Mappings(f)) /\ Cardinality(Mappings(f)) \in Nat
      /\ IsFiniteSet(Dropping(f)) /\ Cardinality(Dropping(f)) \in Nat
      /\ IsFiniteSet(Uncounted(f)) /\ Cardinality(Uncounted(f)) \in Nat
  BY OwnersFinite
<1>4. /\ Cardinality(Mappings(f)) = 0 /\ Cardinality(Dropping(f)) = 0
      /\ Cardinality(Uncounted(f)) = 0 /\ ref[f] = 0 /\ shmframe # f
  BY <1>1, <1>2, <1>3 DEF Owned
<1> QED
  BY <1>1, <1>3, <1>4, FS_EmptySet

-----------------------------------------------------------------------------
(* Steps that leave page tables and counts alone *)

LEMMA SameOwners ==
    ASSUME RefsCountOwners,
           \A f \in Frame : /\ Mappings(f)' = Mappings(f)
                            /\ Dropping(f)' = Dropping(f)
                            /\ Uncounted(f)' = Uncounted(f),
           shmframe' = shmframe, ref' = ref, free' = free
    PROVE  RefsCountOwners'
  BY DEF RefsCountOwners

\* No change of page tables.
LEMMA SameMappings ==
    ASSUME pt' = pt
    PROVE  \A f : Mappings(f)' = Mappings(f)
  BY DEF Mappings

\* Such a step disturbs no fork() of another process.
LEMMA ForksKept ==
    ASSUME IInv, NEW p \in Proc,
           pc[p] \notin {"fork", "addref", "embryo"}, pc'[p] \notin {"fork", "addref", "embryo"},
           \A q \in Proc \ {p} : pc'[q] = pc[q] /\ pt'[q] = pt[q],
           child' = child
    PROVE  ForkInv' /\ \A f : Uncounted(f)' = Uncounted(f)
<1>1. \A q \in Proc : (Forking(q) \/ Forking(q)') =>
         q # p /\ Forking(q) /\ Forking(q)' /\ child[q] \in Proc \ {p}
  BY DEF IInv, TypeOK, ForkInv, Forking, Copying
<1>2. ASSUME NEW q \in Proc, Forking(q)' PROVE Copying(q, child[q])'
  <2>1. Copying(q, child[q])
    BY <1>1, <1>2 DEF IInv, ForkInv
  <2> QED
    BY <1>1, <1>2, <2>1 DEF Copying, IsShm
<1>3. \A q, z \in Proc : Forking(q)' /\ Forking(z)' /\ child'[q] = child'[z] => q = z
  BY <1>1 DEF IInv, ForkInv
<1>4. ASSUME NEW c \in Proc, pc'[c] = "embryo" PROVE \A i \in 1..Len(pt'[c]) : IsCow(c, i)'
  <2>1. c # p /\ pc[c] = "embryo"
    BY <1>4
  <2> QED
    BY <2>1 DEF IInv, ForkInv, IsCow
<1>5. ForkInv'
  BY <1>2, <1>3, <1>4 DEF ForkInv
<1>6. ASSUME NEW f PROVE Uncounted(f)' = Uncounted(f)
  BY <1>1 DEF Uncounted, Forking
<1> QED
  BY <1>5, <1>6

LEMMA ExitStep ==
    ASSUME IInv, Careful, NEW p \in Proc, Exit(p)
    PROVE  IInv'
<1> USE DEF IInv, Exit, memory, shm
<1>1. TypeOK'
  BY DEF TypeOK
<1>2. SizeInv' /\ FlagInv' /\ FaultInv'
  <2>1. SizeInv'
    BY DEF TypeOK, SizeInv
  <2>2. FlagInv'
    BY DEF TypeOK, FlagInv, IsCow, IsShm
  <2>3. FaultInv'
    BY DEF TypeOK, FaultInv, IsCow
  <2> QED
    BY <2>1, <2>2, <2>3
<1>3. ForkInv'
  <2>1. /\ pc[p] \notin {"fork", "addref", "embryo"} /\ pc'[p] \notin {"fork", "addref", "embryo"}
        /\ \A q \in Proc \ {p} : pc'[q] = pc[q] /\ pt'[q] = pt[q]
        /\ child' = child
    BY DEF TypeOK
  <2> HIDE DEF IInv
  <2> QED
    BY <2>1, ForksKept
<1>4. \A f : Mappings(f)' = Mappings(f) /\ Dropping(f)' = Dropping(f)
             /\ Uncounted(f)' = Uncounted(f)
  BY SameMappings DEF TypeOK, Dropping, Uncounted
<1>5. ShmInv'
  BY <1>4 DEF TypeOK, ShmInv, Live, IsShm
<1>6. RefsCountOwners'
  BY <1>4, SameOwners
<1>7. SoleInv'
  BY <1>4 DEF TypeOK, SoleInv, Sole, IsCow, IsShm
<1> QED
  BY <1>1, <1>2, <1>3, <1>5, <1>6, <1>7

LEMMA ReapStep ==
    ASSUME IInv, Careful, NEW p \in Proc, Reap(p)
    PROVE  IInv'
<1> USE DEF IInv, Reap, memory, shm
<1>1. TypeOK'
  BY DEF TypeOK
<1>2. SizeInv' /\ FlagInv' /\ FaultInv'
  <2>1. SizeInv'
    BY DEF TypeOK, SizeInv
  <2>2. FlagInv'
    BY DEF TypeOK, FlagInv, IsCow, IsShm
  <2>3. FaultInv'
    BY DEF TypeOK, FaultInv, IsCow
  <2> QED
    BY <2>1, <2>2, <2>3
<1>3. ForkInv'
  <2>1. \A q \in Proc : Forking(q)' => Forking(q) /\ pc'[q] = pc[q] /\ pc'[child[q]] = pc[child[q]]
    BY DEF TypeOK, ForkInv, Forking, Copying
  <2>2. ASSUME NEW q \in Proc, Forking(q)' PROVE Copying(q, child[q])'
    <3>1. Copying(q, child[q])
      BY <2>1, <2>2 DEF ForkInv
    <3> QED
      BY <2>1, <2>2, <3>1 DEF Copying, IsShm
  <2>3. \A c \in Proc : pc'[c] = "embryo" => pc[c] = "embryo"
    BY DEF TypeOK
  <2>4. /\ \A q, z \in Proc : Forking(q)' /\ Forking(z)' /\ child'[q] = child'[z] => q = z
        /\ \A z \in Proc : pc'[z] = "embryo" => \A i \in 1..Len(pt[z]) : IsCow(z, i)
    BY <2>1, <2>3 DEF ForkInv
  <2> QED
    BY <2>2, <2>4 DEF ForkInv, IsCow
<1>4. \A f : Mappings(f)' = Mappings(f) /\ Dropping(f)' = Dropping(f)
             /\ Uncounted(f)' = Uncounted(f)
  BY SameMappings DEF TypeOK, Dropping, Uncounted
<1>5. ShmInv'
  BY <1>4 DEF TypeOK, ShmInv, Live, IsShm
<1>6. RefsCountOwners'
  BY <1>4, SameOwners
<1>7. SoleInv'
  BY <1>4 DEF TypeOK, SoleInv, Sole, IsCow, IsShm
<1> QED
  BY <1>1, <1>2, <1>3, <1>5, <1>6, <1>7

LEMMA ForkStep ==
    ASSUME IInv, Careful, NEW p \in Proc, NEW c \in Proc, Fork(p, c)
    PROVE  IInv'
<1> USE DEF IInv, Fork, memory, shm
<1>1. TypeOK'
  BY DEF TypeOK
<1>2. SizeInv' /\ FlagInv' /\ FaultInv'
  <2>1. SizeInv'
    BY DEF TypeOK, SizeInv
  <2>2. FlagInv'
    BY DEF TypeOK, FlagInv, IsCow, IsShm
  <2>3. FaultInv'
    BY DEF TypeOK, FaultInv, IsCow
  <2> QED
    BY <2>1, <2>2, <2>3
<1>3. ForkInv'
  <2>1. \A i \in 1..Len(pt[p]) : ~IsShm(p, i)
    BY DEF Careful, IsShm
  <2>2. pt[c] = <<>> /\ p # c /\ Len(pt[p]) \in Nat
    BY DEF TypeOK, SizeInv
  <2>3. \A q \in Proc : Forking(q)' /\ q # p =>
           /\ Forking(q) /\ pc'[q] = pc[q] /\ child'[q] = child[q]
           /\ pc'[child[q]] = pc[child[q]] /\ child[q] # c
    BY DEF TypeOK, ForkInv, Forking, Copying
  <2>4. \A q \in Proc : Forking(q)' => Copying(q, child[q])'
    <3>1. ASSUME NEW q \in Proc, Forking(q)', q # p PROVE Copying(q, child[q])'
      <4>1. Copying(q, child[q])
        BY <2>3, <3>1 DEF ForkInv
      <4> QED
        BY <2>3, <3>1, <4>1 DEF Copying, IsShm
    <3>2. Copying(p, child[p])'
      <4>1. child'[p] = c /\ pc'[c] = "embryo" /\ pc'[p] = "fork"
        BY <2>2 DEF TypeOK
      <4>2. Len(pt[c]) = 0 /\ pt' = pt
        BY <2>2
      <4>3. \A i \in 1..Len(pt'[c]) : pt'[c][i] = pt'[p][i]
        BY <4>2
      <4>4. \A i \in 1..Len(pt'[p]) : ~IsShm(p, i)'
        BY <2>1, <4>2 DEF IsShm
      <4>5. Len(pt'[c]) <= Len(pt'[p])
        BY <2>2, <4>2
      <4> HIDE DEF Fork, IInv
      <4> QED
        BY <4>1, <4>3, <4>4, <4>5 DEF Copying
    <3> QED
      BY <3>1, <3>2
  <2>5. /\ \A q, z \in Proc : Forking(q)' /\ Forking(z)' /\ child'[q] = child'[z] => q = z
        /\ \A z \in Proc : pc'[z] = "embryo" => \A i \in 1..Len(pt[z]) : IsCow(z, i)
    <3>1. \A q, z \in Proc : Forking(q)' /\ Forking(z)' /\ child'[q] = child'[z] => q = z
      <4>1. child'[p] = c
        BY DEF TypeOK
      <4>2. \A q \in Proc : Forking(q)' /\ q # p => child'[q] # c
        BY <2>3
      <4> QED
        BY <2>3, <4>1, <4>2 DEF ForkInv
    <3>2. ASSUME NEW z \in Proc, pc'[z] = "embryo" PROVE \A i \in 1..Len(pt[z]) : IsCow(z, i)
      <4>1. z = c \/ pc[z] = "embryo"
        BY <3>2 DEF TypeOK
      <4> QED
        BY <2>2, <4>1 DEF ForkInv
    <3> QED
      BY <3>1, <3>2
  <2> QED
    BY <2>4, <2>5 DEF ForkInv, IsCow
<1>4. \A f : Mappings(f)' = Mappings(f) /\ Dropping(f)' = Dropping(f)
             /\ Uncounted(f)' = Uncounted(f)
  <2>1. \A q \in Proc : pc[q] = "addref" <=> pc'[q] = "addref"
    BY DEF TypeOK
  <2>2. \A q \in Proc : pc[q] = "addref" => child'[q] = child[q]
    BY DEF TypeOK
  <2>3. \A f : Uncounted(f)' = Uncounted(f)
    BY <2>1, <2>2 DEF Uncounted
  <2> QED
    BY <2>3, SameMappings DEF TypeOK, Dropping
<1>5. ShmInv'
  BY <1>4 DEF TypeOK, ShmInv, Live, IsShm, SizeInv
<1>6. RefsCountOwners'
  BY <1>4, SameOwners
<1>7. SoleInv'
  BY <1>4 DEF TypeOK, SoleInv, Sole, IsCow, IsShm
<1> QED
  BY <1>1, <1>2, <1>3, <1>5, <1>6, <1>7

LEMMA ForkDoneStep ==
    ASSUME IInv, Careful, NEW p \in Proc, ForkDone(p)
    PROVE  IInv'
<1> USE DEF IInv, ForkDone, memory, shm
<1>0. child[p] \in Proc /\ pc[child[p]] = "embryo" /\ pc[p] = "fork"
  BY DEF TypeOK, ForkInv, Forking, Copying
<1>1. TypeOK'
  BY <1>0 DEF TypeOK
<1>2. SizeInv' /\ FlagInv' /\ FaultInv'
  <2>1. SizeInv'
    BY <1>0 DEF TypeOK, SizeInv
  <2>2. FlagInv'
    BY <1>0 DEF TypeOK, FlagInv, IsCow, IsShm
  <2>3. FaultInv'
    BY <1>0 DEF TypeOK, FaultInv, IsCow
  <2> QED
    BY <2>1, <2>2, <2>3
<1>3. ForkInv'
  <2>1. \A q \in Proc : Forking(q)' =>
           /\ Forking(q) /\ q # p /\ pc'[q] = pc[q] /\ child'[q] = child[q]
           /\ pc'[child[q]] = pc[child[q]]
    BY <1>0 DEF TypeOK, ForkInv, Forking, Copying
  <2>2. ASSUME NEW q \in Proc, Forking(q)' PROVE Copying(q, child[q])'
    <3>1. Copying(q, child[q])
      BY <2>1, <2>2 DEF ForkInv
    <3> QED
      BY <2>1, <2>2, <3>1 DEF Copying, IsShm
  <2>3. \A c \in Proc : pc'[c] = "embryo" => pc[c] = "embryo"
    BY <1>0 DEF TypeOK
  <2>4. /\ \A q, z \in Proc : Forking(q)' /\ Forking(z)' /\ child'[q] = child'[z] => q = z
        /\ \A z \in Proc : pc'[z] = "embryo" => \A i \in 1..Len(pt[z]) : IsCow(z, i)
    BY <2>1, <2>3 DEF ForkInv
  <2> QED
    BY <2>2, <2>4 DEF ForkInv, IsCow
<1>4. \A f : Mappings(f)' = Mappings(f) /\ Dropping(f)' = Dropping(f)
             /\ Uncounted(f)' = Uncounted(f)
  <2>1. \A q \in Proc : pc[q] = "addref" <=> pc'[q] = "addref"
    BY <1>0 DEF TypeOK
  <2>2. \A q \in Proc : pc[q] = "addref" => child'[q] = child[q]
    BY <1>0 DEF TypeOK
  <2>3. \A f : Uncounted(f)' = Uncounted(f)
    BY <2>1, <2>2 DEF Uncounted
  <2> QED
    BY <1>0, <2>3, SameMappings DEF TypeOK, Dropping
<1>5. ShmInv'
  <2>1. \A i \in 1..Len(pt[child[p]]) : ~IsShm(child[p], i)
    BY <1>0 DEF ForkInv, FlagInv
  <2>2. \A q \in Proc : q \in Live' => q \in Live
    BY <1>0 DEF TypeOK, Live
  <2>3. shmfd \subseteq shmfd' /\ (shmfd' # {} <=> shmfd # {}) /\ shmfd' \subseteq shmfd \cup {child[p]}
    OBVIOUS
  <2>4. \A q \in shmfd' : pc'[q] \notin {"none", "embryo"}
    BY <1>0, <2>3 DEF TypeOK, ShmInv
  <2> QED
    BY <1>4, <2>2, <2>3, <2>4 DEF ShmInv, Live, IsShm
<1>6. RefsCountOwners'
  BY <1>4, SameOwners
<1>7. SoleInv'
  BY <1>0, <1>4 DEF TypeOK, SoleInv, Sole, IsCow, IsShm
<1> QED
  BY <1>1, <1>2, <1>3, <1>5, <1>6, <1>7

LEMMA StoreStep ==
    ASSUME IInv, Careful, NEW p \in Proc, NEW i \in 1..MaxPages, NEW d \in Data, Store(p, i, d)
    PROVE  IInv'
<1> USE DEF IInv, Store, shm
<1>1. TypeOK'
  BY DEF TypeOK
<1>2. SizeInv' /\ FlagInv' /\ FaultInv'
  <2>1. SizeInv'
    BY DEF TypeOK, SizeInv
  <2>2. FlagInv'
    BY DEF TypeOK, FlagInv, IsCow, IsShm
  <2>3. FaultInv'
    BY DEF TypeOK, FaultInv, IsCow
  <2> QED
    BY <2>1, <2>2, <2>3
<1>3. ForkInv'
  BY DEF ForkInv, Forking, Copying, IsCow, IsShm
<1>4. \A f : Mappings(f)' = Mappings(f) /\ Dropping(f)' = Dropping(f)
             /\ Uncounted(f)' = Uncounted(f)
  BY SameMappings DEF Dropping, Uncounted
<1>5. ShmInv'
  BY <1>4 DEF ShmInv, Live, IsShm
<1>6. RefsCountOwners'
  BY <1>4, SameOwners
<1>7. SoleInv'
  BY <1>4 DEF SoleInv, Sole, IsCow, IsShm
<1> QED
  BY <1>1, <1>2, <1>3, <1>5, <1>6, <1>7

\* A count of one is read by the only owner.
LEMMA FaultStep ==
    ASSUME IInv, Careful, NEW p \in Proc, NEW i \in 1..MaxPages, Fault(p, i)
    PROVE  IInv'
<1> USE DEF IInv, Fault, memory, shm
<1>0. i \in 1..Len(pt[p]) /\ pc[p] = "run" /\ MaxPages \in Nat /\ pt[p] \in Seq(Entry)
  BY CowAssumption DEF TypeOK
<1>1. TypeOK'
  BY <1>0 DEF TypeOK
<1>2. SizeInv' /\ FlagInv'
  BY <1>0 DEF TypeOK, SizeInv, FlagInv, IsCow, IsShm
<1>3. FaultInv'
  BY <1>0 DEF TypeOK, FaultInv, IsCow
<1>4. ForkInv'
  BY <1>0 DEF TypeOK, ForkInv, Forking, Copying, IsCow, IsShm
<1>5. \A f : Mappings(f)' = Mappings(f) /\ Dropping(f)' = Dropping(f)
             /\ Uncounted(f)' = Uncounted(f)
  BY <1>0, SameMappings DEF TypeOK, Dropping, Uncounted
<1>6. ShmInv'
  BY <1>0, <1>5 DEF TypeOK, ShmInv, Live, IsShm
<1>7. RefsCountOwners'
  BY <1>5, SameOwners
<1>8. SoleInv'
  <2>1. \A q \in Proc : \A j \in 1..Len(pt[q]) : Sole(q, j) => Sole(q, j)'
    BY <1>5 DEF Sole
  <2>2. ASSUME pc'[p] = "reclaim" PROVE Sole(p, i)
    <3>1. IsCow(p, i) /\ ref[pt[p][i].frame] = 1
      BY <1>0, <2>2 DEF TypeOK, LastOwner, IsCow
    <3>2. ~IsShm(p, i)
      BY <1>0, <3>1 DEF FlagInv
    <3> QED
      BY <1>0, <3>1, <3>2, LoneMapping
  <2>3. pc'[p] = "reclaim" => at'[p] = i
    BY <1>0 DEF TypeOK
  <2> QED
    BY <1>0, <2>1, <2>2, <2>3 DEF TypeOK, SoleInv, IsCow, IsShm
<1> QED
  BY <1>1, <1>2, <1>3, <1>4, <1>6, <1>7, <1>8

LEMMA CopyNoMemoryStep ==
    ASSUME IInv, Careful, NEW p \in Proc, CopyNoMemory(p)
    PROVE  IInv'
<1> USE DEF IInv, CopyNoMemory, memory, shm
<1>1. TypeOK'
  BY CowAssumption DEF TypeOK
<1>2. SizeInv' /\ FlagInv' /\ FaultInv'
  <2>1. SizeInv'
    BY DEF TypeOK, SizeInv
  <2>2. FlagInv'
    BY DEF TypeOK, FlagInv, IsCow, IsShm
  <2>3. FaultInv'
    BY DEF TypeOK, FaultInv, IsCow
  <2> QED
    BY <2>1, <2>2, <2>3
<1>3. ForkInv'
  <2>1. /\ pc[p] \notin {"fork", "addref", "embryo"} /\ pc'[p] \notin {"fork", "addref", "embryo"}
        /\ \A q \in Proc \ {p} : pc'[q] = pc[q] /\ pt'[q] = pt[q]
        /\ child' = child
    BY DEF TypeOK
  <2> HIDE DEF IInv
  <2> QED
    BY <2>1, ForksKept
<1>4. \A f : Mappings(f)' = Mappings(f) /\ Dropping(f)' = Dropping(f)
             /\ Uncounted(f)' = Uncounted(f)
  BY SameMappings DEF TypeOK, Dropping, Uncounted
<1>5. ShmInv'
  BY <1>4 DEF TypeOK, ShmInv, Live, IsShm
<1>6. RefsCountOwners'
  BY <1>4, SameOwners
<1>7. SoleInv'
  BY <1>4 DEF TypeOK, SoleInv, Sole, IsCow, IsShm
<1> QED
  BY <1>1, <1>2, <1>3, <1>5, <1>6, <1>7

LEMMA ShmPassStep ==
    ASSUME IInv, Careful, NEW p \in Proc, NEW to \in Proc, ShmPass(p, to)
    PROVE  IInv'
<1> USE DEF IInv, ShmPass, memory
<1>1. TypeOK'
  BY DEF TypeOK
<1>2. SizeInv' /\ FlagInv' /\ FaultInv'
  <2>1. SizeInv'
    BY DEF TypeOK, SizeInv
  <2>2. FlagInv'
    BY DEF TypeOK, FlagInv, IsCow, IsShm
  <2>3. FaultInv'
    BY DEF TypeOK, FaultInv, IsCow
  <2> QED
    BY <2>1, <2>2, <2>3
<1>3. ForkInv'
  BY DEF ForkInv, Forking, Copying, IsCow, IsShm
<1>4. \A f : Mappings(f)' = Mappings(f) /\ Dropping(f)' = Dropping(f)
             /\ Uncounted(f)' = Uncounted(f)
  BY SameMappings DEF Dropping, Uncounted
<1>5. ShmInv'
  BY <1>4 DEF ShmInv, Live, IsShm
<1>6. RefsCountOwners'
  BY <1>4, SameOwners
<1>7. SoleInv'
  BY <1>4 DEF SoleInv, Sole, IsCow, IsShm
<1> QED
  BY <1>1, <1>2, <1>3, <1>5, <1>6, <1>7

-----------------------------------------------------------------------------
(* Steps of a process that takes no part in a fork() *)

\* kfree() by an owner that then owns it no more.
LEMMA KfreeCounts ==
    ASSUME IInv, NEW g \in Frame, Kfree(g),
           ref[g] <= 1 => Owned(g) = 1 /\ Uncounted(g) = {},
           Owned(g)' = Owned(g) - 1,
           \A f \in Frame \ {g} : Owned(f)' = Owned(f),
           \A f \in Frame : Uncounted(f)' = Uncounted(f)
    PROVE  /\ RefsCountOwners'
           /\ ref' \in [Frame -> Nat] /\ free' \subseteq Frame /\ content' \in [Frame -> Data]
<1>1. /\ ref \in [Frame -> Nat] /\ free \subseteq Frame /\ content \in [Frame -> Data]
      /\ Junk \in Data
  BY CowAssumption DEF IInv, TypeOK
<1>2. \A f \in Frame : /\ Owned(f) = ref[f] + Cardinality(Uncounted(f))
                       /\ f \in free <=> Owned(f) = 0
  BY RefsCountOwnersIs DEF IInv
<1>3. \A f \in Frame : Owned(f) \in Nat /\ Cardinality(Uncounted(f)) \in Nat
  BY OwnersFinite
<1>4. /\ ref' \in [Frame -> Nat] /\ free' \subseteq Frame /\ content' \in [Frame -> Data]
  BY <1>1 DEF Kfree
<1>5. ASSUME NEW f \in Frame \ {g}
      PROVE  /\ Owned(f)' = ref'[f] + Cardinality(Uncounted(f)')
             /\ f \in free' <=> Owned(f)' = 0
  BY <1>1, <1>2, <1>5 DEF Kfree
<1>6. /\ Owned(g)' = ref'[g] + Cardinality(Uncounted(g)')
      /\ g \in free' <=> Owned(g)' = 0
  <2>1. CASE ref[g] <= 1
    <3>1. Owned(g) = 1 /\ Cardinality(Uncounted(g)') = 0
      BY <2>1, FS_EmptySet
    <3>2. ref'[g] = 0 /\ g \in free'
      BY <1>1, <2>1 DEF Kfree
    <3> QED
      BY <3>1, <3>2
  <2>2. CASE ~(ref[g] <= 1)
    <3>1. ref'[g] = ref[g] - 1 /\ free' = free
      BY <1>1, <2>2 DEF Kfree
    <3>2. Owned(g) = ref[g] + Cardinality(Uncounted(g)) /\ ref[g] >= 2 /\ ref[g] \in Nat
      BY <1>1, <1>2, <2>2
    <3> QED
      BY <1>2, <1>3, <3>1, <3>2
  <2> QED
    BY <2>1, <2>2
<1>7. RefsCountOwners'
  BY <1>5, <1>6 DEF RefsCountOwners, Owned
<1> QED
  BY <1>4, <1>7

\* A mapping that is dropped is one owner fewer.
LEMMA OwnedLess ==
    ASSUME NEW f, NEW m, m \in Mappings(f),
           Mappings(f)' = Mappings(f) \ {m},
           Dropping(f)' = Dropping(f), shmframe' = shmframe
    PROVE  Owned(f)' = Owned(f) - 1
<1>1. IsFiniteSet(Mappings(f)) /\ Cardinality(Mappings(f)) \in Nat /\ Cardinality(Dropping(f)) \in Nat
  BY OwnersFinite
<1>2. Cardinality(Mappings(f) \ {m}) = Cardinality(Mappings(f)) - 1
  BY <1>1, FS_RemoveElement
<1> QED
  BY <1>1, <1>2 DEF Owned

LEMMA OwnedSame ==
    ASSUME NEW f, Mappings(f)' = Mappings(f), Dropping(f)' = Dropping(f),
           (shmframe' = f) <=> (shmframe = f)
    PROVE  Owned(f)' = Owned(f)
  BY DEF Owned

\* deallocuvm() of one page.
LEMMA DropLastStep ==
    ASSUME IInv, Careful, NEW p \in Proc, pc[p] \in {"run", "dying"},
           DropLast(p), UNCHANGED <<pc, at, old, child, shm>>
    PROVE  IInv'
<1> USE DEF IInv, shm
<1>n. PICK n : n = Len(pt[p])
  OBVIOUS
<1>g. PICK g : g = pt[p][n].frame
  OBVIOUS
<1>0. /\ pt' \in [Proc -> Seq(Entry)]
      /\ n \in 1..MaxPages /\ n = Len(pt[p]) /\ Len(pt'[p]) = n - 1
      /\ \A i \in 1..Len(pt'[p]) : pt'[p][i] = pt[p][i]
      /\ \A q \in Proc \ {p} : pt'[q] = pt[q]
      /\ \A f : Mappings(f)' = Mappings(f) \ {<<p, n>>}
  BY <1>n, LosePage DEF DropLast
<1>1. ForkInv' /\ \A f : Uncounted(f)' = Uncounted(f)
  BY <1>0, ForksKept
<1>2. pt[p][n] \in Entry /\ g \in Frame
  <2>1. pt[p] \in Seq(Entry)
    BY DEF TypeOK
  <2>2. pt[p][n] \in Entry
    BY <1>0, <2>1
  <2> QED
    BY <1>g, <2>2 DEF Entry
<1>3. \A f : Dropping(f)' = Dropping(f)
  BY DEF Dropping
<1>4. RefsCountOwners' /\ ref' \in [Frame -> Nat] /\ free' \subseteq Frame /\ content' \in [Frame -> Data]
  <2>1. CASE IsShm(p, n)
    <3>1. UNCHANGED memory
      BY <1>0, <2>1 DEF DropLast, IsShm
    <3>2. \A f : Mappings(f)' = Mappings(f)
      <4>1. \A f : <<p, n>> \notin Mappings(f)
        BY <1>0, <2>1, MappingIs
      <4> QED
        BY <1>0, <4>1
    <3> QED
      BY <1>1, <1>3, <3>1, <3>2, SameOwners DEF TypeOK, memory
  <2>2. CASE ~IsShm(p, n)
    <3>1. Kfree(g)
      BY <1>0, <1>g, <2>2 DEF DropLast, IsShm
    <3>2. <<p, n>> \in Mappings(g)
      BY <1>0, <1>g, <2>2, MappingIs
    <3>3. ref[g] <= 1 => Owned(g) = 1 /\ Uncounted(g) = {}
      BY <1>0, <1>2, <3>2, LoneOwner
    <3>4. Owned(g)' = Owned(g) - 1
      <4> DEFINE m == <<p, n>>
      <4>1. m \in Mappings(g) /\ Mappings(g)' = Mappings(g) \ {m}
        BY <1>0, <3>2
      <4>2. Dropping(g)' = Dropping(g) /\ shmframe' = shmframe
        BY <1>3
      <4> HIDE DEF m
      <4> QED
        BY <4>1, <4>2, OwnedLess
    <3>5. ASSUME NEW f \in Frame \ {g} PROVE Owned(f)' = Owned(f)
      <4>1. <<p, n>> \notin Mappings(f)
        BY <1>0, <1>g, MappingIs
      <4>2. Mappings(f)' = Mappings(f)
        BY <1>0, <4>1
      <4> QED
        BY <1>3, <4>2, OwnedSame
    <3> HIDE DEF IInv
    <3> QED
      BY <1>1, <1>2, <3>1, <3>3, <3>4, <3>5, KfreeCounts
  <2> QED
    BY <2>1, <2>2
<1>5. TypeOK'
  BY <1>0, <1>4 DEF TypeOK
<1>6. SizeInv'
  <2>1. Len(pt'[p]) <= MaxPages /\ pc'[p] # "none"
    BY <1>0, CowAssumption
  <2> QED
    BY <1>0, <2>1 DEF SizeInv
<1>7. \A q \in Proc : \A i \in 1..Len(pt'[q]) : i \in 1..Len(pt[q]) /\ pt'[q][i] = pt[q][i]
  BY <1>0
<1>8. FlagInv'
  BY <1>7 DEF FlagInv, IsCow, IsShm
<1>9. FaultInv'
  <2>1. pc[p] \notin {"reclaim", "copy", "drop"}
    OBVIOUS
  <2> QED
    BY <1>0, <2>1 DEF FaultInv, IsCow
<1>10. ShmInv'
  <2>1. \A q \in Live' : q \in Live
    BY DEF Live
  <2>2. shmframe # NoFrame => Mappings(shmframe)' = {} /\ Dropping(shmframe)' = {}
    BY <1>0, <1>3 DEF ShmInv
  <2>3. \A q \in Live' : \A i \in 1..Len(pt'[q]) :
           IsShm(q, i)' => q \in shmfd /\ pt'[q][i].frame = shmframe
    BY <1>7, <2>1 DEF ShmInv, IsShm, Live
  <2> QED
    BY <2>2, <2>3 DEF ShmInv
<1>11. SoleInv'
  <2> SUFFICES ASSUME NEW q \in Proc, NEW i \in 1..Len(pt'[q]),
                      ~IsShm(q, i)', ~IsCow(q, i)' \/ (pc'[q] = "reclaim" /\ at'[q] = i)
               PROVE  Sole(q, i)'
    BY DEF SoleInv
  <2>1. i \in 1..Len(pt[q]) /\ pt'[q][i] = pt[q][i]
    BY <1>7
  <2>2. Sole(q, i)
    BY <2>1 DEF SoleInv, IsCow, IsShm
  <2>3. <<q, i>> # <<p, n>>
    BY <1>0, <2>1
  <2>4. Mappings(pt[q][i].frame)' = {<<q, i>>}
    BY <1>0, <2>2, <2>3 DEF Sole
  <2> QED
    BY <1>3, <2>1, <2>2, <2>4 DEF Sole
<1> QED
  BY <1>1, <1>4, <1>5, <1>6, <1>8, <1>9, <1>10, <1>11

LEMMA UnmapStep ==
    ASSUME IInv, Careful, NEW p \in Proc, Unmap(p) \/ FreeVm(p)
    PROVE  IInv'
  BY DropLastStep DEF Unmap, FreeVm

\* kalloc() of a page that then has one owner.
LEMMA KallocCounts ==
    ASSUME IInv, NEW g, NEW d \in Data, Kalloc(g, d),
           Owned(g)' = 1,
           \A f \in Frame \ {g} : Owned(f)' = Owned(f),
           \A f \in Frame : Uncounted(f)' = Uncounted(f)
    PROVE  /\ RefsCountOwners'
           /\ ref' \in [Frame -> Nat] /\ free' \subseteq Frame /\ content' \in [Frame -> Data]
<1>1. ref \in [Frame -> Nat] /\ free \subseteq Frame /\ content \in [Frame -> Data]
  BY DEF IInv, TypeOK
<1>2. g \in Frame /\ Uncounted(g) = {}
  BY FreeUnowned DEF Kalloc
<1>3. \A f \in Frame : /\ Owned(f) = ref[f] + Cardinality(Uncounted(f))
                       /\ f \in free <=> Owned(f) = 0
  BY RefsCountOwnersIs DEF IInv
<1>4. ref' \in [Frame -> Nat] /\ free' \subseteq Frame /\ content' \in [Frame -> Data]
  BY <1>1 DEF Kalloc
<1>5. ASSUME NEW f \in Frame \ {g}
      PROVE  /\ Owned(f)' = ref'[f] + Cardinality(Uncounted(f)')
             /\ f \in free' <=> Owned(f)' = 0
  BY <1>1, <1>3, <1>5 DEF Kalloc
<1>6. Cardinality(Uncounted(g)') = 0
  BY <1>2, FS_EmptySet
<1>7. /\ Owned(g)' = ref'[g] + Cardinality(Uncounted(g)')
      /\ g \in free' <=> Owned(g)' = 0
  BY <1>1, <1>2, <1>6 DEF Kalloc
<1>8. RefsCountOwners'
  BY <1>5, <1>7 DEF RefsCountOwners, Owned
<1> QED
  BY <1>4, <1>8

\* One owner: a mapping, or the shared object.
LEMMA OwnedOne ==
    ASSUME NEW f,
           \/ /\ \E m : Mappings(f)' = {m}
              /\ Dropping(f)' = {} /\ shmframe' # f
           \/ Mappings(f)' = {} /\ Dropping(f)' = {} /\ shmframe' = f
    PROVE  Owned(f)' = 1
<1>1. Cardinality({}) = 0 /\ \A m : Cardinality({m}) = 1
  BY FS_EmptySet, FS_Singleton
<1>2. CASE (\E m : Mappings(f)' = {m}) /\ Dropping(f)' = {} /\ shmframe' # f
  <2>1. Cardinality(Mappings(f)') = 1 /\ Cardinality(Dropping(f)') = 0
    BY <1>1, <1>2
  <2> QED
    BY <1>2, <2>1 DEF Owned
<1>3. CASE Mappings(f)' = {} /\ Dropping(f)' = {} /\ shmframe' = f
  <2>1. Cardinality(Mappings(f)') = 0 /\ Cardinality(Dropping(f)') = 0
    BY <1>1, <1>3
  <2> QED
    BY <1>3, <2>1 DEF Owned
<1> QED
  BY <1>2, <1>3

LEMMA GrowStep ==
    ASSUME IInv, Careful, NEW p \in Proc, Grow(p)
    PROVE  IInv'
<1> USE DEF IInv, shm
<1>g. PICK g \in free : /\ Kalloc(g, Zero)
                        /\ pt' = [pt EXCEPT ![p] = Append(@, [frame |-> g, flags |-> {"W"}, prot |-> "rw"])]
  BY DEF Grow
<1>u. pc[p] = "run" /\ Len(pt[p]) < MaxPages /\ UNCHANGED <<pc, at, old, child, shm>>
  BY DEF Grow
<1>n. PICK n : n = Len(pt[p]) + 1
  OBVIOUS
<1>e. PICK e : e = [frame |-> g, flags |-> {"W"}, prot |-> "rw"]
  OBVIOUS
<1>f. /\ g \in Frame /\ ref[g] = 0 /\ Mappings(g) = {} /\ Dropping(g) = {} /\ Uncounted(g) = {}
      /\ shmframe # g
  BY FreeUnowned
<1>t. e \in Entry /\ e.frame = g /\ e.flags = {"W"}
  BY <1>e, <1>f DEF Entry, Flag
<1>0. /\ pt' \in [Proc -> Seq(Entry)]
      /\ n - 1 = Len(pt[p]) /\ n \in 1..MaxPages /\ Len(pt'[p]) = n
      /\ pt'[p][n] = e
      /\ \A i \in 1..Len(pt[p]) : pt'[p][i] = pt[p][i]
      /\ \A q \in Proc \ {p} : pt'[q] = pt[q]
      /\ \A f : Mappings(f)' = IF g = f THEN Mappings(f) \cup {<<p, n>>} ELSE Mappings(f)
  <2>1. pt' = [pt EXCEPT ![p] = Append(@, e)]
    BY <1>g, <1>e
  <2>2. MaxPages \in Nat /\ TypeOK
    BY CowAssumption
  <2>3. /\ pt' \in [Proc -> Seq(Entry)]
        /\ Len(pt[p]) \in Nat /\ Len(pt'[p]) = n
        /\ pt'[p][n] = e
        /\ \A i \in 1..Len(pt[p]) : pt'[p][i] = pt[p][i]
        /\ \A q \in Proc \ {p} : pt'[q] = pt[q]
        /\ \A f : Mappings(f)' = IF e.frame = f /\ "SHM" \notin e.flags
                                 THEN Mappings(f) \cup {<<p, n>>} ELSE Mappings(f)
    <3>1. Len(pt[p]) < MaxPages /\ e \in Entry
      BY <1>u, <1>t
    <3>2. /\ pt' \in [Proc -> Seq(Entry)]
          /\ Len(pt[p]) \in Nat /\ Len(pt'[p]) = Len(pt[p]) + 1
          /\ pt'[p][Len(pt[p]) + 1] = e
          /\ \A i \in 1..Len(pt[p]) : pt'[p][i] = pt[p][i]
          /\ \A q \in Proc \ {p} : pt'[q] = pt[q]
          /\ \A f : Mappings(f)' = IF e.frame = f /\ "SHM" \notin e.flags
                                   THEN Mappings(f) \cup {<<p, Len(pt[p]) + 1>>}
                                   ELSE Mappings(f)
      <4> HIDE DEF IInv
      <4> QED
        BY <2>1, <2>2, <3>1, AddPage
    <3> HIDE DEF IInv
    <3> QED
      BY <1>n, <3>2
  <2> HIDE DEF IInv
  <2> QED
    BY <1>u, <1>n, <1>t, <2>2, <2>3
<1>1. ForkInv' /\ \A f : Uncounted(f)' = Uncounted(f)
  BY <1>0, <1>u, ForksKept
<1>2. \A f : Dropping(f)' = Dropping(f)
  BY <1>u DEF Dropping
<1>3. Mappings(g)' = {<<p, n>>} /\ Dropping(g)' = {} /\ shmframe' # g
  BY <1>0, <1>2, <1>f, <1>u
<1>4. RefsCountOwners' /\ ref' \in [Frame -> Nat] /\ free' \subseteq Frame /\ content' \in [Frame -> Data]
  <2>1. Owned(g)' = 1
    BY <1>3, OwnedOne
  <2>2. ASSUME NEW f \in Frame \ {g} PROVE Owned(f)' = Owned(f)
    BY <1>0, <1>2, <1>u, OwnedSame
  <2>3. Zero \in Data
    BY CowAssumption
  <2> HIDE DEF IInv
  <2> QED
    BY <1>1, <1>g, <2>1, <2>2, <2>3, KallocCounts
<1>5. TypeOK'
  BY <1>0, <1>4, <1>u DEF TypeOK
<1>6. SizeInv'
  <2>1. n <= MaxPages
    BY <1>0, CowAssumption
  <2>2. ASSUME NEW q \in Proc
        PROVE  Len(pt'[q]) <= MaxPages /\ (pc'[q] = "none" => pt'[q] = <<>>)
    <3>1. CASE q = p
      BY <1>0, <1>u, <2>1, <3>1
    <3>2. CASE q # p
      BY <1>0, <1>u, <3>2 DEF SizeInv
    <3> QED
      BY <3>1, <3>2
  <2> QED
    BY <2>2 DEF SizeInv
<1>7. \A q \in Proc : \A i \in 1..Len(pt'[q]) :
         <<q, i>> # <<p, n>> => i \in 1..Len(pt[q]) /\ pt'[q][i] = pt[q][i]
  BY <1>0
<1>8. FlagInv'
  BY <1>0, <1>7, <1>t DEF FlagInv, IsCow, IsShm
<1>9. FaultInv'
  BY <1>0, <1>u DEF FaultInv, IsCow
<1>10. ShmInv'
  <2>1. Live' = Live /\ shmfd' = shmfd /\ shmframe' = shmframe
    BY <1>u DEF Live
  <2>2. shmframe # NoFrame => Mappings(shmframe)' = {} /\ Dropping(shmframe)' = {}
    <3>1. ASSUME NEW f, f = shmframe, f # NoFrame PROVE Mappings(f)' = {} /\ Dropping(f)' = {}
      BY <1>0, <1>2, <1>f, <3>1 DEF ShmInv
    <3> QED
      BY <2>1, <3>1
  <2>3. \A q \in Live' : \A i \in 1..Len(pt'[q]) :
           IsShm(q, i)' => q \in shmfd /\ pt'[q][i].frame = shmframe
    BY <1>0, <1>7, <1>t, <2>1 DEF ShmInv, IsShm, Live
  <2> QED
    BY <1>u, <2>1, <2>2, <2>3 DEF ShmInv
<1>11. SoleInv'
  <2> SUFFICES ASSUME NEW q \in Proc, NEW i \in 1..Len(pt'[q]),
                      ~IsShm(q, i)', ~IsCow(q, i)' \/ (pc'[q] = "reclaim" /\ at'[q] = i)
               PROVE  Sole(q, i)'
    BY DEF SoleInv
  <2>1. CASE <<q, i>> = <<p, n>>
    BY <1>0, <1>3, <1>t, <2>1 DEF Sole
  <2>2. CASE <<q, i>> # <<p, n>>
    <3>1. i \in 1..Len(pt[q]) /\ pt'[q][i] = pt[q][i]
      BY <1>7, <2>2
    <3>2. Sole(q, i)
      BY <1>u, <3>1 DEF SoleInv, IsCow, IsShm
    <3>3. pt[q][i].frame # g
      BY <1>f, <3>2 DEF Sole
    <3> QED
      BY <1>0, <1>2, <1>u, <3>1, <3>2, <3>3 DEF Sole
  <2> QED
    BY <2>1, <2>2
<1> QED
  BY <1>1, <1>4, <1>5, <1>6, <1>8, <1>9, <1>10, <1>11

\* mmap() of the shared object: a mapping that is not counted.
LEMMA ShmMapStep ==
    ASSUME IInv, Careful, NEW p \in Proc, ShmMap(p)
    PROVE  IInv'
<1> USE DEF IInv, shm, memory
<1>u. /\ pc[p] = "run" /\ p \in shmfd /\ Len(pt[p]) < MaxPages
      /\ UNCHANGED <<pc, at, old, child, memory, shm>>
  BY DEF ShmMap
<1>n. PICK n : n = Len(pt[p]) + 1
  OBVIOUS
<1>e. PICK e : e = [frame |-> shmframe, flags |-> {"W", "SHM"}, prot |-> "rw"]
  OBVIOUS
<1>t. e \in Entry /\ e.frame = shmframe /\ e.flags = {"W", "SHM"}
  <2>1. shmframe \in Frame
    BY <1>u DEF ShmInv, TypeOK
  <2> QED
    BY <1>e, <2>1 DEF Entry, Flag
<1>0. /\ pt' \in [Proc -> Seq(Entry)]
      /\ n - 1 = Len(pt[p]) /\ n \in 1..MaxPages /\ Len(pt'[p]) = n
      /\ pt'[p][n] = e
      /\ \A i \in 1..Len(pt[p]) : pt'[p][i] = pt[p][i]
      /\ \A q \in Proc \ {p} : pt'[q] = pt[q]
      /\ \A f : Mappings(f)' = Mappings(f)
  <2>1. pt' = [pt EXCEPT ![p] = Append(@, e)]
    BY <1>e DEF ShmMap
  <2>2. MaxPages \in Nat /\ TypeOK
    BY CowAssumption
  <2>3. /\ pt' \in [Proc -> Seq(Entry)]
        /\ Len(pt[p]) \in Nat /\ Len(pt'[p]) = n
        /\ pt'[p][n] = e
        /\ \A i \in 1..Len(pt[p]) : pt'[p][i] = pt[p][i]
        /\ \A q \in Proc \ {p} : pt'[q] = pt[q]
        /\ \A f : Mappings(f)' = IF e.frame = f /\ "SHM" \notin e.flags
                                 THEN Mappings(f) \cup {<<p, n>>} ELSE Mappings(f)
    <3>1. Len(pt[p]) < MaxPages /\ e \in Entry
      BY <1>u, <1>t
    <3>2. /\ pt' \in [Proc -> Seq(Entry)]
          /\ Len(pt[p]) \in Nat /\ Len(pt'[p]) = Len(pt[p]) + 1
          /\ pt'[p][Len(pt[p]) + 1] = e
          /\ \A i \in 1..Len(pt[p]) : pt'[p][i] = pt[p][i]
          /\ \A q \in Proc \ {p} : pt'[q] = pt[q]
          /\ \A f : Mappings(f)' = IF e.frame = f /\ "SHM" \notin e.flags
                                   THEN Mappings(f) \cup {<<p, Len(pt[p]) + 1>>}
                                   ELSE Mappings(f)
      <4> HIDE DEF IInv
      <4> QED
        BY <2>1, <2>2, <3>1, AddPage
    <3> HIDE DEF IInv
    <3> QED
      BY <1>n, <3>2
  <2> HIDE DEF IInv
  <2> QED
    BY <1>u, <1>n, <1>t, <2>2, <2>3
<1>1. ForkInv' /\ \A f : Uncounted(f)' = Uncounted(f)
  BY <1>0, <1>u, ForksKept
<1>2. \A f : Dropping(f)' = Dropping(f)
  BY <1>u DEF Dropping
<1>3. RefsCountOwners'
  BY <1>0, <1>1, <1>2, <1>u, SameOwners
<1>4. TypeOK'
  BY <1>0, <1>u DEF TypeOK
<1>5. SizeInv'
  BY <1>0, <1>u DEF SizeInv
<1>6. \A q \in Proc : \A i \in 1..Len(pt'[q]) :
         <<q, i>> # <<p, n>> => i \in 1..Len(pt[q]) /\ pt'[q][i] = pt[q][i]
  BY <1>0
<1>7. FlagInv'
  BY <1>0, <1>6, <1>t DEF FlagInv, IsCow, IsShm
<1>8. FaultInv'
  BY <1>0, <1>u DEF FaultInv, IsCow
<1>9. ShmInv'
  <2>1. Live' = Live /\ shmfd' = shmfd /\ shmframe' = shmframe
    BY <1>u DEF Live
  <2>2. shmframe # NoFrame => Mappings(shmframe)' = {} /\ Dropping(shmframe)' = {}
    BY <1>0, <1>2, <2>1 DEF ShmInv
  <2>3. \A q \in Live' : \A i \in 1..Len(pt'[q]) :
           IsShm(q, i)' => q \in shmfd /\ pt'[q][i].frame = shmframe
    BY <1>0, <1>6, <1>t, <1>u, <2>1 DEF ShmInv, IsShm, Live
  <2> QED
    BY <1>u, <2>1, <2>2, <2>3 DEF ShmInv
<1>10. SoleInv'
  <2> SUFFICES ASSUME NEW q \in Proc, NEW i \in 1..Len(pt'[q]),
                      ~IsShm(q, i)', ~IsCow(q, i)' \/ (pc'[q] = "reclaim" /\ at'[q] = i)
               PROVE  Sole(q, i)'
    BY DEF SoleInv
  <2>1. <<q, i>> # <<p, n>>
    BY <1>0, <1>t DEF IsShm
  <2>2. i \in 1..Len(pt[q]) /\ pt'[q][i] = pt[q][i]
    BY <1>6, <2>1
  <2>3. Sole(q, i)
    BY <1>u, <2>2 DEF SoleInv, IsCow, IsShm
  <2> QED
    BY <1>0, <1>2, <1>u, <2>2, <2>3 DEF Sole
<1> QED
  BY <1>1, <1>3, <1>4, <1>5, <1>7, <1>8, <1>9, <1>10

-----------------------------------------------------------------------------
(* Steps that change one entry of a page table *)

\* An entry keeps its frame, and its owners keep it.
LEMMA SetFlags ==
    ASSUME TypeOK, SizeInv, NEW p \in Proc, NEW n \in 1..Len(pt[p]), NEW e \in Entry,
           pt' = [pt EXCEPT ![p][n] = e],
           e.frame = pt[p][n].frame, "SHM" \in e.flags <=> IsShm(p, n)
    PROVE  \A f : Mappings(f)' = Mappings(f)
<1> SUFFICES ASSUME NEW f PROVE Mappings(f)' = Mappings(f)
  OBVIOUS
<1>1. n \in 1..MaxPages
      /\ Mappings(f)' = IF e.frame = f /\ "SHM" \notin e.flags
                        THEN Mappings(f) \cup {<<p, n>>} ELSE Mappings(f) \ {<<p, n>>}
  BY SetPage
<1>2. <<p, n>> \in Mappings(f) <=> e.frame = f /\ "SHM" \notin e.flags
  <2>1. pt[p] \in Seq(Entry)
    BY DEF TypeOK
  <2> QED
    BY <1>1, <2>1, MappingIs
<1> QED
  BY <1>1, <1>2

\* The last owner of a copy-on-write page makes it writable.
LEMMA ReclaimStep ==
    ASSUME IInv, Careful, NEW p \in Proc, Reclaim(p)
    PROVE  IInv'
<1> USE DEF IInv, shm, memory
<1>u. /\ pc[p] = "reclaim" /\ pc' = [pc EXCEPT ![p] = "run"] /\ at' = [at EXCEPT ![p] = 0]
      /\ UNCHANGED <<old, child, memory, shm>>
  BY DEF Reclaim
<1>n. PICK n : n = at[p]
  OBVIOUS
<1>e. PICK e : e = Unshared(pt[p][n])
  OBVIOUS
<1>s. n \in 1..Len(pt[p]) /\ pt[p][n] \in Entry /\ IsCow(p, n) /\ ~IsShm(p, n)
  <2>1. pt[p] \in Seq(Entry)
    BY DEF TypeOK
  <2>2. n \in 1..Len(pt[p]) /\ IsCow(p, n)
    BY <1>u, <1>n DEF FaultInv
  <2> QED
    BY <2>1, <2>2 DEF FlagInv
<1>t. /\ e \in Entry /\ e.frame = pt[p][n].frame
      /\ "W" \in e.flags /\ "COW" \notin e.flags /\ "SHM" \notin e.flags
  BY <1>s, <1>e DEF Unshared, Entry, Flag, IsShm
<1>p. pt' = [pt EXCEPT ![p][n] = e]
  BY <1>n, <1>e DEF Reclaim
<1>0. /\ pt' \in [Proc -> Seq(Entry)]
      /\ n \in 1..MaxPages /\ Len(pt'[p]) = Len(pt[p]) /\ pt'[p][n] = e
      /\ \A i \in 1..Len(pt[p]) : i # n => pt'[p][i] = pt[p][i]
      /\ \A q \in Proc \ {p} : pt'[q] = pt[q]
  <2> HIDE DEF IInv
  <2>1. TypeOK /\ SizeInv
    BY DEF IInv
  <2> QED
    BY <1>s, <1>t, <1>p, <2>1, SetPage
<1>m. \A f : Mappings(f)' = Mappings(f)
  <2>1. "SHM" \in e.flags <=> IsShm(p, n)
    BY <1>s, <1>t
  <2> QED
    BY <1>s, <1>t, <1>p, <2>1, SetFlags
<1>c. pc'[p] = "run" /\ \A q \in Proc \ {p} : pc'[q] = pc[q]
  BY <1>u DEF TypeOK
<1>1. ForkInv' /\ \A f : Uncounted(f)' = Uncounted(f)
  BY <1>0, <1>u, <1>c, ForksKept
<1>2. \A f : Dropping(f)' = Dropping(f)
  BY <1>u, <1>c DEF Dropping
<1>3. RefsCountOwners'
  BY <1>m, <1>1, <1>2, <1>u, SameOwners
<1>4. TypeOK'
  BY <1>0, <1>u, CowAssumption DEF TypeOK
<1>5. SizeInv'
  BY <1>0, <1>u, <1>c DEF SizeInv
<1>6. \A q \in Proc : Len(pt'[q]) = Len(pt[q]) /\ \A i \in 1..Len(pt[q]) :
         /\ pt'[q][i].frame = pt[q][i].frame
         /\ <<q, i>> # <<p, n>> => pt'[q][i] = pt[q][i]
  BY <1>0, <1>t
<1>7. FlagInv'
  BY <1>0, <1>6, <1>t DEF FlagInv, IsCow, IsShm
<1>8. FaultInv'
  BY <1>0, <1>u, <1>c DEF TypeOK, FaultInv, IsCow
<1>9. ShmInv'
  <2>1. Live' = Live /\ shmfd' = shmfd /\ shmframe' = shmframe
    BY <1>u, <1>c DEF Live
  <2>2. shmframe # NoFrame => Mappings(shmframe)' = {} /\ Dropping(shmframe)' = {}
    BY <1>m, <1>2, <2>1 DEF ShmInv
  <2>3. \A q \in Live' : \A i \in 1..Len(pt'[q]) :
           IsShm(q, i)' => q \in shmfd /\ pt'[q][i].frame = shmframe
    BY <1>0, <1>6, <1>t, <2>1 DEF ShmInv, IsShm, Live
  <2> QED
    BY <1>u, <1>c, <2>1, <2>2, <2>3 DEF ShmInv
<1>10. SoleInv'
  <2> SUFFICES ASSUME NEW q \in Proc, NEW i \in 1..Len(pt'[q]),
                      ~IsShm(q, i)', ~IsCow(q, i)' \/ (pc'[q] = "reclaim" /\ at'[q] = i)
               PROVE  Sole(q, i)'
    BY DEF SoleInv
  <2>1. Sole(q, i)
    <3>1. CASE <<q, i>> = <<p, n>>
      BY <1>u, <1>n, <1>s, <3>1 DEF SoleInv
    <3>2. CASE <<q, i>> # <<p, n>>
      <4>1. i \in 1..Len(pt[q]) /\ pt'[q][i] = pt[q][i]
        BY <1>6, <3>2
      <4>2. pc'[q] = "reclaim" => pc[q] = "reclaim" /\ at'[q] = at[q]
        BY <1>u, <1>c DEF TypeOK
      <4> QED
        BY <4>1, <4>2 DEF SoleInv, IsCow, IsShm
    <3> QED
      BY <3>1, <3>2
  <2> QED
    BY <1>m, <1>2, <1>6, <1>u, <2>1 DEF Sole
<1> QED
  BY <1>1, <1>3, <1>4, <1>5, <1>7, <1>8, <1>9, <1>10

\* A page that is not copy-on-write keeps its frame and its kind.
LEMMA ReflagStep ==
    ASSUME IInv, NEW p \in Proc, NEW n \in 1..Len(pt[p]), NEW e \in Entry,
           pc[p] = "run", ~IsCow(p, n), UNCHANGED <<pc, at, old, child, memory, shm>>,
           pt' = [pt EXCEPT ![p][n] = e], e.frame = pt[p][n].frame,
           "COW" \notin e.flags, "SHM" \in e.flags <=> IsShm(p, n)
    PROVE  IInv'
<1> USE DEF IInv, shm, memory
<1>0. /\ pt' \in [Proc -> Seq(Entry)]
      /\ n \in 1..MaxPages /\ Len(pt'[p]) = Len(pt[p]) /\ pt'[p][n] = e
      /\ \A i \in 1..Len(pt[p]) : i # n => pt'[p][i] = pt[p][i]
      /\ \A q \in Proc \ {p} : pt'[q] = pt[q]
  <2>1. pt[p] \in Seq(Entry) /\ pt \in [Proc -> Seq(Entry)] /\ n \in 1..Len(pt[p])
    BY DEF TypeOK
  <2>2. pt'[p][n] = e
    BY <2>1
  <2>3. TypeOK /\ SizeInv
    OBVIOUS
  <2> HIDE DEF IInv
  <2> QED
    BY <2>2, <2>3, SetPage
<1>m. \A f : Mappings(f)' = Mappings(f)
  BY SetFlags
<1>1. ForkInv' /\ \A f : Uncounted(f)' = Uncounted(f)
  <2>1. /\ pc[p] \notin {"fork", "addref", "embryo"} /\ pc'[p] \notin {"fork", "addref", "embryo"}
        /\ \A q \in Proc \ {p} : pc'[q] = pc[q] /\ pt'[q] = pt[q]
        /\ child' = child
    BY <1>0
  <2> HIDE DEF IInv
  <2> QED
    BY <2>1, ForksKept
<1>2. \A f : Dropping(f)' = Dropping(f)
  BY <1>0 DEF Dropping
<1>3. RefsCountOwners'
  BY <1>m, <1>1, <1>2, <1>0, SameOwners
<1>4. TypeOK'
  BY <1>0 DEF TypeOK
<1>5. SizeInv'
  <2>1. ASSUME NEW q \in Proc PROVE Len(pt'[q]) = Len(pt[q]) /\ pc'[q] = pc[q]
    BY <1>0
  <2>2. pc[p] # "none"
    OBVIOUS
  <2> QED
    BY <1>0, <2>1, <2>2 DEF SizeInv
<1>6. \A q \in Proc : Len(pt'[q]) = Len(pt[q]) /\ \A i \in 1..Len(pt[q]) :
         /\ pt'[q][i].frame = pt[q][i].frame
         /\ IsShm(q, i)' <=> IsShm(q, i)
         /\ IsCow(q, i)' <=> IsCow(q, i)
         /\ IsCow(q, i) => pt'[q][i] = pt[q][i]
  BY <1>0 DEF IsShm, IsCow
<1>7. FlagInv'
  BY <1>6 DEF FlagInv
<1>8. FaultInv'
  BY <1>6, <1>0 DEF TypeOK, FaultInv
<1>9. ShmInv'
  <2>1. Live' = Live /\ shmfd' = shmfd /\ shmframe' = shmframe
    BY <1>0 DEF Live
  <2>2. shmframe # NoFrame => Mappings(shmframe)' = {} /\ Dropping(shmframe)' = {}
    BY <1>m, <1>2, <2>1 DEF ShmInv
  <2>3. \A q \in Live' : \A i \in 1..Len(pt'[q]) :
           IsShm(q, i)' => q \in shmfd /\ pt'[q][i].frame = shmframe
    BY <1>6, <2>1 DEF ShmInv, Live
  <2> QED
    BY <1>0, <2>1, <2>2, <2>3 DEF ShmInv
<1>10. SoleInv'
  <2>1. \A q \in Proc : \A i \in 1..Len(pt[q]) : Sole(q, i) => Sole(q, i)'
    BY <1>m, <1>2, <1>6, <1>0 DEF Sole
  <2> QED
    BY <1>6, <1>0, <2>1 DEF SoleInv
<1> QED
  BY <1>1, <1>3, <1>4, <1>5, <1>7, <1>8, <1>9, <1>10

\* mprotect() of a page that is not copy-on-write.
LEMMA ProtectStep ==
    ASSUME IInv, Careful, NEW p \in Proc, NEW n \in 1..MaxPages, NEW w \in BOOLEAN,
           Protect(p, n, w)
    PROVE  IInv'
<1>u. /\ pc[p] = "run" /\ n <= Len(pt[p]) /\ ~IsCow(p, n)
      /\ UNCHANGED <<pc, at, old, child, memory, shm>>
  BY DEF Protect, Careful, IsCow
<1>e. PICK e : e = WithPerm(pt[p][n], w)
  OBVIOUS
<1>s. n \in 1..Len(pt[p]) /\ pt[p][n] \in Entry
  <2>1. pt[p] \in Seq(Entry)
    BY DEF IInv, TypeOK
  <2> QED
    BY <1>u, <2>1
<1>t. /\ e \in Entry /\ e.frame = pt[p][n].frame
      /\ "COW" \notin e.flags /\ ("SHM" \in e.flags <=> IsShm(p, n))
  <2>1. CASE w
    BY <1>s, <1>e, <1>u, <2>1 DEF WithPerm, Entry, Flag, IsShm, IsCow
  <2>2. CASE ~w
    BY <1>s, <1>e, <1>u, <2>2 DEF WithPerm, Entry, Flag, IsShm, IsCow
  <2> QED
    BY <2>1, <2>2
<1>p. pt' = [pt EXCEPT ![p][n] = e]
  BY <1>e DEF Protect
<1> QED
  BY <1>u, <1>s, <1>t, <1>p, ReflagStep

-----------------------------------------------------------------------------
(* Steps that give a page back, or take one for the shared object *)

\* kfree() of the page that a write fault has copied.
LEMMA DropStep ==
    ASSUME IInv, Careful, NEW p \in Proc, Drop(p)
    PROVE  IInv'
<1> USE DEF IInv, shm
<1>g. PICK g : g = old[p]
  OBVIOUS
<1>u. /\ pc[p] = "drop" /\ Kfree(g)
      /\ pc' = [pc EXCEPT ![p] = "run"] /\ old' = [old EXCEPT ![p] = NoFrame]
      /\ UNCHANGED <<pt, at, child, shm>>
  BY <1>g DEF Drop
<1>c. /\ pc'[p] = "run" /\ old'[p] = NoFrame /\ g \in Frame
      /\ \A q \in Proc \ {p} : pc'[q] = pc[q] /\ old'[q] = old[q]
  BY <1>u, <1>g DEF TypeOK, FaultInv
<1>m. \A f : Mappings(f)' = Mappings(f)
  BY <1>u, SameMappings
<1>1. ForkInv' /\ \A f : Uncounted(f)' = Uncounted(f)
  BY <1>u, <1>c, ForksKept
<1>2. p \in Dropping(g) /\ \A f : Dropping(f)' = Dropping(f) \ {p}
  BY <1>u, <1>c, <1>g DEF Dropping
<1>3. RefsCountOwners' /\ ref' \in [Frame -> Nat] /\ free' \subseteq Frame /\ content' \in [Frame -> Data]
  <2>1. ref[g] <= 1 => Owned(g) = 1 /\ Uncounted(g) = {}
    BY <1>2, <1>c, LoneOwner
  <2>2. Owned(g)' = Owned(g) - 1
    <3>1. /\ IsFiniteSet(Dropping(g)) /\ Cardinality(Dropping(g)) \in Nat
          /\ Cardinality(Mappings(g)) \in Nat
      BY OwnersFinite
    <3>2. Cardinality(Dropping(g) \ {p}) = Cardinality(Dropping(g)) - 1
      BY <1>2, <3>1, FS_RemoveElement
    <3>3. Cardinality(Dropping(g)') = Cardinality(Dropping(g)) - 1
      BY <1>2, <3>2
    <3> QED
      BY <1>m, <1>u, <3>1, <3>3 DEF Owned
  <2>3. ASSUME NEW f \in Frame \ {g} PROVE Owned(f)' = Owned(f)
    <3>1. p \notin Dropping(f)
      BY <1>g DEF Dropping
    <3>2. Dropping(f)' = Dropping(f)
      BY <1>2, <3>1
    <3> QED
      BY <1>m, <1>u, <3>2, OwnedSame
  <2> HIDE DEF IInv
  <2> QED
    BY <1>1, <1>c, <1>u, <2>1, <2>2, <2>3, KfreeCounts
<1>4. TypeOK'
  BY <1>3, <1>u DEF TypeOK
<1>5. SizeInv' /\ FlagInv' /\ FaultInv'
  <2>1. SizeInv'
    BY <1>u, <1>c DEF TypeOK, SizeInv
  <2>2. FlagInv'
    BY <1>u, <1>c DEF TypeOK, FlagInv, IsCow, IsShm
  <2>3. FaultInv'
    BY <1>u, <1>c DEF TypeOK, FaultInv, IsCow
  <2> QED
    BY <2>1, <2>2, <2>3
<1>6. ShmInv'
  BY <1>m, <1>2, <1>u, <1>c DEF ShmInv, Live, IsShm
<1>7. SoleInv'
  <2>1. \A q \in Proc : \A i \in 1..Len(pt[q]) : Sole(q, i) => Sole(q, i)'
    BY <1>m, <1>2, <1>u DEF Sole
  <2> QED
    BY <1>u, <1>c, <2>1 DEF SoleInv, IsCow, IsShm
<1> QED
  BY <1>1, <1>3, <1>4, <1>5, <1>6, <1>7

\* shm_open(): the object's page.
LEMMA ShmCreateStep ==
    ASSUME IInv, Careful, NEW p \in Proc, ShmCreate(p)
    PROVE  IInv'
<1> USE DEF IInv
<1>u. /\ pc[p] = "run" /\ shmframe = NoFrame /\ shmfd' = {p} /\ shmframe' \in free
      /\ Kalloc(shmframe', Zero) /\ UNCHANGED <<pt, pc, at, old, child>>
  BY DEF ShmCreate
<1>g. PICK g \in free : g = shmframe' /\ Kalloc(g, Zero)
  BY <1>u
<1>f. /\ g \in Frame /\ Mappings(g) = {} /\ Dropping(g) = {} /\ NoFrame \notin Frame
  BY FreeUnowned, CowAssumption
<1>m. \A f : Mappings(f)' = Mappings(f)
  BY <1>u, SameMappings
<1>1. ForkInv' /\ \A f : Uncounted(f)' = Uncounted(f)
  BY <1>u, ForksKept
<1>2. \A f : Dropping(f)' = Dropping(f)
  BY <1>u DEF Dropping
<1>3. RefsCountOwners' /\ ref' \in [Frame -> Nat] /\ free' \subseteq Frame /\ content' \in [Frame -> Data]
  <2>1. Owned(g)' = 1
    BY <1>m, <1>2, <1>f, <1>g, OwnedOne
  <2>2. ASSUME NEW f \in Frame \ {g} PROVE Owned(f)' = Owned(f)
    BY <1>m, <1>2, <1>u, <1>g, <1>f, OwnedSame
  <2>3. Zero \in Data
    BY CowAssumption
  <2> HIDE DEF IInv
  <2> QED
    BY <1>1, <1>g, <2>1, <2>2, <2>3, KallocCounts
<1>4. TypeOK'
  BY <1>3, <1>u, <1>g, <1>f DEF TypeOK
<1>5. SizeInv' /\ FlagInv' /\ FaultInv'
  <2>1. SizeInv'
    BY <1>u DEF TypeOK, SizeInv
  <2>2. FlagInv'
    BY <1>u DEF TypeOK, FlagInv, IsCow, IsShm
  <2>3. FaultInv'
    BY <1>u DEF TypeOK, FaultInv, IsCow
  <2> QED
    BY <2>1, <2>2, <2>3
<1>6. ShmInv'
  <2>1. shmfd = {} /\ \A q \in Live : \A i \in 1..Len(pt[q]) : ~IsShm(q, i)
    BY <1>u DEF ShmInv
  <2>2. Live' = Live /\ \A q \in Live : \A i \in 1..Len(pt'[q]) : ~IsShm(q, i)'
    BY <1>u, <2>1 DEF Live, IsShm
  <2>3. Mappings(shmframe)' = {} /\ Dropping(shmframe)' = {}
    <3>1. Mappings(g)' = {} /\ Dropping(g)' = {}
      BY <1>m, <1>2, <1>f
    <3> QED
      BY <1>g, <3>1 DEF Mappings, Dropping
  <2> QED
    BY <1>u, <1>g, <1>f, <2>2, <2>3 DEF ShmInv
<1>7. SoleInv'
  <2>1. ASSUME NEW q \in Proc, NEW i \in 1..Len(pt[q]), Sole(q, i) PROVE Sole(q, i)'
    <3>1. pt[q][i].frame # g
      BY <1>f, <2>1 DEF Sole
    <3> QED
      BY <1>m, <1>2, <1>u, <1>g, <2>1, <3>1 DEF Sole
  <2> QED
    BY <1>u, <2>1 DEF SoleInv, IsCow, IsShm
<1> QED
  BY <1>1, <1>3, <1>4, <1>5, <1>6, <1>7

\* fileclose() of the object; the last one gives its page back.
LEMMA ShmCloseStep ==
    ASSUME IInv, Careful, NEW p \in Proc, ShmClose(p)
    PROVE  IInv'
<1> USE DEF IInv
<1>u. /\ pc[p] \in {"run", "dying"} /\ p \in shmfd /\ shmfd' = shmfd \ {p}
      /\ pc[p] = "run" => ~Maps(p, shmframe)
      /\ UNCHANGED <<pt, pc, at, old, child>>
  BY DEF ShmClose, Careful
<1>g. PICK g : g = shmframe
  OBVIOUS
<1>f. g \in Frame /\ g # NoFrame /\ NoFrame \notin Frame
  BY <1>u, <1>g, CowAssumption DEF ShmInv, TypeOK
<1>l. \/ /\ shmfd = {p} /\ Kfree(g) /\ shmframe' = NoFrame
      \/ /\ shmfd # {p} /\ UNCHANGED memory /\ shmframe' = g
  BY <1>g DEF ShmClose, LastClose
<1>m. \A f : Mappings(f)' = Mappings(f)
  BY <1>u, SameMappings
<1>1. ForkInv' /\ \A f : Uncounted(f)' = Uncounted(f)
  BY <1>u, ForksKept
<1>2. \A f : Dropping(f)' = Dropping(f)
  BY <1>u DEF Dropping
<1>3. RefsCountOwners' /\ ref' \in [Frame -> Nat] /\ free' \subseteq Frame /\ content' \in [Frame -> Data]
  <2>1. CASE shmfd = {p}
    <3>1. Kfree(g) /\ shmframe' = NoFrame
      BY <1>l, <2>1
    <3>2. ref[g] <= 1 => Owned(g) = 1 /\ Uncounted(g) = {}
      BY <1>g, <1>f, LoneOwner
    <3>3. Owned(g)' = Owned(g) - 1
      <4>1. Cardinality(Dropping(g)) \in Nat /\ Cardinality(Mappings(g)) \in Nat
        BY OwnersFinite
      <4> QED
        BY <1>m, <1>2, <1>g, <1>f, <3>1, <4>1 DEF Owned
    <3>4. ASSUME NEW f \in Frame \ {g} PROVE Owned(f)' = Owned(f)
      BY <1>m, <1>2, <1>g, <1>f, <3>1, OwnedSame
    <3> HIDE DEF IInv
    <3> QED
      BY <1>1, <1>f, <3>1, <3>2, <3>3, <3>4, KfreeCounts
  <2>2. CASE shmfd # {p}
    BY <1>m, <1>1, <1>2, <1>l, <1>g, <2>2, SameOwners DEF TypeOK, memory
  <2> QED
    BY <2>1, <2>2
<1>4. TypeOK'
  BY <1>3, <1>u, <1>l, <1>f DEF TypeOK
<1>5. SizeInv' /\ FlagInv' /\ FaultInv'
  <2>1. SizeInv'
    BY <1>u DEF TypeOK, SizeInv
  <2>2. FlagInv'
    BY <1>u DEF TypeOK, FlagInv, IsCow, IsShm
  <2>3. FaultInv'
    BY <1>u DEF TypeOK, FaultInv, IsCow
  <2> QED
    BY <2>1, <2>2, <2>3
<1>6. ShmInv'
  <2>1. shmframe' # NoFrame <=> shmfd' # {}
    BY <1>u, <1>l, <1>f
  <2>2. \A q \in shmfd' : pc'[q] \notin {"none", "embryo"}
    BY <1>u DEF ShmInv
  <2>3. ASSUME NEW q \in Live, NEW i \in 1..Len(pt[q]), IsShm(q, i)
        PROVE  q \in shmfd' /\ pt[q][i].frame = shmframe'
    <3>1. q \in shmfd /\ pt[q][i].frame = g
      BY <1>g, <2>3 DEF ShmInv
    <3>2. q # p
      BY <1>u, <1>g, <2>3, <3>1 DEF Live, Maps
    <3> QED
      BY <1>u, <1>l, <3>1, <3>2
  <2>4. shmframe' # NoFrame => Mappings(shmframe)' = {} /\ Dropping(shmframe)' = {}
    <3>1. shmframe' # NoFrame => shmframe' = g /\ Mappings(g)' = {} /\ Dropping(g)' = {}
      BY <1>m, <1>2, <1>g, <1>l DEF ShmInv
    <3> QED
      BY <3>1 DEF Mappings, Dropping
  <2>5. \A q \in Live' : \A i \in 1..Len(pt'[q]) :
           IsShm(q, i)' => q \in shmfd' /\ pt'[q][i].frame = shmframe'
    BY <1>u, <2>3 DEF Live, IsShm
  <2> QED
    BY <2>1, <2>2, <2>4, <2>5 DEF ShmInv
<1>7. SoleInv'
  <2>1. ASSUME NEW q \in Proc, NEW i \in 1..Len(pt[q]), Sole(q, i) PROVE Sole(q, i)'
    <3>1. pt[q][i].frame # g /\ pt[q][i].frame # NoFrame
      <4>1. pt[q] \in Seq(Entry)
        BY DEF TypeOK
      <4>2. pt[q][i] \in Entry
        BY <4>1
      <4> QED
        BY <1>g, <1>f, <2>1, <4>2 DEF Sole, Entry
    <3> QED
      BY <1>m, <1>2, <1>u, <1>l, <2>1, <3>1 DEF Sole
  <2> QED
    BY <1>u, <2>1 DEF SoleInv, IsCow, IsShm
<1> QED
  BY <1>1, <1>3, <1>4, <1>5, <1>6, <1>7

\* A write fault puts a copy in place of a shared page; the old page stays
\* owned until Drop.
LEMMA CopyStep ==
    ASSUME IInv, Careful, NEW p \in Proc, Copy(p)
    PROVE  IInv'
<1> USE DEF IInv, shm
<1>n. PICK n : n = at[p]
  OBVIOUS
<1>h. PICK h : h = pt[p][n].frame
  OBVIOUS
<1>d. PICK d : d = content[h]
  OBVIOUS
<1>g. PICK g \in free : /\ Kalloc(g, d)
                        /\ pt' = [pt EXCEPT ![p][n] = [Unshared(pt[p][n]) EXCEPT !.frame = g]]
  BY <1>n, <1>h, <1>d DEF Copy
<1>e. PICK e : e = [Unshared(pt[p][n]) EXCEPT !.frame = g]
  OBVIOUS
<1>u. /\ pc[p] = "copy" /\ pc' = [pc EXCEPT ![p] = "drop"] /\ at' = [at EXCEPT ![p] = 0]
      /\ old' = [old EXCEPT ![p] = h]
      /\ UNCHANGED <<child, shm>>
  BY <1>n, <1>h DEF Copy
<1>s. n \in 1..Len(pt[p]) /\ pt[p][n] \in Entry /\ IsCow(p, n) /\ ~IsShm(p, n)
  <2>1. pt[p] \in Seq(Entry)
    BY DEF TypeOK
  <2>2. n \in 1..Len(pt[p]) /\ IsCow(p, n)
    BY <1>u, <1>n DEF FaultInv
  <2> QED
    BY <2>1, <2>2 DEF FlagInv
<1>f. /\ g \in Frame /\ Mappings(g) = {} /\ Dropping(g) = {} /\ shmframe # g
      /\ h \in Frame /\ d \in Data
  <2>1. h \in Frame
    BY <1>s, <1>h DEF Entry
  <2> QED
    BY <1>d, <2>1, FreeUnowned DEF TypeOK
<1>t. /\ e \in Entry /\ e.frame = g /\ "COW" \notin e.flags /\ "SHM" \notin e.flags
  BY <1>s, <1>e, <1>f DEF Unshared, Entry, Flag, IsShm
<1>0. /\ pt' \in [Proc -> Seq(Entry)]
      /\ n \in 1..MaxPages /\ Len(pt'[p]) = Len(pt[p]) /\ pt'[p][n] = e
      /\ \A i \in 1..Len(pt[p]) : i # n => pt'[p][i] = pt[p][i]
      /\ \A q \in Proc \ {p} : pt'[q] = pt[q]
      /\ \A f : Mappings(f)' = IF e.frame = f /\ "SHM" \notin e.flags
                               THEN Mappings(f) \cup {<<p, n>>}
                               ELSE Mappings(f) \ {<<p, n>>}
  <2>1. TypeOK /\ SizeInv
    OBVIOUS
  <2>2. pt' = [pt EXCEPT ![p][n] = e]
    BY <1>g, <1>e
  <2> HIDE DEF IInv
  <2> QED
    BY <1>s, <1>t, <2>1, <2>2, SetPage
<1>m. /\ <<p, n>> \in Mappings(h) /\ h # g
      /\ Mappings(g)' = {<<p, n>>}
      /\ \A f : f # g => Mappings(f)' = Mappings(f) \ {<<p, n>>}
      /\ \A f : f # g /\ f # h => Mappings(f)' = Mappings(f)
  <2>1. <<p, n>> \in Mappings(h) /\ h # g
    BY <1>0, <1>s, <1>h, <1>f, MappingIs
  <2>2. \A f : f # h => <<p, n>> \notin Mappings(f)
    BY <1>0, <1>h, MappingIs
  <2> QED
    BY <1>0, <1>t, <1>f, <2>1, <2>2
<1>c. /\ pc'[p] = "drop" /\ old'[p] = h /\ at'[p] = 0
      /\ \A q \in Proc \ {p} : pc'[q] = pc[q] /\ old'[q] = old[q] /\ at'[q] = at[q]
  BY <1>u DEF TypeOK
<1>1. ForkInv' /\ \A f : Uncounted(f)' = Uncounted(f)
  BY <1>0, <1>u, <1>c, ForksKept
<1>2. /\ p \notin Dropping(h) /\ Dropping(h)' = Dropping(h) \cup {p}
      /\ \A f : f # h => Dropping(f)' = Dropping(f)
  BY <1>u, <1>c DEF Dropping
<1>3. RefsCountOwners' /\ ref' \in [Frame -> Nat] /\ free' \subseteq Frame /\ content' \in [Frame -> Data]
  <2>1. Owned(g)' = 1
    BY <1>m, <1>2, <1>f, <1>u, OwnedOne
  <2>2. Owned(h)' = Owned(h)
    <3>1. /\ IsFiniteSet(Dropping(h)) /\ Cardinality(Dropping(h)) \in Nat
          /\ IsFiniteSet(Mappings(h)) /\ Cardinality(Mappings(h)) \in Nat
      BY OwnersFinite
    <3>2. Cardinality(Dropping(h)') = Cardinality(Dropping(h)) + 1
      BY <1>2, <3>1, FS_AddElement
    <3>3. Cardinality(Mappings(h)') = Cardinality(Mappings(h)) - 1
      <4> DEFINE m == <<p, n>>
      <4>1. m \in Mappings(h) /\ Mappings(h)' = Mappings(h) \ {m}
        BY <1>m
      <4> HIDE DEF m
      <4> QED
        BY <3>1, <4>1, FS_RemoveElement
    <3> QED
      BY <1>u, <3>1, <3>2, <3>3 DEF Owned
  <2>3. ASSUME NEW f \in Frame \ {g} PROVE Owned(f)' = Owned(f)
    <3>1. CASE f = h
      BY <2>2, <3>1 DEF Owned, Mappings, Dropping
    <3>2. CASE f # h
      BY <1>m, <1>2, <1>u, <3>2, OwnedSame
    <3> QED
      BY <3>1, <3>2
  <2> HIDE DEF IInv
  <2> QED
    BY <1>1, <1>g, <1>f, <2>1, <2>3, KallocCounts
<1>4. TypeOK'
  BY <1>0, <1>3, <1>u, <1>f, CowAssumption DEF TypeOK
<1>5. SizeInv'
  BY <1>0, <1>c DEF SizeInv
<1>6. \A q \in Proc : Len(pt'[q]) = Len(pt[q]) /\ \A i \in 1..Len(pt[q]) :
         <<q, i>> # <<p, n>> => pt'[q][i] = pt[q][i]
  BY <1>0
<1>7. FlagInv'
  BY <1>0, <1>6, <1>t DEF FlagInv, IsCow, IsShm
<1>8. FaultInv'
  BY <1>0, <1>c, <1>f DEF FaultInv, IsCow
<1>9. ShmInv'
  <2>1. Live' = Live /\ shmfd' = shmfd /\ shmframe' = shmframe
    BY <1>u, <1>c DEF Live
  <2>2. shmframe # NoFrame => Mappings(shmframe)' = {} /\ Dropping(shmframe)' = {}
    <3>1. ASSUME NEW f, f = shmframe, f # NoFrame PROVE Mappings(f)' = {} /\ Dropping(f)' = {}
      <4>1. Mappings(f) = {} /\ Dropping(f) = {}
        BY <3>1 DEF ShmInv
      <4>2. f # g /\ f # h
        BY <1>m, <1>f, <3>1, <4>1
      <4> QED
        BY <1>m, <1>2, <4>1, <4>2
    <3> QED
      BY <2>1, <3>1
  <2>3. \A q \in Live' : \A i \in 1..Len(pt'[q]) :
           IsShm(q, i)' => q \in shmfd /\ pt'[q][i].frame = shmframe
    BY <1>0, <1>6, <1>t, <2>1 DEF ShmInv, IsShm, Live
  <2> QED
    BY <1>c, <1>u, <2>1, <2>2, <2>3 DEF ShmInv
<1>10. SoleInv'
  <2> SUFFICES ASSUME NEW q \in Proc, NEW i \in 1..Len(pt'[q]),
                      ~IsShm(q, i)', ~IsCow(q, i)' \/ (pc'[q] = "reclaim" /\ at'[q] = i)
               PROVE  Sole(q, i)'
    BY DEF SoleInv
  <2>1. CASE <<q, i>> = <<p, n>>
    BY <1>0, <1>m, <1>2, <1>f, <1>t, <1>u, <2>1 DEF Sole
  <2>2. CASE <<q, i>> # <<p, n>>
    <3>1. i \in 1..Len(pt[q]) /\ pt'[q][i] = pt[q][i]
      BY <1>6, <2>2
    <3>2. pc'[q] = "reclaim" => pc[q] = "reclaim" /\ at'[q] = at[q]
      BY <1>c
    <3>3. Sole(q, i)
      BY <3>1, <3>2 DEF SoleInv, IsCow, IsShm
    <3>4. pt[q][i].frame # g /\ pt[q][i].frame # h
      BY <1>m, <1>f, <2>2, <3>3 DEF Sole
    <3> QED
      BY <1>m, <1>2, <1>u, <3>1, <3>3, <3>4 DEF Sole
  <2> QED
    BY <2>1, <2>2
<1> QED
  BY <1>1, <1>3, <1>4, <1>5, <1>7, <1>8, <1>9, <1>10

-----------------------------------------------------------------------------
(* copyuvm() *)

\* The fork() of p, which no other process takes part in.
LEMMA TheFork ==
    ASSUME IInv, NEW p \in Proc, Forking(p)
    PROVE  /\ child[p] \in Proc /\ child[p] # p /\ Copying(p, child[p])
           /\ pc[child[p]] = "embryo" /\ child[p] \notin shmfd
           /\ \A q \in Proc \ {p} : Forking(q) =>
                 /\ child[q] \in Proc /\ child[q] # child[p] /\ child[q] # p /\ q # child[p]
                 /\ Copying(q, child[q]) /\ pc[child[q]] = "embryo"
           /\ \A i \in 1..Len(pt[p]) : ~IsShm(p, i)
           /\ \A i \in 1..Len(pt[child[p]]) : IsCow(child[p], i) /\ ~IsShm(child[p], i)
<1>1. \A q \in Proc : Forking(q) => child[q] \in Proc /\ Copying(q, child[q]) /\ pc[child[q]] = "embryo"
  BY DEF IInv, TypeOK, ForkInv, Copying
<1>2. \A q \in Proc : Forking(q) => pc[q] # "embryo"
  BY DEF Forking
<1>3. \A q \in Proc \ {p} : Forking(q) => child[q] # child[p]
  BY DEF IInv, ForkInv
<1>4. child[p] \notin shmfd
  BY <1>1 DEF IInv, ShmInv
<1>5. /\ \A i \in 1..Len(pt[p]) : ~IsShm(p, i)
      /\ \A i \in 1..Len(pt[child[p]]) : IsCow(child[p], i)
  BY <1>1 DEF Copying, IInv, ForkInv
<1>6. \A i \in 1..Len(pt[child[p]]) : ~IsShm(child[p], i)
  BY <1>1, <1>5 DEF IInv, FlagInv
<1> QED
  BY <1>1, <1>2, <1>3, <1>4, <1>5, <1>6

\* Such a step disturbs no fork() but its own.
LEMMA OtherForksKept ==
    ASSUME IInv, NEW p \in Proc, Forking(p), NEW c \in Proc, c = child[p],
           \A q \in Proc \ {p, c} : pc'[q] = pc[q] /\ pt'[q] = pt[q] /\ child'[q] = child[q],
           pc'[c] \notin {"fork", "addref"}
    PROVE  /\ \A q \in Proc \ {p} : Forking(q)' =>
                 Forking(q) /\ Copying(q, child[q])' /\ child'[q] = child[q] /\ child[q] # c
           /\ \A q \in Proc \ {p} : pc'[q] = "addref" =>
                 child'[q] = child[q] /\ pt'[child[q]] = pt[child[q]]
           /\ \A q \in Proc \ {p} : pc[q] = "addref" <=> pc'[q] = "addref"
<1>0. \A q \in Proc \ {p} : Forking(q) =>
         /\ child[q] \in Proc \ {p, c} /\ q # c /\ Copying(q, child[q])
  BY TheFork
<1>c. pc[c] = "embryo"
  BY TheFork
<1>1. \A q \in Proc \ {p} : Forking(q)' =>
         /\ Forking(q) /\ q # c /\ child[q] \in Proc \ {p, c} /\ child'[q] = child[q]
  BY <1>0 DEF Forking
<1>2. ASSUME NEW q \in Proc \ {p}, Forking(q)' PROVE Copying(q, child[q])'
  <2>1. Copying(q, child[q])
    BY <1>0, <1>1, <1>2
  <2>2. /\ pc'[q] = pc[q] /\ pt'[q] = pt[q] /\ child'[q] = child[q]
        /\ pc'[child[q]] = pc[child[q]] /\ pt'[child[q]] = pt[child[q]]
    BY <1>1, <1>2
  <2> QED
    BY <2>1, <2>2 DEF Copying, IsShm
<1>3. ASSUME NEW q \in Proc \ {p}, pc'[q] = "addref"
      PROVE  child'[q] = child[q] /\ pt'[child[q]] = pt[child[q]]
  BY <1>1, <1>3 DEF Forking
<1>4. ASSUME NEW q \in Proc \ {p} PROVE pc[q] = "addref" <=> pc'[q] = "addref"
  BY <1>c
<1> QED
  BY <1>1, <1>2, <1>3, <1>4

\* The reference of the page just mapped is counted.
LEMMA AddRefStep ==
    ASSUME IInv, Careful, NEW p \in Proc, AddRef(p)
    PROVE  IInv'
<1> USE DEF IInv, shm
<1>c. PICK c \in Proc : c = child[p]
  BY DEF TypeOK
<1>g. PICK g : g = pt[c][Len(pt[c])].frame
  OBVIOUS
<1>u. /\ pc[p] = "addref" /\ ref' = [ref EXCEPT ![g] = @ + 1] /\ pc' = [pc EXCEPT ![p] = "fork"]
      /\ UNCHANGED <<pt, at, old, child, free, content, shm>>
  BY <1>c, <1>g DEF AddRef
<1>v. pc'[p] = "fork" /\ \A q \in Proc \ {p} : pc'[q] = pc[q]
  BY <1>u DEF TypeOK
<1>k. Forking(p) /\ c # p /\ Copying(p, c) /\ pc[c] = "embryo"
  BY <1>u, <1>c, TheFork DEF Forking
<1>f. p \in Uncounted(g) /\ g \in Frame
  <2>1. p \in Uncounted(g)
    BY <1>u, <1>c, <1>g DEF Uncounted
  <2>2. Len(pt[c]) \in 1..Len(pt[c]) /\ pt[c] \in Seq(Entry)
    BY <1>k, <1>u DEF Copying, TypeOK
  <2>3. pt[c][Len(pt[c])] \in Entry
    BY <2>2
  <2> QED
    BY <1>g, <2>1, <2>3 DEF Entry
<1>1. ForkInv'
  <2>1. \A q \in Proc : Forking(q)' <=> Forking(q)
    BY <1>u, <1>v DEF Forking
  <2>2. ASSUME NEW q \in Proc, Forking(q)' PROVE Copying(q, child[q])'
    <3>1. Copying(q, child[q]) /\ pc'[child[q]] = "embryo"
      BY <1>v, <1>u, <2>1, <2>2 DEF ForkInv, Copying
    <3>2. pc'[q] = "addref" => pc[q] = "addref"
      BY <1>v, <1>u
    <3> QED
      BY <1>u, <3>1, <3>2 DEF Copying, IsShm
  <2>3. \A q, z \in Proc : Forking(q)' /\ Forking(z)' /\ child'[q] = child'[z] => q = z
    BY <1>u, <2>1 DEF ForkInv
  <2>4. \A z \in Proc : pc'[z] = "embryo" => \A i \in 1..Len(pt'[z]) : IsCow(z, i)'
    BY <1>u, <1>v DEF ForkInv, IsCow
  <2> QED
    BY <2>2, <2>3, <2>4 DEF ForkInv
<1>m. \A f : Mappings(f)' = Mappings(f)
  BY <1>u, SameMappings
<1>2. \A f : Dropping(f)' = Dropping(f)
  BY <1>u, <1>v DEF Dropping
<1>3. \A f : Uncounted(f)' = Uncounted(f) \ {p}
  BY <1>u, <1>v DEF Uncounted
<1>4. RefsCountOwners' /\ ref' \in [Frame -> Nat]
  <2>1. ref \in [Frame -> Nat] /\ ref' \in [Frame -> Nat]
    <3>1. ref \in [Frame -> Nat]
      BY DEF TypeOK
    <3> HIDE DEF IInv
    <3> QED
      BY <1>u, <1>f, <3>1
  <2>2. \A f \in Frame : /\ Owned(f) = ref[f] + Cardinality(Uncounted(f))
                         /\ f \in free <=> Owned(f) = 0
    BY RefsCountOwnersIs
  <2>3. ASSUME NEW f \in Frame PROVE Owned(f)' = Owned(f)
    BY <1>m, <1>2, <1>u, OwnedSame
  <2>4. Cardinality(Uncounted(g)') = Cardinality(Uncounted(g)) - 1
    <3>1. IsFiniteSet(Uncounted(g))
      BY OwnersFinite
    <3>2. Cardinality(Uncounted(g) \ {p}) = Cardinality(Uncounted(g)) - 1
      BY <1>f, <3>1, FS_RemoveElement
    <3> QED
      BY <1>3, <3>2
  <2>5. ASSUME NEW f \in Frame \ {g} PROVE Uncounted(f)' = Uncounted(f)
    <3>1. p \notin Uncounted(f)
      BY <1>c, <1>g DEF Uncounted
    <3> QED
      BY <1>3, <3>1
  <2>6. \A f \in Frame : Cardinality(Uncounted(f)) \in Nat
    BY OwnersFinite
  <2>7. ASSUME NEW f \in Frame
        PROVE  /\ Owned(f)' = ref'[f] + Cardinality(Uncounted(f)')
               /\ f \in free' <=> Owned(f)' = 0
    <3>1. CASE f = g
      <4>1. Owned(g)' = ref'[g] + Cardinality(Uncounted(g)') /\ (g \in free' <=> Owned(g)' = 0)
        <5>1. ref'[g] = ref[g] + 1 /\ ref[g] \in Nat /\ free' = free
          BY <1>u, <1>f, <2>1
        <5>2. Owned(g)' = Owned(g)
          BY <2>3, <1>f
        <5> HIDE DEF IInv
        <5> QED
          BY <1>f, <2>2, <2>4, <2>6, <5>1, <5>2
      <4> QED
        BY <3>1, <4>1 DEF Owned, Mappings, Dropping, Uncounted
    <3>2. CASE f # g
      BY <1>u, <2>1, <2>2, <2>3, <2>5, <3>2
    <3> QED
      BY <3>1, <3>2
  <2>8. RefsCountOwners'
    BY <2>7 DEF RefsCountOwners, Owned
  <2> QED
    BY <2>1, <2>8
<1>5. TypeOK'
  BY <1>4, <1>u DEF TypeOK
<1>6. SizeInv' /\ FlagInv' /\ FaultInv'
  <2>1. SizeInv'
    BY <1>u, <1>v DEF TypeOK, SizeInv
  <2>2. FlagInv'
    BY <1>u, <1>v DEF TypeOK, FlagInv, IsCow, IsShm
  <2>3. FaultInv'
    BY <1>u, <1>v DEF TypeOK, FaultInv, IsCow
  <2> QED
    BY <2>1, <2>2, <2>3
<1>7. ShmInv'
  BY <1>m, <1>2, <1>u, <1>v DEF ShmInv, Live, IsShm
<1>8. SoleInv'
  <2>1. \A q \in Proc : \A i \in 1..Len(pt[q]) : Sole(q, i) => Sole(q, i)'
    BY <1>m, <1>2, <1>u DEF Sole
  <2> QED
    BY <1>u, <1>v, <2>1 DEF SoleInv, IsCow, IsShm
<1> QED
  BY <1>1, <1>4, <1>5, <1>6, <1>7, <1>8

\* copyuvm() finds no memory: the page it was at is copy-on-write, and the
\* child is taken down.
LEMMA CopyFailsStep ==
    ASSUME IInv, Careful, NEW p \in Proc, CopyFails(p)
    PROVE  IInv'
<1> USE DEF IInv, shm, memory
<1>c. PICK c \in Proc : c = child[p]
  BY DEF TypeOK
<1>n. PICK n : n = Len(pt[c]) + 1
  OBVIOUS
<1>e. PICK e : e = CowEntry(pt[p][n])
  OBVIOUS
<1>u. /\ pc[p] = "fork" /\ n <= Len(pt[p]) /\ pt' = [pt EXCEPT ![p][n] = e]
      /\ pc' = [pc EXCEPT ![p] = "run", ![c] = "dying"] /\ child' = [child EXCEPT ![p] = p]
      /\ UNCHANGED <<at, old, memory, shm>>
  BY <1>c, <1>n, <1>e DEF CopyFails
<1>k. /\ Forking(p) /\ c # p /\ Copying(p, c) /\ pc[c] = "embryo" /\ c \notin shmfd
      /\ \A i \in 1..Len(pt[p]) : ~IsShm(p, i)
      /\ \A i \in 1..Len(pt[c]) : IsCow(c, i) /\ ~IsShm(c, i)
  <2>1. Forking(p)
    BY <1>u DEF Forking
  <2> QED
    BY <1>c, <2>1, TheFork
<1>v. /\ pc'[p] = "run" /\ pc'[c] = "dying" /\ child'[p] = p
      /\ \A q \in Proc \ {p, c} : pc'[q] = pc[q]
      /\ \A q \in Proc \ {p} : child'[q] = child[q]
  BY <1>u, <1>k DEF TypeOK
<1>s. n \in 1..Len(pt[p]) /\ pt[p][n] \in Entry
  <2>1. pt[p] \in Seq(Entry) /\ pt[c] \in Seq(Entry)
    BY DEF TypeOK
  <2>2. n \in 1..Len(pt[p])
    BY <1>u, <1>n, <2>1
  <2> QED
    BY <2>1, <2>2
<1>t. /\ e \in Entry /\ e.frame = pt[p][n].frame
      /\ "COW" \in e.flags /\ "SHM" \notin e.flags /\ "W" \notin e.flags
  BY <1>s, <1>e DEF CowEntry, Entry, Flag
<1>0. /\ pt' \in [Proc -> Seq(Entry)]
      /\ n \in 1..MaxPages /\ Len(pt'[p]) = Len(pt[p]) /\ pt'[p][n] = e
      /\ \A i \in 1..Len(pt[p]) : i # n => pt'[p][i] = pt[p][i]
      /\ \A q \in Proc \ {p} : pt'[q] = pt[q]
  <2> HIDE DEF IInv
  <2>1. TypeOK /\ SizeInv
    BY DEF IInv
  <2> QED
    BY <1>s, <1>t, <1>u, <2>1, SetPage
<1>m. \A f : Mappings(f)' = Mappings(f)
  <2>1. "SHM" \in e.flags <=> IsShm(p, n)
    BY <1>s, <1>t, <1>k
  <2> QED
    BY <1>s, <1>t, <1>u, <2>1, SetFlags
<1>o. /\ \A q \in Proc \ {p} : Forking(q)' =>
            Forking(q) /\ Copying(q, child[q])' /\ child'[q] = child[q] /\ child[q] # c
      /\ \A q \in Proc \ {p} : pc'[q] = "addref" =>
            child'[q] = child[q] /\ pt'[child[q]] = pt[child[q]]
      /\ \A q \in Proc \ {p} : pc[q] = "addref" <=> pc'[q] = "addref"
  BY <1>0, <1>c, <1>k, <1>v, OtherForksKept
<1>1. ForkInv'
  <2>1. ~Forking(p)'
    BY <1>v DEF Forking
  <2>2. \A q, z \in Proc : Forking(q)' /\ Forking(z)' /\ child'[q] = child'[z] => q = z
    BY <1>o, <2>1 DEF ForkInv
  <2>3. ASSUME NEW z \in Proc, pc'[z] = "embryo" PROVE \A i \in 1..Len(pt'[z]) : IsCow(z, i)'
    <3>1. z # p /\ pc[z] = "embryo"
      BY <1>v, <2>3
    <3> QED
      BY <1>0, <3>1 DEF ForkInv, IsCow
  <2>4. \A q \in Proc : Forking(q)' => Copying(q, child[q])'
    BY <1>o, <2>1
  <2> QED
    BY <2>2, <2>3, <2>4 DEF ForkInv
<1>2. \A f : Dropping(f)' = Dropping(f) /\ Uncounted(f)' = Uncounted(f)
  <2>1. \A f : Dropping(f)' = Dropping(f)
    BY <1>u, <1>v, <1>k DEF Dropping
  <2>2. \A f : Uncounted(f)' = Uncounted(f)
    <3>1. \A f : p \notin Uncounted(f) /\ p \notin Uncounted(f)'
      BY <1>u, <1>v DEF Uncounted
    <3>2. \A f : \A q \in Proc \ {p} : q \in Uncounted(f)' <=> q \in Uncounted(f)
      BY <1>o DEF Uncounted
    <3>3. \A f : Uncounted(f) \subseteq Proc /\ Uncounted(f)' \subseteq Proc
      BY DEF Uncounted
    <3> QED
      BY <3>1, <3>2, <3>3
  <2> QED
    BY <2>1, <2>2
<1>3. RefsCountOwners'
  BY <1>m, <1>2, <1>u, SameOwners
<1>4. TypeOK'
  BY <1>0, <1>u DEF TypeOK
<1>5. SizeInv'
  BY <1>0, <1>v DEF SizeInv
<1>6. \A q \in Proc : Len(pt'[q]) = Len(pt[q]) /\ \A i \in 1..Len(pt[q]) :
         /\ pt'[q][i].frame = pt[q][i].frame
         /\ IsShm(q, i)' <=> IsShm(q, i)
         /\ IsCow(q, i) => IsCow(q, i)'
         /\ <<q, i>> # <<p, n>> => pt'[q][i] = pt[q][i]
  BY <1>0, <1>t, <1>k DEF IsShm, IsCow
<1>7. FlagInv'
  BY <1>0, <1>6, <1>t DEF FlagInv, IsCow, IsShm
<1>8. FaultInv'
  BY <1>0, <1>u, <1>v DEF FaultInv, IsCow
<1>9. ShmInv'
  <2>1. \A q \in Live' : q \in Live
    BY <1>v, <1>k, <1>u DEF Live
  <2>2. shmframe # NoFrame => Mappings(shmframe)' = {} /\ Dropping(shmframe)' = {}
    BY <1>m, <1>2, <1>u DEF ShmInv
  <2>3. \A q \in Live' : \A i \in 1..Len(pt'[q]) :
           IsShm(q, i)' => q \in shmfd /\ pt'[q][i].frame = shmframe
    BY <1>6, <2>1 DEF ShmInv, Live
  <2>4. \A q \in shmfd : pc'[q] \notin {"none", "embryo"}
    BY <1>k, <1>v DEF ShmInv, TypeOK
  <2>5. shmfd' = shmfd /\ shmframe' = shmframe
    BY <1>u
  <2> QED
    BY <2>2, <2>3, <2>4, <2>5 DEF ShmInv
<1>10. SoleInv'
  <2> SUFFICES ASSUME NEW q \in Proc, NEW i \in 1..Len(pt'[q]),
                      ~IsShm(q, i)', ~IsCow(q, i)' \/ (pc'[q] = "reclaim" /\ at'[q] = i)
               PROVE  Sole(q, i)'
    BY DEF SoleInv
  <2>1. i \in 1..Len(pt[q]) /\ ~IsShm(q, i) /\ pt'[q][i].frame = pt[q][i].frame
    BY <1>6
  <2>2. ~IsCow(q, i) \/ (pc[q] = "reclaim" /\ at[q] = i)
    BY <1>6, <1>u, <1>v, <2>1
  <2>3. Sole(q, i)
    BY <2>1, <2>2 DEF SoleInv
  <2> QED
    BY <1>m, <1>2, <1>u, <2>1, <2>3 DEF Sole
<1> QED
  BY <1>1, <1>3, <1>4, <1>5, <1>7, <1>8, <1>9, <1>10

\* A page is mapped in the child, and copy-on-write in both.
LEMMA CopyPageStep ==
    ASSUME IInv, Careful, NEW p \in Proc, CopyPage(p)
    PROVE  IInv'
<1> USE DEF IInv, shm, memory
<1>c. PICK c \in Proc : c = child[p]
  BY DEF TypeOK
<1>n. PICK n : n = Len(pt[c]) + 1
  OBVIOUS
<1>e. PICK e : e = CowEntry(pt[p][n])
  OBVIOUS
<1>g. PICK g : g = pt[p][n].frame
  OBVIOUS
<1>u. /\ pc[p] = "fork" /\ n <= Len(pt[p])
      /\ pt' = [pt EXCEPT ![p][n] = e, ![c] = Append(@, e)]
      /\ pc' = [pc EXCEPT ![p] = "addref"]
      /\ UNCHANGED <<at, old, child, memory, shm>>
  BY <1>c, <1>n, <1>e DEF CopyPage
<1>k. /\ Forking(p) /\ c # p /\ Copying(p, c) /\ pc[c] = "embryo" /\ c \notin shmfd
      /\ \A i \in 1..Len(pt[p]) : ~IsShm(p, i)
      /\ \A i \in 1..Len(pt[c]) : IsCow(c, i) /\ ~IsShm(c, i)
  <2>1. Forking(p)
    BY <1>u DEF Forking
  <2> QED
    BY <1>c, <2>1, TheFork
<1>v. /\ pc'[p] = "addref" /\ pc'[c] = "embryo"
      /\ \A q \in Proc \ {p} : pc'[q] = pc[q]
  BY <1>u, <1>k DEF TypeOK
<1>s. /\ pt \in [Proc -> Seq(Entry)] /\ pt[p] \in Seq(Entry) /\ pt[c] \in Seq(Entry)
      /\ n \in 1..Len(pt[p]) /\ n \in 1..MaxPages /\ pt[p][n] \in Entry
  <2>1. pt \in [Proc -> Seq(Entry)] /\ pt[p] \in Seq(Entry) /\ pt[c] \in Seq(Entry)
    BY DEF TypeOK
  <2>2. n \in 1..Len(pt[p])
    BY <1>u, <1>n, <2>1
  <2>3. Len(pt[p]) <= MaxPages /\ MaxPages \in Nat
    BY CowAssumption DEF SizeInv
  <2>4. n \in 1..MaxPages
    BY <2>1, <2>2, <2>3
  <2> QED
    BY <2>1, <2>2, <2>4
<1>t. /\ e \in Entry /\ e.frame = g /\ g \in Frame
      /\ "COW" \in e.flags /\ "SHM" \notin e.flags /\ "W" \notin e.flags
  BY <1>s, <1>e, <1>g DEF CowEntry, Entry, Flag
<1>0. /\ pt' \in [Proc -> Seq(Entry)]
      /\ Len(pt'[p]) = Len(pt[p]) /\ pt'[p][n] = e
      /\ \A i \in 1..Len(pt[p]) : i # n => pt'[p][i] = pt[p][i]
      /\ Len(pt'[c]) = n /\ pt'[c][n] = e
      /\ \A i \in 1..Len(pt[c]) : pt'[c][i] = pt[c][i]
      /\ \A q \in Proc \ {p, c} : pt'[q] = pt[q]
  <2> HIDE DEF IInv
  <2>1. /\ pt'[p] = [pt[p] EXCEPT ![n] = e] /\ pt'[c] = Append(pt[c], e)
        /\ \A q \in Proc \ {p, c} : pt'[q] = pt[q]
    BY <1>u, <1>k, <1>s
  <2>2. /\ Len(pt'[p]) = Len(pt[p]) /\ pt'[p][n] = e /\ pt'[p] \in Seq(Entry)
        /\ \A i \in 1..Len(pt[p]) : i # n => pt'[p][i] = pt[p][i]
    BY <1>s, <1>t, <2>1
  <2>3. /\ Len(pt'[c]) = n /\ pt'[c][n] = e /\ pt'[c] \in Seq(Entry)
        /\ \A i \in 1..Len(pt[c]) : pt'[c][i] = pt[c][i]
    BY <1>s, <1>n, <1>t, <2>1
  <2>4. pt' \in [Proc -> Seq(Entry)]
    BY <1>u, <1>s, <2>1, <2>2, <2>3
  <2> QED
    BY <2>1, <2>2, <2>3, <2>4
<1>6. \A q \in Proc : \A i \in 1..Len(pt'[q]) :
         /\ <<q, i>> # <<c, n>> => i \in 1..Len(pt[q]) /\ pt'[q][i].frame = pt[q][i].frame
         /\ <<q, i>> # <<c, n>> /\ <<q, i>> # <<p, n>> => pt'[q][i] = pt[q][i]
  BY <1>0, <1>n, <1>s, <1>t, <1>g
<1>m. /\ <<c, n>> \notin Mappings(g) /\ <<p, n>> \in Mappings(g)
      /\ Mappings(g)' = Mappings(g) \cup {<<c, n>>}
      /\ \A f : f # g => Mappings(f)' = Mappings(f)
  <2>1. ~(n <= Len(pt[c]))
    BY <1>n, <1>s
  <2>2. \A f : <<c, n>> \notin Mappings(f)
    BY <1>s, <2>1, MappingIs
  <2>3. <<p, n>> \in Mappings(g)
    BY <1>s, <1>u, <1>k, <1>g, MappingIs
  <2>4. ASSUME NEW f, NEW q \in Proc, NEW i \in 1..MaxPages
        PROVE  <<q, i>> \in Mappings(f)' <=>
                  <<q, i>> \in Mappings(f) \/ (<<q, i>> = <<c, n>> /\ f = g)
    <3>0. <<q, i>> \in Mappings(f)' <=>
             i <= Len(pt'[q]) /\ pt'[q][i].frame = f /\ "SHM" \notin pt'[q][i].flags
      BY DEF Mappings
    <3>00. <<q, i>> \in Mappings(f) <=>
             i <= Len(pt[q]) /\ pt[q][i].frame = f /\ "SHM" \notin pt[q][i].flags
      BY DEF Mappings
    <3>1. CASE <<q, i>> = <<c, n>>
      <4>1. q = c /\ i = n /\ <<q, i>> \notin Mappings(f)
        BY <2>2, <3>1
      <4>2. <<q, i>> \in Mappings(f)' <=> f = g
        BY <1>0, <1>s, <1>t, <3>0, <4>1
      <4> QED
        BY <3>1, <4>1, <4>2
    <3>2. CASE <<q, i>> = <<p, n>>
      BY <1>0, <1>s, <1>t, <1>u, <1>g, <1>k, <3>0, <3>00, <3>2 DEF IsShm
    <3>3. CASE <<q, i>> # <<c, n>> /\ <<q, i>> # <<p, n>>
      <4>1. i <= Len(pt'[q]) <=> i <= Len(pt[q])
        BY <1>0, <1>s, <1>n, <3>3
      <4>2. i <= Len(pt'[q]) => pt'[q][i] = pt[q][i]
        BY <1>0, <1>6, <3>3
      <4> QED
        BY <3>0, <3>00, <3>3, <4>1, <4>2
    <3> QED
      BY <3>1, <3>2, <3>3
  <2>5. \A f : Mappings(f)' \subseteq Proc \X (1..MaxPages) /\ Mappings(f) \subseteq Proc \X (1..MaxPages)
    BY DEF Mappings
  <2>6. <<c, n>> \in Proc \X (1..MaxPages)
    BY <1>s
  <2>7. ASSUME NEW f PROVE \A m \in Proc \X (1..MaxPages) :
           m \in Mappings(f)' <=> m \in Mappings(f) \/ (m = <<c, n>> /\ f = g)
    BY <2>4
  <2>8. Mappings(g)' = Mappings(g) \cup {<<c, n>>}
    <3>1. \A m \in Proc \X (1..MaxPages) :
             m \in Mappings(g)' <=> m \in Mappings(g) \/ m = <<c, n>>
      BY <2>7
    <3> QED
      BY <2>5, <2>6, <3>1
  <2>9. ASSUME NEW f, f # g PROVE Mappings(f)' = Mappings(f)
    <3>1. \A m \in Proc \X (1..MaxPages) : m \in Mappings(f)' <=> m \in Mappings(f)
      BY <2>7, <2>9
    <3> QED
      BY <2>5, <3>1
  <2> QED
    BY <2>2, <2>3, <2>8, <2>9
<1>o. /\ \A q \in Proc \ {p} : Forking(q)' =>
            Forking(q) /\ Copying(q, child[q])' /\ child'[q] = child[q] /\ child[q] # c
      /\ \A q \in Proc \ {p} : pc'[q] = "addref" =>
            child'[q] = child[q] /\ pt'[child[q]] = pt[child[q]]
      /\ \A q \in Proc \ {p} : pc[q] = "addref" <=> pc'[q] = "addref"
  <2>1. \A q \in Proc \ {p, c} : pc'[q] = pc[q] /\ pt'[q] = pt[q] /\ child'[q] = child[q]
    BY <1>0, <1>u, <1>v
  <2>2. pc'[c] \notin {"fork", "addref"} /\ Forking(p)
    BY <1>v, <1>k
  <2> HIDE DEF IInv
  <2> QED
    BY <1>c, <2>1, <2>2, OtherForksKept
<1>1. ForkInv'
  <2>1. Copying(p, c)'
    <3>1. \A i \in 1..Len(pt'[p]) : ~IsShm(p, i)'
      BY <1>0, <1>k, <1>t DEF IsShm
    <3>2. \A i \in 1..Len(pt'[c]) : pt'[c][i] = pt'[p][i]
      <4>1. \A i \in 1..Len(pt[c]) : pt[c][i] = pt[p][i]
        BY <1>k DEF Copying
      <4> QED
        <5>1. ASSUME NEW i \in 1..Len(pt'[c]) PROVE pt'[c][i] = pt'[p][i]
          <6>1. i \in 1..n /\ Len(pt[c]) \in Nat
            BY <1>0, <1>s
          <6>2. CASE i = n
            BY <1>0, <6>2
          <6>3. CASE i # n
            <7>1. i \in 1..Len(pt[c]) /\ i \in 1..Len(pt[p])
              BY <1>n, <1>s, <6>1, <6>3
            <7> QED
              BY <1>0, <4>1, <6>3, <7>1
          <6> QED
            BY <6>2, <6>3
        <5> QED
          BY <5>1
    <3>3. Len(pt'[c]) <= Len(pt'[p]) /\ Len(pt'[c]) > 0
      BY <1>0, <1>s, <1>u
    <3> QED
      BY <1>v, <3>1, <3>2, <3>3 DEF Copying
  <2>2. \A q, z \in Proc : Forking(q)' /\ Forking(z)' /\ child'[q] = child'[z] => q = z
    <3>1. \A q \in Proc : Forking(q)' => Forking(q) /\ child'[q] = child[q]
      BY <1>o, <1>k, <1>u
    <3> QED
      BY <3>1 DEF ForkInv
  <2>3. ASSUME NEW z \in Proc, pc'[z] = "embryo" PROVE \A i \in 1..Len(pt'[z]) : IsCow(z, i)'
    <3>1. z # p /\ pc[z] = "embryo"
      BY <1>v, <2>3
    <3>2. CASE z = c
      <4>1. ASSUME NEW i \in 1..Len(pt'[c]) PROVE IsCow(c, i)'
        <5>1. i \in 1..n /\ Len(pt[c]) \in Nat
          BY <1>0, <1>s
        <5>2. i = n \/ i \in 1..Len(pt[c])
          BY <1>n, <5>1
        <5> QED
          BY <1>0, <1>t, <1>k, <5>2 DEF IsCow
      <4> QED
        BY <3>2, <4>1
    <3>3. CASE z # c
      BY <1>0, <3>1, <3>3 DEF ForkInv, IsCow
    <3> QED
      BY <3>2, <3>3
  <2>4. ASSUME NEW q \in Proc, Forking(q)' PROVE Copying(q, child[q])'
    <3>1. CASE q = p
      BY <1>c, <1>u, <2>1, <3>1 DEF Copying, IsShm
    <3>2. CASE q # p
      BY <1>o, <2>4, <3>2
    <3> QED
      BY <3>1, <3>2
  <2> QED
    BY <2>2, <2>3, <2>4 DEF ForkInv
<1>2. \A f : Dropping(f)' = Dropping(f)
  BY <1>u, <1>v DEF Dropping
<1>3. /\ p \notin Uncounted(g) /\ Uncounted(g)' = Uncounted(g) \cup {p}
      /\ \A f : f # g => Uncounted(f)' = Uncounted(f)
  <2>1. \A f : p \in Uncounted(f)' <=> f = g
    <3>1. pt'[child'[p]][Len(pt'[child'[p]])].frame = g
      BY <1>0, <1>c, <1>t, <1>u
    <3> QED
      BY <1>v, <3>1 DEF Uncounted
  <2>2. \A f : \A q \in Proc \ {p} : q \in Uncounted(f)' <=> q \in Uncounted(f)
    BY <1>o DEF Uncounted
  <2>3. \A f : p \notin Uncounted(f)
    BY <1>u DEF Uncounted
  <2>4. \A f : Uncounted(f) \subseteq Proc /\ Uncounted(f)' \subseteq Proc
    BY DEF Uncounted
  <2> QED
    BY <2>1, <2>2, <2>3, <2>4
<1>4. RefsCountOwners'
  <2>1. ref \in [Frame -> Nat] /\ ref' = ref /\ free' = free
    BY <1>u DEF TypeOK
  <2>2. \A f \in Frame : /\ Owned(f) = ref[f] + Cardinality(Uncounted(f))
                         /\ f \in free <=> Owned(f) = 0
    BY RefsCountOwnersIs
  <2>3. /\ IsFiniteSet(Mappings(g)) /\ Cardinality(Mappings(g)) \in Nat
        /\ IsFiniteSet(Uncounted(g)) /\ Cardinality(Uncounted(g)) \in Nat
        /\ Cardinality(Dropping(g)) \in Nat /\ Owned(g) \in Nat
    BY OwnersFinite
  <2>4. Cardinality(Uncounted(g)') = Cardinality(Uncounted(g)) + 1
    BY <1>3, <2>3, FS_AddElement
  <2>5. Owned(g)' = Owned(g) + 1
    <3>1. Cardinality(Mappings(g)') = Cardinality(Mappings(g)) + 1
      <4> DEFINE m == <<c, n>>
      <4>1. m \notin Mappings(g) /\ Mappings(g)' = Mappings(g) \cup {m}
        BY <1>m
      <4> HIDE DEF m
      <4> QED
        BY <2>3, <4>1, FS_AddElement
    <3> QED
      BY <1>2, <1>u, <2>3, <3>1 DEF Owned
  <2>6. g \notin free
    BY <1>m, FreeUnowned
  <2>7. ASSUME NEW f \in Frame
        PROVE  /\ Owned(f)' = ref'[f] + Cardinality(Uncounted(f)')
               /\ f \in free' <=> Owned(f)' = 0
    <3>1. CASE f = g
      <4>1. Owned(g)' = ref'[g] + Cardinality(Uncounted(g)') /\ (g \in free' <=> Owned(g)' = 0)
        <5> HIDE DEF IInv
        <5> QED
          BY <1>t, <2>1, <2>2, <2>3, <2>4, <2>5, <2>6
      <4> QED
        BY <3>1, <4>1 DEF Owned, Mappings, Dropping, Uncounted
    <3>2. CASE f # g
      <4>1. Owned(f)' = Owned(f) /\ Uncounted(f)' = Uncounted(f)
        BY <1>m, <1>2, <1>3, <1>u, <3>2, OwnedSame
      <4> QED
        BY <2>1, <2>2, <4>1
    <3> QED
      BY <3>1, <3>2
  <2> QED
    BY <2>7 DEF RefsCountOwners, Owned
<1>5. TypeOK'
  BY <1>0, <1>u DEF TypeOK
<1>7. SizeInv'
  <2>1. Len(pt'[c]) <= MaxPages /\ pc'[c] # "none" /\ pc'[p] # "none"
    BY <1>0, <1>s, <1>v, CowAssumption
  <2> QED
    BY <1>0, <1>v, <2>1 DEF SizeInv
<1>8. FlagInv'
  <2>1. \A i \in 1..Len(pt'[c]) : i = n => pt'[c][i] = e
    BY <1>0
  <2> QED
    BY <1>0, <1>6, <1>t, <2>1 DEF FlagInv, IsCow, IsShm
<1>9. FaultInv'
  BY <1>0, <1>u, <1>v DEF FaultInv, IsCow
<1>10. ShmInv'
  <2>1. Live' = Live /\ shmfd' = shmfd /\ shmframe' = shmframe
    BY <1>u, <1>v DEF Live
  <2>2. shmframe # NoFrame => Mappings(shmframe)' = {} /\ Dropping(shmframe)' = {}
    <3>1. ASSUME NEW f, f = shmframe, f # NoFrame PROVE Mappings(f)' = {} /\ Dropping(f)' = {}
      <4>1. Mappings(f) = {} /\ Dropping(f) = {}
        BY <3>1 DEF ShmInv
      <4>2. f # g
        BY <1>m, <4>1
      <4> QED
        BY <1>m, <1>2, <4>1, <4>2
    <3> QED
      BY <2>1, <3>1
  <2>3. \A q \in Live' : \A i \in 1..Len(pt'[q]) :
           IsShm(q, i)' => q \in shmfd /\ pt'[q][i].frame = shmframe
    <3>1. ASSUME NEW q \in Proc, NEW i \in 1..Len(pt'[q]), IsShm(q, i)'
          PROVE  i \in 1..Len(pt[q]) /\ pt'[q][i] = pt[q][i]
      BY <1>0, <1>6, <1>t, <3>1 DEF IsShm
    <3> QED
      BY <2>1, <3>1 DEF ShmInv, IsShm, Live
  <2>4. \A q \in shmfd : pc'[q] \notin {"none", "embryo"}
    BY <1>k, <1>v DEF ShmInv, TypeOK
  <2> QED
    BY <2>1, <2>2, <2>3, <2>4 DEF ShmInv
<1>11. SoleInv'
  <2> SUFFICES ASSUME NEW q \in Proc, NEW i \in 1..Len(pt'[q]),
                      ~IsShm(q, i)', ~IsCow(q, i)' \/ (pc'[q] = "reclaim" /\ at'[q] = i)
               PROVE  Sole(q, i)'
    BY DEF SoleInv
  <2>1. <<q, i>> # <<p, n>> /\ <<q, i>> # <<c, n>>
    BY <1>0, <1>t, <1>v DEF IsCow
  <2>2. i \in 1..Len(pt[q]) /\ pt'[q][i] = pt[q][i]
    BY <1>6, <2>1
  <2>3. pc'[q] = "reclaim" => pc[q] = "reclaim" /\ at'[q] = at[q]
    BY <1>u, <1>v
  <2>4. Sole(q, i)
    BY <2>2, <2>3 DEF SoleInv, IsCow, IsShm
  <2>5. pt[q][i].frame # g
    BY <1>m, <2>1, <2>4 DEF Sole
  <2> QED
    BY <1>m, <1>2, <1>u, <2>2, <2>4, <2>5 DEF Sole
<1> QED
  BY <1>1, <1>4, <1>5, <1>7, <1>8, <1>9, <1>10, <1>11

-----------------------------------------------------------------------------
(* The invariant *)

LEMMA InitInv == Init => IInv
<1> SUFFICES ASSUME Init PROVE IInv
  OBVIOUS
<1>1. CowAssumption
  BY CowAssumption
<1>2. \A p \in Proc : pt[p] = <<>> /\ Len(pt[p]) = 0 /\ pc[p] \in {"none", "run"}
  BY DEF Init
<1>3. TypeOK
  BY <1>1 DEF Init, TypeOK
<1>4. SizeInv /\ FlagInv /\ ForkInv /\ FaultInv /\ SoleInv
  BY <1>1, <1>2 DEF SizeInv, FlagInv, ForkInv, FaultInv, SoleInv, Forking
<1>5. \A f : Mappings(f) = {} /\ Dropping(f) = {} /\ Uncounted(f) = {}
  <2>1. \A f : Mappings(f) = {}
    <3>1. ASSUME NEW f, NEW p \in Proc, NEW i \in 1..MaxPages PROVE <<p, i>> \notin Mappings(f)
      BY <1>2, MappingIs
    <3> QED
      BY <3>1 DEF Mappings
  <2> QED
    BY <1>2, <2>1 DEF Dropping, Uncounted
<1>6. ShmInv
  BY <1>2 DEF Init, ShmInv, Live
<1>7. RefsCountOwners
  <2>1. Cardinality({}) = 0
    BY FS_EmptySet
  <2>2. ASSUME NEW f \in Frame
        PROVE  Owned(f) = ref[f] + Cardinality(Uncounted(f)) /\ (f \in free <=> Owned(f) = 0)
    <3>1. shmframe # f /\ ref[f] = 0 /\ f \in free
      BY <1>1 DEF Init
    <3>2. Owned(f) = 0 /\ Cardinality(Uncounted(f)) = 0
      BY <1>5, <2>1, <3>1 DEF Owned
    <3> QED
      BY <3>1, <3>2
  <2> QED
    BY <2>2, RefsCountOwnersIs
<1> QED
  BY <1>3, <1>4, <1>6, <1>7 DEF IInv

LEMMA StutterInv ==
    ASSUME IInv, UNCHANGED vars
    PROVE  IInv'
<1> USE DEF vars, IInv
<1>1. \A f : Mappings(f)' = Mappings(f) /\ Dropping(f)' = Dropping(f)
             /\ Uncounted(f)' = Uncounted(f)
  BY DEF Mappings, Dropping, Uncounted
<1>2. TypeOK' /\ SizeInv' /\ FlagInv' /\ FaultInv'
  BY DEF TypeOK, SizeInv, FlagInv, FaultInv, IsCow, IsShm
<1>3. ForkInv'
  BY DEF ForkInv, Forking, Copying, IsCow, IsShm
<1>4. ShmInv' /\ SoleInv'
  BY <1>1 DEF ShmInv, SoleInv, Sole, Live, IsCow, IsShm
<1>5. RefsCountOwners'
  BY <1>1, SameOwners
<1> QED
  BY <1>2, <1>3, <1>4, <1>5

\* Every step preserves it, one action after the other.
LEMMA NextInv ==
    ASSUME IInv, Careful, [Next]_vars
    PROVE  IInv'
<1>1. ASSUME NEW p \in Proc, Grow(p) PROVE IInv'
  BY <1>1, GrowStep
<1>2. ASSUME NEW p \in Proc, Unmap(p) \/ FreeVm(p) PROVE IInv'
  BY <1>2, UnmapStep
<1>3. ASSUME NEW p \in Proc, Exit(p) PROVE IInv'
  BY <1>3, ExitStep
<1>4. ASSUME NEW p \in Proc, Reap(p) PROVE IInv'
  BY <1>4, ReapStep
<1>5. ASSUME NEW p \in Proc, NEW c \in Proc, Fork(p, c) PROVE IInv'
  BY <1>5, ForkStep
<1>6. ASSUME NEW p \in Proc, CopyPage(p) PROVE IInv'
  BY <1>6, CopyPageStep
<1>7. ASSUME NEW p \in Proc, AddRef(p) PROVE IInv'
  BY <1>7, AddRefStep
<1>8. ASSUME NEW p \in Proc, CopyFails(p) PROVE IInv'
  BY <1>8, CopyFailsStep
<1>9. ASSUME NEW p \in Proc, ForkDone(p) PROVE IInv'
  BY <1>9, ForkDoneStep
<1>10. ASSUME NEW p \in Proc, NEW i \in 1..MaxPages, NEW d \in Data, Store(p, i, d) PROVE IInv'
  BY <1>10, StoreStep
<1>11. ASSUME NEW p \in Proc, NEW i \in 1..MaxPages, Fault(p, i) PROVE IInv'
  BY <1>11, FaultStep
<1>12. ASSUME NEW p \in Proc, Reclaim(p) PROVE IInv'
  BY <1>12, ReclaimStep
<1>13. ASSUME NEW p \in Proc, Copy(p) PROVE IInv'
  BY <1>13, CopyStep
<1>14. ASSUME NEW p \in Proc, Drop(p) PROVE IInv'
  BY <1>14, DropStep
<1>15. ASSUME NEW p \in Proc, CopyNoMemory(p) PROVE IInv'
  BY <1>15, CopyNoMemoryStep
<1>16. ASSUME NEW p \in Proc, NEW i \in 1..MaxPages, NEW w \in BOOLEAN, Protect(p, i, w) PROVE IInv'
  BY <1>16, ProtectStep
<1>17. ASSUME NEW p \in Proc, ShmCreate(p) PROVE IInv'
  BY <1>17, ShmCreateStep
<1>18. ASSUME NEW p \in Proc, ShmMap(p) PROVE IInv'
  BY <1>18, ShmMapStep
<1>19. ASSUME NEW p \in Proc, ShmClose(p) PROVE IInv'
  BY <1>19, ShmCloseStep
<1>20. ASSUME NEW p \in Proc, NEW q \in Proc, ShmPass(p, q) PROVE IInv'
  BY <1>20, ShmPassStep
<1>21. CASE UNCHANGED vars
  BY <1>21, StutterInv
<1> QED
  BY <1>1, <1>2, <1>3, <1>4, <1>5, <1>6, <1>7, <1>8, <1>9, <1>10, <1>11, <1>12, <1>13,
     <1>14, <1>15, <1>16, <1>17, <1>18, <1>19, <1>20, <1>21 DEF Next

\* The inductive invariant holds in every reachable state of careful programs:
\* what a fault has read of a count stays true until it acts on it.
THEOREM Invariance ==
    ASSUME Careful
    PROVE  Spec => []IInv
<1>1. IInv /\ [Next]_vars => IInv'
  BY NextInv
<1> QED
  BY <1>1, InitInv, PTL DEF Spec

\* The variables keep their types: page counts do not go below zero, page
\* tables hold frames of the machine.
THEOREM TypeCorrect ==
    ASSUME Careful
    PROVE  Spec => []TypeOK
<1>1. IInv => TypeOK
  BY DEF IInv
<1> QED
  BY <1>1, Invariance, PTL

\* pageref[] counts the owners of every page in every interleaving of fork(),
\* write faults, munmap(), exit() and the shared object, and a page is free
\* exactly when nobody owns it.
THEOREM CountsAreExact ==
    ASSUME Careful
    PROVE  Spec => []RefsCountOwners
<1>1. IInv => RefsCountOwners
  BY DEF IInv
<1> QED
  BY <1>1, Invariance, PTL

\* A writable page that is not of a shared object is in one page table only.
THEOREM CowIsPrivate ==
    ASSUME Careful
    PROVE  Spec => []SharedNotWritable
<1>1. ASSUME IInv PROVE SharedNotWritable
  <2> SUFFICES ASSUME NEW p \in Live, NEW q \in Live,
                      NEW i \in 1..Len(pt[p]), NEW j \in 1..Len(pt[q]),
                      pt[p][i].frame = pt[q][j].frame,
                      "W" \in pt[p][i].flags, "SHM" \notin pt[p][i].flags
               PROVE  <<p, i>> = <<q, j>>
    BY DEF SharedNotWritable
  <2>1. p \in Proc /\ q \in Proc
    BY DEF Live
  <2>2. ~IsCow(p, i) /\ ~IsShm(p, i)
    BY <1>1, <2>1 DEF IInv, FlagInv, IsCow, IsShm
  <2>3. Sole(p, i)
    BY <1>1, <2>1, <2>2 DEF IInv, SoleInv
  <2>4. ~IsShm(q, j)
    BY <1>1, <2>1, <2>3 DEF IInv, ShmInv, Sole
  <2>5. j \in 1..MaxPages
    <3>1. pt[q] \in Seq(Entry) /\ Len(pt[q]) <= MaxPages /\ MaxPages \in Nat
      BY <1>1, <2>1, CowAssumption DEF IInv, TypeOK, SizeInv
    <3> QED
      BY <3>1
  <2>6. <<q, j>> \in Mappings(pt[p][i].frame)
    BY <2>1, <2>4, <2>5, MappingIs
  <2> QED
    BY <2>3, <2>6 DEF Sole
<1> QED
  BY <1>1, Invariance, PTL

\* No process that runs has a free page mapped, be it one of its own or one of
\* the shared object.
THEOREM PagesStay ==
    ASSUME Careful
    PROVE  Spec => []NothingYanked
<1>1. ASSUME IInv PROVE NothingYanked
  <2> SUFFICES ASSUME NEW p \in Proc, pc[p] = "run", NEW i \in 1..Len(pt[p]), pt[p][i].frame \in free
               PROVE  FALSE
    BY DEF NothingYanked, Maps
  <2>1. i \in 1..MaxPages
    <3>1. pt[p] \in Seq(Entry) /\ Len(pt[p]) <= MaxPages /\ MaxPages \in Nat
      BY <1>1, CowAssumption DEF IInv, TypeOK, SizeInv
    <3> QED
      BY <3>1
  <2>2. Mappings(pt[p][i].frame) = {} /\ shmframe # pt[p][i].frame
    BY <1>1, FreeUnowned
  <2>3. CASE IsShm(p, i)
    BY <1>1, <2>2, <2>3 DEF IInv, ShmInv, Live
  <2>4. CASE ~IsShm(p, i)
    <3>1. <<p, i>> \in Mappings(pt[p][i].frame)
      BY <2>1, <2>4, MappingIs
    <3> QED
      BY <2>2, <3>1
  <2> QED
    BY <2>3, <2>4
<1> QED
  BY <1>1, Invariance, PTL

-----------------------------------------------------------------------------
(* Copy-on-write cannot be observed *)

Running == {p \in Proc : Exists(p)}
Mem == [p \in Proc |-> IF Exists(p) THEN View(p) ELSE <<>>]
Seen == Data \cup {Shared}

\* No page that is mapped is free.
MappedPages ==
    \A p \in Proc : \A i \in 1..Len(pt[p]) :
        /\ pt[p][i] \in Entry
        /\ ~IsShm(p, i) => pt[p][i].frame \in Frame \ free

LEMMA MappedNotFree == IInv => MappedPages
<1> SUFFICES ASSUME IInv, NEW p \in Proc, NEW i \in 1..Len(pt[p])
             PROVE  pt[p][i] \in Entry /\ (~IsShm(p, i) => pt[p][i].frame \in Frame \ free)
  BY DEF MappedPages
<1>1. pt[p] \in Seq(Entry) /\ Len(pt[p]) <= MaxPages /\ MaxPages \in Nat
  BY CowAssumption DEF IInv, TypeOK, SizeInv
<1>2. pt[p][i] \in Entry /\ i \in 1..MaxPages
  BY <1>1
<1>3. ASSUME ~IsShm(p, i), pt[p][i].frame \in free PROVE FALSE
  <2>1. <<p, i>> \in Mappings(pt[p][i].frame)
    BY <1>1, <1>2, <1>3, MappingIs
  <2>2. Mappings(pt[p][i].frame) = {}
    BY <1>3, FreeUnowned
  <2> QED
    BY <2>1, <2>2
<1> QED
  BY <1>2, <1>3 DEF Entry

LEMMA MappedNotFreeNext == IInv' => MappedPages'
  BY MappedNotFree, PTL

\* The contents of a page change when it is given out, given back or stored to.
ContentsKept == \A f \in Frame \ (free \cup free') : content'[f] = content[f]

LEMMA AllocatorKeeps ==
    ASSUME IInv, \/ \E g \in Frame, d \in Data : Kalloc(g, d)
                 \/ \E g \in Frame : Kfree(g)
                 \/ UNCHANGED memory
    PROVE  ContentsKept
<1>1. content \in [Frame -> Data]
  BY DEF IInv, TypeOK
<1> QED
  BY <1>1 DEF ContentsKept, Kalloc, Kfree, memory

\* What a process sees.
ViewIsSo(p) ==
    /\ View(p) \in Seq(Seen)
    /\ Len(View(p)) = Len(pt[p]) /\ Len(pt[p]) \in Nat
    /\ \A i \in 1..Len(pt[p]) :
          View(p)[i] = IF IsShm(p, i) THEN Shared ELSE content[pt[p][i].frame]

LEMMA ViewIs ==
    ASSUME NEW p \in Proc, TypeOK, MappedPages
    PROVE  ViewIsSo(p)
<1>1. pt[p] \in Seq(Entry) /\ content \in [Frame -> Data]
  BY DEF TypeOK
<1>2. Len(pt[p]) \in Nat
  BY <1>1
<1>3. \A i \in 1..Len(pt[p]) :
         (IF IsShm(p, i) THEN Shared ELSE content[pt[p][i].frame]) \in Seen
  BY <1>1 DEF MappedPages, Seen
<1>4. View(p) = [i \in 1..Len(pt[p]) |->
                   IF IsShm(p, i) THEN Shared ELSE content[pt[p][i].frame]]
  BY DEF View, IsShm
<1>5. View(p) \in [1..Len(pt[p]) -> Seen]
  BY <1>3, <1>4
<1>6. View(p) \in Seq(Seen)
  BY <1>2, <1>5
<1> QED
  BY <1>2, <1>4, <1>5, <1>6 DEF ViewIsSo

Views == \A p \in Proc : ViewIsSo(p)

LEMMA ViewsAre == IInv => Views
  BY ViewIs, MappedNotFree DEF IInv, Views

LEMMA ViewsAreNext == IInv' => Views'
  BY ViewsAre, PTL

\* Two sequences with the same elements.
LEMMA SameSequence ==
    ASSUME NEW S, NEW s \in Seq(S), NEW t \in Seq(S), Len(s) = Len(t),
           \A i \in 1..Len(s) : s[i] = t[i]
    PROVE  s = t
  BY SeqEqual

\* The same pages, with the same contents, look the same.
SamePages(p) ==
    /\ Len(pt'[p]) = Len(pt[p])
    /\ \A i \in 1..Len(pt[p]) : /\ pt'[p][i].frame = pt[p][i].frame
                                /\ IsShm(p, i)' <=> IsShm(p, i)

LEMMA ViewSame ==
    ASSUME IInv, IInv', NEW p \in Proc, SamePages(p),
           \A i \in 1..Len(pt[p]) :
              ~IsShm(p, i) => content'[pt[p][i].frame] = content[pt[p][i].frame]
    PROVE  View(p)' = View(p)
<1>1. ViewIsSo(p) /\ ViewIsSo(p)'
  BY ViewsAre, ViewsAreNext DEF Views
<1>2. ASSUME NEW i \in 1..Len(pt[p]) PROVE View(p)'[i] = View(p)[i]
  <2>1. i \in 1..Len(pt'[p])
    BY DEF SamePages
  <2> QED
    BY <1>1, <2>1 DEF ViewIsSo, SamePages
<1>3. /\ View(p) \in Seq(Seen) /\ View(p)' \in Seq(Seen)
      /\ Len(View(p)) = Len(pt[p]) /\ Len(View(p)') = Len(pt[p])
  BY <1>1 DEF ViewIsSo, SamePages
<1> QED
  BY <1>2, <1>3, SameSequence

LEMMA ViewKept ==
    ASSUME IInv, IInv', ContentsKept, NEW p \in Proc, SamePages(p)
    PROVE  View(p)' = View(p)
<1>1. MappedPages /\ MappedPages'
  BY MappedNotFree, MappedNotFreeNext
<1>2. ASSUME NEW i \in 1..Len(pt[p]), ~IsShm(p, i)
      PROVE  content'[pt[p][i].frame] = content[pt[p][i].frame]
  <2>1. i \in 1..Len(pt'[p])
    BY DEF SamePages
  <2>2. pt[p][i].frame \in Frame \ free /\ pt[p][i].frame \notin free'
    BY <1>1, <1>2, <2>1 DEF MappedPages, SamePages
  <2> QED
    BY <2>2 DEF ContentsKept
<1> QED
  BY <1>2, ViewSame

\* A step that changes no view is a stutter.
LEMMA Quiet ==
    ASSUME IInv, IInv', ContentsKept,
           \A p \in Proc : Exists(p)' <=> Exists(p),
           \A p \in Proc : Exists(p) => SamePages(p)
    PROVE  Running' = Running /\ Mem' = Mem
<1>1. Running' = Running
  BY DEF Running
<1>2. ASSUME NEW p \in Proc, Exists(p) PROVE View(p)' = View(p)
  BY <1>2, ViewKept
<1>3. Mem' = Mem
  BY <1>2 DEF Mem
<1> QED
  BY <1>1, <1>3

\* Only the process that makes the step looks different.
LEMMA OneView ==
    ASSUME IInv, IInv', ContentsKept, NEW p \in Proc, Exists(p), Exists(p)',
           \A q \in Proc : Exists(q)' <=> Exists(q),
           \A q \in Proc \ {p} : Exists(q) => SamePages(q),
           NEW v, View(p)' = v
    PROVE  Running' = Running /\ Mem' = [Mem EXCEPT ![p] = v]
<1>1. Running' = Running
  BY DEF Running
<1>2. ASSUME NEW q \in Proc \ {p}, Exists(q) PROVE View(q)' = View(q)
  BY <1>2, ViewKept
<1>3. \A q \in Proc : Mem'[q] = IF q = p THEN v ELSE Mem[q]
  BY <1>2 DEF Mem
<1>4. Mem' = [q \in Proc |-> Mem'[q]] /\ DOMAIN Mem = Proc
  BY DEF Mem
<1> QED
  BY <1>1, <1>3, <1>4

MemNext ==
    \E p \in Proc :
        \/ \E d \in {Zero, Shared} :
              p \in Running /\ Mem' = [Mem EXCEPT ![p] = Append(@, d)] /\ Running' = Running
        \/ /\ p \in Running /\ Mem[p] # <<>>
           /\ Mem' = [Mem EXCEPT ![p] = SubSeq(@, 1, Len(@) - 1)] /\ Running' = Running
        \/ /\ p \in Running
           /\ Running' = Running \ {p} /\ Mem' = [Mem EXCEPT ![p] = <<>>]
        \/ \E i \in 1..Len(Mem[p]), d \in Data :
              p \in Running /\ Mem' = [Mem EXCEPT ![p][i] = d] /\ Running' = Running
        \/ \E c \in Proc :
              /\ p \in Running /\ c \notin Running
              /\ Running' = Running \cup {c} /\ Mem' = [Mem EXCEPT ![c] = Mem[p]]

MemStep == MemNext \/ (Running' = Running /\ Mem' = Mem)

LEMMA MemStepIs == MemStep <=> [Memory!Next]_Memory!vars
<1>1. MemNext <=> Memory!Next
  BY DEF MemNext, Running, Mem, Memory!Next, Memory!Grow, Memory!Shrink, Memory!Exit,
         Memory!Store, Memory!Fork
<1> QED
  BY <1>1 DEF MemStep, Running, Mem, Memory!vars

LEMMA PageAdded ==
    ASSUME IInv, IInv', ContentsKept, NEW p \in Proc, Exists(p), UNCHANGED pc,
           NEW e \in Entry, pt' = [pt EXCEPT ![p] = Append(@, e)],
           NEW d \in {Zero, Shared},
           d = IF "SHM" \in e.flags THEN Shared ELSE content'[e.frame]
    PROVE  MemNext
<1>1. \A q \in Proc : Exists(q)' <=> Exists(q)
  BY DEF Exists
<1>2. ViewIsSo(p) /\ ViewIsSo(p)'
  BY ViewsAre, ViewsAreNext DEF Views
<1>3. pt \in [Proc -> Seq(Entry)] /\ pt[p] \in Seq(Entry)
  BY DEF IInv, TypeOK
<1>4. /\ Len(pt'[p]) = Len(pt[p]) + 1 /\ pt'[p][Len(pt[p]) + 1] = e
      /\ \A i \in 1..Len(pt[p]) : pt'[p][i] = pt[p][i]
  BY <1>3
<1>5. \A q \in Proc \ {p} : pt'[q] = pt[q]
  BY <1>3
<1>6. d \in Seen
  BY CowAssumption DEF Seen
<1>7. View(p)' = Append(View(p), d)
  <2>1. /\ View(p) \in Seq(Seen) /\ View(p)' \in Seq(Seen)
        /\ Len(View(p)) = Len(pt[p]) /\ Len(pt[p]) \in Nat
        /\ Len(View(p)') = Len(pt[p]) + 1
    BY <1>2, <1>4 DEF ViewIsSo
  <2>2. /\ Append(View(p), d) \in Seq(Seen) /\ Len(Append(View(p), d)) = Len(pt[p]) + 1
        /\ \A i \in 1..Len(pt[p]) : Append(View(p), d)[i] = View(p)[i]
        /\ Append(View(p), d)[Len(pt[p]) + 1] = d
    BY <1>6, <2>1, AppendProperties
  <2>3. View(p)'[Len(pt[p]) + 1] = d
    <3>1. Len(pt[p]) + 1 \in 1..Len(pt'[p])
      BY <1>4, <2>1
    <3> QED
      BY <1>2, <1>4, <3>1 DEF ViewIsSo, IsShm
  <2>4. ASSUME NEW i \in 1..Len(pt[p]) PROVE View(p)'[i] = View(p)[i]
    <3>1. i \in 1..Len(pt'[p]) /\ pt'[p][i] = pt[p][i]
      BY <1>4, <2>1
    <3>2. ~IsShm(p, i) => content'[pt[p][i].frame] = content[pt[p][i].frame]
      <4>1. MappedPages /\ MappedPages'
        BY MappedNotFree, MappedNotFreeNext
      <4> QED
        BY <3>1, <4>1 DEF MappedPages, ContentsKept, IsShm
    <3> QED
      BY <1>2, <3>1, <3>2 DEF ViewIsSo, IsShm
  <2>5. \A i \in 1..(Len(pt[p]) + 1) : View(p)'[i] = Append(View(p), d)[i]
    <3>1. \A i \in 1..(Len(pt[p]) + 1) : i = Len(pt[p]) + 1 \/ i \in 1..Len(pt[p])
      BY <2>1
    <3> QED
      BY <2>2, <2>3, <2>4, <3>1
  <2> HIDE DEF IInv
  <2> QED
    BY <2>1, <2>2, <2>5, SameSequence
<1>8. Running' = Running /\ Mem' = [Mem EXCEPT ![p] = Append(View(p), d)]
  <2>1. \A q \in Proc \ {p} : SamePages(q)
    BY <1>5 DEF SamePages, IsShm
  <2> QED
    BY <1>1, <1>7, <2>1, OneView
<1>9. p \in Running /\ Mem[p] = View(p) /\ Mem' = [Mem EXCEPT ![p] = Append(@, d)]
  BY <1>8 DEF Running, Mem
<1> QED
  BY <1>8, <1>9 DEF MemNext

\* Steps that change no page table entry.
LEMMA UnchangedPages ==
    ASSUME pt' = pt
    PROVE  \A p \in Proc : SamePages(p)
  BY DEF SamePages, IsShm

LEMMA GrowMem ==
    ASSUME IInv, IInv', NEW p \in Proc, Grow(p)
    PROVE  MemStep
<1>1. PICK g \in free : /\ Kalloc(g, Zero)
                        /\ pt' = [pt EXCEPT ![p] = Append(@, [frame |-> g, flags |-> {"W"}, prot |-> "rw"])]
  BY DEF Grow
<1>2. PICK e : e = [frame |-> g, flags |-> {"W"}, prot |-> "rw"]
  OBVIOUS
<1>3. g \in Frame /\ content \in [Frame -> Data] /\ Zero \in Data
  BY CowAssumption DEF IInv, TypeOK
<1>4. e \in Entry /\ e.frame = g /\ "SHM" \notin e.flags
  BY <1>2, <1>3 DEF Entry, Flag
<1>5. ContentsKept
  BY <1>1, <1>3, AllocatorKeeps
<1>6. content'[g] = Zero
  BY <1>1, <1>3 DEF Kalloc
<1>7. Exists(p) /\ UNCHANGED pc /\ pt' = [pt EXCEPT ![p] = Append(@, e)]
  BY <1>1, <1>2 DEF Grow, Exists
<1>8. Zero = IF "SHM" \in e.flags THEN Shared ELSE content'[e.frame]
  BY <1>4, <1>6
<1>9. Zero \in {Zero, Shared}
  OBVIOUS
<1> QED
  BY <1>4, <1>5, <1>7, <1>8, <1>9, PageAdded DEF MemStep

LEMMA ShmMapMem ==
    ASSUME IInv, IInv', NEW p \in Proc, ShmMap(p)
    PROVE  MemStep
<1>1. PICK e : e = [frame |-> shmframe, flags |-> {"W", "SHM"}, prot |-> "rw"]
  OBVIOUS
<1>2. shmframe \in Frame
  BY DEF ShmMap, IInv, ShmInv, TypeOK
<1>3. e \in Entry /\ "SHM" \in e.flags
  BY <1>1, <1>2 DEF Entry, Flag
<1>4. ContentsKept
  BY AllocatorKeeps DEF ShmMap
<1>5. Exists(p) /\ UNCHANGED pc /\ pt' = [pt EXCEPT ![p] = Append(@, e)]
  BY <1>1 DEF ShmMap, Exists
<1>6. Shared = IF "SHM" \in e.flags THEN Shared ELSE content'[e.frame]
  BY <1>3
<1>7. Shared \in {Zero, Shared}
  OBVIOUS
<1> QED
  BY <1>3, <1>4, <1>5, <1>6, <1>7, PageAdded DEF MemStep

\* munmap() takes the last page from the view; freevm() from nobody's.
LEMMA DropLastMem ==
    ASSUME IInv, IInv', NEW p \in Proc, Unmap(p) \/ FreeVm(p)
    PROVE  MemStep
<1>1. /\ pt[p] # <<>> /\ pt' = [pt EXCEPT ![p] = SubSeq(@, 1, Len(@) - 1)]
      /\ pc[p] \in {"run", "dying"} /\ UNCHANGED pc
  BY DEF Unmap, FreeVm, DropLast
<1>2. /\ Len(pt[p]) \in 1..MaxPages /\ Len(pt'[p]) = Len(pt[p]) - 1
      /\ \A i \in 1..Len(pt'[p]) : pt'[p][i] = pt[p][i]
      /\ \A q \in Proc \ {p} : pt'[q] = pt[q]
  BY <1>1, LosePage DEF IInv
<1>3. ContentsKept
  <2>1. UNCHANGED memory \/ Kfree(pt[p][Len(pt[p])].frame)
    BY DEF Unmap, FreeVm, DropLast
  <2>2. pt[p][Len(pt[p])].frame \in Frame
    <3>1. pt[p] \in Seq(Entry)
      BY DEF IInv, TypeOK
    <3>2. pt[p][Len(pt[p])] \in Entry
      BY <1>2, <3>1
    <3> QED
      BY <3>2 DEF Entry
  <2> QED
    BY <2>1, <2>2, AllocatorKeeps
<1>4. \A q \in Proc : Exists(q)' <=> Exists(q)
  BY <1>1 DEF Exists
<1>5. \A q \in Proc \ {p} : SamePages(q)
  BY <1>2 DEF SamePages, IsShm
<1>6. CASE ~Exists(p)
  BY <1>3, <1>4, <1>5, <1>6, Quiet DEF MemStep
<1>7. CASE Exists(p)
  <2>1. ViewIsSo(p) /\ ViewIsSo(p)'
    BY ViewsAre, ViewsAreNext DEF Views
  <2>n. PICK n : n = Len(pt[p])
    OBVIOUS
  <2>v. PICK v : v = SubSeq(View(p), 1, n - 1)
    OBVIOUS
  <2>2. /\ View(p) \in Seq(Seen) /\ View(p)' \in Seq(Seen)
        /\ Len(View(p)) = n /\ n \in Nat /\ n > 0 /\ Len(View(p)') = n - 1
    BY <1>2, <2>1, <2>n DEF ViewIsSo
  <2>3. v \in Seq(Seen) /\ Len(v) = n - 1 /\ \A i \in 1..(n - 1) : v[i] = View(p)[i]
    <3>1. \A i \in 1..(n - 1) : View(p)[i] \in Seen
      BY <2>2
    <3>2. n - 1 \in Int /\ 1 \in Int
      BY <2>2
    <3>3. /\ v \in Seq(Seen) /\ Len(v) = (IF 1 <= n - 1 THEN (n - 1) - 1 + 1 ELSE 0)
          /\ \A i \in 1..((n - 1) - 1 + 1) : v[i] = View(p)[1 + i - 1]
      BY <3>1, <3>2, <2>v, SubSeqProperties
    <3> QED
      BY <2>2, <3>3
  <2>4. ASSUME NEW i \in 1..(n - 1) PROVE View(p)'[i] = View(p)[i]
    <3>1. i \in 1..Len(pt'[p]) /\ i \in 1..Len(pt[p]) /\ pt'[p][i] = pt[p][i]
      BY <1>2, <2>2, <2>n
    <3>2. ~IsShm(p, i) => content'[pt[p][i].frame] = content[pt[p][i].frame]
      <4>1. MappedPages /\ MappedPages'
        BY MappedNotFree, MappedNotFreeNext
      <4> QED
        BY <1>3, <3>1, <4>1 DEF MappedPages, ContentsKept, IsShm
    <3> QED
      BY <2>1, <3>1, <3>2 DEF ViewIsSo, IsShm
  <2>5. View(p)' = v
    BY <2>2, <2>3, <2>4, SameSequence
  <2>6. Exists(p)'
    BY <1>4, <1>7
  <2>7. Running' = Running /\ Mem' = [Mem EXCEPT ![p] = v]
    BY <1>3, <1>4, <1>5, <1>7, <2>5, <2>6, OneView
  <2>8. p \in Running /\ Mem[p] = View(p)
    BY <1>7 DEF Running, Mem
  <2>9. Mem[p] # <<>> /\ Mem' = [Mem EXCEPT ![p] = SubSeq(@, 1, Len(@) - 1)]
    <3>1. View(p) # <<>>
      BY <2>2
    <3>2. Mem' = [Mem EXCEPT ![p] = SubSeq(Mem[p], 1, Len(Mem[p]) - 1)]
      BY <2>2, <2>7, <2>8, <2>v
    <3> QED
      BY <2>8, <3>1, <3>2
  <2> QED
    BY <2>7, <2>8, <2>9 DEF MemStep, MemNext
<1> QED
  BY <1>6, <1>7

\* exit(), and the two ways in which a fault kills.
LEMMA Leaves ==
    ASSUME IInv, IInv', ContentsKept, NEW p \in Proc, Exists(p), ~Exists(p)', pt' = pt,
           \A q \in Proc \ {p} : Exists(q)' <=> Exists(q)
    PROVE  MemStep
<1>1. \A q \in Proc : Exists(q) => View(q)' = View(q)
  BY UnchangedPages, ViewKept
<1>2. p \in Running /\ Running' = Running \ {p}
  BY DEF Running
<1>3. \A q \in Proc : Mem'[q] = IF q = p THEN <<>> ELSE Mem[q]
  BY <1>1 DEF Mem
<1>4. Mem' = [q \in Proc |-> Mem'[q]] /\ DOMAIN Mem = Proc
  BY DEF Mem
<1>5. Mem' = [Mem EXCEPT ![p] = <<>>]
  BY <1>3, <1>4
<1> QED
  BY <1>2, <1>5 DEF MemStep, MemNext

LEMMA ExitMem ==
    ASSUME IInv, IInv', NEW p \in Proc, Exit(p) \/ CopyNoMemory(p)
    PROVE  MemStep
<1>1. ContentsKept
  BY AllocatorKeeps DEF Exit, CopyNoMemory
<1>2. /\ Exists(p) /\ ~Exists(p)' /\ pt' = pt
      /\ \A q \in Proc \ {p} : Exists(q)' <=> Exists(q)
  BY DEF Exit, CopyNoMemory, Exists, IInv, TypeOK
<1> QED
  BY <1>1, <1>2, Leaves

LEMMA FaultMem ==
    ASSUME IInv, IInv', NEW p \in Proc, NEW i \in 1..MaxPages, Fault(p, i)
    PROVE  MemStep
<1>1. ContentsKept
  BY AllocatorKeeps DEF Fault
<1>2. /\ Exists(p) /\ pt' = pt /\ \A q \in Proc \ {p} : Exists(q)' <=> Exists(q)
  BY DEF Fault, Exists, IInv, TypeOK
<1>3. CASE Exists(p)'
  BY <1>1, <1>2, <1>3, UnchangedPages, Quiet DEF MemStep
<1>4. CASE ~Exists(p)'
  BY <1>1, <1>2, <1>4, Leaves
<1> QED
  BY <1>3, <1>4

\* ForkDone is where the child begins to exist, with what its parent sees.
LEMMA ForkDoneMem ==
    ASSUME IInv, IInv', NEW p \in Proc, ForkDone(p)
    PROVE  MemStep
<1>1. PICK c \in Proc : c = child[p]
  BY DEF IInv, TypeOK
<1>2. /\ pc[p] = "fork" /\ Len(pt[c]) = Len(pt[p])
      /\ pc' = [pc EXCEPT ![p] = "run", ![c] = "run"] /\ pt' = pt
  BY <1>1 DEF ForkDone
<1>3. /\ c # p /\ pc[c] = "embryo" /\ Copying(p, c)
  BY <1>1, <1>2, TheFork DEF Forking
<1>4. /\ Exists(p) /\ Exists(p)' /\ ~Exists(c) /\ Exists(c)'
      /\ \A q \in Proc \ {c} : Exists(q)' <=> Exists(q)
  BY <1>2, <1>3 DEF Exists, IInv, TypeOK
<1>5. ContentsKept
  BY AllocatorKeeps DEF ForkDone
<1>6. \A q \in Proc : View(q)' = View(q)
  BY <1>2, <1>5, UnchangedPages, ViewKept
<1>7. View(c) = View(p)
  <2>1. ViewIsSo(p) /\ ViewIsSo(c)
    BY ViewsAre DEF Views
  <2>2. ASSUME NEW i \in 1..Len(pt[c]) PROVE pt[c][i] = pt[p][i]
    BY <1>3 DEF Copying
  <2>3. ASSUME NEW i \in 1..Len(pt[c]) PROVE View(c)[i] = View(p)[i]
    BY <1>2, <2>1, <2>2 DEF ViewIsSo, IsShm
  <2>4. /\ View(p) \in Seq(Seen) /\ View(c) \in Seq(Seen)
        /\ Len(View(c)) = Len(pt[c]) /\ Len(View(p)) = Len(pt[c])
    BY <1>2, <2>1 DEF ViewIsSo
  <2> QED
    BY <2>3, <2>4, SameSequence
<1>8. p \in Running /\ c \notin Running /\ Running' = Running \cup {c}
  BY <1>4 DEF Running
<1>9. \A q \in Proc : Mem'[q] = IF q = c THEN Mem[p] ELSE Mem[q]
  BY <1>4, <1>6, <1>7 DEF Mem
<1>10. Mem' = [q \in Proc |-> Mem'[q]] /\ DOMAIN Mem = Proc
  BY DEF Mem
<1>11. Mem' = [Mem EXCEPT ![c] = Mem[p]]
  BY <1>9, <1>10
<1> QED
  BY <1>8, <1>11 DEF MemStep, MemNext

\* A store reaches a page that its process alone has, or the shared object.
LEMMA StoreMem ==
    ASSUME IInv, IInv', NEW p \in Proc, NEW i \in 1..MaxPages, NEW d \in Data, Store(p, i, d)
    PROVE  MemStep
<1>1. PICK F : F = pt[p][i].frame
  OBVIOUS
<1>2. /\ pc[p] = "run" /\ i \in 1..Len(pt[p]) /\ "W" \in pt[p][i].flags
      /\ content' = [content EXCEPT ![F] = d] /\ UNCHANGED <<pt, pc, shm>>
  <2>1. Len(pt[p]) \in Nat /\ MaxPages \in Nat
    BY CowAssumption DEF IInv, TypeOK
  <2> QED
    BY <1>1, <2>1 DEF Store
<1>3. content \in [Frame -> Data] /\ Views /\ Views'
  BY ViewsAre, ViewsAreNext DEF IInv, TypeOK
<1>4. \A f : f # F => content'[f] = content[f]
  BY <1>2, <1>3
<1>5. \A q \in Proc : (Exists(q)' <=> Exists(q)) /\ SamePages(q)
  BY <1>2, UnchangedPages DEF Exists
<1>6. \A q \in Proc : \A j \in 1..Len(pt[q]) :
         ~IsShm(q, j) => pt[q][j].frame \in Frame /\ <<q, j>> \in Mappings(pt[q][j].frame)
  <2> SUFFICES ASSUME NEW q \in Proc, NEW j \in 1..Len(pt[q]), ~IsShm(q, j)
               PROVE  pt[q][j].frame \in Frame /\ <<q, j>> \in Mappings(pt[q][j].frame)
    OBVIOUS
  <2>1. pt[q] \in Seq(Entry) /\ Len(pt[q]) <= MaxPages /\ MaxPages \in Nat
    BY CowAssumption DEF IInv, TypeOK, SizeInv
  <2>2. j \in 1..MaxPages /\ pt[q][j] \in Entry
    BY <2>1
  <2> QED
    BY <2>1, <2>2, MappingIs DEF Entry
<1>7. CASE IsShm(p, i)
  <2>1. F = shmframe /\ F # NoFrame
    BY <1>1, <1>2, <1>7 DEF IInv, ShmInv, Live
  <2>2. Mappings(F) = {}
    BY <2>1 DEF IInv, ShmInv
  <2>3. ASSUME NEW q \in Proc PROVE View(q)' = View(q)
    <3>1. ASSUME NEW j \in 1..Len(pt[q]), ~IsShm(q, j)
          PROVE  content'[pt[q][j].frame] = content[pt[q][j].frame]
      BY <1>4, <1>6, <2>2, <3>1
    <3> QED
      BY <1>5, <3>1, ViewSame
  <2>4. Running' = Running /\ Mem' = Mem
    BY <1>5, <2>3 DEF Running, Mem
  <2> QED
    BY <2>4 DEF MemStep
<1>8. CASE ~IsShm(p, i)
  <2>1. Sole(p, i)
    BY <1>2, <1>8 DEF IInv, FlagInv, SoleInv, IsCow
  <2>2. \A q \in Proc : \A j \in 1..Len(pt[q]) :
           ~IsShm(q, j) /\ pt[q][j].frame = F => q = p /\ j = i
    <3>1. Mappings(F) = {<<p, i>>}
      BY <1>1, <2>1 DEF Sole
    <3>2. ASSUME NEW q \in Proc, NEW j \in 1..Len(pt[q]), ~IsShm(q, j), pt[q][j].frame = F
          PROVE  <<q, j>> \in {<<p, i>>}
      BY <1>6, <3>1, <3>2
    <3> QED
      BY <3>2
  <2>3. ASSUME NEW q \in Proc \ {p} PROVE View(q)' = View(q)
    <3>1. ASSUME NEW j \in 1..Len(pt[q]), ~IsShm(q, j)
          PROVE  content'[pt[q][j].frame] = content[pt[q][j].frame]
      BY <1>4, <2>2, <3>1
    <3> QED
      BY <1>5, <3>1, ViewSame
  <2>4. ViewIsSo(p) /\ ViewIsSo(p)'
    BY <1>3 DEF Views
  <2>5. View(p)' = [View(p) EXCEPT ![i] = d]
    <3>1. F \in Frame /\ d \in Seen
      BY <1>1, <1>2, <1>6, <1>8 DEF Seen
    <3>2. /\ View(p) \in Seq(Seen) /\ View(p)' \in Seq(Seen)
          /\ Len(View(p)) = Len(pt[p]) /\ Len(View(p)') = Len(pt[p])
          /\ pt' = pt
      BY <1>2, <2>4 DEF ViewIsSo
    <3> DEFINE v == [View(p) EXCEPT ![i] = d]
    <3>3. /\ v \in Seq(Seen) /\ Len(v) = Len(pt[p])
          /\ \A j \in 1..Len(pt[p]) : v[j] = IF j = i THEN d ELSE View(p)[j]
      BY <1>2, <3>1, <3>2, ExceptSeq
    <3>4. ASSUME NEW j \in 1..Len(pt[p]) PROVE View(p)'[j] = v[j]
      <4>1. View(p)'[j] = IF IsShm(p, j) THEN Shared ELSE content'[pt[p][j].frame]
        BY <2>4, <3>2 DEF ViewIsSo, IsShm
      <4>2. View(p)[j] = IF IsShm(p, j) THEN Shared ELSE content[pt[p][j].frame]
        BY <2>4 DEF ViewIsSo
      <4>3. content'[F] = d
        BY <1>2, <1>3, <3>1
      <4>4. CASE j = i
        BY <1>1, <1>8, <3>3, <4>1, <4>3, <4>4
      <4>5. CASE j # i
        BY <1>4, <2>2, <3>3, <4>1, <4>2, <4>5
      <4> QED
        BY <4>4, <4>5
    <3>5. View(p)' = v
      <4> HIDE DEF v
      <4> QED
        BY <3>2, <3>3, <3>4, SameSequence
    <3> QED
      BY <3>5
  <2>6. \A q \in Proc : Mem'[q] = IF q = p /\ Exists(p) THEN [View(p) EXCEPT ![i] = d] ELSE Mem[q]
    BY <1>5, <2>3, <2>5 DEF Mem
  <2>7. Exists(p) /\ Running' = Running /\ p \in Running /\ Mem[p] = View(p)
    BY <1>2, <1>5 DEF Exists, Running, Mem
  <2>8. Mem' = [q \in Proc |-> Mem'[q]] /\ DOMAIN Mem = Proc
    BY DEF Mem
  <2>9. Mem' = [Mem EXCEPT ![p] = [@ EXCEPT ![i] = d]]
    BY <2>6, <2>7, <2>8
  <2>10. i \in 1..Len(Mem[p])
    BY <1>2, <2>4, <2>7 DEF ViewIsSo
  <2> QED
    BY <2>7, <2>9, <2>10 DEF MemStep, MemNext
<1> QED
  BY <1>7, <1>8

\* The copy holds what the page it replaces held.
LEMMA CopyMem ==
    ASSUME IInv, IInv', NEW p \in Proc, Copy(p)
    PROVE  MemStep
<1>n. PICK n : n = at[p]
  OBVIOUS
<1>h. PICK h : h = pt[p][n].frame
  OBVIOUS
<1>g. PICK g \in free : /\ Kalloc(g, content[h])
                        /\ pt' = [pt EXCEPT ![p][n] = [Unshared(pt[p][n]) EXCEPT !.frame = g]]
  BY <1>n, <1>h DEF Copy
<1>e. PICK e : e = [Unshared(pt[p][n]) EXCEPT !.frame = g]
  OBVIOUS
<1>s. n \in 1..Len(pt[p]) /\ pt[p][n] \in Entry /\ ~IsShm(p, n) /\ pc[p] = "copy"
  <2>1. pt[p] \in Seq(Entry)
    BY DEF IInv, TypeOK
  <2>2. n \in 1..Len(pt[p]) /\ IsCow(p, n) /\ pc[p] = "copy"
    BY <1>n DEF IInv, FaultInv, Copy
  <2> QED
    BY <2>1, <2>2 DEF IInv, FlagInv
<1>f. /\ g \in Frame /\ h \in Frame /\ content[h] \in Data /\ content \in [Frame -> Data]
  <2>1. h \in Frame
    BY <1>s, <1>h DEF Entry
  <2> QED
    BY <2>1 DEF IInv, TypeOK
<1>t. e.frame = g /\ "SHM" \notin e.flags /\ e \in Entry
  BY <1>s, <1>e, <1>f DEF Unshared, Entry, Flag, IsShm
<1>0. /\ Len(pt'[p]) = Len(pt[p]) /\ pt'[p][n] = e
      /\ \A i \in 1..Len(pt[p]) : i # n => pt'[p][i] = pt[p][i]
      /\ \A q \in Proc \ {p} : pt'[q] = pt[q]
  <2>1. pt \in [Proc -> Seq(Entry)] /\ pt[p] \in Seq(Entry)
    BY DEF IInv, TypeOK
  <2> QED
    BY <1>g, <1>e, <1>s, <2>1
<1>1. ContentsKept
  BY <1>g, <1>f, AllocatorKeeps
<1>2. \A q \in Proc : Exists(q)' <=> Exists(q)
  BY DEF Copy, Exists, IInv, TypeOK
<1>3. \A q \in Proc \ {p} : SamePages(q)
  BY <1>0 DEF SamePages, IsShm
<1>4. ViewIsSo(p) /\ ViewIsSo(p)' /\ MappedPages /\ MappedPages'
  BY ViewsAre, ViewsAreNext, MappedNotFree, MappedNotFreeNext DEF Views
<1>5. ASSUME NEW i \in 1..Len(pt[p]) PROVE View(p)'[i] = View(p)[i]
  <2>1. i \in 1..Len(pt'[p])
    BY <1>0
  <2>2. View(p)'[i] = IF "SHM" \in pt'[p][i].flags THEN Shared ELSE content'[pt'[p][i].frame]
    BY <1>4, <2>1 DEF ViewIsSo, IsShm
  <2>3. View(p)[i] = IF IsShm(p, i) THEN Shared ELSE content[pt[p][i].frame]
    BY <1>4 DEF ViewIsSo
  <2>4. CASE i = n
    <3>1. content'[g] = content[h]
      BY <1>g, <1>f DEF Kalloc
    <3> QED
      BY <1>0, <1>h, <1>s, <1>t, <2>2, <2>3, <2>4, <3>1
  <2>5. CASE i # n
    <3>1. pt'[p][i] = pt[p][i]
      BY <1>0, <2>5
    <3>2. ~IsShm(p, i) => content'[pt[p][i].frame] = content[pt[p][i].frame]
      BY <1>1, <1>4, <2>1, <3>1 DEF MappedPages, ContentsKept, IsShm
    <3> QED
      BY <2>2, <2>3, <3>1, <3>2 DEF IsShm
  <2> QED
    BY <2>4, <2>5
<1>6. View(p)' = View(p)
  <2>1. /\ View(p) \in Seq(Seen) /\ View(p)' \in Seq(Seen)
        /\ Len(View(p)) = Len(pt[p]) /\ Len(View(p)') = Len(pt[p])
    BY <1>0, <1>4 DEF ViewIsSo
  <2> QED
    BY <1>5, <2>1, SameSequence
<1>7. \A q \in Proc : Exists(q) => View(q)' = View(q)
  BY <1>1, <1>3, <1>6, ViewKept
<1>8. Running' = Running /\ Mem' = Mem
  BY <1>2, <1>7 DEF Running, Mem
<1> QED
  BY <1>8 DEF MemStep

\* Steps that nobody can see: those of a fork() before it is done, those that
\* only change flags, those of the shared object.
LEMMA QuietMem ==
    ASSUME IInv, IInv', NEW p \in Proc,
           \/ Reap(p) \/ AddRef(p) \/ Drop(p) \/ ShmCreate(p) \/ ShmClose(p)
           \/ \E c \in Proc : Fork(p, c)
           \/ \E q \in Proc : ShmPass(p, q)
    PROVE  MemStep
<1>1. pt' = pt
  BY DEF Reap, AddRef, Drop, ShmCreate, ShmClose, Fork, ShmPass
<1>2. \A q \in Proc : Exists(q)' <=> Exists(q)
  BY DEF Exists, IInv, TypeOK, Reap, AddRef, Drop, ShmCreate, ShmClose, Fork, ShmPass
<1>3. ContentsKept
  <2>1. CASE Drop(p)
    <3>1. old[p] \in Frame
      BY <2>1 DEF Drop, IInv, FaultInv
    <3> QED
      BY <2>1, <3>1, AllocatorKeeps DEF Drop
  <2>2. CASE ShmCreate(p)
    <3>1. Zero \in Data /\ free \subseteq Frame
      BY CowAssumption DEF IInv, TypeOK
    <3>2. \E g \in Frame, d \in Data : Kalloc(g, d)
      BY <2>2, <3>1 DEF ShmCreate
    <3> QED
      BY <3>2, AllocatorKeeps
  <2>3. CASE ShmClose(p)
    <3>1. shmframe \in Frame
      BY <2>3 DEF ShmClose, IInv, ShmInv, TypeOK
    <3> QED
      BY <2>3, <3>1, AllocatorKeeps DEF ShmClose
  <2>4. CASE AddRef(p)
    BY <2>4 DEF AddRef, ContentsKept
  <2>5. CASE Reap(p) \/ (\E c \in Proc : Fork(p, c)) \/ (\E q \in Proc : ShmPass(p, q))
    BY <2>5, AllocatorKeeps DEF Reap, Fork, ShmPass
  <2> QED
    BY <2>1, <2>2, <2>3, <2>4, <2>5
<1> QED
  BY <1>1, <1>2, <1>3, UnchangedPages, Quiet DEF MemStep

LEMMA ReclaimMem ==
    ASSUME IInv, IInv', NEW p \in Proc, Reclaim(p)
    PROVE  MemStep
<1>1. PICK n : n = at[p]
  OBVIOUS
<1>2. /\ pc[p] = "reclaim" /\ n \in 1..Len(pt[p])
      /\ pt' = [pt EXCEPT ![p][n] = Unshared(pt[p][n])]
      /\ pt \in [Proc -> Seq(Entry)] /\ pt[p] \in Seq(Entry)
  BY <1>1 DEF Reclaim, IInv, FaultInv, TypeOK
<1>3. pt[p][n] \in Entry
  BY <1>2
<1>4. /\ Unshared(pt[p][n]).frame = pt[p][n].frame
      /\ "SHM" \in Unshared(pt[p][n]).flags <=> IsShm(p, n)
  BY <1>3 DEF Unshared, Entry, IsShm
<1>5. /\ Len(pt'[p]) = Len(pt[p]) /\ pt'[p][n] = Unshared(pt[p][n])
      /\ \A i \in 1..Len(pt[p]) : i # n => pt'[p][i] = pt[p][i]
      /\ \A q \in Proc \ {p} : pt'[q] = pt[q]
  BY <1>2
<1>6. \A q \in Proc : SamePages(q)
  BY <1>4, <1>5 DEF SamePages, IsShm
<1>7. \A q \in Proc : Exists(q)' <=> Exists(q)
  BY DEF Reclaim, Exists, IInv, TypeOK
<1>8. ContentsKept
  BY AllocatorKeeps DEF Reclaim
<1> QED
  BY <1>6, <1>7, <1>8, Quiet DEF MemStep

LEMMA ProtectMem ==
    ASSUME IInv, IInv', NEW p \in Proc, NEW n \in 1..MaxPages, NEW w \in BOOLEAN, Protect(p, n, w)
    PROVE  MemStep
<1>e. PICK e : e = WithPerm(pt[p][n], w)
  OBVIOUS
<1>2. /\ n \in 1..Len(pt[p]) /\ pt' = [pt EXCEPT ![p][n] = e]
      /\ pt \in [Proc -> Seq(Entry)] /\ pt[p] \in Seq(Entry)
  <2>1. pt \in [Proc -> Seq(Entry)] /\ pt[p] \in Seq(Entry) /\ n <= Len(pt[p])
    BY DEF Protect, IInv, TypeOK
  <2> QED
    BY <1>e, <2>1 DEF Protect
<1>3. pt[p][n] \in Entry
  BY <1>2
<1>4. e.frame = pt[p][n].frame /\ ("SHM" \in e.flags <=> IsShm(p, n))
  <2>1. CASE w
    BY <1>3, <1>e, <2>1 DEF WithPerm, Entry, IsShm
  <2>2. CASE ~w
    BY <1>3, <1>e, <2>2 DEF WithPerm, Entry, IsShm
  <2> QED
    BY <2>1, <2>2
<1>5. /\ Len(pt'[p]) = Len(pt[p]) /\ pt'[p][n] = e
      /\ \A i \in 1..Len(pt[p]) : i # n => pt'[p][i] = pt[p][i]
      /\ \A q \in Proc \ {p} : pt'[q] = pt[q]
  BY <1>2
<1>6. \A q \in Proc : SamePages(q)
  BY <1>4, <1>5 DEF SamePages, IsShm
<1>7. \A q \in Proc : Exists(q)' <=> Exists(q)
  BY DEF Protect, Exists
<1>8. ContentsKept
  BY AllocatorKeeps DEF Protect
<1> QED
  BY <1>6, <1>7, <1>8, Quiet DEF MemStep

\* CopyPage and CopyFails: the parent's page keeps its frame, and the child
\* does not exist yet.
LEMMA CopyuvmMem ==
    ASSUME IInv, IInv', NEW p \in Proc, CopyPage(p) \/ CopyFails(p)
    PROVE  MemStep
<1>1. PICK c \in Proc : c = child[p]
  BY DEF IInv, TypeOK
<1>2. PICK n : n = Len(pt[c]) + 1
  OBVIOUS
<1>3. PICK e : e = CowEntry(pt[p][n])
  OBVIOUS
<1>4. /\ pc[p] = "fork" /\ n <= Len(pt[p])
      /\ \/ pt' = [pt EXCEPT ![p][n] = e, ![c] = Append(@, e)]
         \/ pt' = [pt EXCEPT ![p][n] = e]
  BY <1>1, <1>2, <1>3 DEF CopyPage, CopyFails
<1>5. c # p /\ pc[c] = "embryo" /\ \A i \in 1..Len(pt[p]) : ~IsShm(p, i)
  BY <1>1, <1>4, TheFork DEF Forking
<1>6. pt \in [Proc -> Seq(Entry)] /\ pt[p] \in Seq(Entry) /\ pt[c] \in Seq(Entry)
  BY DEF IInv, TypeOK
<1>7. n \in 1..Len(pt[p]) /\ pt[p][n] \in Entry
  <2>1. n \in 1..Len(pt[p])
    BY <1>2, <1>4, <1>6
  <2> QED
    BY <1>6, <2>1
<1>8. e.frame = pt[p][n].frame /\ "SHM" \notin e.flags
  BY <1>3, <1>7 DEF CowEntry, Entry
<1>9. /\ Len(pt'[p]) = Len(pt[p]) /\ pt'[p][n] = e
      /\ \A i \in 1..Len(pt[p]) : i # n => pt'[p][i] = pt[p][i]
      /\ \A q \in Proc \ {p, c} : pt'[q] = pt[q]
  <2>1. pt'[p] = [pt[p] EXCEPT ![n] = e] /\ \A q \in Proc \ {p, c} : pt'[q] = pt[q]
    BY <1>4, <1>5, <1>6
  <2> QED
    BY <1>6, <1>7, <2>1
<1>10. \A q \in Proc \ {c} : SamePages(q)
  BY <1>5, <1>7, <1>8, <1>9 DEF SamePages, IsShm
<1>11. ~Exists(c) /\ \A q \in Proc : Exists(q)' <=> Exists(q)
  <2>1. \/ pc' = [pc EXCEPT ![p] = "addref"]
        \/ pc' = [pc EXCEPT ![p] = "run", ![c] = "dying"]
    BY <1>1 DEF CopyPage, CopyFails
  <2>2. pc \in [Proc -> {"none", "embryo", "run", "dying", "fork", "addref",
                        "reclaim", "copy", "drop"}]
    BY DEF IInv, TypeOK
  <2>3. /\ pc[p] = "fork" /\ pc'[p] \in {"addref", "run"}
        /\ pc[c] = "embryo" /\ pc'[c] \in {"embryo", "dying"}
        /\ \A q \in Proc \ {p, c} : pc'[q] = pc[q]
    BY <1>4, <1>5, <2>1, <2>2
  <2> QED
    BY <2>3 DEF Exists
<1>12. ContentsKept
  BY AllocatorKeeps DEF CopyPage, CopyFails
<1> QED
  BY <1>10, <1>11, <1>12, Quiet DEF MemStep

LEMMA NextMem ==
    ASSUME IInv, IInv', [Next]_vars
    PROVE  MemStep
<1>1. ASSUME NEW p \in Proc, Grow(p) PROVE MemStep
  BY <1>1, GrowMem
<1>2. ASSUME NEW p \in Proc, Unmap(p) \/ FreeVm(p) PROVE MemStep
  BY <1>2, DropLastMem
<1>3. ASSUME NEW p \in Proc, Exit(p) \/ CopyNoMemory(p) PROVE MemStep
  BY <1>3, ExitMem
<1>4. ASSUME NEW p \in Proc,
             \/ Reap(p) \/ AddRef(p) \/ Drop(p) \/ ShmCreate(p) \/ ShmClose(p)
             \/ \E c \in Proc : Fork(p, c)
             \/ \E q \in Proc : ShmPass(p, q)
      PROVE  MemStep
  BY <1>4, QuietMem
<1>5. ASSUME NEW p \in Proc, CopyPage(p) \/ CopyFails(p) PROVE MemStep
  BY <1>5, CopyuvmMem
<1>6. ASSUME NEW p \in Proc, ForkDone(p) PROVE MemStep
  BY <1>6, ForkDoneMem
<1>7. ASSUME NEW p \in Proc, NEW i \in 1..MaxPages, NEW d \in Data, Store(p, i, d) PROVE MemStep
  BY <1>7, StoreMem
<1>8. ASSUME NEW p \in Proc, NEW i \in 1..MaxPages, Fault(p, i) PROVE MemStep
  BY <1>8, FaultMem
<1>9. ASSUME NEW p \in Proc, Reclaim(p) PROVE MemStep
  BY <1>9, ReclaimMem
<1>10. ASSUME NEW p \in Proc, Copy(p) PROVE MemStep
  BY <1>10, CopyMem
<1>11. ASSUME NEW p \in Proc, NEW i \in 1..MaxPages, NEW w \in BOOLEAN, Protect(p, i, w) PROVE MemStep
  BY <1>11, ProtectMem
<1>12. ASSUME NEW p \in Proc, ShmMap(p) PROVE MemStep
  BY <1>12, ShmMapMem
<1>13. CASE UNCHANGED vars
  <2>1. ContentsKept /\ pt' = pt /\ pc' = pc
    BY <1>13 DEF vars, ContentsKept
  <2> QED
    BY <2>1, UnchangedPages, Quiet DEF MemStep, Exists
<1> QED
  BY <1>1, <1>2, <1>3, <1>4, <1>5, <1>6, <1>7, <1>8, <1>9, <1>10, <1>11, <1>12, <1>13 DEF Next

\* Copy-on-write cannot be observed, however forks, faults, stores, exits and
\* the shared object interleave: Cow implements PrivateMemory.
THEOREM CowImplementsPrivateMemory ==
    ASSUME Careful
    PROVE  Spec => RefinesMemory
<1>1. ASSUME Init PROVE Memory!Init
  <2>1. PICK first \in Proc : pc = [p \in Proc |-> IF p = first THEN "run" ELSE "none"]
    BY <1>1 DEF Init
  <2>2. Running = {first}
    BY <2>1 DEF Running, Exists
  <2>3. View(first) = <<>>
    BY <1>1 DEF Init, View
  <2>4. Mem = [p \in Proc |-> <<>>]
    BY <2>1, <2>3 DEF Mem, Exists
  <2> QED
    BY <2>2, <2>4 DEF Running, Mem, Memory!Init
<1>2. IInv /\ IInv' /\ [Next]_vars => [Memory!Next]_Memory!vars
  BY NextMem, MemStepIs
<1> QED
  BY <1>1, <1>2, Invariance, PTL DEF Spec, RefinesMemory, Memory!Spec
=============================================================================
