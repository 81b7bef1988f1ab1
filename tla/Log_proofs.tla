----------------------------- MODULE Log_proofs -----------------------------
(***************************************************************************)
(* Proofs about Log, for every set of processes, blocks and contents and   *)
(* every LOGSIZE, sb.nlog and MAXOPBLOCKS.                                 *)
(*                                                                         *)
(* IInv is the inductive invariant.  One lemma per action shows that the   *)
(* action preserves it; the theorems at the end follow from it.            *)
(***************************************************************************)
EXTENDS Log, FiniteSetTheorems, TLAPS

\* The processes inside an operation, and the header entries they may add.
Active == {p \in Proc : pc[p] \in InOp}
Budget == {x \in Proc \X (1..MaxOpBlocks) : x[2] <= left[x[1]]}

\* log.outstanding counts the operations; log.committing excludes them.
CountInv ==
    /\ outstanding = Cardinality(Active)
    /\ \A p \in Proc : left[p] > 0 => pc[p] \in InOp
    /\ committing => Active = {}
    /\ committing <=> \E p \in Proc : pc[p] \in Committer
    /\ \A p, q \in Proc :
          pc[p] \in Committer /\ pc[q] \in Committer => p = q

\* begin_op()'s reservation: entries used and entries still promised.
BudgetInv == Len(lh) + Cardinality(Budget) <= LogSize

\* The buffer lock held across log_write().
HeldInv ==
    /\ \A p \in Proc : held[p] # NoBlock <=> pc[p] = "logging"
    /\ \A p, q \in Proc : held[p] = held[q] /\ held[p] # NoBlock => p = q
    /\ \A p \in Proc : pc[p] = "logging" => left[p] > 0 \/ held[p] \in Logged

\* Log absorption: a block has one slot.
DistinctInv == \A i, j \in 1..Len(lh) : lh[i] = lh[j] => i = j

\* Slots below `t` of the log area hold what the cache holds.
Copied(t) == \A i \in 1..Len(lh) : i < t => dlog[i] = cache[lh[i]]

\* Outside install_trans(), the header on disk is empty and exactly the
\* blocks of the transaction are dirty.
QuietInv ==
    (\A p \in Proc : pc[p] \notin {"install", "erase"}) =>
        dhead = <<>> /\ dirty = Logged

\* What memory and disk hold in each phase of a commit.
PhaseInv ==
    \A p \in Proc :
        /\ pc[p] = "write_log" => tail <= Len(lh) /\ Copied(tail)
        /\ pc[p] = "write_head" =>
              tail = 1 /\ lh # <<>> /\ Copied(Len(lh) + 1)
        /\ pc[p] = "install" =>
              /\ dhead = lh /\ Copied(Len(lh) + 1) /\ tail <= Len(lh)
              /\ dirty = {lh[i] : i \in tail..Len(lh)}
        /\ pc[p] = "erase" =>
              dhead = lh /\ Copied(Len(lh) + 1) /\ dirty = {}
        /\ pc[p] = "finish" => lh = <<>>

IInv ==
    /\ TypeOK
    /\ CountInv
    /\ BudgetInv
    /\ HeldInv
    /\ DistinctInv
    /\ Pinned
    /\ QuietInv
    /\ PhaseInv

-----------------------------------------------------------------------------
(* Counting *)

\* Finitely many operations are open (log.outstanding can be a cardinality).
LEMMA ActiveFinite == IsFiniteSet(Active)
  BY FS_Subset, LogAssumption DEF Active

\* The promised header entries form a finite set.
LEMMA BudgetFinite == IsFiniteSet(Budget)
<1>1. IsFiniteSet(1..MaxOpBlocks)
  BY FS_Interval, LogAssumption
<1>2. IsFiniteSet(Proc \X (1..MaxOpBlocks))
  BY <1>1, FS_Product, LogAssumption
<1> QED
  BY <1>2, FS_Subset DEF Budget

\* The reservation never promises more than MAXOPBLOCKS per operation.
LEMMA BudgetBound ==
    ASSUME TypeOK, CountInv
    PROVE  /\ Cardinality(Budget) \in Nat
           /\ Cardinality(Budget) <= outstanding * MaxOpBlocks
<1> DEFINE Promised == Active \X (1..MaxOpBlocks)
<1>1. IsFiniteSet(1..MaxOpBlocks) /\ Cardinality(1..MaxOpBlocks) = MaxOpBlocks
  BY FS_Interval, LogAssumption
<1>2. IsFiniteSet(Promised)
      /\ Cardinality(Promised) = Cardinality(Active) * MaxOpBlocks
  BY <1>1, ActiveFinite, FS_Product
<1>3. Budget \subseteq Promised
  BY LogAssumption DEF Budget, Active, CountInv, TypeOK
<1> QED
  BY <1>2, <1>3, BudgetFinite, FS_Subset, FS_CardinalityType DEF CountInv

-----------------------------------------------------------------------------
(* Every action preserves IInv. *)

\* BeginOp preserves the inductive invariant.
LEMMA BeginOpStep ==
    ASSUME IInv, NEW p \in Proc, BeginOp(p)
    PROVE  IInv'
<1> USE LogAssumption DEF IInv, BeginOp, memory, disk, procs, Outside, InOp, Committer, MustWait, MayExhaust
<1>a. Active' = Active \cup {p} /\ p \notin Active
  BY DEF Active, TypeOK
<1>1. TypeOK'
  BY DEF TypeOK
<1>2. CountInv'
  <2>1. Cardinality(Active') = Cardinality(Active) + 1
    BY <1>a, ActiveFinite, FS_AddElement
  <2> QED
    BY <1>a, <2>1 DEF TypeOK, CountInv, Active
<1>3. BudgetInv'
  <2> DEFINE Mine == {p} \X (1..MaxOpBlocks)
  <2>1. IsFiniteSet(Mine) /\ Cardinality(Mine) = MaxOpBlocks
    <3>1. IsFiniteSet({p}) /\ Cardinality({p}) = 1
      BY FS_Singleton
    <3>2. IsFiniteSet(1..MaxOpBlocks) /\ Cardinality(1..MaxOpBlocks) = MaxOpBlocks
      BY FS_Interval
    <3>3. /\ IsFiniteSet(Mine)
          /\ Cardinality(Mine) = Cardinality({p}) * Cardinality(1..MaxOpBlocks)
      BY <3>1, <3>2, FS_Product, Zenon
    <3> QED
      BY <3>1, <3>2, <3>3
  <2>2. Budget' \subseteq Budget \cup Mine
    BY DEF Budget, TypeOK
  <2>3. /\ IsFiniteSet(Budget \cup Mine)
        /\ Cardinality(Budget \cup Mine) <= Cardinality(Budget) + MaxOpBlocks
    <3>1. /\ IsFiniteSet(Budget \cup Mine)
          /\ Cardinality(Budget \cup Mine) =
                Cardinality(Budget) + Cardinality(Mine) - Cardinality(Budget \cap Mine)
      BY <2>1, BudgetFinite, FS_Union
    <3>2. Cardinality(Budget \cap Mine) \in Nat
      BY BudgetFinite, FS_Intersection, FS_CardinalityType
    <3> QED
      BY <2>1, <3>1, <3>2, BudgetBound
  <2>4. Cardinality(Budget') <= Cardinality(Budget) + MaxOpBlocks /\ Cardinality(Budget') \in Nat
    BY <2>2, <2>3, FS_Subset, FS_CardinalityType, BudgetBound
  <2>5. Len(lh) + (outstanding + 1) * MaxOpBlocks <= LogSize
    BY DEF TypeOK
  <2>6. (outstanding + 1) * MaxOpBlocks = outstanding * MaxOpBlocks + MaxOpBlocks
    BY DEF TypeOK
  <2>7. outstanding * MaxOpBlocks \in Nat
    BY DEF TypeOK
  <2> QED
    BY <2>4, <2>5, <2>6, <2>7, BudgetBound DEF BudgetInv, TypeOK
<1>4. HeldInv'
  BY DEF TypeOK, HeldInv, Logged
<1>5. DistinctInv'
  BY DEF TypeOK, DistinctInv
<1>6. Pinned'
  BY DEF TypeOK, Pinned
<1>7. QuietInv'
  BY DEF TypeOK, QuietInv, Logged
<1>8. PhaseInv'
  BY DEF TypeOK, PhaseInv, Copied
<1> QED
  BY <1>1, <1>2, <1>3, <1>4, <1>5, <1>6, <1>7, <1>8

\* BeginSleep preserves the inductive invariant.
LEMMA BeginSleepStep ==
    ASSUME IInv, NEW p \in Proc, BeginSleep(p)
    PROVE  IInv'
<1> USE LogAssumption DEF IInv, BeginSleep, memory, disk, procs, Outside, InOp, Committer
<1>a. Active' = Active
  BY DEF Active, TypeOK
<1>1. TypeOK'
  BY DEF TypeOK
<1>2. CountInv'
  BY <1>a DEF TypeOK, CountInv
<1>3. BudgetInv'
  BY DEF TypeOK, BudgetInv, Budget
<1>4. HeldInv'
  BY DEF TypeOK, HeldInv, Logged
<1>5. DistinctInv'
  BY DEF TypeOK, DistinctInv
<1>6. Pinned'
  BY DEF TypeOK, Pinned
<1>7. QuietInv'
  BY DEF TypeOK, QuietInv, Logged
<1>8. PhaseInv'
  BY DEF TypeOK, PhaseInv, Copied
<1> QED
  BY <1>1, <1>2, <1>3, <1>4, <1>5, <1>6, <1>7, <1>8

\* EndOp preserves the inductive invariant.
LEMMA EndOpStep ==
    ASSUME IInv, NEW p \in Proc, EndOp(p)
    PROVE  IInv'
<1> USE LogAssumption DEF IInv, EndOp, memory, disk, procs, Outside, InOp, Committer, WakeupLog
<1>a. Active' = Active \ {p} /\ p \in Active
  BY DEF Active, TypeOK
<1>z. \A q \in Proc : pc[q] \notin Committer /\ pc'[q] \notin Committer
  BY DEF CountInv, Active, TypeOK
<1>1. TypeOK'
  BY DEF TypeOK
<1>2. CountInv'
  <2>1. Cardinality(Active') = Cardinality(Active) - 1
    BY <1>a, ActiveFinite, FS_RemoveElement
  <2> QED
    BY <1>a, <2>1 DEF TypeOK, CountInv, Active
<1>3. BudgetInv'
  <2>1. Budget' \subseteq Budget
    BY DEF Budget, TypeOK
  <2>2. Cardinality(Budget') <= Cardinality(Budget) /\ Cardinality(Budget') \in Nat
    BY <2>1, BudgetFinite, FS_Subset, FS_CardinalityType
  <2> QED
    BY <2>2, BudgetBound DEF BudgetInv, TypeOK
<1>4. HeldInv'
  BY DEF TypeOK, HeldInv, Logged
<1>5. DistinctInv'
  BY DEF TypeOK, DistinctInv
<1>6. Pinned'
  BY DEF TypeOK, Pinned
<1>7. QuietInv'
  BY DEF TypeOK, QuietInv, Logged
<1>8. PhaseInv'
  BY <1>z DEF PhaseInv
<1> QED
  BY <1>1, <1>2, <1>3, <1>4, <1>5, <1>6, <1>7, <1>8

\* EndLastOp preserves the inductive invariant.
LEMMA EndLastOpStep ==
    ASSUME IInv, NEW p \in Proc, EndLastOp(p)
    PROVE  IInv'
<1> USE LogAssumption DEF IInv, EndLastOp, memory, disk, procs, Outside, InOp, Committer
<1>a. Active' = Active \ {p} /\ p \in Active
  BY DEF Active, TypeOK
<1>b. Active' = {}
  <2>1. Cardinality(Active') = 0 /\ IsFiniteSet(Active')
    <3>1. Cardinality(Active) = 1
      BY DEF CountInv
    <3> QED
      BY <1>a, <3>1, ActiveFinite, FS_RemoveElement
  <2> QED
    BY <2>1, FS_EmptySet
<1>c. lh # <<>> => Len(lh) >= 1
  BY DEF TypeOK
<1>d. \A q \in Proc : q # p => pc'[q] \notin Committer
  BY <1>a DEF Active, CountInv, TypeOK
<1>1. TypeOK'
  BY DEF TypeOK
<1>2. CountInv'
  <2>1. Cardinality(Active') = 0
    BY <1>b, FS_EmptySet
  <2>2. \A q \in Proc : q # p => pc'[q] \notin InOp /\ pc'[q] \notin Committer
    BY <1>a, <1>b DEF Active, CountInv, TypeOK
  <2> QED
    BY <1>b, <2>1, <2>2 DEF TypeOK, CountInv, Active
<1>3. BudgetInv'
  <2>1. Budget' \subseteq Budget
    BY DEF Budget, TypeOK
  <2>2. Cardinality(Budget') <= Cardinality(Budget) /\ Cardinality(Budget') \in Nat
    BY <2>1, BudgetFinite, FS_Subset, FS_CardinalityType
  <2> QED
    BY <2>2, BudgetBound DEF BudgetInv, TypeOK
<1>4. HeldInv'
  BY DEF TypeOK, HeldInv, Logged
<1>5. DistinctInv'
  BY DEF TypeOK, DistinctInv
<1>6. Pinned'
  BY DEF TypeOK, Pinned
<1>7. QuietInv'
  BY DEF TypeOK, QuietInv, Logged
<1>8. PhaseInv'
  <2> SUFFICES ASSUME NEW q \in Proc
               PROVE  PhaseInv!(q)'
    BY DEF PhaseInv
  <2>1. CASE q # p
    BY <1>d, <2>1
  <2>2. CASE q = p
    BY <1>c, <2>2 DEF TypeOK, Copied
  <2> QED
    BY <2>1, <2>2
<1> QED
  BY <1>1, <1>2, <1>3, <1>4, <1>5, <1>6, <1>7, <1>8

\* FinishCommit preserves the inductive invariant.
LEMMA FinishCommitStep ==
    ASSUME IInv, NEW p \in Proc, FinishCommit(p)
    PROVE  IInv'
<1> USE LogAssumption DEF IInv, FinishCommit, memory, disk, procs, Outside, InOp, Committer, WakeupLog
<1>a. Active' = Active
  BY DEF Active, TypeOK
<1>1. TypeOK'
  BY DEF TypeOK
<1>2. CountInv'
  <2>1. \A q \in Proc : q # p => pc[q] \notin Committer
    BY DEF CountInv
  <2>2. \A q \in Proc : pc'[q] \notin Committer
    BY <2>1 DEF TypeOK
  <2>3. Active = {}
    BY DEF CountInv
  <2> QED
    BY <1>a, <2>2, <2>3 DEF TypeOK, CountInv, Active
<1>3. BudgetInv'
  BY DEF TypeOK, BudgetInv, Budget
<1>4. HeldInv'
  BY DEF TypeOK, HeldInv, Logged
<1>5. DistinctInv'
  BY DEF TypeOK, DistinctInv
<1>6. Pinned'
  BY DEF TypeOK, Pinned
<1>7. QuietInv'
  BY DEF TypeOK, QuietInv, Logged
<1>8. PhaseInv'
  BY DEF TypeOK, PhaseInv, Copied
<1> QED
  BY <1>1, <1>2, <1>3, <1>4, <1>5, <1>6, <1>7, <1>8

\* LogWriteCheck preserves the inductive invariant.
LEMMA LogWriteCheckStep ==
    ASSUME IInv, NEW p \in Proc, NEW b \in Block, NEW d \in Data, LogWriteCheck(p, b, d)
    PROVE  IInv'
<1> USE LogAssumption DEF IInv, LogWriteCheck, memory, disk, procs, Outside, InOp, Committer
<1>z. \A q \in Proc : pc[q] \notin Committer /\ pc'[q] \notin Committer
  BY DEF CountInv, Active, TypeOK
<1>y. held[p] = NoBlock /\ b # NoBlock
  BY DEF HeldInv, TypeOK
<1>1. TypeOK'
  BY DEF TypeOK
<1>2. CountInv'
  BY DEF TypeOK, CountInv, Active
<1>3. BudgetInv'
  BY DEF TypeOK, BudgetInv, Budget
<1>4. HeldInv'
  <2>1. \A q \in Proc : held'[q] # NoBlock <=> pc'[q] = "logging"
    BY <1>y DEF TypeOK, HeldInv
  <2>2. \A q, r \in Proc : held'[q] = held'[r] /\ held'[q] # NoBlock => q = r
    BY <1>y DEF TypeOK, HeldInv
  <2>3. \A q \in Proc : pc'[q] = "logging" => left'[q] > 0 \/ held'[q] \in Logged'
    BY DEF TypeOK, HeldInv, Logged
  <2> QED
    BY <2>1, <2>2, <2>3 DEF HeldInv
<1>5. DistinctInv'
  BY DEF TypeOK, DistinctInv
<1>6. Pinned'
  <2> SUFFICES ASSUME NEW c \in Block, cache'[c] # home'[c]
               PROVE  c \in dirty' \/ \E q \in Proc : held'[q] = c
    BY DEF Pinned
  <2>1. CASE c = b
    BY <2>1 DEF TypeOK
  <2>2. CASE c # b
    <3>1. c \in dirty \/ \E q \in Proc : held[q] = c
      BY <2>2 DEF TypeOK, Pinned
    <3>2. \A q \in Proc : held[q] = c => held'[q] = c
      BY <1>y DEF TypeOK
    <3> QED
      BY <3>1, <3>2
  <2> QED
    BY <2>1, <2>2
<1>7. QuietInv'
  <2>1. dhead' = dhead /\ dirty' = dirty /\ Logged' = Logged
    BY DEF Logged
  <2> QED
    BY <1>z, <2>1 DEF QuietInv
<1>8. PhaseInv'
  BY <1>z DEF PhaseInv
<1> QED
  BY <1>1, <1>2, <1>3, <1>4, <1>5, <1>6, <1>7, <1>8

\* LogWritePanic preserves the inductive invariant.
LEMMA LogWritePanicStep ==
    ASSUME IInv, NEW p \in Proc, NEW b \in Block, LogWritePanic(p, b)
    PROVE  IInv'
<1> USE LogAssumption DEF IInv, LogWritePanic, memory, disk, procs, Outside, InOp, Committer
<1>1. TypeOK'
  BY DEF TypeOK
<1>2. CountInv'
  BY DEF TypeOK, CountInv, Active
<1>3. BudgetInv'
  BY DEF TypeOK, BudgetInv, Budget
<1>4. HeldInv'
  BY DEF TypeOK, HeldInv, Logged
<1>5. DistinctInv'
  BY DEF TypeOK, DistinctInv
<1>6. Pinned'
  BY DEF TypeOK, Pinned
<1>7. QuietInv'
  BY DEF TypeOK, QuietInv, Logged
<1>8. PhaseInv'
  BY DEF TypeOK, PhaseInv, Copied
<1> QED
  BY <1>1, <1>2, <1>3, <1>4, <1>5, <1>6, <1>7, <1>8

\* LogWrite preserves the inductive invariant.
LEMMA LogWriteStep ==
    ASSUME IInv, NEW p \in Proc, LogWrite(p)
    PROVE  IInv'
<1> USE LogAssumption DEF IInv, LogWrite, memory, disk, procs, Outside, InOp, Committer, Pin
<1>z. \A q \in Proc : pc[q] \notin Committer /\ pc'[q] \notin Committer
  BY DEF CountInv, Active, TypeOK
<1>y. held[p] \in Block
  BY DEF HeldInv, TypeOK
<1>x. ASSUME held[p] \notin Logged
      PROVE  /\ lh' = Append(lh, held[p]) /\ lh' \in Seq(Block)
             /\ Len(lh') = Len(lh) + 1
             /\ \A i \in 1..Len(lh) : lh'[i] = lh[i]
             /\ lh'[Len(lh) + 1] = held[p]
             /\ left[p] > 0
             /\ left' = [left EXCEPT ![p] = @ - 1]
  <2>1. lh' = Append(lh, held[p]) /\ left' = [left EXCEPT ![p] = @ - 1]
    BY <1>x
  <2>2. lh \in Seq(Block)
    BY DEF TypeOK
  <2>3. left[p] > 0
    BY <1>x DEF HeldInv
  <2> QED
    BY <1>y, <2>1, <2>2, <2>3
<1>w. Logged' = Logged \cup {held[p]}
  <2>1. CASE held[p] \in Logged
    BY <2>1 DEF Logged
  <2>2. CASE held[p] \notin Logged
    <3>1. Len(lh) \in Nat /\ Len(lh') = Len(lh) + 1
      BY <1>x, <2>2 DEF TypeOK
    <3>2. 1..Len(lh') = (1..Len(lh)) \cup {Len(lh) + 1}
      BY <3>1
    <3> QED
      BY <1>x, <2>2, <3>2 DEF Logged
  <2> QED
    BY <2>1, <2>2
<1>v. Active' = Active
  BY DEF Active, TypeOK
<1>1. TypeOK'
  <2>1. /\ pc' \in [Proc -> Outside \cup InOp \cup Committer]
        /\ held' \in [Proc -> Block \cup {NoBlock}]
        /\ dirty' \subseteq Block
    BY <1>y DEF TypeOK
  <2>2. lh' \in Seq(Block) /\ left' \in [Proc -> 0..MaxOpBlocks]
    <3>1. CASE held[p] \in Logged
      BY <3>1 DEF TypeOK
    <3>2. CASE held[p] \notin Logged
      <4>1. left[p] \in 1..MaxOpBlocks
        BY <1>x, <3>2 DEF TypeOK
      <4> QED
        BY <1>x, <3>2, <4>1 DEF TypeOK
    <3> QED
      BY <3>1, <3>2
  <2> QED
    BY <2>1, <2>2 DEF TypeOK
<1>2. CountInv'
  <2>1. \A q \in Proc : left'[q] > 0 => pc'[q] \in InOp
    <3>1. CASE held[p] \in Logged
      BY <3>1 DEF TypeOK, CountInv
    <3>2. CASE held[p] \notin Logged
      BY <1>x, <3>2 DEF TypeOK, CountInv
    <3> QED
      BY <3>1, <3>2
  <2> QED
    BY <1>v, <1>z, <2>1 DEF CountInv, TypeOK
<1>3. BudgetInv'
  <2>1. CASE held[p] \in Logged
    BY <2>1 DEF BudgetInv, Budget
  <2>2. CASE held[p] \notin Logged
    <3>1. left[p] > 0
      BY <2>2 DEF HeldInv
    <3>2. Budget' \subseteq Budget \ {<<p, left[p]>>} /\ <<p, left[p]>> \in Budget
      BY <2>2, <3>1 DEF Budget, TypeOK
    <3>3. /\ IsFiniteSet(Budget \ {<<p, left[p]>>})
          /\ Cardinality(Budget \ {<<p, left[p]>>}) = Cardinality(Budget) - 1
      BY <3>2, BudgetFinite, FS_RemoveElement
    <3>4. Cardinality(Budget') <= Cardinality(Budget) - 1 /\ Cardinality(Budget') \in Nat
      BY <3>2, <3>3, FS_Subset, FS_CardinalityType
    <3>5. Len(lh') = Len(lh) + 1
      BY <2>2 DEF TypeOK, HeldInv
    <3> QED
      BY <3>4, <3>5, BudgetBound DEF BudgetInv, TypeOK
  <2> QED
    BY <2>1, <2>2
<1>4. HeldInv'
  <2>1. \A q \in Proc : held'[q] # NoBlock <=> pc'[q] = "logging"
    BY <1>y DEF TypeOK, HeldInv
  <2>2. \A q, r \in Proc : held'[q] = held'[r] /\ held'[q] # NoBlock => q = r
    BY DEF TypeOK, HeldInv
  <2>3. \A q \in Proc : q # p => left'[q] = left[q] /\ held'[q] = held[q] /\ pc'[q] = pc[q]
    BY DEF TypeOK
  <2>4. pc'[p] # "logging"
    BY DEF TypeOK
  <2>5. \A q \in Proc : pc'[q] = "logging" => left'[q] > 0 \/ held'[q] \in Logged'
    BY <1>w, <2>3, <2>4 DEF HeldInv
  <2> QED
    BY <2>1, <2>2, <2>5 DEF HeldInv
<1>5. DistinctInv'
  <2>1. CASE held[p] \in Logged
    BY <2>1 DEF DistinctInv
  <2>2. CASE held[p] \notin Logged
    <3>1. Len(lh) \in Nat
      BY DEF TypeOK
    <3>2. \A i \in 1..Len(lh) : lh'[i] # held[p] /\ lh'[i] = lh[i]
      BY <1>x, <2>2 DEF Logged
    <3>3. \A i \in 1..Len(lh') : i \in 1..Len(lh) \/ i = Len(lh) + 1
      BY <1>x, <2>2, <3>1
    <3> SUFFICES ASSUME NEW i \in 1..Len(lh'), NEW j \in 1..Len(lh'), lh'[i] = lh'[j]
                 PROVE  i = j
      BY DEF DistinctInv
    <3>4. lh'[Len(lh) + 1] = held[p]
      BY <1>x, <2>2
    <3> QED
      BY <3>2, <3>3, <3>4 DEF DistinctInv
  <2> QED
    BY <2>1, <2>2
<1>6. Pinned'
  BY DEF TypeOK, Pinned
<1>7. QuietInv'
  BY <1>w, <1>z DEF QuietInv
<1>8. PhaseInv'
  BY <1>z DEF PhaseInv
<1> QED
  BY <1>1, <1>2, <1>3, <1>4, <1>5, <1>6, <1>7, <1>8

\* Evict preserves the inductive invariant.
LEMMA EvictStep ==
    ASSUME IInv, NEW b \in Block, Evict(b)
    PROVE  IInv'
<1> USE LogAssumption DEF IInv, Evict, memory, disk, procs, Outside, InOp, Committer
<1>1. TypeOK'
  BY DEF TypeOK
<1>2. CountInv'
  BY DEF TypeOK, CountInv, Active
<1>3. BudgetInv'
  BY DEF TypeOK, BudgetInv, Budget
<1>4. HeldInv'
  BY DEF TypeOK, HeldInv, Logged
<1>5. DistinctInv'
  BY DEF TypeOK, DistinctInv
<1>6. Pinned'
  BY DEF TypeOK, Pinned
<1>7. QuietInv'
  BY DEF TypeOK, QuietInv, Logged
<1>8. PhaseInv'
  <2>1. cache' = cache
    BY DEF Pinned, TypeOK
  <2> QED
    BY <2>1 DEF PhaseInv, Copied
<1> QED
  BY <1>1, <1>2, <1>3, <1>4, <1>5, <1>6, <1>7, <1>8

\* WriteLog preserves the inductive invariant.
LEMMA WriteLogStep ==
    ASSUME IInv, NEW p \in Proc, WriteLog(p)
    PROVE  IInv'
<1> USE LogAssumption DEF IInv, WriteLog, memory, disk, procs, Outside, InOp, Committer, LastSlot
<1>a. \A q \in Proc : q # p => pc[q] \notin Committer /\ pc'[q] = pc[q]
  BY DEF CountInv, TypeOK
<1>b. /\ tail \in 1..Len(lh) /\ Len(lh) <= LogSize /\ Copied(tail)
      /\ lh[tail] \in Block /\ cache[lh[tail]] \in Data
  BY BudgetBound DEF BudgetInv, PhaseInv, TypeOK
<1>c. \A i \in 1..Len(lh) : i < tail + 1 => dlog'[i] = cache[lh[i]]
  <2>1. tail \in DOMAIN dlog /\ Len(lh) \in Nat
    BY <1>b DEF TypeOK
  <2>2. dlog'[tail] = cache[lh[tail]] /\ \A i \in 1..Len(lh) : i # tail => dlog'[i] = dlog[i]
    BY <1>b, <2>1 DEF TypeOK
  <2>3. \A i \in 1..Len(lh) : i < tail + 1 => i = tail \/ i < tail
    BY <1>b, <2>1
  <2> QED
    BY <1>b, <2>2, <2>3 DEF Copied
<1>d. /\ tail = Len(lh) => tail' = 1 /\ pc' = [pc EXCEPT ![p] = "write_head"]
      /\ tail # Len(lh) => tail' = tail + 1 /\ pc' = pc
  OBVIOUS
<1>e. dlog' \in [1..LogSize -> Data]
  BY <1>b DEF TypeOK
<1>1. TypeOK'
  <2>1. tail' \in Nat \ {0} /\ pc' \in [Proc -> Outside \cup InOp \cup Committer]
    <3>1. CASE tail = Len(lh)
      <4>1. tail' = 1 /\ pc' = [pc EXCEPT ![p] = "write_head"]
        BY <1>d, <3>1
      <4>2. pc' \in [Proc -> Outside \cup InOp \cup Committer]
        BY <4>1 DEF TypeOK
      <4> QED
        BY <4>1, <4>2
    <3>2. CASE tail # Len(lh)
      BY <1>b, <1>d, <3>2 DEF TypeOK
    <3> QED
      BY <3>1, <3>2
  <2> QED
    BY <1>e, <2>1 DEF TypeOK
<1>2. CountInv'
  BY DEF TypeOK, CountInv, Active
<1>3. BudgetInv'
  BY DEF TypeOK, BudgetInv, Budget
<1>4. HeldInv'
  BY DEF TypeOK, HeldInv, Logged
<1>5. DistinctInv'
  BY DEF TypeOK, DistinctInv
<1>6. Pinned'
  BY DEF TypeOK, Pinned
<1>7. QuietInv'
  BY DEF TypeOK, QuietInv, Logged
<1>8. PhaseInv'
  <2> SUFFICES ASSUME NEW q \in Proc
               PROVE  PhaseInv!(q)'
    BY DEF PhaseInv
  <2>1. CASE q # p
    BY <1>a, <2>1
  <2>2. CASE q = p
    <3>1. CASE tail = Len(lh)
      <4>1. tail' = 1 /\ pc'[p] = "write_head" /\ lh # <<>>
        BY <1>b, <1>d, <3>1 DEF TypeOK
      <4>2. Copied(Len(lh) + 1)'
        BY <1>c, <3>1 DEF Copied
      <4> QED
        BY <2>2, <4>1, <4>2
    <3>2. CASE tail # Len(lh)
      <4>1. tail' = tail + 1 /\ pc'[p] = "write_log" /\ tail' <= Len(lh')
        BY <1>b, <1>d, <3>2 DEF TypeOK
      <4>2. Copied(tail)'
        BY <1>c, <4>1 DEF Copied
      <4> QED
        BY <2>2, <4>1, <4>2
    <3> QED
      BY <3>1, <3>2
  <2> QED
    BY <2>1, <2>2
<1> QED
  BY <1>1, <1>2, <1>3, <1>4, <1>5, <1>6, <1>7, <1>8

\* WriteLogOverrun preserves the inductive invariant.
LEMMA WriteLogOverrunStep ==
    ASSUME IInv, NEW p \in Proc, WriteLogOverrun(p)
    PROVE  IInv'
<1> USE LogAssumption DEF IInv, WriteLogOverrun, memory, disk, procs, Outside, InOp, Committer
<1>1. TypeOK'
  BY DEF TypeOK
<1>2. CountInv'
  BY DEF TypeOK, CountInv, Active
<1>3. BudgetInv'
  BY DEF TypeOK, BudgetInv, Budget
<1>4. HeldInv'
  BY DEF TypeOK, HeldInv, Logged
<1>5. DistinctInv'
  BY DEF TypeOK, DistinctInv
<1>6. Pinned'
  BY DEF TypeOK, Pinned
<1>7. QuietInv'
  BY DEF TypeOK, QuietInv, Logged
<1>8. PhaseInv'
  BY DEF TypeOK, PhaseInv, Copied
<1> QED
  BY <1>1, <1>2, <1>3, <1>4, <1>5, <1>6, <1>7, <1>8

\* WriteHead preserves the inductive invariant.
LEMMA WriteHeadStep ==
    ASSUME IInv, NEW p \in Proc, WriteHead(p)
    PROVE  IInv'
<1> USE LogAssumption DEF IInv, WriteHead, memory, disk, procs, Outside, InOp, Committer
<1>a. \A q \in Proc : q # p => pc[q] \notin Committer /\ pc'[q] = pc[q]
  BY DEF CountInv, TypeOK
<1>1. TypeOK'
  BY DEF TypeOK
<1>2. CountInv'
  BY DEF TypeOK, CountInv, Active
<1>3. BudgetInv'
  BY DEF TypeOK, BudgetInv, Budget
<1>4. HeldInv'
  BY DEF TypeOK, HeldInv, Logged
<1>5. DistinctInv'
  BY DEF TypeOK, DistinctInv
<1>6. Pinned'
  BY DEF TypeOK, Pinned
<1>7. QuietInv'
  BY DEF TypeOK, QuietInv, Logged
<1>8. PhaseInv'
  <2> SUFFICES ASSUME NEW q \in Proc
               PROVE  PhaseInv!(q)'
    BY DEF PhaseInv
  <2>1. CASE q # p
    BY <1>a, <2>1
  <2>2. CASE q = p
    <3>1. tail = 1 /\ lh # <<>> /\ Copied(Len(lh) + 1) /\ dirty = Logged
      BY <1>a DEF PhaseInv, QuietInv
    <3>2. Len(lh) >= 1
      BY <3>1 DEF TypeOK
    <3> QED
      BY <2>2, <3>1, <3>2 DEF TypeOK, Copied, Logged
  <2> QED
    BY <2>1, <2>2
<1> QED
  BY <1>1, <1>2, <1>3, <1>4, <1>5, <1>6, <1>7, <1>8

\* InstallTrans preserves the inductive invariant.
LEMMA InstallTransStep ==
    ASSUME IInv, NEW p \in Proc, InstallTrans(p)
    PROVE  IInv'
<1> USE LogAssumption DEF IInv, InstallTrans, memory, disk, procs, Outside, InOp, Committer, LastSlot
<1>a. \A q \in Proc : q # p => pc[q] \notin Committer /\ pc'[q] = pc[q]
  BY DEF CountInv, TypeOK
<1>b. /\ tail \in 1..Len(lh) /\ Copied(Len(lh) + 1) /\ dhead = lh
      /\ lh[tail] \in Block /\ dlog[tail] = cache[lh[tail]]
  BY DEF PhaseInv, TypeOK, Copied
<1>c. cache' = cache
  BY <1>b DEF TypeOK
<1>d. dirty' = {lh[i] : i \in (tail + 1)..Len(lh)}
  <2>1. dirty = {lh[i] : i \in tail..Len(lh)}
    BY DEF PhaseInv
  <2>2. tail..Len(lh) = {tail} \cup ((tail + 1)..Len(lh))
    BY <1>b
  <2> QED
    BY <1>b, <2>1, <2>2 DEF DistinctInv, TypeOK
<1>e. /\ tail = Len(lh) => tail' = 1 /\ pc' = [pc EXCEPT ![p] = "erase"]
      /\ tail # Len(lh) => tail' = tail + 1 /\ pc' = pc
  OBVIOUS
<1>1. TypeOK'
  <2>1. tail' \in Nat \ {0} /\ pc' \in [Proc -> Outside \cup InOp \cup Committer]
    <3>1. CASE tail = Len(lh)
      <4>1. tail' = 1 /\ pc' = [pc EXCEPT ![p] = "erase"]
        BY <1>e, <3>1
      <4>2. pc' \in [Proc -> Outside \cup InOp \cup Committer]
        BY <4>1 DEF TypeOK
      <4> QED
        BY <4>1, <4>2
    <3>2. CASE tail # Len(lh)
      BY <1>b, <1>e, <3>2 DEF TypeOK
    <3> QED
      BY <3>1, <3>2
  <2>2. cache' \in [Block -> Data] /\ home' \in [Block -> Data] /\ dirty' \subseteq Block
    BY <1>b, <1>c DEF TypeOK
  <2> QED
    BY <2>1, <2>2 DEF TypeOK
<1>2. CountInv'
  BY DEF TypeOK, CountInv, Active
<1>3. BudgetInv'
  BY DEF TypeOK, BudgetInv, Budget
<1>4. HeldInv'
  <2>1. \A q \in Proc : pc[q] # "logging" /\ pc'[q] # "logging"
    BY <1>a, <1>e DEF CountInv, Active, TypeOK
  <2> QED
    BY <2>1 DEF HeldInv
<1>5. DistinctInv'
  BY DEF TypeOK, DistinctInv
<1>6. Pinned'
  BY DEF TypeOK, Pinned
<1>7. QuietInv'
  BY DEF TypeOK, QuietInv, Logged
<1>8. PhaseInv'
  <2> SUFFICES ASSUME NEW q \in Proc
               PROVE  PhaseInv!(q)'
    BY DEF PhaseInv
  <2>1. CASE q # p
    BY <1>a, <2>1
  <2>2. CASE q = p
    <3>1. CASE tail = Len(lh)
      BY <1>b, <1>c, <1>d, <2>2, <3>1 DEF TypeOK, Copied
    <3>2. CASE tail # Len(lh)
      <4>1. tail' = tail + 1 /\ pc'[p] = "install" /\ tail' <= Len(lh')
        BY <1>b, <1>e, <3>2 DEF TypeOK
      <4>2. Copied(Len(lh) + 1)' /\ dhead' = lh'
        BY <1>b, <1>c DEF Copied
      <4>3. dirty' = {lh'[i] : i \in tail'..Len(lh')}
        BY <1>d, <4>1
      <4> QED
        BY <2>2, <4>1, <4>2, <4>3
    <3> QED
      BY <3>1, <3>2
  <2> QED
    BY <2>1, <2>2
<1> QED
  BY <1>1, <1>2, <1>3, <1>4, <1>5, <1>6, <1>7, <1>8

\* EraseHead preserves the inductive invariant.
LEMMA EraseHeadStep ==
    ASSUME IInv, NEW p \in Proc, EraseHead(p)
    PROVE  IInv'
<1> USE LogAssumption DEF IInv, EraseHead, memory, disk, procs, Outside, InOp, Committer
<1>a. \A q \in Proc : q # p => pc[q] \notin Committer /\ pc'[q] = pc[q]
  BY DEF CountInv, TypeOK
<1>b. lh' \in Seq(Block) /\ Len(lh') = 0 /\ Logged' = {} /\ dirty = {}
  BY DEF Logged, PhaseInv
<1>1. TypeOK'
  BY DEF TypeOK
<1>2. CountInv'
  BY DEF TypeOK, CountInv, Active
<1>3. BudgetInv'
  <2>1. Budget' = Budget /\ Len(lh) \in Nat
    BY DEF Budget, TypeOK
  <2> QED
    BY <1>b, <2>1, BudgetBound DEF BudgetInv, TypeOK
<1>4. HeldInv'
  <2>1. \A q \in Proc : pc[q] # "logging"
    BY DEF CountInv, Active
  <2> QED
    BY <2>1 DEF TypeOK, HeldInv
<1>5. DistinctInv'
  BY DEF TypeOK, DistinctInv
<1>6. Pinned'
  BY DEF TypeOK, Pinned
<1>7. QuietInv'
  BY <1>b DEF QuietInv
<1>8. PhaseInv'
  <2> SUFFICES ASSUME NEW q \in Proc
               PROVE  PhaseInv!(q)'
    BY DEF PhaseInv
  <2>1. CASE q # p
    BY <1>a, <2>1
  <2>2. CASE q = p
    BY <1>b, <2>2 DEF TypeOK
  <2> QED
    BY <2>1, <2>2
<1> QED
  BY <1>1, <1>2, <1>3, <1>4, <1>5, <1>6, <1>7, <1>8

-----------------------------------------------------------------------------
\* initlog() establishes the invariant.
LEMMA InitIInv == Init => IInv
<1> SUFFICES ASSUME Init PROVE IInv
  OBVIOUS
<1> USE LogAssumption DEF Init, Outside, InOp, Committer
<1>1. TypeOK
  <2>1. (CHOOSE d \in Data : TRUE) \in Data
    OBVIOUS
  <2>2. dlog \in [1..LogSize -> Data]
    BY <2>1
  <2>3. lh \in Seq(Block) /\ dhead \in Seq(Block)
    OBVIOUS
  <2>4. /\ pc \in [Proc -> Outside \cup InOp \cup Committer]
        /\ left \in [Proc -> 0..MaxOpBlocks]
        /\ held \in [Proc -> Block \cup {NoBlock}]
    OBVIOUS
  <2>5. cache \in [Block -> Data] /\ home \in [Block -> Data] /\ dirty \subseteq Block
    OBVIOUS
  <2>6. tail \in Nat \ {0}
    OBVIOUS
  <2>7. outstanding \in Nat /\ committing \in BOOLEAN /\ status \in {"ok", "panic", "overrun"}
    OBVIOUS
  <2> QED
    BY <2>2, <2>3, <2>4, <2>5, <2>6, <2>7 DEF TypeOK
<1>2. Active = {} /\ Budget = {}
  BY DEF Active, Budget
<1>3. CountInv
  BY <1>2, FS_EmptySet DEF CountInv
<1>4. BudgetInv
  BY <1>2, FS_EmptySet DEF BudgetInv
<1>5. HeldInv /\ DistinctInv /\ Pinned /\ PhaseInv
  BY DEF HeldInv, DistinctInv, Pinned, PhaseInv
<1>6. QuietInv
  BY DEF QuietInv, Logged
<1> QED
  BY <1>1, <1>3, <1>4, <1>5, <1>6 DEF IInv

\* Every step of log.c and of bget() preserves the invariant.
LEMMA NextIInv == IInv /\ [Next]_vars => IInv'
<1> SUFFICES ASSUME IInv, [Next]_vars PROVE IInv'
  OBVIOUS
<1>1. CASE Next
  BY <1>1, BeginOpStep, BeginSleepStep, EndOpStep, EndLastOpStep,
     FinishCommitStep, LogWriteCheckStep, LogWritePanicStep, LogWriteStep,
     EvictStep, WriteLogStep, WriteLogOverrunStep, WriteHeadStep,
     InstallTransStep, EraseHeadStep DEF Next, Op, CommitStep
<1>2. CASE UNCHANGED vars
  BY <1>2 DEF IInv, vars, TypeOK, CountInv, Active, BudgetInv, Budget, HeldInv,
     DistinctInv, Pinned, QuietInv, PhaseInv, Copied, Logged
<1> QED
  BY <1>1, <1>2

\* The inductive invariant holds of every reachable state.
THEOREM Invariance == Spec => []IInv
  BY InitIInv, NextIInv, PTL DEF Spec

-----------------------------------------------------------------------------
(* Theorems *)

\* The reservation of begin_op() bounds log.lh.n by LOGSIZE.
LEMMA HeaderBound ==
    ASSUME IInv
    PROVE  Len(lh) \in Nat /\ Len(lh) <= LogSize
<1>1. Cardinality(Budget) \in Nat
  BY BudgetBound DEF IInv
<1>2. Len(lh) \in Nat /\ Len(lh) + Cardinality(Budget) <= LogSize
  BY DEF IInv, BudgetInv, TypeOK
<1> QED
  BY <1>1, <1>2, LogAssumption

\* Every variable of kernel/log.c's model keeps its type.
THEOREM TypeCorrect == Spec => []TypeOK
  BY Invariance, PTL DEF IInv

\* begin_op()'s reservation keeps log.lh.block[] within LOGSIZE although
\* log_write() tests the size before it takes log.lock.
THEOREM HeaderNeverOverflows == Spec => []HeaderFits
<1>1. IInv => HeaderFits
  BY HeaderBound DEF HeaderFits
<1> QED
  BY <1>1, Invariance, PTL

\* No update is lost by eviction and none reaches its home block early.
THEOREM UpdatesStayPinned == Spec => []Pinned
  BY Invariance, PTL DEF IInv

\* end_op()'s panic("log.committing") and log_write()'s "outside of trans"
\* panic cannot happen, and two commits never overlap.
THEOREM CommitsAlone == Spec => []CommitAlone
<1>1. IInv => CommitAlone
  <2> SUFFICES ASSUME IInv PROVE CommitAlone
    OBVIOUS
  <2>1. ASSUME NEW p \in Proc, pc[p] \in InOp
        PROVE  ~committing /\ outstanding > 0
    <3>1. p \in Active
      BY <2>1 DEF Active
    <3>2. Cardinality(Active) \in Nat /\ Cardinality(Active) # 0
      BY <3>1, ActiveFinite, FS_EmptySet, FS_CardinalityType
    <3> QED
      BY <3>1, <3>2 DEF IInv, CountInv
  <2> QED
    BY <2>1 DEF CommitAlone, IInv, CountInv
<1> QED
  BY <1>1, Invariance, PTL

-----------------------------------------------------------------------------
\* With the log's blocks counted as param.h:51 words it (LOGSIZE data blocks
\* besides the header), no commit writes past the log area.
THEOREM LogAreaSuffices ==
    ASSUME LogBlocks > LogSize
    PROVE  Spec => []NoOverrun
<1>1. Init => NoOverrun
  BY DEF Init, NoOverrun
<1>2. IInv /\ NoOverrun /\ [Next]_vars => NoOverrun'
  <2> SUFFICES ASSUME IInv, NoOverrun, [Next]_vars PROVE NoOverrun'
    OBVIOUS
  <2>1. ASSUME NEW p \in Proc, WriteLogOverrun(p) PROVE FALSE
    <3>1. tail <= Len(lh) /\ Len(lh) <= LogSize
      BY <2>1, HeaderBound DEF IInv, PhaseInv, WriteLogOverrun
    <3> QED
      BY <2>1, <3>1, HeaderBound, LogAssumption DEF WriteLogOverrun, IInv, TypeOK
  <2>2. CASE UNCHANGED vars
    BY <2>2 DEF vars, NoOverrun
  <2>3. CASE Next
    BY <2>1, <2>3 DEF Next, Op, CommitStep, NoOverrun, memory, disk, procs, BeginOp,
       BeginSleep, EndOp, EndLastOp, FinishCommit, LogWriteCheck, LogWritePanic,
       LogWrite, Evict, WriteLog, WriteHead, InstallTrans, EraseHead
  <2> QED
    BY <2>2, <2>3
<1> QED
  BY <1>1, <1>2, Invariance, PTL DEF Spec

-----------------------------------------------------------------------------
(* No wakeup is lost. *)

\* With nobody active and no commit running, the transaction is empty, so
\* begin_op() has nothing to wait for.
WakeInv ==
    /\ outstanding = 0 /\ ~committing => lh = <<>>
    /\ NoLostWakeup

\* A process sleeps in begin_op() only while somebody can wake it.
LEMMA SleepHasWaker ==
    ASSUME IInv, WakeInv, NEW p \in Proc, BeginSleep(p)
    PROVE  outstanding > 0 \/ committing
<1> SUFFICES ASSUME outstanding = 0, ~committing PROVE FALSE
  BY DEF IInv, TypeOK
<1>1. Len(lh) = 0
  BY DEF WakeInv
<1>2. ~MayExhaust
  BY <1>1, LogAssumption DEF MayExhaust
<1> QED
  BY <1>2 DEF BeginSleep, MustWait

\* Every step keeps a waker for the sleepers of begin_op().
LEMMA WakeInvStep == IInv /\ WakeInv /\ [Next]_vars => WakeInv'
<1> SUFFICES ASSUME IInv, WakeInv, [Next]_vars PROVE WakeInv'
  OBVIOUS
<1> USE DEF WakeInv, NoLostWakeup, IInv, TypeOK, memory, disk, procs, InOp, Committer,
        Outside
<1>1. ASSUME NEW p \in Proc, BeginOp(p) PROVE WakeInv'
  BY <1>1 DEF BeginOp
<1>2. ASSUME NEW p \in Proc, BeginSleep(p) PROVE WakeInv'
  BY <1>2, SleepHasWaker DEF BeginSleep
<1>3. ASSUME NEW p \in Proc, LogWrite(p) PROVE WakeInv'
  <2>1. outstanding > 0 /\ outstanding' = outstanding
    <3>1. p \in Active
      BY <1>3 DEF LogWrite, Active
    <3>2. Cardinality(Active) \in Nat /\ Cardinality(Active) # 0
      BY <3>1, ActiveFinite, FS_EmptySet, FS_CardinalityType
    <3> QED
      BY <1>3, <3>2 DEF CountInv, LogWrite
  <2> QED
    BY <2>1
<1>4. ASSUME NEW p \in Proc, EndOp(p) PROVE WakeInv'
  BY <1>4 DEF EndOp, WakeupLog
<1>5. ASSUME NEW p \in Proc, EndLastOp(p) PROVE WakeInv'
  BY <1>5 DEF EndLastOp
<1>6. ASSUME NEW p \in Proc, FinishCommit(p) PROVE WakeInv'
  <2>1. lh = <<>>
    BY <1>6 DEF PhaseInv, FinishCommit
  <2>2. \A q \in Proc : pc'[q] # "sleep"
    BY <1>6 DEF WakeupLog, FinishCommit
  <2> QED
    BY <1>6, <2>1, <2>2 DEF FinishCommit
<1>7. ASSUME NEW p \in Proc, CommitStep(p), ~FinishCommit(p) PROVE WakeInv'
  <2>1. committing' = committing /\ committing
    BY <1>7 DEF CommitStep, WriteLog, WriteLogOverrun, WriteHead, InstallTrans,
       EraseHead, CountInv
  <2> QED
    BY <2>1
<1>8. ASSUME NEW p \in Proc, NEW b \in Block, NEW d \in Data, LogWriteCheck(p, b, d)
      PROVE  WakeInv'
  BY <1>8 DEF LogWriteCheck
<1>9. ASSUME NEW p \in Proc, NEW b \in Block, LogWritePanic(p, b) PROVE WakeInv'
  BY <1>9 DEF LogWritePanic
<1>10. ASSUME NEW b \in Block, Evict(b) PROVE WakeInv'
  BY <1>10 DEF Evict
<1>11. CASE UNCHANGED vars
  BY <1>11 DEF vars
<1> QED
  BY <1>1, <1>2, <1>3, <1>4, <1>5, <1>6, <1>7, <1>8, <1>9, <1>10, <1>11 DEF Next, Op

\* A process asleep in begin_op() always has an operation or a commit ahead
\* of it that will call wakeup(&log).
THEOREM NoWakeupIsLost == Spec => []NoLostWakeup
<1>1. Init => WakeInv
  BY DEF Init, WakeInv, NoLostWakeup
<1> QED
  BY <1>1, WakeInvStep, Invariance, PTL DEF Spec, WakeInv

-----------------------------------------------------------------------------
(* The log implements the atomic store. *)

\* With an empty header on disk there is nothing to recover: home blocks stay.
LEMMA RecoveredQuiet ==
    dhead = <<>> /\ home \in [Block -> Data] => Recovered = home
  BY DEF Recovered

\* The header lists the transaction, and the log area holds its blocks.
LoggedOnDisk ==
    /\ dhead = lh
    /\ Copied(Len(lh) + 1)
    /\ \A b \in Block : b \notin Logged => home[b] = cache[b]

\* Recovering a header that lists the whole transaction gives the cache.
LEMMA RecoveredLogged ==
    TypeOK /\ LoggedOnDisk => Recovered = cache
<1> SUFFICES ASSUME TypeOK, LoggedOnDisk, NEW b \in Block
             PROVE  Recovered[b] = cache[b]
  BY DEF Recovered, TypeOK
<1> USE DEF LoggedOnDisk
<1>1. CASE b \in Logged
  <2> DEFINE i == CHOOSE i \in 1..Len(dhead) : dhead[i] = b
  <2>1. i \in 1..Len(lh) /\ lh[i] = b
    BY <1>1 DEF Logged
  <2>2. dlog[i] = cache[b]
    BY <2>1 DEF Copied, TypeOK
  <2> QED
    BY <1>1, <2>1, <2>2 DEF Recovered
<1>2. CASE b \notin Logged
  BY <1>2 DEF Recovered, Logged
<1> QED
  BY <1>1, <1>2

\* While the header lists the transaction, blocks outside it are clean.
LEMMA OthersClean ==
    ASSUME IInv, NEW p \in Proc, pc[p] \in {"write_head", "install", "erase"}
    PROVE  /\ \A b \in Block : b \notin Logged => home[b] = cache[b]
           /\ Copied(Len(lh) + 1)
           /\ committing /\ outstanding = 0
<1>1. committing /\ Active = {}
  BY DEF IInv, CountInv, Committer
<1>2. outstanding = 0
  BY <1>1, FS_EmptySet DEF IInv, CountInv
<1>3. \A q \in Proc : held[q] = NoBlock
  BY <1>1 DEF IInv, HeldInv, Active, InOp
<1>4. dirty \subseteq Logged
  <2>1. CASE pc[p] = "write_head"
    BY <2>1 DEF IInv, QuietInv, CountInv, Committer
  <2>2. CASE pc[p] \in {"install", "erase"}
    BY <2>2 DEF IInv, PhaseInv, Logged, TypeOK
  <2> QED
    BY <2>1, <2>2
<1>5. Copied(Len(lh) + 1)
  BY DEF IInv, PhaseInv
<1> QED
  BY <1>1, <1>2, <1>3, <1>4, <1>5, LogAssumption DEF IInv, Pinned

\* Store preserves the inductive invariant.
LEMMA StoreStep == IInv /\ IInv' /\ [Next]_vars => [Store!Next]_(Store!vars)
<1> SUFFICES ASSUME IInv, IInv', [Next]_vars PROVE [Store!Next]_(Store!vars)
  OBVIOUS
<1> USE DEF memory, disk, procs, Store!vars, Store!Next
<1>1. ASSUME NEW p \in Proc, BeginOp(p) PROVE Store!Begin
  BY <1>1 DEF BeginOp, Store!Begin, Recovered
<1>2. ASSUME NEW p \in Proc, EndOp(p) \/ EndLastOp(p) PROVE Store!End
  <2>1. CASE EndOp(p)
    BY <2>1 DEF EndOp, Store!End, Recovered, IInv, TypeOK
  <2>2. CASE EndLastOp(p)
    BY <2>2 DEF EndLastOp, Store!End, Recovered, IInv, TypeOK
  <2> QED
    BY <1>2, <2>1, <2>2
<1>3. ASSUME NEW p \in Proc, NEW b \in Block, NEW d \in Data, LogWriteCheck(p, b, d)
      PROVE  Store!Write(b, d)
  <2>1. p \in Active
    BY <1>3 DEF LogWriteCheck, Active, InOp
  <2>2. Cardinality(Active) \in Nat /\ Cardinality(Active) # 0
    BY <2>1, ActiveFinite, FS_EmptySet, FS_CardinalityType
  <2> QED
    BY <1>3, <2>2 DEF LogWriteCheck, Store!Write, Recovered, IInv, CountInv
<1>4. ASSUME NEW p \in Proc, WriteHead(p) PROVE Store!Commit
  <2>1. /\ \A b \in Block : b \notin Logged => home[b] = cache[b]
        /\ Copied(Len(lh) + 1) /\ outstanding = 0
    BY <1>4, OthersClean DEF WriteHead
  <2>2. Recovered' = cache'
    <3>1. TypeOK' /\ LoggedOnDisk'
      BY <1>4, <2>1 DEF WriteHead, IInv, Copied, Logged, LoggedOnDisk
    <3>2. (TypeOK /\ LoggedOnDisk => Recovered = cache)'
      BY RecoveredLogged, PTL
    <3> QED
      BY <3>1, <3>2
  <2> QED
    BY <1>4, <2>1, <2>2 DEF WriteHead, Store!Commit
<1>5. ASSUME NEW p \in Proc, InstallTrans(p) PROVE UNCHANGED Store!vars
  <2>1. LoggedOnDisk /\ tail \in 1..Len(lh) /\ Len(lh) \in Nat
    <3>1. pc[p] = "install"
      BY <1>5 DEF InstallTrans
    <3>2. dhead = lh /\ tail <= Len(lh) /\ tail \in Nat \ {0}
      BY <3>1 DEF IInv, PhaseInv, TypeOK
    <3> QED
      BY <3>1, <3>2, OthersClean, HeaderBound DEF LoggedOnDisk
  <2>2. dlog[tail] = cache[lh[tail]] /\ lh[tail] \in Logged
    BY <2>1 DEF LoggedOnDisk, Copied, Logged
  <2>3. cache' = cache
    BY <1>5, <2>2 DEF InstallTrans, IInv, TypeOK
  <2>4. LoggedOnDisk'
    <3>1. dhead' = lh' /\ Copied(Len(lh) + 1)'
      BY <1>5, <2>1, <2>3 DEF InstallTrans, LoggedOnDisk, Copied
    <3>2. \A b \in Block : b \notin Logged => home'[b] = home[b]
      BY <1>5, <2>2 DEF InstallTrans, IInv, TypeOK
    <3> QED
      BY <1>5, <2>1, <2>3, <3>1, <3>2 DEF InstallTrans, LoggedOnDisk, Logged
  <2>5. (TypeOK /\ LoggedOnDisk => Recovered = cache)'
    BY RecoveredLogged, PTL
  <2>6. Recovered' = Recovered
    BY <2>1, <2>3, <2>4, <2>5, RecoveredLogged DEF IInv
  <2> QED
    BY <1>5, <2>3, <2>6 DEF InstallTrans
<1>6. ASSUME NEW p \in Proc, EraseHead(p) PROVE UNCHANGED Store!vars
  <2>1. Recovered = cache
    BY <1>6, OthersClean, RecoveredLogged DEF EraseHead, IInv, PhaseInv, LoggedOnDisk
  <2>2. home = cache
    <3>1. dirty = {} /\ \A q \in Proc : held[q] = NoBlock
      BY <1>6 DEF EraseHead, IInv, PhaseInv, HeldInv, CountInv, Active, Committer, InOp
    <3> QED
      BY <3>1, LogAssumption DEF IInv, Pinned, TypeOK
  <2>3. Recovered' = home'
    <3>1. dhead' = <<>> /\ home' \in [Block -> Data]
      BY <1>6 DEF EraseHead, IInv, TypeOK
    <3>2. (dhead = <<>> /\ home \in [Block -> Data] => Recovered = home)'
      BY RecoveredQuiet, PTL
    <3> QED
      BY <3>1, <3>2
  <2> QED
    BY <1>6, <2>1, <2>2, <2>3 DEF EraseHead
<1>7. ASSUME NEW p \in Proc, WriteLog(p) PROVE UNCHANGED Store!vars
  <2>1. dhead = <<>> /\ dhead' = <<>> /\ home' = home
    BY <1>7 DEF WriteLog, IInv, QuietInv, CountInv, Committer
  <2>2. Recovered = home /\ Recovered' = home
    BY <2>1 DEF Recovered, IInv, TypeOK
  <2> QED
    BY <1>7, <2>2 DEF WriteLog
<1>8. ASSUME NEW b \in Block, Evict(b) PROVE UNCHANGED Store!vars
  <2>1. cache' = cache
    BY <1>8 DEF Evict, IInv, Pinned, TypeOK
  <2> QED
    BY <1>8, <2>1 DEF Evict, Recovered
<1>9. ASSUME NEW p \in Proc,
             BeginSleep(p) \/ LogWrite(p) \/ WriteLogOverrun(p) \/ FinishCommit(p)
               \/ \E b \in Block : LogWritePanic(p, b)
      PROVE  UNCHANGED Store!vars
  BY <1>9 DEF BeginSleep, LogWrite, WriteLogOverrun, FinishCommit, LogWritePanic,
     Recovered
<1>10. CASE UNCHANGED vars
  BY <1>10 DEF vars, Recovered
<1> QED
  BY <1>1, <1>2, <1>3, <1>4, <1>5, <1>6, <1>7, <1>8, <1>9, <1>10
     DEF Next, Op, CommitStep

\* kernel/log.c makes operations durable atomically, and only when none is
\* active: Log implements AtomicStore.
THEOREM LogImplementsStore == Spec => RefinesStore
<1>1. Init => Store!Init
  BY DEF Init, Store!Init, Recovered
<1> QED
  BY <1>1, StoreStep, Invariance, PTL DEF Spec, RefinesStore, Store!Spec
=============================================================================
