---------------------------- MODULE Inode_proofs ----------------------------
(***************************************************************************)
(* Proofs about Inode: the type invariant, that ip->ref counts the         *)
(* pointers to an inode, and that iput() frees only what nobody else has,  *)
(* whatever calls run, interleave and fail.  For programs whose rename()s  *)
(* run alone: that nlink counts the links of an inode, that the            *)
(* directories form a tree, and that waiting in a circle takes an iput()   *)
(* under a lock; for those that do not rename: that nothing leads to an    *)
(* inode that is free.                                                     *)
(***************************************************************************)
EXTENDS InodeInvariants, Counters, SequenceTheorems, TLAPS

-----------------------------------------------------------------------------
(* Counting in sequences *)

\* A set of positions of a row: the first, and the rest.
LEMMA CountFirst ==
    ASSUME NEW n \in Nat, NEW D \in SUBSET (1..n + 1), NEW E \in SUBSET (1..n),
           \A k \in 1..n : k \in E <=> k + 1 \in D
    PROVE  /\ Cardinality(D) = (IF 1 \in D THEN 1 ELSE 0) + Cardinality(E)
           /\ Cardinality(D) \in Nat /\ Cardinality(E) \in Nat
<1>1. IsFiniteSet(D) /\ IsFiniteSet(E)
  <2>1. IsFiniteSet(1..n) /\ IsFiniteSet(1..n + 1)
    BY FS_Interval
  <2> QED
    BY <2>1, FS_Subset
<1>2. Cardinality(D) \in Nat /\ Cardinality(E) \in Nat
  BY <1>1, FS_CardinalityType
<1> DEFINE b == [k \in E |-> k + 1]
<1>3. b \in Bijection(E, D \ {1})
  <2>1. b \in [E -> D \ {1}] /\ \A i, j \in E : b[i] = b[j] => i = j
    OBVIOUS
  <2>2. ASSUME NEW t \in D \ {1} PROVE \E i \in E : b[i] = t
    OBVIOUS
  <2> HIDE DEF b
  <2> QED
    BY <2>1, <2>2 DEF Bijection, Injection, Surjection, IsInjective
<1>4. Cardinality(D \ {1}) = Cardinality(E)
  <2> HIDE DEF b
  <2> QED
    BY <1>1, <1>3, FS_Bijection DEF ExistsBijection
<1>5. CASE 1 \in D
  BY <1>1, <1>5, FS_RemoveElement, <1>2, <1>4
<1>6. CASE 1 \notin D
  BY <1>6, <1>4, <1>2
<1> QED
  BY <1>5, <1>6

LEMMA IsNat ==
    \A x, i : Is(x, i) \in Nat
  BY DEF Is

LEMMA OneIs ==
    \A x, i : One(Put(x), i) = Is(x, i) /\ One(Drop(x), i) = Is(x, i) /\ One(Unlock(x), i) = 0
  BY DEF One, Is, Put, Drop, Unlock

LEMMA TimesNone ==
    ASSUME NEW i
    PROVE  Times(i, <<>>) = 0 /\ Owed(i, <<>>) = 0
<1>1. {k \in DOMAIN <<>> : <<>>[k] = i} = {}
  OBVIOUS
<1>2. {k \in DOMAIN <<>> : <<>>[k].op # "unlock" /\ <<>>[k].ino = i} = {}
  OBVIOUS
<1> QED
  BY <1>1, <1>2, FS_EmptySet DEF Times, Owed

LEMMA TimesFirst ==
    ASSUME NEW S, NEW s \in Seq(S), s # <<>>, NEW i
    PROVE  /\ Times(i, s) = Is(Head(s), i) + Times(i, Tail(s))
           /\ Times(i, s) \in Nat
<1> DEFINE D == {k \in DOMAIN s : s[k] = i}
           E == {k \in DOMAIN Tail(s) : Tail(s)[k] = i}
<1>1. PICK n \in Nat : Len(s) = n + 1
  OBVIOUS
<1>2. DOMAIN s = 1..n + 1 /\ DOMAIN Tail(s) = 1..n /\ \A k \in 1..n : Tail(s)[k] = s[k + 1]
  BY <1>1
<1>3. D \in SUBSET (1..n + 1) /\ E \in SUBSET (1..n) /\ (\A k \in 1..n : k \in E <=> k + 1 \in D)
  BY <1>2
<1>4. 1 \in D <=> Head(s) = i
  BY <1>2
<1>5. Times(i, s) = Cardinality(D) /\ Times(i, Tail(s)) = Cardinality(E)
  BY DEF Times
<1> HIDE DEF D, E
<1>6. /\ Cardinality(D) = (IF 1 \in D THEN 1 ELSE 0) + Cardinality(E)
      /\ Cardinality(D) \in Nat /\ Cardinality(E) \in Nat
  BY <1>3, CountFirst
<1> QED
  BY <1>4, <1>5, <1>6 DEF Is

LEMMA OwedFirst ==
    ASSUME NEW s \in Seq(Todo), s # <<>>, NEW i
    PROVE  /\ Owed(i, s) = One(Head(s), i) + Owed(i, Tail(s))
           /\ Owed(i, s) \in Nat /\ Owed(i, Tail(s)) \in Nat
<1> DEFINE D == {k \in DOMAIN s : s[k].op # "unlock" /\ s[k].ino = i}
           E == {k \in DOMAIN Tail(s) : Tail(s)[k].op # "unlock" /\ Tail(s)[k].ino = i}
<1>1. PICK n \in Nat : Len(s) = n + 1
  OBVIOUS
<1>2. DOMAIN s = 1..n + 1 /\ DOMAIN Tail(s) = 1..n /\ \A k \in 1..n : Tail(s)[k] = s[k + 1]
  BY <1>1
<1>3. D \in SUBSET (1..n + 1) /\ E \in SUBSET (1..n) /\ (\A k \in 1..n : k \in E <=> k + 1 \in D)
  BY <1>2
<1>4. 1 \in D <=> Head(s).op # "unlock" /\ Head(s).ino = i
  BY <1>2
<1>5. Owed(i, s) = Cardinality(D) /\ Owed(i, Tail(s)) = Cardinality(E)
  BY DEF Owed
<1> HIDE DEF D, E
<1>6. /\ Cardinality(D) = (IF 1 \in D THEN 1 ELSE 0) + Cardinality(E)
      /\ Cardinality(D) \in Nat /\ Cardinality(E) \in Nat
  BY <1>3, CountFirst
<1> QED
  BY <1>4, <1>5, <1>6 DEF One

LEMMA OwedNat ==
    ASSUME NEW s \in Seq(Todo), NEW i
    PROVE  Owed(i, s) \in Nat
<1>1. CASE s = <<>>
  BY <1>1, TimesNone
<1>2. CASE s # <<>>
  BY <1>2, OwedFirst
<1> QED
  BY <1>1, <1>2

\* Rows of up to four pointers, and of up to five things to do.
LEMMA Times1 ==
    ASSUME NEW i, NEW x
    PROVE  Times(i, <<x>>) = Is(x, i)
<1> DEFINE S == {x}
<1>1. /\ <<x>> \in Seq(S) /\ <<x>> # <<>>
      /\ Head(<<x>>) = x /\ Tail(<<x>>) = <<>>
  OBVIOUS
<1> HIDE DEF S
<1>2. Times(i, <<x>>) = Is(x, i) + Times(i, <<>>)
  BY <1>1, TimesFirst
<1> QED
  BY <1>2, TimesNone, IsNat

LEMMA Times2 ==
    ASSUME NEW i, NEW x, NEW y
    PROVE  Times(i, <<x, y>>) = Is(x, i) + Is(y, i)
<1> DEFINE S == {x, y}
<1>1. /\ <<x, y>> \in Seq(S) /\ <<x, y>> # <<>>
      /\ Head(<<x, y>>) = x /\ Tail(<<x, y>>) = <<y>>
  OBVIOUS
<1> HIDE DEF S
<1>2. Times(i, <<x, y>>) = Is(x, i) + Times(i, <<y>>)
  BY <1>1, TimesFirst
<1>3. Times(i, <<y>>) = Is(y, i)
  BY Times1
<1> QED
  BY <1>2, <1>3, IsNat

LEMMA Times3 ==
    ASSUME NEW i, NEW x, NEW y, NEW z
    PROVE  Times(i, <<x, y, z>>) = Is(x, i) + Is(y, i) + Is(z, i)
<1> DEFINE S == {x, y, z}
<1>1. /\ <<x, y, z>> \in Seq(S) /\ <<x, y, z>> # <<>>
      /\ Head(<<x, y, z>>) = x /\ Tail(<<x, y, z>>) = <<y, z>>
  OBVIOUS
<1> HIDE DEF S
<1>2. Times(i, <<x, y, z>>) = Is(x, i) + Times(i, <<y, z>>)
  BY <1>1, TimesFirst
<1>3. Times(i, <<y, z>>) = Is(y, i) + Is(z, i)
  BY Times2
<1> QED
  BY <1>2, <1>3, IsNat

LEMMA Times4 ==
    ASSUME NEW i, NEW x, NEW y, NEW z, NEW w
    PROVE  Times(i, <<x, y, z, w>>) = Is(x, i) + Is(y, i) + Is(z, i) + Is(w, i)
<1> DEFINE S == {x, y, z, w}
<1>1. /\ <<x, y, z, w>> \in Seq(S) /\ <<x, y, z, w>> # <<>>
      /\ Head(<<x, y, z, w>>) = x /\ Tail(<<x, y, z, w>>) = <<y, z, w>>
  OBVIOUS
<1> HIDE DEF S
<1>2. Times(i, <<x, y, z, w>>) = Is(x, i) + Times(i, <<y, z, w>>)
  BY <1>1, TimesFirst
<1>3. Times(i, <<y, z, w>>) = Is(y, i) + Is(z, i) + Is(w, i)
  BY Times3
<1> QED
  BY <1>2, <1>3, IsNat

LEMMA OwedCons ==
    ASSUME NEW t \in Todo, NEW s \in Seq(Todo), NEW i
    PROVE  /\ Owed(i, <<t>> \o s) = One(t, i) + Owed(i, s)
           /\ <<t>> \o s \in Seq(Todo)
<1>1. <<t>> \o s \in Seq(Todo) /\ <<t>> \o s # <<>> /\ Head(<<t>> \o s) = t /\ Tail(<<t>> \o s) = s
  OBVIOUS
<1> QED
  BY <1>1, OwedFirst

LEMMA OneNat ==
    \A x, i : One(x, i) \in Nat
  BY DEF One

LEMMA Owed1 ==
    ASSUME NEW i, NEW x \in Todo
    PROVE  Owed(i, <<x>>) = One(x, i) /\ <<x>> \in Seq(Todo)
<1>1. /\ <<x>> \in Seq(Todo) /\ <<x>> # <<>>
      /\ Head(<<x>>) = x /\ Tail(<<x>>) = <<>>
  OBVIOUS
<1>2. Owed(i, <<x>>) = One(x, i) + Owed(i, <<>>)
  BY <1>1, OwedFirst
<1> QED
  BY <1>1, <1>2, TimesNone, OneNat

LEMMA Owed2 ==
    ASSUME NEW i, NEW x \in Todo, NEW y \in Todo
    PROVE  Owed(i, <<x, y>>) = One(x, i) + One(y, i) /\ <<x, y>> \in Seq(Todo)
<1>1. /\ <<x, y>> \in Seq(Todo) /\ <<x, y>> # <<>>
      /\ Head(<<x, y>>) = x /\ Tail(<<x, y>>) = <<y>>
  OBVIOUS
<1>2. Owed(i, <<x, y>>) = One(x, i) + Owed(i, <<y>>)
  BY <1>1, OwedFirst
<1>3. Owed(i, <<y>>) = One(y, i)
  BY Owed1
<1> QED
  BY <1>1, <1>2, <1>3, OneNat

LEMMA Owed3 ==
    ASSUME NEW i, NEW x \in Todo, NEW y \in Todo, NEW z \in Todo
    PROVE  Owed(i, <<x, y, z>>) = One(x, i) + One(y, i) + One(z, i) /\ <<x, y, z>> \in Seq(Todo)
<1>1. /\ <<x, y, z>> \in Seq(Todo) /\ <<x, y, z>> # <<>>
      /\ Head(<<x, y, z>>) = x /\ Tail(<<x, y, z>>) = <<y, z>>
  OBVIOUS
<1>2. Owed(i, <<x, y, z>>) = One(x, i) + Owed(i, <<y, z>>)
  BY <1>1, OwedFirst
<1>3. Owed(i, <<y, z>>) = One(y, i) + One(z, i)
  BY Owed2
<1> QED
  BY <1>1, <1>2, <1>3, OneNat

LEMMA Owed4 ==
    ASSUME NEW i, NEW x \in Todo, NEW y \in Todo, NEW z \in Todo, NEW w \in Todo
    PROVE  Owed(i, <<x, y, z, w>>) = One(x, i) + One(y, i) + One(z, i) + One(w, i) /\ <<x, y, z, w>> \in Seq(Todo)
<1>1. /\ <<x, y, z, w>> \in Seq(Todo) /\ <<x, y, z, w>> # <<>>
      /\ Head(<<x, y, z, w>>) = x /\ Tail(<<x, y, z, w>>) = <<y, z, w>>
  OBVIOUS
<1>2. Owed(i, <<x, y, z, w>>) = One(x, i) + Owed(i, <<y, z, w>>)
  BY <1>1, OwedFirst
<1>3. Owed(i, <<y, z, w>>) = One(y, i) + One(z, i) + One(w, i)
  BY Owed3
<1> QED
  BY <1>1, <1>2, <1>3, OneNat

LEMMA Owed5 ==
    ASSUME NEW i, NEW x \in Todo, NEW y \in Todo, NEW z \in Todo, NEW w \in Todo, NEW v \in Todo
    PROVE  Owed(i, <<x, y, z, w, v>>) = One(x, i) + One(y, i) + One(z, i) + One(w, i) + One(v, i) /\ <<x, y, z, w, v>> \in Seq(Todo)
<1>1. /\ <<x, y, z, w, v>> \in Seq(Todo) /\ <<x, y, z, w, v>> # <<>>
      /\ Head(<<x, y, z, w, v>>) = x /\ Tail(<<x, y, z, w, v>>) = <<y, z, w, v>>
  OBVIOUS
<1>2. Owed(i, <<x, y, z, w, v>>) = One(x, i) + Owed(i, <<y, z, w, v>>)
  BY <1>1, OwedFirst
<1>3. Owed(i, <<y, z, w, v>>) = One(y, i) + One(z, i) + One(w, i) + One(v, i)
  BY Owed4
<1> QED
  BY <1>1, <1>2, <1>3, OneNat

-----------------------------------------------------------------------------
(* References that one process accounts for *)

LEMMA RootType == Root \in Inum
<1> DEFINE UpTo(i) == {j \in Inum : j <= i}
           T == {UpTo(i) : i \in Inum}
<1>1. T \in SUBSET (SUBSET Inum) /\ T # {} /\ IsFiniteSet(Inum)
  <2>1. \A i \in Inum : UpTo(i) \in T /\ UpTo(i) \subseteq Inum
    OBVIOUS
  <2>2. \A t \in T : t \subseteq Inum
    OBVIOUS
  <2>3. Inum # {} /\ IsFiniteSet(Inum)
    BY InodeAssumption
  <2> HIDE DEF T, UpTo
  <2> QED
    BY <2>1, <2>2, <2>3
<1>2. PICK s \in T : \A t \in T : t \subseteq s => t = s
  <2> HIDE DEF T
  <2> QED
    BY <1>1, LeastSubset
<1>3. PICK r \in Inum : s = UpTo(r)
  OBVIOUS
<1>4. ASSUME NEW j \in Inum, j < r PROVE FALSE
  <2>1. r \in Nat /\ j \in Nat /\ \A k \in Inum : k \in Nat
    BY InodeAssumption
  <2>2. UpTo(j) \in T
    OBVIOUS
  <2>3. \A k \in UpTo(j) : k \in UpTo(r)
    BY <1>4, <2>1
  <2>4. r \in UpTo(r) /\ r \notin UpTo(j)
    BY <1>4, <2>1
  <2> HIDE DEF T, UpTo
  <2>5. UpTo(j) \subseteq s
    BY <1>3, <2>3
  <2> QED
    BY <1>2, <1>3, <2>2, <2>4, <2>5
<1>5. \A j \in Inum : r <= j
  BY <1>4, InodeAssumption
<1> QED
  BY <1>5 DEF Root

LEMMA LocalTimes ==
    ASSUME NEW l, NEW i
    PROVE  /\ Times(i, Locals("user", l)) = 0
           /\ Times(i, Locals("return", l)) = 0
           /\ l.then \notin {"link2", "ren2"} => Times(i, Locals("walk", l)) = Is(l.at, i)
           /\ l.then = "link2" => Times(i, Locals("walk", l)) = Is(l.at, i) + Is(l.ip, i)
           /\ l.then = "ren2" => Times(i, Locals("walk", l)) = Is(l.at, i) + Is(l.olddp, i) + Is(l.ip, i)
           /\ Times(i, Locals("create", l)) = Is(l.at, i)
           /\ Times(i, Locals("createold", l)) = Is(l.at, i)
           /\ Times(i, Locals("open", l)) = Is(l.at, i)
           /\ Times(i, Locals("chdir", l)) = Is(l.at, i)
           /\ Times(i, Locals("link1", l)) = Is(l.at, i)
           /\ Times(i, Locals("unlink", l)) = Is(l.at, i)
           /\ Times(i, Locals("ren1", l)) = Is(l.at, i)
           /\ Times(i, Locals("linkbad", l)) = Is(l.at, i)
           /\ Times(i, Locals("created", l)) = Is(l.ip, i)
           /\ Times(i, Locals("chdir2", l)) = Is(l.ip, i)
           /\ Times(i, Locals("unlink3", l)) = Is(l.ip, i)
           /\ Times(i, Locals("ren7", l)) = Is(l.ip, i)
           /\ Times(i, Locals("ren8", l)) = Is(l.ip, i)
           /\ Times(i, Locals("link2", l)) = Is(l.at, i) + Is(l.ip, i)
           /\ Times(i, Locals("unlink2", l)) = Is(l.dp, i) + Is(l.at, i)
           /\ Times(i, Locals("ren2", l)) = Is(l.olddp, i) + Is(l.at, i) + Is(l.ip, i)
           /\ Times(i, Locals("cycle", l)) = Is(l.olddp, i) + Is(l.dp, i) + Is(l.ip, i) + Is(l.at, i)
           /\ Times(i, Locals("ren4", l)) = Is(l.olddp, i) + Is(l.dp, i) + Is(l.ip, i) + Is(l.xip, i)
           /\ Times(i, Locals("ren3", l)) = Is(l.olddp, i) + Is(l.dp, i) + Is(l.ip, i)
           /\ Times(i, Locals("ren5", l)) = Is(l.olddp, i) + Is(l.dp, i) + Is(l.ip, i)
           /\ Times(i, Locals("ren6", l)) = Is(l.olddp, i) + Is(l.ip, i)
<1>1. /\ Locals("user", l) = <<>>
      /\ Locals("return", l) = <<>>
      /\ l.then \notin {"link2", "ren2"} => Locals("walk", l) = <<l.at>>
      /\ l.then = "link2" => Locals("walk", l) = <<l.at, l.ip>>
      /\ l.then = "ren2" => Locals("walk", l) = <<l.at, l.olddp, l.ip>>
      /\ Locals("link2", l) = <<l.at, l.ip>>
      /\ Locals("unlink2", l) = <<l.dp, l.at>>
      /\ Locals("ren2", l) = <<l.olddp, l.at, l.ip>>
      /\ Locals("cycle", l) = <<l.olddp, l.dp, l.ip, l.at>>
      /\ Locals("ren4", l) = <<l.olddp, l.dp, l.ip, l.xip>>
      /\ Locals("ren6", l) = <<l.olddp, l.ip>>
  BY DEF Locals
<1>2. \A place \in {"create", "createold", "open", "chdir", "link1", "unlink", "ren1", "linkbad"} :
          Locals(place, l) = <<l.at>>
  BY DEF Locals
<1>3. \A place \in {"created", "chdir2", "unlink3", "ren7", "ren8"} : Locals(place, l) = <<l.ip>>
  BY DEF Locals
<1>4. \A place \in {"ren3", "ren5"} : Locals(place, l) = <<l.olddp, l.dp, l.ip>>
  BY DEF Locals
<1>5. /\ Times(i, <<l.at>>) = Is(l.at, i)
      /\ Times(i, <<l.ip>>) = Is(l.ip, i)
      /\ Times(i, <<l.at, l.ip>>) = Is(l.at, i) + Is(l.ip, i)
      /\ Times(i, <<l.dp, l.at>>) = Is(l.dp, i) + Is(l.at, i)
      /\ Times(i, <<l.olddp, l.ip>>) = Is(l.olddp, i) + Is(l.ip, i)
      /\ Times(i, <<l.at, l.olddp, l.ip>>) = Is(l.at, i) + Is(l.olddp, i) + Is(l.ip, i)
      /\ Times(i, <<l.olddp, l.at, l.ip>>) = Is(l.olddp, i) + Is(l.at, i) + Is(l.ip, i)
      /\ Times(i, <<l.olddp, l.dp, l.ip>>) = Is(l.olddp, i) + Is(l.dp, i) + Is(l.ip, i)
      /\ Times(i, <<l.olddp, l.dp, l.ip, l.at>>) = Is(l.olddp, i) + Is(l.dp, i) + Is(l.ip, i) + Is(l.at, i)
      /\ Times(i, <<l.olddp, l.dp, l.ip, l.xip>>) = Is(l.olddp, i) + Is(l.dp, i) + Is(l.ip, i) + Is(l.xip, i)
  <2>1. Times(i, <<l.at>>) = Is(l.at, i)
    BY Times1, Times2, Times3, Times4
  <2>2. Times(i, <<l.ip>>) = Is(l.ip, i)
    BY Times1, Times2, Times3, Times4
  <2>3. Times(i, <<l.at, l.ip>>) = Is(l.at, i) + Is(l.ip, i)
    BY Times1, Times2, Times3, Times4
  <2>4. Times(i, <<l.dp, l.at>>) = Is(l.dp, i) + Is(l.at, i)
    BY Times1, Times2, Times3, Times4
  <2>5. Times(i, <<l.olddp, l.ip>>) = Is(l.olddp, i) + Is(l.ip, i)
    BY Times1, Times2, Times3, Times4
  <2>6. Times(i, <<l.at, l.olddp, l.ip>>) = Is(l.at, i) + Is(l.olddp, i) + Is(l.ip, i)
    BY Times1, Times2, Times3, Times4
  <2>7. Times(i, <<l.olddp, l.at, l.ip>>) = Is(l.olddp, i) + Is(l.at, i) + Is(l.ip, i)
    BY Times1, Times2, Times3, Times4
  <2>8. Times(i, <<l.olddp, l.dp, l.ip>>) = Is(l.olddp, i) + Is(l.dp, i) + Is(l.ip, i)
    BY Times1, Times2, Times3, Times4
  <2>9. Times(i, <<l.olddp, l.dp, l.ip, l.at>>) = Is(l.olddp, i) + Is(l.dp, i) + Is(l.ip, i) + Is(l.at, i)
    BY Times1, Times2, Times3, Times4
  <2>10. Times(i, <<l.olddp, l.dp, l.ip, l.xip>>) = Is(l.olddp, i) + Is(l.dp, i) + Is(l.ip, i) + Is(l.xip, i)
    BY Times1, Times2, Times3, Times4
  <2> QED
    BY <2>1, <2>2, <2>3, <2>4, <2>5, <2>6, <2>7, <2>8, <2>9, <2>10
<1>6. Times(i, <<>>) = 0
  BY TimesNone
<1>7. /\ Times(i, Locals("user", l)) = 0
      /\ Times(i, Locals("return", l)) = 0
      /\ l.then \notin {"link2", "ren2"} => Times(i, Locals("walk", l)) = Is(l.at, i)
      /\ l.then = "link2" => Times(i, Locals("walk", l)) = Is(l.at, i) + Is(l.ip, i)
      /\ l.then = "ren2" => Times(i, Locals("walk", l)) = Is(l.at, i) + Is(l.olddp, i) + Is(l.ip, i)
  BY <1>1, <1>5, <1>6
<1>8. /\ Times(i, Locals("link2", l)) = Is(l.at, i) + Is(l.ip, i)
      /\ Times(i, Locals("unlink2", l)) = Is(l.dp, i) + Is(l.at, i)
      /\ Times(i, Locals("ren2", l)) = Is(l.olddp, i) + Is(l.at, i) + Is(l.ip, i)
      /\ Times(i, Locals("cycle", l)) = Is(l.olddp, i) + Is(l.dp, i) + Is(l.ip, i) + Is(l.at, i)
      /\ Times(i, Locals("ren4", l)) = Is(l.olddp, i) + Is(l.dp, i) + Is(l.ip, i) + Is(l.xip, i)
      /\ Times(i, Locals("ren6", l)) = Is(l.olddp, i) + Is(l.ip, i)
  BY <1>1, <1>5
<1>9. /\ Times(i, Locals("create", l)) = Is(l.at, i) /\ Times(i, Locals("createold", l)) = Is(l.at, i)
      /\ Times(i, Locals("open", l)) = Is(l.at, i) /\ Times(i, Locals("chdir", l)) = Is(l.at, i)
      /\ Times(i, Locals("link1", l)) = Is(l.at, i) /\ Times(i, Locals("unlink", l)) = Is(l.at, i)
      /\ Times(i, Locals("ren1", l)) = Is(l.at, i) /\ Times(i, Locals("linkbad", l)) = Is(l.at, i)
  BY <1>2, <1>5
<1>10. /\ Times(i, Locals("created", l)) = Is(l.ip, i) /\ Times(i, Locals("chdir2", l)) = Is(l.ip, i)
       /\ Times(i, Locals("unlink3", l)) = Is(l.ip, i)
       /\ Times(i, Locals("ren7", l)) = Is(l.ip, i) /\ Times(i, Locals("ren8", l)) = Is(l.ip, i)
  BY <1>3, <1>5
<1>11. /\ Times(i, Locals("ren3", l)) = Is(l.olddp, i) + Is(l.dp, i) + Is(l.ip, i)
       /\ Times(i, Locals("ren5", l)) = Is(l.olddp, i) + Is(l.dp, i) + Is(l.ip, i)
  BY <1>4, <1>5
<1> QED
  BY <1>7, <1>8, <1>9, <1>10, <1>11

LEMMA LocalsNat ==
    ASSUME NEW l, NEW i, NEW place \in Label
    PROVE  Times(i, Locals(place, l)) \in Nat
  BY LocalTimes, IsNat DEF Label

LEMMA RefsAtNat ==
    ASSUME NEW f, NEW c, NEW place \in Label, NEW l, NEW what \in Seq(Todo), NEW i
    PROVE  RefsAt(f, c, place, l, what, i) \in Nat
  BY IsNat, LocalsNat, OwedNat DEF RefsAt

LEMMA RefsOfAt ==
    ASSUME TypeOK, NEW p \in Proc, NEW i
    PROVE  /\ RefsOf(p, i) = RefsAt(fd[p], cwd[p], pc[p], loc[p], todo[p], i)
           /\ RefsOf(p, i) \in Nat
<1>1. pc[p] \in Label /\ todo[p] \in Seq(Todo)
  BY DEF TypeOK, Todo
<1>2. RefsAt(fd[p], cwd[p], pc[p], loc[p], todo[p], i) \in Nat
  BY <1>1, RefsAtNat
<1>3. (IF cwd[p] = i /\ pc[p] # "chdir2" THEN 1 ELSE 0) = IF pc[p] = "chdir2" THEN 0 ELSE Is(cwd[p], i)
  BY DEF Is
<1>4. (IF fd[p] = i THEN 1 ELSE 0) = Is(fd[p], i)
  BY DEF Is
<1>5. Times(i, LocalRefs(p)) = Times(i, Locals(pc[p], loc[p]))
  BY DEF LocalRefs
<1> QED
  BY <1>2, <1>3, <1>4, <1>5 DEF RefsOf, RefsAt

\* The sum over all processes, and one of its terms, or two.
LEMMA RefsSum ==
    ASSUME TypeOK, NEW i
    PROVE  /\ Counts([q \in Proc |-> RefsOf(q, i)], Proc)
           /\ SumFunction([q \in Proc |-> RefsOf(q, i)]) = SumFunctionOnSet([q \in Proc |-> RefsOf(q, i)], Proc)
<1>1. PICK F : F = [q \in Proc |-> RefsOf(q, i)]
  OBVIOUS
<1>2. \A q \in Proc : F[q] \in Nat
  BY <1>1, RefsOfAt
<1>3. DOMAIN F = Proc
  BY <1>1
<1>4. Counts(F, Proc) /\ SumFunction(F) = SumFunctionOnSet(F, Proc)
  BY <1>2, <1>3, InodeAssumption DEF Counts, SumFunction
<1> QED
  BY <1>1, <1>4

LEMMA RefsTerms ==
    ASSUME TypeOK, RefsCounted, NEW i \in Inum, NEW p \in Proc
    PROVE  /\ RefsOf(p, i) <= ref[i]
           /\ \A q \in Proc \ {p} : RefsOf(p, i) + RefsOf(q, i) <= ref[i]
<1>1. PICK F : F = [q \in Proc |-> RefsOf(q, i)]
  OBVIOUS
<1>2. Counts(F, Proc) /\ ref[i] = SumFunctionOnSet(F, Proc)
  BY <1>1, RefsSum DEF RefsCounted
<1>3. \A q \in Proc : F[q] = RefsOf(q, i) /\ F[q] \in Nat
  BY <1>1, RefsOfAt
<1>4. /\ SumFunctionOnSet(F, Proc) = F[p] + SumFunctionOnSet(F, Proc \ {p})
      /\ Counts(F, Proc \ {p})
  BY <1>2, SumSplit
<1>5. SumFunctionOnSet(F, Proc \ {p}) \in Nat
  BY <1>4, SumType
<1>6. ASSUME NEW q \in Proc \ {p} PROVE RefsOf(p, i) + RefsOf(q, i) <= ref[i]
  <2>1. /\ SumFunctionOnSet(F, Proc \ {p}) = F[q] + SumFunctionOnSet(F, (Proc \ {p}) \ {q})
        /\ Counts(F, (Proc \ {p}) \ {q})
    BY <1>4, SumSplit
  <2>2. SumFunctionOnSet(F, (Proc \ {p}) \ {q}) \in Nat
    BY <2>1, SumType
  <2> QED
    BY <1>2, <1>3, <1>4, <2>1, <2>2
<1>7. RefsOf(p, i) <= ref[i]
  BY <1>2, <1>3, <1>4, <1>5
<1> QED
  BY <1>6, <1>7
-----------------------------------------------------------------------------
(* What a step of one process has to show *)

LEMMA RefsStep ==
    ASSUME TypeOK, RefsCounted, NEW p \in Proc, NEW f, NEW c, NEW place, NEW l, NEW what,
           Moves(p, f, c, place, l, what), Well(f, c, place, l, what),
           RefsMove(p, f, c, place, l, what)
    PROVE  ref' \in [Inum -> Nat] /\ RefsCounted'
<1>1. ASSUME NEW i \in Inum
      PROVE  ref'[i] \in Nat /\ ref'[i] = SumFunction([q \in Proc |-> RefsOf(q, i)'])
  <2>1. PICK F : F = [q \in Proc |-> RefsOf(q, i)]
    OBVIOUS
  <2>2. PICK G : G = [q \in Proc |-> RefsOf(q, i)']
    OBVIOUS
  <2>3. Counts(F, Proc) /\ ref[i] = SumFunctionOnSet(F, Proc) /\ F[p] = RefsOf(p, i)
    BY <2>1, RefsSum DEF RefsCounted
  <2>4. ASSUME NEW q \in Proc \ {p} PROVE G[q] = F[q]
    BY <2>1, <2>2 DEF Moves, TypeOK, RefsOf, LocalRefs
  <2>5. F[p] = RefsAt(fd[p], cwd[p], pc[p], loc[p], todo[p], i)
    BY <2>3, RefsOfAt
  <2>6. G[p] = RefsAt(f, c, place, l, what, i) /\ G[p] \in Nat
    <3>1. fd'[p] = f /\ cwd'[p] = c /\ pc'[p] = place /\ loc'[p] = l /\ todo'[p] = what
      BY DEF Moves, TypeOK
    <3>2. RefsAt(f, c, place, l, what, i) \in Nat
      BY RefsAtNat DEF Well
    <3>3. (IF cwd'[p] = i /\ pc'[p] # "chdir2" THEN 1 ELSE 0) = IF place = "chdir2" THEN 0 ELSE Is(c, i)
      BY <3>1 DEF Is
    <3>4. (IF fd'[p] = i THEN 1 ELSE 0) = Is(f, i)
      BY <3>1 DEF Is
    <3>5. RefsOf(p, i)' = RefsAt(f, c, place, l, what, i)
      BY <3>1, <3>3, <3>4 DEF RefsOf, RefsAt, LocalRefs
    <3> QED
      BY <2>2, <3>2, <3>5
  <2>7. Changes(F, G, Proc, p)
    BY <2>3, <2>4, <2>6 DEF Changes
  <2>8. /\ SumFunctionOnSet(G, Proc) = SumFunctionOnSet(F, Proc) - F[p] + G[p]
        /\ SumFunctionOnSet(F, Proc) \in Nat /\ SumFunctionOnSet(G, Proc) \in Nat /\ F[p] \in Nat
    BY <2>7, SumChange
  <2>9. ref'[i] = SumFunctionOnSet(G, Proc)
    BY <2>3, <2>5, <2>6, <2>8 DEF RefsMove
  <2>10. SumFunction(G) = SumFunctionOnSet(G, Proc)
    BY <2>2 DEF SumFunction
  <2> QED
    BY <2>2, <2>8, <2>9, <2>10
<1>2. ref' \in [Inum -> Nat]
  BY <1>1 DEF RefsMove
<1> QED
  BY <1>1, <1>2 DEF RefsCounted

LEMMA Step ==
    ASSUME IInv, NEW p \in Proc, NEW f, NEW c, NEW place, NEW l, NEW what,
           Moves(p, f, c, place, l, what), Well(f, c, place, l, what),
           RefsMove(p, f, c, place, l, what),
           DirOK(type', place, l), DiskOK', KeepsDirs(p)
    PROVE  IInv'
<1>1. ref' \in [Inum -> Nat] /\ RefsCounted'
  BY RefsStep DEF IInv
<1>2. /\ fd'[p] = f /\ cwd'[p] = c /\ pc'[p] = place /\ loc'[p] = l /\ todo'[p] = what
      /\ \A q \in Proc \ {p} : /\ fd'[q] = fd[q] /\ cwd'[q] = cwd[q] /\ pc'[q] = pc[q]
                               /\ loc'[q] = loc[q] /\ todo'[q] = todo[q]
  BY DEF Moves, TypeOK, IInv
<1>3. TypeOK'
  <2>1. cwd' \in [Proc -> Inum] /\ fd' \in [Proc -> Inum \cup {NoInum}] /\ pc' \in [Proc -> Label]
    BY DEF IInv, TypeOK, Moves, Well, Pointer
  <2>2. loc' \in [Proc -> Local]
    BY DEF IInv, TypeOK, Moves, Well
  <2>3. todo' \in [Proc -> Seq(Todo)]
    BY DEF IInv, TypeOK, Moves, Well, Todo
  <2> QED
    BY <1>1, <2>1, <2>2, <2>3 DEF TypeOK, DiskOK, Todo
<1>4. PlaceInv'
  BY <1>2 DEF IInv, PlaceInv, Well
<1>5. DirInv'
  BY <1>2 DEF KeepsDirs, DirInv
<1> QED
  BY <1>1, <1>3, <1>4, <1>5 DEF IInv, DiskOK

\* Most steps leave types and entries alone.
LEMMA SameTypes ==
    ASSUME IInv, NEW p \in Proc, type' = type
    PROVE  KeepsDirs(p)
  BY DEF IInv, DirInv, KeepsDirs

LEMMA SameDisk ==
    ASSUME IInv, UNCHANGED <<type, nlink, dir, dotdot, gone, lock>>
    PROVE  DiskOK'
  BY DEF IInv, TypeOK, DiskOK, DotDotInv

\* iget(): one more.
LEMMA OneMore ==
    ASSUME TypeOK, NEW j, Get(j)
    PROVE  ref' \in [Inum -> Int] /\ \A i \in Inum : ref'[i] = ref[i] + Is(j, i)
<1>1. ref \in [Inum -> Nat] /\ ref' = [ref EXCEPT ![j] = @ + 1]
  BY DEF TypeOK, Get
<1>2. ASSUME NEW i \in Inum PROVE ref'[i] = ref[i] + Is(j, i) /\ ref'[i] \in Int
  <2>1. CASE i = j
    BY <1>1, <2>1 DEF Is
  <2>2. CASE i # j
    BY <1>1, <2>2 DEF Is
  <2> QED
    BY <2>1, <2>2
<1> QED
  BY <1>1, <1>2

LEMMA NoneMore ==
    ASSUME TypeOK, UNCHANGED ref
    PROVE  ref' \in [Inum -> Int] /\ \A i \in Inum : ref'[i] = ref[i] /\ ref[i] \in Nat
  BY DEF TypeOK
LEMMA PutsOf ==
    ASSUME NEW x \in Inum
    PROVE  Put(x) \in Todo /\ Drop(x) \in Todo /\ Unlock(x) \in Todo
  BY DEF Put, Drop, Unlock, Todo

LEMMA Puts1 ==
    ASSUME NEW i, NEW x \in Inum
    PROVE  Owed(i, <<Put(x)>>) = Is(x, i) /\ <<Put(x)>> \in Seq(Todo)
  BY PutsOf, Owed1, OneIs

LEMMA Puts2 ==
    ASSUME NEW i, NEW x \in Inum, NEW y \in Inum
    PROVE  Owed(i, <<Put(x), Put(y)>>) = Is(x, i) + Is(y, i) /\ <<Put(x), Put(y)>> \in Seq(Todo)
  BY PutsOf, Owed2, OneIs

LEMMA Puts3 ==
    ASSUME NEW i, NEW x \in Inum, NEW y \in Inum, NEW z \in Inum
    PROVE  /\ Owed(i, <<Put(x), Put(y), Put(z)>>) = Is(x, i) + Is(y, i) + Is(z, i)
           /\ <<Put(x), Put(y), Put(z)>> \in Seq(Todo)
  BY PutsOf, Owed3, OneIs

\* With the iunlock() that comes before the last one, or ones.
LEMMA PutsUnlock1 ==
    ASSUME NEW i, NEW x \in Inum, NEW y \in Inum
    PROVE  /\ Owed(i, <<Put(x), Unlock(y), Put(y)>>) = Is(x, i) + Is(y, i)
           /\ <<Put(x), Unlock(y), Put(y)>> \in Seq(Todo)
<1>1. /\ Owed(i, <<Put(x), Unlock(y), Put(y)>>) = One(Put(x), i) + One(Unlock(y), i) + One(Put(y), i)
      /\ <<Put(x), Unlock(y), Put(y)>> \in Seq(Todo)
  BY PutsOf, Owed3
<1> QED
  BY <1>1, OneIs, IsNat

LEMMA PutsUnlock3 ==
    ASSUME NEW i, NEW x \in Inum, NEW y \in Inum, NEW z \in Inum, NEW w \in Inum
    PROVE  /\ Owed(i, <<Put(x), Unlock(y), Put(y), Put(z), Put(w)>>)
                = Is(x, i) + Is(y, i) + Is(z, i) + Is(w, i)
           /\ <<Put(x), Unlock(y), Put(y), Put(z), Put(w)>> \in Seq(Todo)
<1>1. /\ Owed(i, <<Put(x), Unlock(y), Put(y), Put(z), Put(w)>>)
            = One(Put(x), i) + One(Unlock(y), i) + One(Put(y), i) + One(Put(z), i) + One(Put(w), i)
      /\ <<Put(x), Unlock(y), Put(y), Put(z), Put(w)>> \in Seq(Todo)
  BY PutsOf, Owed5
<1> QED
  BY <1>1, OneIs, IsNat

LEMMA Types ==
    ASSUME IInv, NEW p \in Proc
    PROVE  /\ fd[p] \in Pointer /\ cwd[p] \in Inum /\ pc[p] \in Label /\ loc[p] \in Local
           /\ todo[p] \in Seq(Todo)
           /\ PlaceOK(pc[p], loc[p], fd[p], todo[p]) /\ DirOK(type, pc[p], loc[p])
           /\ TypeOK /\ RefsCounted /\ NoInum \notin Inum /\ Root \in Inum
  BY RootType, InodeAssumption DEF IInv, TypeOK, PlaceInv, DirInv, Todo, Pointer

LEMMA NoCallType ==
    NoCall \in Local
<1>1. NoCall.path \in Seq(Name \cup {".", ".."})
  BY DEF NoCall
<1> QED
  BY <1>1 DEF NoCall, Local, Pointer, Slot

\* Back to the caller, with f and c open and what to put.
LEMMA ReturnStep ==
    ASSUME IInv, NEW p \in Proc, NEW f \in Pointer, NEW c \in Inum, NEW what \in Seq(Todo),
           Return(p, what), fd' = [fd EXCEPT ![p] = f], cwd' = [cwd EXCEPT ![p] = c],
           ref' \in [Inum -> Int],
           \A i \in Inum : ref'[i] = ref[i] + Is(f, i) + Is(c, i) + Owed(i, what) - Now(p, i),
           DiskOK', KeepsDirs(p)
    PROVE  IInv'
<1>1. PICK place \in {"user", "return"} : /\ Goto(p, place, NoCall, what)
                                          /\ place = "user" => what = <<>>
  BY DEF Return
<1>2. Moves(p, f, c, place, NoCall, what)
  BY <1>1 DEF Goto, Moves
<1>3. Well(f, c, place, NoCall, what)
  <2>1. PlaceOK(place, NoCall, f, what)
    BY <1>1 DEF PlaceOK, NoCall, AtPlaces, IpPlaces, DpPlaces, OldPlaces, Walks
  <2> QED
    BY <1>1, <2>1, NoCallType DEF Well, Label
<1>4. DirOK(type', place, NoCall)
  BY <1>1 DEF DirOK, OldPlaces, Walks
<1>5. RefsMove(p, f, c, place, NoCall, what)
  <2>1. ASSUME NEW i \in Inum
        PROVE  ref'[i] = ref[i] + RefsAt(f, c, place, NoCall, what, i) - Now(p, i)
    <3>1. Times(i, Locals(place, NoCall)) = 0
      BY <1>1, LocalTimes
    <3>2. RefsAt(f, c, place, NoCall, what, i) = Is(f, i) + Is(c, i) + Owed(i, what)
      BY IsNat, OwedNat, <1>1, <3>1 DEF RefsAt
    <3>3. Now(p, i) \in Nat /\ ref[i] \in Nat
      BY Types, RefsAtNat DEF Now, IInv, TypeOK
    <3>4. Is(f, i) \in Nat /\ Is(c, i) \in Nat /\ Owed(i, what) \in Nat
      BY IsNat, OwedNat
    <3> QED
      BY <3>2, <3>3, <3>4
  <2> QED
    BY <2>1 DEF RefsMove, Now
<1> QED
  BY <1>2, <1>3, <1>4, <1>5, Step

\* On to another place of the call.
LEMMA GotoStep ==
    ASSUME IInv, NEW p \in Proc, NEW place \in Label, NEW l \in Local, NEW what \in Seq(Todo),
           Goto(p, place, l, what), UNCHANGED <<fd, cwd>>, PlaceOK(place, l, fd[p], what),
           ref' \in [Inum -> Int],
           \A i \in Inum : ref'[i] = ref[i] + RefsAt(fd[p], cwd[p], place, l, what, i) - Now(p, i),
           DirOK(type', place, l), DiskOK', KeepsDirs(p)
    PROVE  IInv'
<1>1. fd' = [fd EXCEPT ![p] = fd[p]] /\ cwd' = [cwd EXCEPT ![p] = cwd[p]]
  BY DEF IInv, TypeOK
<1>2. Moves(p, fd[p], cwd[p], place, l, what)
  BY <1>1 DEF Goto, Moves
<1>3. Well(fd[p], cwd[p], place, l, what)
  BY Types DEF Well
<1>4. RefsMove(p, fd[p], cwd[p], place, l, what)
  BY DEF RefsMove, Now
<1> QED
  BY <1>2, <1>3, <1>4, Step

\* The pieces of RefsAt(), as numbers.
LEMMA Pieces ==
    ASSUME IInv, NEW p \in Proc, NEW i \in Inum
    PROVE  /\ \A x : Is(x, i) \in Nat
           /\ ref[i] \in Nat
           /\ Now(p, i) = Is(fd[p], i) + (IF pc[p] = "chdir2" THEN 0 ELSE Is(cwd[p], i))
                          + Times(i, Locals(pc[p], loc[p])) + Owed(i, todo[p])
           /\ Times(i, Locals(pc[p], loc[p])) \in Nat /\ Owed(i, todo[p]) \in Nat
  BY IsNat, Types, LocalsNat, OwedNat DEF Now, RefsAt, IInv, TypeOK
-----------------------------------------------------------------------------
(* One lemma for each action *)

LEMMA StartIn ==
    ASSUME IInv, NEW p \in Proc, NEW f
    PROVE  Start(p, f) \in Inum
  BY Types DEF Start

LEMMA CallKeeps ==
    ASSUME IInv, NEW p \in Proc, Call(p)
    PROVE  IInv'
<1>1. PICK c \in Calls[p] :
        /\ ~Running(p)
        /\ c.call \in {"creat", "open"} => fd[p] = NoInum
        /\ Goto(p, "walk", [NoCall EXCEPT !.call = c.call, !.then = First(c.call),
                                         !.at = Start(p, c.path), !.path = c.path.elems,
                                         !.path2 = c.path2], <<>>)
        /\ Get(Start(p, c.path))
        /\ UNCHANGED <<disk, lock, cwd, fd>>
  BY DEF Call
<1>2. PICK x : x = Start(p, c.path)
  OBVIOUS
<1>3. PICK l : l = [NoCall EXCEPT !.call = c.call, !.then = First(c.call), !.at = x,
                                  !.path = c.path.elems, !.path2 = c.path2]
  OBVIOUS
<1>4. /\ c.call \in Habit /\ c.path \in Path /\ c.path2 \in Path \cup {NoPath}
      /\ c.call \in TwoPaths => c.path2 \in Path
      /\ c.path.elems \in Seq(Name \cup {".", ".."}) /\ c.path.elems # <<>>
  BY InodeAssumption
<1>5. x \in Inum /\ pc[p] = "user" /\ todo[p] = <<>>
  BY <1>1, <1>2, StartIn, Types DEF Running, PlaceOK
<1>6. /\ l.call = c.call /\ l.then = First(c.call) /\ l.at = x /\ l.path = c.path.elems
      /\ l.path2 = c.path2
  BY <1>3 DEF NoCall
<1>7. First(c.call) \in Lookups \ {"link2", "ren2"}
      /\ (First(c.call) \in {"link1", "ren1"} => c.call \in TwoPaths)
      /\ (First(c.call) = "open" => c.call = "open")
  BY <1>4 DEF First, Habit, Lookups, TwoPaths
<1>8. l \in Local
  <2>1. First(c.call) \in Label
    BY <1>7 DEF Lookups, Label
  <2> QED
    BY <1>3, <1>4, <1>5, <2>1, NoCallType DEF Local, Pointer
<1>9. PlaceOK("walk", l, fd[p], <<>>)
  BY <1>1, <1>4, <1>5, <1>6, <1>7 DEF PlaceOK, AtPlaces, IpPlaces, DpPlaces, OldPlaces, Walks
<1>10. DirOK(type', "walk", l)
  BY <1>6, <1>7 DEF DirOK, OldPlaces, Walks
<1>11. ASSUME NEW i \in Inum
       PROVE  ref'[i] = ref[i] + RefsAt(fd[p], cwd[p], "walk", l, <<>>, i) - Now(p, i)
  <2>1. Now(p, i) = Is(fd[p], i) + Is(cwd[p], i)
    <3>1. Times(i, Locals(pc[p], loc[p])) = 0 /\ Owed(i, todo[p]) = 0
      BY <1>5, LocalTimes, TimesNone
    <3> QED
      BY <1>5, <3>1, Pieces
  <2>2. RefsAt(fd[p], cwd[p], "walk", l, <<>>, i) = Is(fd[p], i) + Is(cwd[p], i) + Is(x, i)
    <3>1. Times(i, Locals("walk", l)) = Is(x, i)
      BY <1>6, <1>7, LocalTimes
    <3> QED
      BY <3>1, Pieces, TimesNone DEF RefsAt
  <2>3. ref'[i] = ref[i] + Is(x, i)
    BY <1>1, <1>2, OneMore, Types
  <2> QED
    BY <2>1, <2>2, <2>3, Pieces
<1>12. ref' \in [Inum -> Int]
  BY <1>1, OneMore, Types
<1>13. DiskOK' /\ KeepsDirs(p)
  BY <1>1, SameTypes, SameDisk DEF disk
<1>14. "walk" \in Label /\ <<>> \in Seq(Todo)
  BY DEF Label
<1> QED
  BY <1>1, <1>2, <1>3, <1>8, <1>9, <1>10, <1>11, <1>12, <1>13, <1>14, GotoStep

LEMMA CloseKeeps ==
    ASSUME IInv, NEW p \in Proc, Close(p)
    PROVE  IInv'
<1>1. /\ pc[p] = "user" /\ todo[p] = <<>> /\ fd[p] \in Inum /\ cwd[p] \in Inum
      /\ fd' = [fd EXCEPT ![p] = NoInum] /\ cwd' = [cwd EXCEPT ![p] = cwd[p]]
      /\ Return(p, <<Put(fd[p])>>)
  BY Types DEF Close, PlaceOK, IInv, TypeOK
<1>2. ASSUME NEW i \in Inum
      PROVE  ref'[i] = ref[i] + Is(NoInum, i) + Is(cwd[p], i) + Owed(i, <<Put(fd[p])>>) - Now(p, i)
  <2>1. Now(p, i) = Is(fd[p], i) + Is(cwd[p], i)
    <3>1. Times(i, Locals(pc[p], loc[p])) = 0 /\ Owed(i, todo[p]) = 0
      BY <1>1, LocalTimes, TimesNone
    <3> QED
      BY <1>1, <3>1, Pieces
  <2>2. Owed(i, <<Put(fd[p])>>) = Is(fd[p], i)
    BY <1>1, Puts1
  <2>3. Is(NoInum, i) = 0
    BY Types DEF Is
  <2>4. ref'[i] = ref[i]
    BY DEF Close
  <2> QED
    BY <2>1, <2>2, <2>3, <2>4, Pieces
<1>3. ref' \in [Inum -> Int] /\ DiskOK' /\ KeepsDirs(p)
  BY NoneMore, Types, SameTypes, SameDisk DEF Close, disk
<1>4. <<Put(fd[p])>> \in Seq(Todo) /\ NoInum \in Pointer
  BY <1>1, Puts1 DEF Pointer
<1> QED
  BY <1>1, <1>2, <1>3, <1>4, ReturnStep

\* What the locals do not count they do not point to.
LEMMA NotAmong ==
    ASSUME NEW l, NEW place, NEW j, Times(j, Locals(place, l)) = 0
    PROVE  /\ place \in {"create", "unlink", "link2", "ren1", "ren2"} => l.at # j
           /\ place \in {"cycle", "ren3", "ren4", "ren5"} => l.dp # j
           /\ place \in OldPlaces \/ Walks(place, l, {"ren2"}) => l.olddp # j
           /\ place \in {"ren7", "ren8"} => l.ip # j
<1>0. Is(j, j) = 1 /\ \A x : Is(x, j) \in Nat
  BY IsNat DEF Is
<1>1. place = "create" => l.at # j
  BY <1>0, LocalTimes
<1>2. place = "unlink" => l.at # j
  BY <1>0, LocalTimes
<1>3. place = "link2" => l.at # j
  BY <1>0, LocalTimes
<1>4. place = "ren1" => l.at # j
  BY <1>0, LocalTimes
<1>5. place = "ren2" => l.at # j
  <2>1. Times(j, Locals("ren2", l)) = Is(l.olddp, j) + Is(l.at, j) + Is(l.ip, j)
    BY LocalTimes
  <2> QED
    BY <1>0, <2>1
<1>6. place = "cycle" => l.dp # j
  BY <1>0, LocalTimes
<1>7. place = "ren3" => l.dp # j
  BY <1>0, LocalTimes
<1>8. place = "ren4" => l.dp # j
  BY <1>0, LocalTimes
<1>9. place = "ren5" => l.dp # j
  BY <1>0, LocalTimes
<1>10. place = "ren2" => l.olddp # j
  BY <1>0, LocalTimes
<1>11. place = "cycle" => l.olddp # j
  BY <1>0, LocalTimes
<1>12. place = "ren3" => l.olddp # j
  BY <1>0, LocalTimes
<1>13. place = "ren4" => l.olddp # j
  BY <1>0, LocalTimes
<1>14. place = "ren5" => l.olddp # j
  BY <1>0, LocalTimes
<1>15. place = "ren6" => l.olddp # j
  BY <1>0, LocalTimes
<1>16. place = "ren7" => l.ip # j
  BY <1>0, LocalTimes
<1>17. place = "ren8" => l.ip # j
  BY <1>0, LocalTimes
<1>18. Walks(place, l, {"ren2"}) => l.olddp # j
  BY LocalTimes, <1>0 DEF Walks
<1> QED
  BY <1>1, <1>2, <1>3, <1>4, <1>5, <1>6, <1>7, <1>8, <1>9, <1>10, <1>11, <1>12, <1>13, <1>14, <1>15,
     <1>16, <1>17, <1>18 DEF OldPlaces

\* iput(): whoever finds the count at 1 is alone with the inode.
LEMMA PutCheckKeeps ==
    ASSUME IInv, NEW p \in Proc, PutCheck(p)
    PROVE  IInv'
<1>1. PICK j : j = Head(todo[p]).ino
  OBVIOUS
<1>2. /\ todo[p] # <<>> /\ Head(todo[p]).op = "put"
      /\ todo' = [todo EXCEPT ![p] = <<Drop(j)>> \o Tail(todo[p])]
      /\ UNCHANGED <<nlink, ref, lock, cwd, fd, pc, loc>>
  BY <1>1, Types DEF PutCheck, IInv, TypeOK
<1>3. j \in Inum /\ Tail(todo[p]) \in Seq(Todo)
  <2>1. Head(todo[p]) \in Todo /\ Tail(todo[p]) \in Seq(Todo)
    BY <1>2, Types
  <2> QED
    BY <1>1, <2>1 DEF Todo
<1>4. PICK what : what = <<Drop(j)>> \o Tail(todo[p])
  OBVIOUS
<1>5. /\ what \in Seq(Todo)
      /\ \A i \in Inum : Owed(i, what) = Owed(i, todo[p]) /\ Owed(i, what) \in Nat
  <2>1. what \in Seq(Todo)
    BY <1>3, <1>4, PutsOf, OwedCons
  <2>2. ASSUME NEW i \in Inum PROVE Owed(i, what) = Owed(i, todo[p]) /\ Owed(i, what) \in Nat
    <3>1. Owed(i, what) = One(Drop(j), i) + Owed(i, Tail(todo[p]))
      BY <1>3, <1>4, PutsOf, OwedCons
    <3>2. Owed(i, todo[p]) = One(Head(todo[p]), i) + Owed(i, Tail(todo[p]))
      BY <1>2, Types, OwedFirst
    <3>3. One(Head(todo[p]), i) = One(Drop(j), i)
      BY <1>1, <1>2 DEF One, Drop
    <3>4. Owed(i, what) \in Nat
      BY <2>1, OwedNat
    <3> QED
      BY <3>1, <3>2, <3>3, <3>4
  <2> QED
    BY <2>1, <2>2
<1>6. Moves(p, fd[p], cwd[p], pc[p], loc[p], what)
  BY <1>2, <1>4 DEF Moves, IInv, TypeOK
<1>7. Well(fd[p], cwd[p], pc[p], loc[p], what)
  BY <1>2, Types, <1>5 DEF PlaceOK, Well
<1>8. RefsMove(p, fd[p], cwd[p], pc[p], loc[p], what)
  <2>1. ASSUME NEW i \in Inum
        PROVE  /\ RefsAt(fd[p], cwd[p], pc[p], loc[p], what, i) = Now(p, i)
               /\ Now(p, i) \in Nat /\ ref[i] \in Nat /\ ref'[i] = ref[i]
    BY <1>5, Types, RefsAtNat, <1>2, Pieces DEF RefsAt, Now
  <2>2. ref' \in [Inum -> Int]
    BY <1>2, NoneMore, Types
  <2>3. ASSUME NEW i \in Inum
        PROVE  ref'[i] = ref[i] + RefsAt(fd[p], cwd[p], pc[p], loc[p], what, i) - Now(p, i)
    BY <2>1
  <2> QED
    BY <2>2, <2>3 DEF RefsMove, Now
<1>9. \/ UNCHANGED <<type, dir, dotdot, gone>>
      \/ /\ ref[j] = 1
         /\ type' = [type EXCEPT ![j] = "free"]
         /\ dir' = [dir EXCEPT ![j] = NoEntries]
         /\ dotdot' = [dotdot EXCEPT ![j] = NoInum]
         /\ gone' = [k \in Inum |-> IF k = j THEN 0 ELSE
                        gone[k] + Cardinality({s \in Slot : dir[j][s].inum = k})]
  BY <1>1 DEF PutCheck, Unreferenced
<1>10. CASE UNCHANGED <<type, dir, dotdot, gone>>
  BY <1>2, <1>10, SameTypes, SameDisk, Types, <1>6, <1>7, <1>8, Step
<1>11. CASE /\ ref[j] = 1
            /\ type' = [type EXCEPT ![j] = "free"]
            /\ dir' = [dir EXCEPT ![j] = NoEntries]
            /\ dotdot' = [dotdot EXCEPT ![j] = NoInum]
            /\ gone' = [k \in Inum |-> IF k = j THEN 0 ELSE
                           gone[k] + Cardinality({s \in Slot : dir[j][s].inum = k})]
  <2>1. DiskOK'
    <3>1. dir' \in [Inum -> [Slot -> [name : Name \cup {"."}, inum : Inum \cup {NoInum}]]]
      BY <1>3, <1>11 DEF NoEntries, Empty, IInv, TypeOK
    <3>2. gone' \in [Inum -> Nat]
      <4>1. ASSUME NEW k \in Inum PROVE Cardinality({s \in Slot : dir[j][s].inum = k}) \in Nat
        <5>1. IsFiniteSet(Slot)
          BY InodeAssumption, FS_CardinalityType, FS_Interval DEF Slot
        <5>2. IsFiniteSet({s \in Slot : dir[j][s].inum = k})
          BY <5>1, FS_Subset
        <5> QED
          BY <5>2, FS_CardinalityType
      <4>2. gone \in [Inum -> Nat]
        BY DEF IInv, TypeOK
      <4>3. ASSUME NEW k \in Inum PROVE gone'[k] \in Nat
        BY <1>11, <4>1, <4>2
      <4> QED
        BY <1>11, <4>3
    <3>3. /\ type' \in [Inum -> {"free", "file", "dir"}] /\ dotdot' \in [Inum -> Inum \cup {NoInum}]
          /\ \A k \in Inum : type'[k] = "dir" => dotdot'[k] \in Inum
      BY <1>3, <1>11 DEF IInv, TypeOK, DotDotInv
    <3> QED
      BY <1>2, <3>1, <3>2, <3>3 DEF IInv, TypeOK, DiskOK, DotDotInv
  <2>2. /\ Owed(j, todo[p]) >= 1 /\ Owed(j, todo[p]) \in Nat
    BY <1>2, Types, OwedFirst, <1>1 DEF One
  <2>3. RefsOf(p, j) = Now(p, j) /\ Now(p, j) >= 1 + Times(j, Locals(pc[p], loc[p])) /\ Now(p, j) \in Nat
    <3>1. RefsOf(p, j) = Now(p, j) /\ RefsOf(p, j) \in Nat
      BY Types, RefsOfAt DEF Now
    <3> QED
      BY <1>3, <2>2, <3>1, Pieces
  <2>4. Times(j, Locals(pc[p], loc[p])) = 0
    BY <1>3, <1>11, Types, RefsTerms, <2>3, Pieces
  <2>5. ASSUME NEW q \in Proc \ {p} PROVE Times(j, Locals(pc[q], loc[q])) = 0
    <3>1. RefsOf(p, j) + RefsOf(q, j) <= 1
      BY <1>3, <1>11, Types, RefsTerms
    <3>2. RefsOf(q, j) = Now(q, j) /\ RefsOf(q, j) \in Nat
      BY Types, RefsOfAt DEF Now
    <3>3. Now(q, j) >= Times(j, Locals(pc[q], loc[q])) /\ Times(j, Locals(pc[q], loc[q])) \in Nat
      BY <1>3, Pieces
    <3> QED
      BY <1>3, <2>3, <3>1, <3>2, <3>3, Pieces
  <2>6. ASSUME NEW q \in Proc PROVE DirOK(type', pc[q], loc[q])
    <3>1. Times(j, Locals(pc[q], loc[q])) = 0
      BY <2>4, <2>5
    <3>2. DirOK(type, pc[q], loc[q]) /\ PlaceOK(pc[q], loc[q], fd[q], todo[q])
      BY Types
    <3>3. ASSUME NEW k \in Inum, type[k] = "dir", k # j PROVE type'[k] = "dir"
      BY <1>11, <3>3 DEF IInv, TypeOK
    <3>4. PICK l : l = loc[q]
      OBVIOUS
    <3>5. /\ pc[q] \in {"create", "unlink", "link2", "ren1", "ren2"} => l.at \in Inum /\ l.at # j
          /\ pc[q] \in {"cycle", "ren3", "ren4", "ren5"} => l.dp \in Inum /\ l.dp # j
          /\ pc[q] \in OldPlaces \/ Walks(pc[q], l, {"ren2"}) => l.olddp \in Inum /\ l.olddp # j
          /\ pc[q] \in {"ren7", "ren8"} => l.ip \in Inum /\ l.ip # j
      BY <3>1, <3>2, <3>4, NotAmong DEF PlaceOK, AtPlaces, DpPlaces, OldPlaces, IpPlaces, Walks
    <3> QED
      BY <3>2, <3>3, <3>4, <3>5 DEF DirOK
  <2>7. KeepsDirs(p) /\ DirOK(type', pc[p], loc[p])
    BY <2>6 DEF KeepsDirs
  <2> QED
    BY <1>6, <1>7, <1>8, <2>1, <2>7, Step
<1> QED
  BY <1>9, <1>10, <1>11
\* ip->ref--, or an iunlock().
LEMMA ReleaseKeeps ==
    ASSUME IInv, NEW p \in Proc, Release(p)
    PROVE  IInv'
<1>1. PICK t : t = Head(todo[p])
  OBVIOUS
<1>2. PICK what : what = Tail(todo[p])
  OBVIOUS
<1>3. /\ todo[p] # <<>> /\ t.op # "put"
      /\ todo' = [todo EXCEPT ![p] = what]
      /\ pc' = [pc EXCEPT ![p] = IF pc[p] = "return" /\ Len(todo[p]) = 1 THEN "user" ELSE @]
      /\ UNCHANGED <<disk, cwd, fd, loc>>
      /\ IF t.op = "drop" THEN ref' = [ref EXCEPT ![t.ino] = @ - 1] /\ UNCHANGED lock
         ELSE lock' = [lock EXCEPT ![t.ino] = NoProc] /\ UNCHANGED ref
  BY <1>1, <1>2, Types DEF Release, IInv, TypeOK
<1>4. t \in Todo /\ t.ino \in Inum /\ t.op \in {"drop", "unlock"} /\ what \in Seq(Todo)
  <2>1. Head(todo[p]) \in Todo /\ Tail(todo[p]) \in Seq(Todo)
    BY <1>3, Types
  <2> QED
    BY <1>1, <1>2, <1>3, <2>1 DEF Todo
<1>5. PICK place : place = IF pc[p] = "return" /\ Len(todo[p]) = 1 THEN "user" ELSE pc[p]
  OBVIOUS
<1>6. /\ place \in Label
      /\ place # pc[p] => pc[p] = "return" /\ place = "user" /\ what = <<>>
      /\ pc[p] # "user"
  BY <1>2, <1>3, Types, <1>5 DEF PlaceOK, Label
<1>7. Moves(p, fd[p], cwd[p], place, loc[p], what)
  BY <1>3, <1>5 DEF Moves, IInv, TypeOK
<1>8. PlaceOK(place, loc[p], fd[p], what) /\ DirOK(type', place, loc[p])
  <2>1. type' = type
    BY <1>3 DEF disk
  <2>2. CASE place = pc[p]
    BY <1>6, <2>1, <2>2, Types DEF PlaceOK
  <2>3. CASE place = "user" /\ pc[p] = "return" /\ what = <<>>
    <3>1. PlaceOK("return", loc[p], fd[p], todo[p])
      BY <2>3, Types
    <3>2. PlaceOK("user", loc[p], fd[p], <<>>)
      BY <3>1 DEF PlaceOK, AtPlaces, IpPlaces, DpPlaces, OldPlaces, Walks
    <3>3. DirOK(type, "user", loc[p])
      BY DEF DirOK, OldPlaces, Walks
    <3> QED
      BY <2>1, <2>3, <3>2, <3>3
  <2> QED
    BY <1>6, <2>2, <2>3
<1>9. Well(fd[p], cwd[p], place, loc[p], what)
  BY <1>4, <1>6, <1>8, Types DEF Well
<1>10. ASSUME NEW i \in Inum
       PROVE  ref'[i] = ref[i] + RefsAt(fd[p], cwd[p], place, loc[p], what, i) - Now(p, i)
  <2>1. Owed(i, todo[p]) = One(t, i) + Owed(i, what)
    BY <1>1, <1>2, <1>3, Types, OwedFirst
  <2>2. Times(i, Locals(place, loc[p])) = Times(i, Locals(pc[p], loc[p]))
    BY LocalTimes, <1>6
  <2>3. Owed(i, what) \in Nat /\ One(t, i) \in Nat
    BY <1>4, OwedNat, OneNat
  <2>4. RefsAt(fd[p], cwd[p], place, loc[p], what, i)
            = Is(fd[p], i) + (IF pc[p] = "chdir2" THEN 0 ELSE Is(cwd[p], i))
              + Times(i, Locals(pc[p], loc[p])) + Owed(i, what)
    BY <1>6, <2>2 DEF RefsAt
  <2>5. Now(p, i) = RefsAt(fd[p], cwd[p], place, loc[p], what, i) + One(t, i)
    BY <2>1, <2>3, <2>4, Pieces
  <2>6. RefsAt(fd[p], cwd[p], place, loc[p], what, i) \in Nat
    BY <1>4, <1>6, RefsAtNat
  <2>7. ref'[i] = ref[i] - One(t, i) /\ ref[i] \in Nat
    <3>1. CASE t.op = "drop"
      <4>1. ref' = [ref EXCEPT ![t.ino] = @ - 1] /\ ref \in [Inum -> Nat]
        BY <1>3, <3>1 DEF IInv, TypeOK
      <4>2. CASE t.ino = i
        BY <3>1, <4>1, <4>2 DEF One
      <4>3. CASE t.ino # i
        BY <3>1, <4>1, <4>3 DEF One
      <4> QED
        BY <4>2, <4>3
    <3>2. CASE t.op = "unlock"
      BY <1>3, <3>2, Pieces DEF One
    <3> QED
      BY <1>4, <3>1, <3>2
  <2> QED
    BY <2>3, <2>5, <2>6, <2>7
<1>11. ref' \in [Inum -> Int]
  BY <1>3 DEF IInv, TypeOK
<1>12. RefsMove(p, fd[p], cwd[p], place, loc[p], what)
  BY <1>10, <1>11 DEF RefsMove, Now
<1>13. DiskOK' /\ KeepsDirs(p)
  BY <1>3, SameTypes DEF IInv, TypeOK, disk, DiskOK, DotDotInv
<1> QED
  BY <1>7, <1>8, <1>9, <1>12, <1>13, Step

\* What dirlookup() returns, and where.
LEMMA LookupType ==
    ASSUME IInv, NEW d \in Inum, NEW n
    PROVE  Lookup(d, n) \in Pointer
<1>1. dotdot[d] \in Pointer /\ \A s \in Slot : dir[d][s].inum \in Pointer
  BY DEF IInv, TypeOK, Pointer
<1> QED
  BY <1>1 DEF Lookup, Pointer

LEMMA SlotType ==
    ASSUME NEW d, NEW n, n \notin {".", ".."}, Lookup(d, n) # NoInum
    PROVE  SlotOf(d, n) \in Slot /\ dir[d][SlotOf(d, n)].name = n
  BY DEF Lookup, SlotOf

\* A lookup that fails gives everything back.
LEMMA WalkFailsKeeps ==
    ASSUME IInv, NEW p \in Proc, pc[p] = "walk", todo[p] = <<>>, WalkFails(p),
           UNCHANGED <<type, nlink, dir, dotdot, gone, lock, ref, cwd, fd>>
    PROVE  IInv'
<1>1. PICK l : l = loc[p]
  OBVIOUS
<1>2. l \in Local /\ l.at \in Inum /\ PlaceOK("walk", l, fd[p], <<>>) /\ DirOK(type, "walk", l)
  BY <1>1, Types DEF PlaceOK, AtPlaces
<1>3. DiskOK' /\ KeepsDirs(p) /\ ref' \in [Inum -> Int] /\ \A i \in Inum : ref'[i] = ref[i] /\ ref[i] \in Nat
  BY NoneMore, Types, SameTypes, SameDisk
<1>4. fd' = [fd EXCEPT ![p] = fd[p]] /\ cwd' = [cwd EXCEPT ![p] = cwd[p]]
      /\ fd[p] \in Pointer /\ cwd[p] \in Inum
  BY Types DEF IInv, TypeOK
<1>5. ASSUME NEW i \in Inum
      PROVE  Now(p, i) = Is(fd[p], i) + Is(cwd[p], i) + Times(i, Locals("walk", l))
  BY <1>1, Pieces, TimesNone
<1>6. CASE l.then = "link2"
  <2>1. PICK m : m = [l EXCEPT !.at = l.ip]
    OBVIOUS
  <2>2. l.ip \in Inum
    BY <1>2, <1>6 DEF PlaceOK, Walks
  <2>3. m \in Local /\ m.at = l.ip /\ m.call = l.call
    BY <1>2, <2>1, <2>2 DEF Local, Pointer
  <2>4. Goto(p, "linkbad", m, <<Put(l.at)>>)
    BY <1>1, <1>6, <2>1 DEF WalkFails
  <2>5. PlaceOK("linkbad", m, fd[p], <<Put(l.at)>>) /\ DirOK(type', "linkbad", m)
    BY <1>2, <2>2, <2>3 DEF PlaceOK, DirOK, AtPlaces, IpPlaces, DpPlaces, OldPlaces, Walks
  <2>6. ASSUME NEW i \in Inum
        PROVE  ref'[i] = ref[i] + RefsAt(fd[p], cwd[p], "linkbad", m, <<Put(l.at)>>, i) - Now(p, i)
    <3>1. Times(i, Locals("walk", l)) = Is(l.at, i) + Is(l.ip, i)
      BY <1>6, LocalTimes
    <3>2. Times(i, Locals("linkbad", m)) = Is(l.ip, i)
      BY <2>3, LocalTimes
    <3>3. Owed(i, <<Put(l.at)>>) = Is(l.at, i)
      BY <1>2, Puts1
    <3>4. RefsAt(fd[p], cwd[p], "linkbad", m, <<Put(l.at)>>, i)
              = Is(fd[p], i) + Is(cwd[p], i) + Is(l.ip, i) + Is(l.at, i)
      BY <3>2, <3>3 DEF RefsAt
    <3>5. Is(fd[p], i) \in Nat /\ Is(cwd[p], i) \in Nat /\ Is(l.ip, i) \in Nat /\ Is(l.at, i) \in Nat
      BY IsNat
    <3>6. Now(p, i) = Is(fd[p], i) + Is(cwd[p], i) + Is(l.at, i) + Is(l.ip, i)
      BY <1>5, <3>1, <3>5
    <3>7. ref'[i] = ref[i] /\ ref[i] \in Nat
      BY <1>3
    <3> QED
      BY <3>4, <3>5, <3>6, <3>7
  <2>7. "linkbad" \in Label /\ <<Put(l.at)>> \in Seq(Todo)
    BY <1>2, Puts1 DEF Label
  <2> QED
    BY <1>3, <2>3, <2>4, <2>5, <2>6, <2>7, GotoStep
<1>7. CASE l.then = "ren2"
  <2>1. l.olddp \in Inum /\ l.ip \in Inum
    BY <1>2, <1>7 DEF PlaceOK, Walks
  <2>2. PICK what : what = <<Put(l.at), Put(l.olddp), Put(l.ip)>>
    OBVIOUS
  <2>3. Return(p, what)
    BY <1>1, <1>7, <2>2 DEF WalkFails
  <2>4. what \in Seq(Todo)
    BY <1>2, <2>1, <2>2, Puts3
  <2>5. ASSUME NEW i \in Inum
        PROVE  ref'[i] = ref[i] + Is(fd[p], i) + Is(cwd[p], i) + Owed(i, what) - Now(p, i)
    <3>1. Times(i, Locals("walk", l)) = Is(l.at, i) + Is(l.olddp, i) + Is(l.ip, i)
      BY <1>7, LocalTimes
    <3>2. Owed(i, what) = Is(l.at, i) + Is(l.olddp, i) + Is(l.ip, i)
      BY <1>2, <2>1, <2>2, Puts3
    <3> QED
      BY <1>3, <1>5, <3>1, <3>2, IsNat
  <2> QED
    BY <1>3, <1>4, <2>3, <2>4, <2>5, ReturnStep
<1>8. CASE l.then \notin {"link2", "ren2"}
  <2>1. PICK what : what = <<Put(l.at)>>
    OBVIOUS
  <2>2. Return(p, what)
    BY <1>1, <1>8, <2>1 DEF WalkFails
  <2>3. what \in Seq(Todo)
    BY <1>2, <2>1, Puts1
  <2>4. ASSUME NEW i \in Inum
        PROVE  ref'[i] = ref[i] + Is(fd[p], i) + Is(cwd[p], i) + Owed(i, what) - Now(p, i)
    <3>1. Times(i, Locals("walk", l)) = Is(l.at, i)
      BY <1>8, LocalTimes
    <3>2. Owed(i, what) = Is(l.at, i)
      BY <1>2, <2>1, Puts1
    <3> QED
      BY <1>3, <1>5, <3>1, <3>2, IsNat
  <2> QED
    BY <1>3, <1>4, <2>2, <2>3, <2>4, ReturnStep
<1> QED
  BY <1>6, <1>7, <1>8

\* A lookup that reaches the last name but one, or goes on.
LEMMA WalkOn ==
    ASSUME NEW l, NEW m, NEW i, l.then \in Lookups, m.then = l.then,
           m.olddp = l.olddp, m.ip = l.ip
    PROVE  /\ Times(i, Locals(l.then, m)) - Is(m.at, i) = Times(i, Locals("walk", l)) - Is(l.at, i)
           /\ Times(i, Locals("walk", m)) - Is(m.at, i) = Times(i, Locals("walk", l)) - Is(l.at, i)
           /\ Times(i, Locals(l.then, m)) \in Nat /\ Times(i, Locals("walk", m)) \in Nat
           /\ Times(i, Locals("walk", l)) \in Nat
<1>0. \A x : Is(x, i) \in Nat
  BY IsNat
<1>1. CASE l.then = "link2"
  BY <1>1, LocalTimes, <1>0
<1>2. CASE l.then = "ren2"
  BY <1>2, LocalTimes, <1>0
<1>3. CASE l.then \in Lookups \ {"link2", "ren2"}
  BY <1>3, LocalTimes, <1>0 DEF Lookups
<1> QED
  BY <1>1, <1>2, <1>3

LEMMA MoveOn ==
    ASSUME IInv, NEW p \in Proc, todo[p] = <<>>, pc[p] # "chdir2",
           NEW place \in Label \ {"chdir2"}, NEW l \in Local, NEW what \in Seq(Todo),
           Goto(p, place, l, what), UNCHANGED <<fd, cwd>>, PlaceOK(place, l, fd[p], what),
           ref' \in [Inum -> Int],
           \A i \in Inum : ref'[i] + Holds(p, i) = ref[i] + Times(i, Locals(place, l)) + Owed(i, what),
           DirOK(type', place, l), DiskOK', KeepsDirs(p)
    PROVE  IInv'
<1>1. ASSUME NEW i \in Inum
      PROVE  ref'[i] = ref[i] + RefsAt(fd[p], cwd[p], place, l, what, i) - Now(p, i)
  <2>1. Is(fd[p], i) \in Nat /\ Is(cwd[p], i) \in Nat /\ Holds(p, i) \in Nat /\ ref[i] \in Nat
        /\ ref'[i] \in Int /\ Times(i, Locals(place, l)) \in Nat /\ Owed(i, what) \in Nat
    BY IsNat, Pieces, LocalsNat, OwedNat DEF Holds
  <2>2. Now(p, i) = Is(fd[p], i) + Is(cwd[p], i) + Holds(p, i)
    <3>1. Owed(i, todo[p]) = 0
      BY TimesNone
    <3>2. Now(p, i) = Is(fd[p], i) + (IF pc[p] = "chdir2" THEN 0 ELSE Is(cwd[p], i))
                      + Holds(p, i) + Owed(i, todo[p])
      BY Pieces DEF Holds
    <3>3. Now(p, i) = Is(fd[p], i) + Is(cwd[p], i) + Holds(p, i) + 0
      BY <3>1, <3>2
    <3> QED
      BY <2>1, <3>3
  <2>3. RefsAt(fd[p], cwd[p], place, l, what, i)
            = Is(fd[p], i) + Is(cwd[p], i) + Times(i, Locals(place, l)) + Owed(i, what)
    BY DEF RefsAt
  <2>4. ref'[i] + Holds(p, i) = ref[i] + Times(i, Locals(place, l)) + Owed(i, what)
    OBVIOUS
  <2>5. PICK now \in Int : now = ref'[i]
    BY <2>1
  <2>6. PICK r \in Nat : r = ref[i]
    BY <2>1
  <2>7. PICK h \in Nat : h = Holds(p, i)
    BY <2>1
  <2>8. PICK t \in Nat : t = Times(i, Locals(place, l))
    BY <2>1
  <2>9. PICK o \in Nat : o = Owed(i, what)
    BY <2>1
  <2>10. PICK f \in Nat : f = Is(fd[p], i)
    BY <2>1
  <2>11. PICK c \in Nat : c = Is(cwd[p], i)
    BY <2>1
  <2>12. now + h = r + t + o
    BY <2>4, <2>5, <2>6, <2>7, <2>8, <2>9
  <2>13. now = r + (f + c + t + o) - (f + c + h)
    BY <2>12
  <2> QED
    BY <2>2, <2>3, <2>5, <2>6, <2>7, <2>8, <2>9, <2>10, <2>11, <2>13
<1> QED
  BY <1>1, GotoStep

LEMMA GiveBack ==
    ASSUME IInv, NEW p \in Proc, todo[p] = <<>>, pc[p] # "chdir2", NEW what \in Seq(Todo),
           Return(p, what), UNCHANGED <<fd, cwd>>,
           ref' \in [Inum -> Int],
           \A i \in Inum : ref'[i] + Holds(p, i) = ref[i] + Owed(i, what),
           DiskOK', KeepsDirs(p)
    PROVE  IInv'
<1>1. ASSUME NEW i \in Inum
      PROVE  ref'[i] = ref[i] + Is(fd[p], i) + Is(cwd[p], i) + Owed(i, what) - Now(p, i)
  <2>1. Is(fd[p], i) \in Nat /\ Is(cwd[p], i) \in Nat /\ Holds(p, i) \in Nat /\ ref[i] \in Nat
        /\ ref'[i] \in Int /\ Owed(i, what) \in Nat
    BY IsNat, Pieces, OwedNat DEF Holds
  <2>2. Now(p, i) = Is(fd[p], i) + Is(cwd[p], i) + Holds(p, i)
    <3>1. Owed(i, todo[p]) = 0
      BY TimesNone
    <3>2. Now(p, i) = Is(fd[p], i) + (IF pc[p] = "chdir2" THEN 0 ELSE Is(cwd[p], i))
                      + Holds(p, i) + Owed(i, todo[p])
      BY Pieces DEF Holds
    <3>3. Now(p, i) = Is(fd[p], i) + Is(cwd[p], i) + Holds(p, i) + 0
      BY <3>1, <3>2
    <3> QED
      BY <2>1, <3>3
  <2>3. PICK now \in Int : now = ref'[i]
    BY <2>1
  <2>4. PICK r \in Nat : r = ref[i]
    BY <2>1
  <2>5. PICK h \in Nat : h = Holds(p, i)
    BY <2>1
  <2>6. PICK o \in Nat : o = Owed(i, what)
    BY <2>1
  <2>7. PICK f \in Nat : f = Is(fd[p], i)
    BY <2>1
  <2>8. PICK c \in Nat : c = Is(cwd[p], i)
    BY <2>1
  <2>9. now + h = r + o
    BY <2>3, <2>4, <2>5, <2>6
  <2>10. now = r + f + c + o - (f + c + h)
    BY <2>9
  <2> QED
    BY <2>2, <2>3, <2>4, <2>5, <2>6, <2>7, <2>8, <2>10
<1>2. PICK f : f = fd[p]
  OBVIOUS
<1>3. PICK c : c = cwd[p]
  OBVIOUS
<1>4. fd' = [fd EXCEPT ![p] = f] /\ cwd' = [cwd EXCEPT ![p] = c] /\ f \in Pointer /\ c \in Inum
  BY <1>2, <1>3, Types DEF IInv, TypeOK
<1>5. ASSUME NEW i \in Inum
      PROVE  ref'[i] = ref[i] + Is(f, i) + Is(c, i) + Owed(i, what) - Now(p, i)
  BY <1>1, <1>2, <1>3
<1> QED
  BY <1>4, <1>5, ReturnStep, ZenonT(30)

LEMMA WalkKeeps ==
    ASSUME IInv, NEW p \in Proc, Walk(p)
    PROVE  IInv'
<1>1. PICK l : l = loc[p]
  OBVIOUS
<1>2. PICK n : n = Head(l.path)
  OBVIOUS
<1>3. PICK next : next = Lookup(l.at, n)
  OBVIOUS
<1>4. /\ pc[p] = "walk" /\ todo[p] = <<>> /\ UNCHANGED <<disk, lock, cwd, fd>>
      /\ \/ WalkFails(p) /\ UNCHANGED ref
         \/ /\ type[l.at] = "dir" /\ WantsParent(l)
            /\ Goto(p, l.then, [l EXCEPT !.name = n, !.path = <<>>], <<>>)
            /\ UNCHANGED ref
         \/ /\ next # NoInum
            /\ \/ ~WantsParent(l)
               \/ Len(l.path) # 1
            /\ Goto(p, IF Len(l.path) = 1 THEN l.then ELSE "walk",
                    [l EXCEPT !.at = next, !.path = Tail(l.path)], <<Put(l.at)>>)
            /\ Get(next)
  BY <1>1, <1>2, <1>3 DEF Walk, Locks, At
<1>5. /\ l \in Local /\ l.at \in Inum /\ PlaceOK("walk", l, fd[p], <<>>) /\ DirOK(type, "walk", l)
      /\ l.then \in Lookups /\ l.path \in Seq(Name \cup {".", ".."}) /\ l.path # <<>>
      /\ n \in Name \cup {".", ".."}
  <2>1. l \in Local /\ l.at \in Inum /\ PlaceOK("walk", l, fd[p], <<>>) /\ DirOK(type, "walk", l)
    BY <1>1, <1>4, Types DEF PlaceOK, AtPlaces
  <2>2. l.path \in Seq(Name \cup {".", ".."})
    BY <2>1 DEF Local
  <2>3. l.then \in Lookups /\ l.path # <<>>
    BY <2>1 DEF PlaceOK
  <2> QED
    BY <1>2, <2>1, <2>2, <2>3
<1>6. UNCHANGED <<type, nlink, dir, dotdot, gone, lock, cwd, fd>>
  BY <1>4 DEF disk
<1>7. DiskOK' /\ KeepsDirs(p)
  BY <1>6, SameTypes, SameDisk
<1>8. /\ \A i : Holds(p, i) = Times(i, Locals("walk", l))
      /\ pc[p] # "chdir2" /\ UNCHANGED <<fd, cwd>>
  BY <1>1, <1>4, <1>6 DEF Holds
<1>9. /\ l.then \in Label \ {"chdir2"} /\ "walk" \in Label \ {"chdir2"}
      /\ l.then # "walk" /\ l.then # "user"
  BY <1>5 DEF Label, Lookups
<1>10. CASE WalkFails(p) /\ UNCHANGED ref
  BY <1>4, <1>6, <1>10, WalkFailsKeeps
<1>11. CASE /\ type[l.at] = "dir" /\ WantsParent(l)
            /\ Goto(p, l.then, [l EXCEPT !.name = n, !.path = <<>>], <<>>)
            /\ UNCHANGED ref
  <2>1. PICK m : m = [l EXCEPT !.name = n, !.path = <<>>]
    OBVIOUS
  <2>2. /\ m \in Local /\ m.at = l.at /\ m.then = l.then /\ m.ip = l.ip /\ m.dp = l.dp /\ m.olddp = l.olddp
        /\ m.call = l.call /\ m.path2 = l.path2 /\ m.xip = l.xip
    <3>1. <<>> \in Seq(Name \cup {".", ".."})
      OBVIOUS
    <3> QED
      BY <1>5, <2>1, <3>1 DEF Local
  <2>3. PlaceOK(l.then, m, fd[p], <<>>)
    <3>1. l.then \in {"create", "unlink", "link2", "ren1", "ren2"}
      BY <1>11 DEF WantsParent
    <3>2. PICK w : w = l.then
      OBVIOUS
    <3>3. /\ w \in IpPlaces => m.ip \in Inum
          /\ w \in OldPlaces => m.olddp \in Inum
          /\ w = "ren1" => m.path2 \in Path
          /\ m.call \in {"creat", "open"} => fd[p] = NoInum
      BY <1>5, <2>2, <3>1, <3>2 DEF PlaceOK, IpPlaces, OldPlaces, Walks
    <3>4. PlaceOK(w, m, fd[p], <<>>)
      BY <1>5, <2>2, <3>1, <3>2, <3>3 DEF PlaceOK, AtPlaces, IpPlaces, DpPlaces, OldPlaces, Walks
    <3> QED
      BY <3>2, <3>4
  <2>4. DirOK(type', l.then, m)
    BY <1>5, <1>6, <1>9, <1>11, <2>2 DEF DirOK, WantsParent, OldPlaces, Walks
  <2>5. ASSUME NEW i \in Inum
        PROVE  ref'[i] + Holds(p, i) = ref[i] + Times(i, Locals(l.then, m)) + Owed(i, <<>>)
    <3>1. /\ Times(i, Locals(l.then, m)) - Is(m.at, i) = Times(i, Locals("walk", l)) - Is(l.at, i)
          /\ Times(i, Locals(l.then, m)) \in Nat /\ Times(i, Locals("walk", l)) \in Nat
      BY <1>5, <2>2, WalkOn
    <3>2. Times(i, Locals(l.then, m)) = Times(i, Locals("walk", l))
      BY <2>2, <3>1, IsNat
    <3>3. ref'[i] = ref[i] /\ ref[i] \in Nat /\ Owed(i, <<>>) = 0
      BY <1>11, Pieces, TimesNone
    <3> QED
      BY <1>8, <3>1, <3>2, <3>3
  <2>6. ref' \in [Inum -> Int] /\ <<>> \in Seq(Todo) /\ Goto(p, l.then, m, <<>>)
    BY <1>11, <2>1, NoneMore, Types
  <2> QED
    BY <1>4, <1>7, <1>8, <1>9, <2>2, <2>3, <2>4, <2>5, <2>6, MoveOn
<1>12. CASE /\ next # NoInum
            /\ \/ ~WantsParent(l)
               \/ Len(l.path) # 1
            /\ Goto(p, IF Len(l.path) = 1 THEN l.then ELSE "walk",
                    [l EXCEPT !.at = next, !.path = Tail(l.path)], <<Put(l.at)>>)
            /\ Get(next)
  <2>1. PICK m : m = [l EXCEPT !.at = next, !.path = Tail(l.path)]
    OBVIOUS
  <2>2. next \in Inum
    BY <1>3, <1>5, <1>12, LookupType DEF Pointer
  <2>3. /\ m \in Local /\ m.at = next /\ m.then = l.then /\ m.ip = l.ip /\ m.dp = l.dp /\ m.olddp = l.olddp
        /\ m.call = l.call /\ m.path2 = l.path2 /\ m.path = Tail(l.path)
    <3>1. Tail(l.path) \in Seq(Name \cup {".", ".."})
      BY <1>5
    <3> QED
      BY <1>5, <2>1, <2>2, <3>1 DEF Local, Pointer
  <2>4. PICK what : what = <<Put(l.at)>>
    OBVIOUS
  <2>5. what \in Seq(Todo) /\ \A i \in Inum : Owed(i, what) = Is(l.at, i)
    BY <1>5, <2>4, Puts1
  <2>6. ref' \in [Inum -> Int] /\ \A i \in Inum : ref'[i] = ref[i] + Is(next, i) /\ ref[i] \in Nat
    BY <1>12, OneMore, Types, Pieces
  <2>7. CASE Len(l.path) = 1
    <3>1. Goto(p, l.then, m, what)
      BY <1>12, <2>1, <2>4, <2>7
    <3>2. l.then \in {"open", "chdir", "link1"}
      BY <1>5, <1>12, <2>7 DEF WantsParent, Lookups
    <3>3. PlaceOK(l.then, m, fd[p], what)
      BY <1>5, <2>2, <2>3, <3>2 DEF PlaceOK, AtPlaces, IpPlaces, DpPlaces, OldPlaces, Walks
    <3>4. DirOK(type', l.then, m)
      BY <3>2 DEF DirOK, OldPlaces, Walks
    <3>5. ASSUME NEW i \in Inum
          PROVE  ref'[i] + Holds(p, i) = ref[i] + Times(i, Locals(l.then, m)) + Owed(i, what)
      <4>1. Times(i, Locals(l.then, m)) = Is(next, i)
        BY <2>3, <3>2, LocalTimes
      <4>2. Times(i, Locals("walk", l)) = Is(l.at, i)
        BY <3>2, LocalTimes
      <4>3. Is(next, i) \in Nat /\ Is(l.at, i) \in Nat
        BY IsNat
      <4> QED
        BY <1>8, <2>5, <2>6, <4>1, <4>2, <4>3
    <3> QED
      BY <1>4, <1>7, <1>8, <1>9, <2>3, <2>5, <2>6, <3>1, <3>3, <3>4, <3>5, MoveOn
  <2>8. CASE Len(l.path) # 1
    <3>1. Goto(p, "walk", m, what)
      BY <1>12, <2>1, <2>4, <2>8
    <3>2. Tail(l.path) # <<>>
      <4>1. PICK path \in Seq(Name \cup {".", ".."}) : path = l.path
        BY <1>5
      <4>2. Len(path) \in Nat /\ Len(path) # 0 /\ Len(path) # 1 /\ Len(Tail(path)) = Len(path) - 1
        BY <1>5, <2>8, <4>1
      <4>3. Len(Tail(path)) # 0
        BY <4>2
      <4> QED
        BY <4>1, <4>3
    <3>3. PlaceOK("walk", m, fd[p], what)
      BY <1>5, <2>3, <2>2, <3>2 DEF PlaceOK, Walks, AtPlaces, IpPlaces, DpPlaces, OldPlaces
    <3>4. DirOK(type', "walk", m)
      BY <1>5, <1>6, <2>3 DEF DirOK, OldPlaces, Walks
    <3>5. ASSUME NEW i \in Inum
          PROVE  ref'[i] + Holds(p, i) = ref[i] + Times(i, Locals("walk", m)) + Owed(i, what)
      <4>1. /\ Times(i, Locals("walk", m)) - Is(next, i) = Times(i, Locals("walk", l)) - Is(l.at, i)
            /\ Times(i, Locals("walk", m)) \in Nat /\ Times(i, Locals("walk", l)) \in Nat
        BY <1>5, <2>3, WalkOn
      <4>2. Is(next, i) \in Nat /\ Is(l.at, i) \in Nat
        BY IsNat
      <4> QED
        BY <1>8, <2>5, <2>6, <4>1, <4>2
    <3> QED
      BY <1>4, <1>7, <1>8, <1>9, <2>3, <2>5, <2>6, <3>1, <3>3, <3>4, <3>5, MoveOn
  <2> QED
    BY <2>7, <2>8
<1> QED
  BY <1>4, <1>10, <1>11, <1>12

\* p is at a place, with these locals and nothing left to release.
LEMMA Here ==
    ASSUME IInv, NEW p \in Proc, NEW place, At(p, place), NEW l, l = loc[p]
    PROVE  /\ l \in Local /\ PlaceOK(place, l, fd[p], <<>>) /\ DirOK(type, place, l)
           /\ pc[p] = place /\ todo[p] = <<>>
           /\ \A i : Holds(p, i) = Times(i, Locals(place, l))
  BY Types DEF At, Holds

LEMMA LockSet ==
    ASSUME IInv, NEW j, NEW q \in Proc \cup {NoProc}
    PROVE  [lock EXCEPT ![j] = q] \in [Inum -> Proc \cup {NoProc}]
  BY DEF IInv, TypeOK

LEMMA EntrySet ==
    ASSUME IInv, NEW d \in Inum, NEW s, NEW n \in Name \cup {"."}, NEW i \in Pointer
    PROVE  [dir EXCEPT ![d][s] = [name |-> n, inum |-> i]] \in Entries
<1>1. dir[d] \in [Slot -> [name : Name \cup {"."}, inum : Inum \cup {NoInum}]]
  BY DEF IInv, TypeOK
<1>2. PICK e : e = [name |-> n, inum |-> i]
  OBVIOUS
<1>3. e \in [name : Name \cup {"."}, inum : Inum \cup {NoInum}]
  BY <1>2 DEF Pointer
<1>4. [dir[d] EXCEPT ![s] = e] \in [Slot -> [name : Name \cup {"."}, inum : Inum \cup {NoInum}]]
  BY <1>1, <1>3
<1>5. dir \in Entries
  BY DEF IInv, TypeOK, Entries
<1>6. [dir EXCEPT ![d][s] = e] \in Entries
  BY <1>4, <1>5 DEF Entries
<1> QED
  BY <1>2, <1>6

LEMMA ClearSet ==
    ASSUME IInv, NEW d \in Inum, NEW s
    PROVE  [dir EXCEPT ![d][s] = Empty] \in Entries
<1>1. NoInum \in Pointer /\ "." \in Name \cup {"."}
  BY DEF Pointer
<1> QED
  BY <1>1, EntrySet DEF Empty

LEMMA DiskTyped ==
    ASSUME IInv, UNCHANGED <<type, dotdot, gone>>, nlink' \in [Inum -> Int], dir' \in Entries,
           lock' \in [Inum -> Proc \cup {NoProc}]
    PROVE  DiskOK'
  BY DEF IInv, TypeOK, DiskOK, DotDotInv, Entries

LEMMA MoreDirs ==
    ASSUME IInv, NEW p \in Proc, \A k \in Inum : type[k] = "dir" => type'[k] = "dir"
    PROVE  KeepsDirs(p)
<1>1. ASSUME NEW q \in Proc \ {p} PROVE DirOK(type', pc[q], loc[q])
  <2>1. DirOK(type, pc[q], loc[q]) /\ PlaceOK(pc[q], loc[q], fd[q], todo[q])
    BY Types
  <2>2. PICK l : l = loc[q]
    OBVIOUS
  <2>3. /\ pc[q] \in {"create", "unlink", "link2", "ren1", "ren2"} => l.at \in Inum
        /\ pc[q] \in {"cycle", "ren3", "ren4", "ren5"} => l.dp \in Inum
        /\ pc[q] \in OldPlaces \/ Walks(pc[q], l, {"ren2"}) => l.olddp \in Inum
        /\ pc[q] \in {"ren7", "ren8"} => l.ip \in Inum
    BY <2>1, <2>2 DEF PlaceOK, AtPlaces, DpPlaces, OldPlaces, IpPlaces, Walks
  <2> QED
    BY <2>1, <2>2, <2>3 DEF DirOK
<1> QED
  BY <1>1 DEF KeepsDirs

LEMMA LookupNone ==
    ASSUME IInv, NEW d \in Inum, type[d] = "dir", NEW n \in Name \cup {".", ".."},
           Lookup(d, n) = NoInum
    PROVE  n \in Name
<1>1. d # NoInum /\ dotdot[d] # NoInum
  BY InodeAssumption DEF IInv, DotDotInv
<1>2. n # "." /\ n # ".."
  BY <1>1 DEF Lookup
<1> QED
  BY <1>2

LEMMA CreateKeeps ==
    ASSUME IInv, NEW p \in Proc, Create(p)
    PROVE  IInv'
<1>1. PICK l : l = loc[p]
  OBVIOUS
<1>2. PICK d : d = l.at
  OBVIOUS
<1>3. PICK old : old = Lookup(d, l.name)
  OBVIOUS
<1>4. /\ l \in Local /\ PlaceOK("create", l, fd[p], <<>>) /\ type[d] = "dir"
      /\ pc[p] = "create" /\ todo[p] = <<>> /\ d \in Inum
      /\ l.name \in Name \cup {".", ".."}
      /\ \A i : Holds(p, i) = Is(d, i)
      /\ UNCHANGED <<cwd, fd>> /\ pc[p] # "chdir2"
  <2>1. At(p, "create") /\ UNCHANGED <<cwd, fd>>
    BY DEF Create, Locks
  <2>2. /\ l \in Local /\ PlaceOK("create", l, fd[p], <<>>) /\ DirOK(type, "create", l)
        /\ pc[p] = "create" /\ todo[p] = <<>>
        /\ \A i : Holds(p, i) = Times(i, Locals("create", l))
    BY <1>1, <2>1, Here
  <2>3. \A i : Holds(p, i) = Is(d, i)
    BY <1>2, <2>2, LocalTimes
  <2>4. l.name \in Name \cup {".", ".."}
    BY <2>2 DEF Local
  <2> QED
    BY <1>2, <2>1, <2>2, <2>3, <2>4 DEF PlaceOK, AtPlaces, DirOK
<1>5. \/ /\ old # NoInum
         /\ Goto(p, "createold", [l EXCEPT !.at = old], <<Put(d)>>)
         /\ Get(old) /\ UNCHANGED <<disk, lock>>
      \/ /\ Return(p, <<Put(d)>>)
         /\ UNCHANGED <<disk, ref, lock>>
      \/ /\ old = NoInum
         /\ \E i \in NewInum :
              /\ type' = [type EXCEPT ![i] = IF l.call = "mkdir" THEN "dir" ELSE "file"]
              /\ nlink' = [nlink EXCEPT ![i] = 1, ![d] = @ + IF l.call = "mkdir" THEN 1 ELSE 0]
              /\ dotdot' = [dotdot EXCEPT ![i] = IF l.call = "mkdir" THEN d ELSE NoInum]
              /\ dir' = DirLink(d, l.name, i)
              /\ lock' = [lock EXCEPT ![i] = p]
              /\ Goto(p, "created", [l EXCEPT !.ip = i], <<Put(d)>>)
              /\ Get(i)
         /\ UNCHANGED gone
  BY <1>1, <1>2, <1>3 DEF Create
<1>6. PICK what : what = <<Put(d)>>
  OBVIOUS
<1>7. what \in Seq(Todo) /\ \A i \in Inum : Owed(i, what) = Is(d, i)
  BY <1>4, <1>6, Puts1
<1>8. "createold" \in Label \ {"chdir2"} /\ "created" \in Label \ {"chdir2"}
  BY DEF Label
<1>9. CASE /\ old # NoInum
           /\ Goto(p, "createold", [l EXCEPT !.at = old], <<Put(d)>>)
           /\ Get(old) /\ UNCHANGED <<disk, lock>>
  <2>1. PICK m : m = [l EXCEPT !.at = old]
    OBVIOUS
  <2>2. old \in Inum
    BY <1>3, <1>4, <1>9, LookupType DEF Pointer
  <2>3. m \in Local /\ m.at = old /\ m.call = l.call
    BY <1>4, <2>1, <2>2 DEF Local, Pointer
  <2>4. PlaceOK("createold", m, fd[p], what) /\ DirOK(type', "createold", m)
    BY <1>4, <2>2, <2>3 DEF PlaceOK, DirOK, AtPlaces, IpPlaces, DpPlaces, OldPlaces, Walks
  <2>5. Goto(p, "createold", m, what) /\ Get(old)
    BY <1>6, <1>9, <2>1
  <2>6. DiskOK' /\ KeepsDirs(p)
    BY <1>9, SameTypes, SameDisk DEF disk
  <2>7. ref' \in [Inum -> Int] /\ \A i \in Inum : ref'[i] = ref[i] + Is(old, i)
    BY <2>5, OneMore, Types
  <2>8. ASSUME NEW i \in Inum
        PROVE  ref'[i] + Holds(p, i) = ref[i] + Times(i, Locals("createold", m)) + Owed(i, what)
    <3>1. Times(i, Locals("createold", m)) = Is(old, i)
      BY <2>3, LocalTimes
    <3>2. ref[i] \in Nat /\ Is(old, i) \in Nat /\ Is(d, i) \in Nat
      BY Pieces, IsNat
    <3> QED
      BY <1>4, <1>7, <2>7, <3>1, <3>2
  <2> QED
    BY <1>4, <1>7, <1>8, <2>3, <2>4, <2>5, <2>6, <2>7, <2>8, MoveOn
<1>10. CASE Return(p, <<Put(d)>>) /\ UNCHANGED <<disk, ref, lock>>
  <2>1. Return(p, what)
    BY <1>6, <1>10
  <2>2. DiskOK' /\ KeepsDirs(p)
    BY <1>10, SameTypes, SameDisk DEF disk
  <2>3. ref' \in [Inum -> Int] /\ \A i \in Inum : ref'[i] = ref[i]
    BY <1>10, NoneMore, Types
  <2>4. \A i \in Inum : ref'[i] + Holds(p, i) = ref[i] + Owed(i, what)
    BY <1>4, <1>7, <2>3
  <2> QED
    BY <1>4, <1>7, <2>1, <2>2, <2>3, <2>4, GiveBack
<1>11. CASE /\ old = NoInum
            /\ \E i \in NewInum :
                 /\ type' = [type EXCEPT ![i] = IF l.call = "mkdir" THEN "dir" ELSE "file"]
                 /\ nlink' = [nlink EXCEPT ![i] = 1, ![d] = @ + IF l.call = "mkdir" THEN 1 ELSE 0]
                 /\ dotdot' = [dotdot EXCEPT ![i] = IF l.call = "mkdir" THEN d ELSE NoInum]
                 /\ dir' = DirLink(d, l.name, i)
                 /\ lock' = [lock EXCEPT ![i] = p]
                 /\ Goto(p, "created", [l EXCEPT !.ip = i], <<Put(d)>>)
                 /\ Get(i)
            /\ UNCHANGED gone
  <2>1. PICK x \in NewInum :
                 /\ type' = [type EXCEPT ![x] = IF l.call = "mkdir" THEN "dir" ELSE "file"]
                 /\ nlink' = [nlink EXCEPT ![x] = 1, ![d] = @ + IF l.call = "mkdir" THEN 1 ELSE 0]
                 /\ dotdot' = [dotdot EXCEPT ![x] = IF l.call = "mkdir" THEN d ELSE NoInum]
                 /\ dir' = DirLink(d, l.name, x)
                 /\ lock' = [lock EXCEPT ![x] = p]
                 /\ Goto(p, "created", [l EXCEPT !.ip = x], <<Put(d)>>)
                 /\ Get(x)
    BY <1>11
  <2>2. x \in Inum /\ type[x] = "free"
    BY DEF NewInum
  <2>3. PICK m : m = [l EXCEPT !.ip = x]
    OBVIOUS
  <2>4. m \in Local /\ m.ip = x /\ m.call = l.call
    BY <1>4, <2>2, <2>3 DEF Local, Pointer
  <2>5. PlaceOK("created", m, fd[p], what) /\ DirOK(type', "created", m)
    BY <1>4, <2>2, <2>4 DEF PlaceOK, DirOK, AtPlaces, IpPlaces, DpPlaces, OldPlaces, Walks
  <2>6. Goto(p, "created", m, what) /\ Get(x)
    BY <1>6, <2>1, <2>3
  <2>7. DiskOK'
    <3>1. dir' \in Entries
      <4>1. l.name \in Name \cup {"."} /\ x \in Pointer
        BY <1>3, <1>4, <1>11, <2>2, LookupNone DEF Pointer
      <4> QED
        BY <1>4, <2>1, <4>1, EntrySet DEF DirLink
    <3>2. lock' \in [Inum -> Proc \cup {NoProc}]
      BY <2>1, LockSet
    <3>3. /\ type' \in [Inum -> {"free", "file", "dir"}] /\ nlink' \in [Inum -> Int]
          /\ gone' \in [Inum -> Nat]
      <4>1. type' \in [Inum -> {"free", "file", "dir"}] /\ gone' \in [Inum -> Nat]
        BY <1>11, <2>1 DEF IInv, TypeOK
      <4>2. PICK more \in Int : more = IF l.call = "mkdir" THEN 1 ELSE 0
        OBVIOUS
      <4>3. nlink \in [Inum -> Int]
        BY DEF IInv, TypeOK
      <4>4. nlink' = [nlink EXCEPT ![x] = 1, ![d] = @ + more]
        BY <2>1, <4>2
      <4>5. nlink' \in [Inum -> Int]
        BY <1>4, <4>3, <4>4
      <4> QED
        BY <4>1, <4>5
    <3>4. dotdot' \in [Inum -> Inum \cup {NoInum}] /\ DotDotInv'
      <4>1. dotdot' \in [Inum -> Inum \cup {NoInum}]
        BY <1>4, <2>1 DEF IInv, TypeOK
      <4>2. ASSUME NEW k \in Inum, type'[k] = "dir" PROVE dotdot'[k] \in Inum
        <5>1. CASE k = x
          BY <2>1, <4>2, <5>1, <1>4 DEF IInv, TypeOK
        <5>2. CASE k # x
          BY <2>1, <4>2, <5>2 DEF IInv, TypeOK, DotDotInv
        <5> QED
          BY <5>1, <5>2
      <4> QED
        BY <4>1, <4>2 DEF DotDotInv
    <3> QED
      BY <3>1, <3>2, <3>3, <3>4 DEF DiskOK, Entries
  <2>8. KeepsDirs(p)
    BY <2>1, <2>2, MoreDirs DEF IInv, TypeOK
  <2>9. ref' \in [Inum -> Int] /\ \A i \in Inum : ref'[i] = ref[i] + Is(x, i)
    BY <2>6, OneMore, Types
  <2>10. ASSUME NEW i \in Inum
         PROVE  ref'[i] + Holds(p, i) = ref[i] + Times(i, Locals("created", m)) + Owed(i, what)
    <3>1. Times(i, Locals("created", m)) = Is(x, i)
      BY <2>4, LocalTimes
    <3>2. ref[i] \in Nat /\ Is(x, i) \in Nat /\ Is(d, i) \in Nat
      BY Pieces, IsNat
    <3> QED
      BY <1>4, <1>7, <2>9, <3>1, <3>2
  <2> QED
    BY <1>4, <1>7, <1>8, <2>4, <2>5, <2>6, <2>7, <2>8, <2>9, <2>10, MoveOn
<1> QED
  BY <1>5, <1>9, <1>10, <1>11

LEMMA LockOnly ==
    ASSUME IInv, NEW p \in Proc, NEW j, NEW q \in Proc \cup {NoProc},
           lock' = [lock EXCEPT ![j] = q], UNCHANGED disk
    PROVE  DiskOK' /\ KeepsDirs(p)
<1>1. lock' \in [Inum -> Proc \cup {NoProc}]
  BY LockSet
<1>2. /\ UNCHANGED <<type, dotdot, gone>> /\ type' = type
      /\ nlink' \in [Inum -> Int] /\ dir' \in Entries
  BY DEF disk, IInv, TypeOK, Entries
<1> QED
  BY <1>1, <1>2, DiskTyped, SameTypes

\* The pointer that the locals held becomes the open file.
LEMMA OpenStep ==
    ASSUME IInv, NEW p \in Proc, todo[p] = <<>>, pc[p] # "chdir2", fd[p] = NoInum,
           NEW f \in Inum, Return(p, <<>>), fd' = [fd EXCEPT ![p] = f], UNCHANGED <<cwd, ref>>,
           \A i \in Inum : Holds(p, i) = Is(f, i), DiskOK', KeepsDirs(p)
    PROVE  IInv'
<1>1. PICK c : c = cwd[p]
  OBVIOUS
<1>2. cwd' = [cwd EXCEPT ![p] = c] /\ c \in Inum /\ f \in Pointer
  BY <1>1, Types DEF IInv, TypeOK, Pointer
<1>3. ref' \in [Inum -> Int] /\ \A i \in Inum : ref'[i] = ref[i] /\ ref[i] \in Nat
  BY NoneMore, Types
<1>4. PICK what : what = <<>>
  OBVIOUS
<1>5. what \in Seq(Todo) /\ Return(p, what)
  BY <1>4
<1>6. ASSUME NEW i \in Inum
      PROVE  ref'[i] = ref[i] + Is(f, i) + Is(c, i) + Owed(i, what) - Now(p, i)
  <2>1. Owed(i, what) = 0 /\ Owed(i, todo[p]) = 0
    BY <1>4, TimesNone
  <2>2. Is(fd[p], i) = 0
    BY InodeAssumption DEF Is
  <2>3. Now(p, i) = Is(fd[p], i) + (IF pc[p] = "chdir2" THEN 0 ELSE Is(cwd[p], i))
                    + Holds(p, i) + Owed(i, todo[p])
    BY Pieces DEF Holds
  <2>4. Is(f, i) \in Nat /\ Is(c, i) \in Nat
    BY IsNat
  <2>5. Now(p, i) = 0 + Is(c, i) + Is(f, i) + 0
    BY <1>1, <2>1, <2>2, <2>3
  <2> QED
    BY <1>3, <2>1, <2>4, <2>5
<1> QED
  BY <1>2, <1>3, <1>5, <1>6, ReturnStep

LEMMA CreatedKeeps ==
    ASSUME IInv, NEW p \in Proc, Created(p)
    PROVE  IInv'
<1>1. PICK l : l = loc[p]
  OBVIOUS
<1>2. PICK x : x = l.ip
  OBVIOUS
<1>3. /\ At(p, "created")
      /\ lock' = [lock EXCEPT ![x] = NoProc]
      /\ \/ l.call = "creat" /\ fd' = [fd EXCEPT ![p] = x] /\ Return(p, <<>>)
         \/ Return(p, <<Put(x)>>) /\ UNCHANGED fd
      /\ UNCHANGED <<disk, ref, cwd>>
  BY <1>1, <1>2 DEF Created
<1>4. /\ PlaceOK("created", l, fd[p], <<>>) /\ pc[p] # "chdir2" /\ todo[p] = <<>>
      /\ \A i : Holds(p, i) = Times(i, Locals("created", l))
  BY <1>1, <1>3, Here
<1>5. x \in Inum /\ \A i : Holds(p, i) = Is(x, i)
  BY <1>2, <1>4, LocalTimes DEF PlaceOK, IpPlaces
<1>6. DiskOK' /\ KeepsDirs(p)
  BY <1>3, LockOnly
<1>7. CASE l.call = "creat" /\ fd' = [fd EXCEPT ![p] = x] /\ Return(p, <<>>)
  BY <1>4, <1>7, <1>3, <1>5, <1>6, OpenStep DEF PlaceOK
<1>8. CASE Return(p, <<Put(x)>>) /\ UNCHANGED fd
  <2>1. PICK what : what = <<Put(x)>>
    OBVIOUS
  <2>2. what \in Seq(Todo) /\ \A i \in Inum : Owed(i, what) = Is(x, i)
    BY <1>5, <2>1, Puts1
  <2>3. ref' \in [Inum -> Int] /\ \A i \in Inum : ref'[i] = ref[i]
    BY <1>3, NoneMore, Types
  <2>4. \A i \in Inum : ref'[i] + Holds(p, i) = ref[i] + Owed(i, what)
    BY <1>5, <2>2, <2>3
  <2> QED
    BY <1>3, <1>4, <1>6, <1>8, <2>1, <2>2, <2>3, <2>4, GiveBack
<1> QED
  BY <1>3, <1>7, <1>8

LEMMA OpenKeeps ==
    ASSUME IInv, NEW p \in Proc, Open(p)
    PROVE  IInv'
<1>1. PICK l : l = loc[p]
  OBVIOUS
<1>2. PICK x : x = l.at
  OBVIOUS
<1>3. PICK place \in {"createold", "open"} : At(p, place)
  BY DEF Open, Locks
<1>4. /\ PlaceOK(place, l, fd[p], <<>>) /\ pc[p] = place /\ pc[p] # "chdir2" /\ todo[p] = <<>>
      /\ \A i : Holds(p, i) = Times(i, Locals(place, l))
  BY <1>1, <1>3, Here
<1>5. x \in Inum /\ \A i : Holds(p, i) = Is(x, i)
  BY LocalTimes, <1>2, <1>4 DEF PlaceOK, AtPlaces
<1>6. DiskOK' /\ KeepsDirs(p) /\ UNCHANGED <<ref, cwd>>
  BY SameTypes, SameDisk DEF Open, disk
<1>7. \/ /\ place = "open" \/ l.call = "creat"
         /\ fd' = [fd EXCEPT ![p] = x] /\ Return(p, <<>>)
      \/ Return(p, <<Put(x)>>) /\ UNCHANGED fd
  BY <1>1, <1>2, <1>4 DEF Open
<1>8. CASE /\ place = "open" \/ l.call = "creat"
           /\ fd' = [fd EXCEPT ![p] = x] /\ Return(p, <<>>)
  BY <1>4, <1>8, <1>5, <1>6, OpenStep DEF PlaceOK
<1>9. CASE Return(p, <<Put(x)>>) /\ UNCHANGED fd
  <2>1. PICK what : what = <<Put(x)>>
    OBVIOUS
  <2>2. what \in Seq(Todo) /\ \A i \in Inum : Owed(i, what) = Is(x, i)
    BY <1>5, <2>1, Puts1
  <2>3. ref' \in [Inum -> Int] /\ \A i \in Inum : ref'[i] = ref[i]
    BY <1>6, NoneMore, Types
  <2>4. \A i \in Inum : ref'[i] + Holds(p, i) = ref[i] + Owed(i, what)
    BY <1>5, <2>2, <2>3
  <2> QED
    BY <1>4, <1>6, <1>9, <2>1, <2>2, <2>3, <2>4, GiveBack
<1> QED
  BY <1>7, <1>8, <1>9

LEMMA ChdirKeeps ==
    ASSUME IInv, NEW p \in Proc, Chdir(p)
    PROVE  IInv'
<1>1. PICK l : l = loc[p]
  OBVIOUS
<1>2. PICK x : x = l.at
  OBVIOUS
<1>3. /\ At(p, "chdir") /\ UNCHANGED <<disk, ref, lock, cwd, fd>>
      /\ \/ Goto(p, "chdir2", [l EXCEPT !.ip = x], <<Put(cwd[p])>>)
         \/ Return(p, <<Put(x)>>)
  BY <1>1, <1>2 DEF Chdir, Locks
<1>4. /\ l \in Local /\ PlaceOK("chdir", l, fd[p], <<>>) /\ pc[p] # "chdir2" /\ todo[p] = <<>>
      /\ \A i : Holds(p, i) = Times(i, Locals("chdir", l))
  BY <1>1, <1>3, Here
<1>5. x \in Inum /\ \A i : Holds(p, i) = Is(x, i)
  BY <1>2, <1>4, LocalTimes DEF PlaceOK, AtPlaces
<1>6. DiskOK' /\ KeepsDirs(p)
  BY <1>3, SameTypes, SameDisk DEF disk
<1>7. ref' \in [Inum -> Int] /\ \A i \in Inum : ref'[i] = ref[i] /\ ref[i] \in Nat
  BY <1>3, NoneMore, Types
<1>8. CASE Goto(p, "chdir2", [l EXCEPT !.ip = x], <<Put(cwd[p])>>)
  <2>1. PICK m : m = [l EXCEPT !.ip = x]
    OBVIOUS
  <2>2. m \in Local /\ m.ip = x /\ m.call = l.call
    BY <1>4, <1>5, <2>1 DEF Local, Pointer
  <2>3. PICK what : what = <<Put(cwd[p])>>
    OBVIOUS
  <2>4. what \in Seq(Todo) /\ \A i \in Inum : Owed(i, what) = Is(cwd[p], i)
    BY <2>3, Puts1, Types
  <2>5. PlaceOK("chdir2", m, fd[p], what) /\ DirOK(type', "chdir2", m)
    BY <1>4, <1>5, <2>2 DEF PlaceOK, DirOK, AtPlaces, IpPlaces, DpPlaces, OldPlaces, Walks
  <2>6. ASSUME NEW i \in Inum
        PROVE  ref'[i] = ref[i] + RefsAt(fd[p], cwd[p], "chdir2", m, what, i) - Now(p, i)
    <3>1. Times(i, Locals("chdir2", m)) = Is(x, i)
      BY <2>2, LocalTimes
    <3>2. Is(fd[p], i) \in Nat /\ Is(cwd[p], i) \in Nat /\ Is(x, i) \in Nat
      BY IsNat
    <3>3. RefsAt(fd[p], cwd[p], "chdir2", m, what, i) = Is(fd[p], i) + 0 + Is(x, i) + Is(cwd[p], i)
      BY <2>4, <3>1 DEF RefsAt
    <3>4. Owed(i, todo[p]) = 0
      BY <1>4, TimesNone
    <3>5. Now(p, i) = Is(fd[p], i) + (IF pc[p] = "chdir2" THEN 0 ELSE Is(cwd[p], i))
                      + Holds(p, i) + Owed(i, todo[p])
      BY Pieces DEF Holds
    <3>6. Now(p, i) = Is(fd[p], i) + Is(cwd[p], i) + Is(x, i) + 0
      BY <1>4, <1>5, <3>4, <3>5
    <3> QED
      BY <1>7, <3>2, <3>3, <3>6
  <2>7. "chdir2" \in Label /\ Goto(p, "chdir2", m, what) /\ UNCHANGED <<fd, cwd>>
    BY <1>3, <1>8, <2>1, <2>3 DEF Label
  <2> QED
    BY <1>6, <1>7, <2>2, <2>4, <2>5, <2>6, <2>7, GotoStep
<1>9. CASE Return(p, <<Put(x)>>)
  <2>1. PICK what : what = <<Put(x)>>
    OBVIOUS
  <2>2. what \in Seq(Todo) /\ \A i \in Inum : Owed(i, what) = Is(x, i)
    BY <1>5, <2>1, Puts1
  <2>3. \A i \in Inum : ref'[i] + Holds(p, i) = ref[i] + Owed(i, what)
    BY <1>5, <1>7, <2>2
  <2> QED
    BY <1>3, <1>4, <1>6, <1>7, <1>9, <2>1, <2>2, <2>3, GiveBack
<1> QED
  BY <1>3, <1>8, <1>9

LEMMA ChdirDoneKeeps ==
    ASSUME IInv, NEW p \in Proc, ChdirDone(p)
    PROVE  IInv'
<1>1. PICK l : l = loc[p]
  OBVIOUS
<1>2. PICK c : c = l.ip
  OBVIOUS
<1>3. PICK f : f = fd[p]
  OBVIOUS
<1>4. PICK what : what = <<>>
  OBVIOUS
<1>5. /\ At(p, "chdir2") /\ UNCHANGED <<disk, ref, lock, fd>>
      /\ cwd' = [cwd EXCEPT ![p] = c] /\ Return(p, what) /\ what \in Seq(Todo)
  BY <1>1, <1>2, <1>4 DEF ChdirDone
<1>6. /\ PlaceOK("chdir2", l, fd[p], <<>>) /\ pc[p] = "chdir2" /\ todo[p] = <<>>
      /\ \A i : Holds(p, i) = Times(i, Locals("chdir2", l))
  BY <1>1, <1>5, Here
<1>7. c \in Inum /\ \A i : Holds(p, i) = Is(c, i)
  BY <1>2, <1>6, LocalTimes DEF PlaceOK, IpPlaces
<1>8. fd' = [fd EXCEPT ![p] = f] /\ f \in Pointer
  BY <1>3, <1>5, Types DEF IInv, TypeOK
<1>9. DiskOK' /\ KeepsDirs(p)
  BY <1>5, SameTypes, SameDisk DEF disk
<1>10. ref' \in [Inum -> Int] /\ \A i \in Inum : ref'[i] = ref[i] /\ ref[i] \in Nat
  BY <1>5, NoneMore, Types
<1>11. ASSUME NEW i \in Inum
       PROVE  ref'[i] = ref[i] + Is(f, i) + Is(c, i) + Owed(i, what) - Now(p, i)
  <2>1. Owed(i, what) = 0 /\ Owed(i, todo[p]) = 0
    BY <1>4, <1>6, TimesNone
  <2>2. Now(p, i) = Is(fd[p], i) + (IF pc[p] = "chdir2" THEN 0 ELSE Is(cwd[p], i))
                    + Holds(p, i) + Owed(i, todo[p])
    BY Pieces DEF Holds
  <2>3. Now(p, i) = Is(f, i) + 0 + Is(c, i) + 0
    BY <1>3, <1>6, <1>7, <2>1, <2>2
  <2>4. Is(f, i) \in Nat /\ Is(c, i) \in Nat
    BY IsNat
  <2> QED
    BY <1>10, <2>1, <2>3, <2>4
<1> QED
  BY <1>5, <1>7, <1>8, <1>9, <1>10, <1>11, ReturnStep

LEMMA LinkOldKeeps ==
    ASSUME IInv, NEW p \in Proc, LinkOld(p)
    PROVE  IInv'
<1>1. PICK l : l = loc[p]
  OBVIOUS
<1>2. PICK x : x = l.at
  OBVIOUS
<1>3. PICK start : start = Start(p, l.path2)
  OBVIOUS
<1>4. /\ At(p, "link1") /\ UNCHANGED <<type, dir, dotdot, gone, lock, cwd, fd>>
      /\ \/ Return(p, <<Put(x)>>) /\ UNCHANGED <<nlink, ref>>
         \/ /\ nlink' = [nlink EXCEPT ![x] = @ + 1]
            /\ Goto(p, "walk", [l EXCEPT !.ip = x, !.at = start, !.path = l.path2.elems,
                                         !.path2 = NoPath, !.then = "link2"], <<>>)
            /\ Get(start)
  BY <1>1, <1>2, <1>3 DEF LinkOld, Locks
<1>5. /\ l \in Local /\ PlaceOK("link1", l, fd[p], <<>>) /\ pc[p] # "chdir2" /\ todo[p] = <<>>
      /\ \A i : Holds(p, i) = Times(i, Locals("link1", l))
  BY <1>1, <1>4, Here
<1>6. /\ x \in Inum /\ start \in Inum /\ \A i : Holds(p, i) = Is(x, i)
      /\ l.path2.elems \in Seq(Name \cup {".", ".."}) /\ l.path2.elems # <<>>
  BY <1>5, <1>2, <1>3, LocalTimes, StartIn, InodeAssumption DEF PlaceOK, AtPlaces
<1>7. KeepsDirs(p) /\ UNCHANGED <<fd, cwd>>
  BY <1>4, SameTypes
<1>8. DiskOK'
  <2>1. nlink' \in [Inum -> Int]
    BY <1>4 DEF IInv, TypeOK
  <2>2. dir' \in Entries /\ lock' \in [Inum -> Proc \cup {NoProc}]
    BY <1>4 DEF IInv, TypeOK, Entries
  <2> QED
    BY <1>4, <2>1, <2>2, DiskTyped
<1>9. CASE Return(p, <<Put(x)>>) /\ UNCHANGED <<nlink, ref>>
  <2>1. PICK what : what = <<Put(x)>>
    OBVIOUS
  <2>2. what \in Seq(Todo) /\ \A i \in Inum : Owed(i, what) = Is(x, i)
    BY <1>6, <2>1, Puts1
  <2>3. ref' \in [Inum -> Int] /\ \A i \in Inum : ref'[i] = ref[i]
    BY <1>9, NoneMore, Types
  <2>4. \A i \in Inum : ref'[i] + Holds(p, i) = ref[i] + Owed(i, what)
    BY <1>6, <2>2, <2>3
  <2> QED
    BY <1>5, <1>7, <1>8, <1>9, <2>1, <2>2, <2>3, <2>4, GiveBack
<1>10. CASE /\ Goto(p, "walk", [l EXCEPT !.ip = x, !.at = start, !.path = l.path2.elems,
                                         !.path2 = NoPath, !.then = "link2"], <<>>)
            /\ Get(start)
  <2>1. PICK m : m = [l EXCEPT !.ip = x, !.at = start, !.path = l.path2.elems,
                               !.path2 = NoPath, !.then = "link2"]
    OBVIOUS
  <2>2. /\ m \in Local /\ m.ip = x /\ m.at = start /\ m.then = "link2" /\ m.call = l.call
        /\ m.path # <<>>
    BY <1>5, <1>6, <2>1 DEF Local, Pointer, Label
  <2>3. PlaceOK("walk", m, fd[p], <<>>) /\ DirOK(type', "walk", m)
    BY <1>5, <1>6, <2>2 DEF PlaceOK, DirOK, AtPlaces, IpPlaces, DpPlaces, OldPlaces, Walks, Lookups
  <2>4. Goto(p, "walk", m, <<>>) /\ <<>> \in Seq(Todo) /\ "walk" \in Label \ {"chdir2"}
    BY <1>10, <2>1 DEF Label
  <2>5. ref' \in [Inum -> Int] /\ \A i \in Inum : ref'[i] = ref[i] + Is(start, i)
    BY <1>10, OneMore, Types
  <2>6. ASSUME NEW i \in Inum
        PROVE  ref'[i] + Holds(p, i) = ref[i] + Times(i, Locals("walk", m)) + Owed(i, <<>>)
    <3>1. Times(i, Locals("walk", m)) = Is(start, i) + Is(x, i)
      BY <2>2, LocalTimes
    <3>2. ref[i] \in Nat /\ Is(start, i) \in Nat /\ Is(x, i) \in Nat /\ Owed(i, <<>>) = 0
      BY Pieces, IsNat, TimesNone
    <3> QED
      BY <1>6, <2>5, <3>1, <3>2
  <2> QED
    BY <1>5, <1>7, <1>8, <2>2, <2>3, <2>4, <2>5, <2>6, MoveOn
<1> QED
  BY <1>4, <1>9, <1>10

LEMMA LinkNewKeeps ==
    ASSUME IInv, NEW p \in Proc, LinkNew(p)
    PROVE  IInv'
<1>1. PICK l : l = loc[p]
  OBVIOUS
<1>2. PICK d : d = l.at
  OBVIOUS
<1>3. PICK old : old = Lookup(d, l.name)
  OBVIOUS
<1>4. PICK m : m = [l EXCEPT !.at = l.ip]
  OBVIOUS
<1>5. /\ At(p, "link2") /\ UNCHANGED <<type, nlink, dotdot, gone, cwd, fd>>
      /\ \/ /\ Goto(p, "linkbad", m, <<Put(d)>>)
            /\ UNCHANGED <<dir, ref, lock>>
         \/ /\ old # NoInum
            /\ Goto(p, "linkbad", m, <<Put(old), Unlock(d), Put(d)>>)
            /\ lock' = [lock EXCEPT ![d] = p] /\ Get(old)
            /\ UNCHANGED dir
         \/ /\ old = NoInum
            /\ dir' = DirLink(d, l.name, l.ip)
            /\ Return(p, <<Put(d), Put(l.ip)>>)
            /\ UNCHANGED <<ref, lock>>
  BY <1>1, <1>2, <1>3, <1>4 DEF LinkNew, Locks
<1>6. /\ l \in Local /\ PlaceOK("link2", l, fd[p], <<>>) /\ DirOK(type, "link2", l)
      /\ pc[p] # "chdir2" /\ todo[p] = <<>>
      /\ \A i : Holds(p, i) = Times(i, Locals("link2", l))
  BY <1>1, <1>5, Here
<1>7. /\ d \in Inum /\ l.ip \in Inum /\ type[d] = "dir" /\ old \in Pointer
      /\ \A i : Holds(p, i) = Is(d, i) + Is(l.ip, i)
      /\ l.name \in Name \cup {".", ".."}
  BY <1>2, <1>6, <1>3, LocalTimes, LookupType DEF PlaceOK, DirOK, AtPlaces, IpPlaces, Local
<1>8. KeepsDirs(p) /\ UNCHANGED <<fd, cwd>>
  BY <1>5, SameTypes
<1>9. DiskOK'
  <2>1. dir' \in Entries
    <3>1. CASE UNCHANGED dir
      BY <3>1 DEF IInv, TypeOK, Entries
    <3>2. CASE old = NoInum /\ dir' = DirLink(d, l.name, l.ip)
      BY <1>3, <1>7, <3>2, LookupNone, EntrySet DEF Pointer, DirLink
    <3> QED
      BY <1>5, <3>1, <3>2
  <2>2. lock' \in [Inum -> Proc \cup {NoProc}]
    BY LockSet, <1>5 DEF IInv, TypeOK
  <2>3. nlink' \in [Inum -> Int]
    BY <1>5 DEF IInv, TypeOK
  <2> QED
    BY <1>5, <2>1, <2>2, <2>3, DiskTyped
<1>10. /\ m \in Local /\ m.at = l.ip /\ m.call = l.call
       /\ "linkbad" \in Label \ {"chdir2"}
  BY <1>4, <1>6, <1>7 DEF Local, Pointer, Label
<1>11. ASSUME NEW what
       PROVE  PlaceOK("linkbad", m, fd[p], what) /\ DirOK(type', "linkbad", m)
  BY <1>6, <1>7, <1>10 DEF PlaceOK, DirOK, AtPlaces, IpPlaces, DpPlaces, OldPlaces, Walks
<1>12. CASE /\ Goto(p, "linkbad", m, <<Put(d)>>)
            /\ UNCHANGED <<dir, ref, lock>>
  <2>1. PICK what : what = <<Put(d)>>
    OBVIOUS
  <2>2. what \in Seq(Todo) /\ \A i \in Inum : Owed(i, what) = Is(d, i)
    BY <1>7, <2>1, Puts1
  <2>3. ref' \in [Inum -> Int] /\ \A i \in Inum : ref'[i] = ref[i]
    BY <1>12, NoneMore, Types
  <2>4. ASSUME NEW i \in Inum
        PROVE  ref'[i] + Holds(p, i) = ref[i] + Times(i, Locals("linkbad", m)) + Owed(i, what)
    <3>1. Times(i, Locals("linkbad", m)) = Is(l.ip, i)
      BY <1>10, LocalTimes
    <3>2. ref[i] \in Nat /\ Is(d, i) \in Nat /\ Is(l.ip, i) \in Nat
      BY Pieces, IsNat
    <3> QED
      BY <1>7, <2>2, <2>3, <3>1, <3>2
  <2>5. Goto(p, "linkbad", m, what) /\ PlaceOK("linkbad", m, fd[p], what) /\ DirOK(type', "linkbad", m)
    BY <1>11, <1>12, <2>1
  <2> QED
    BY <1>6, <1>8, <1>9, <1>10, <2>2, <2>3, <2>4, <2>5, MoveOn
<1>13. CASE /\ old # NoInum
            /\ Goto(p, "linkbad", m, <<Put(old), Unlock(d), Put(d)>>)
            /\ Get(old)
  <2>1. PICK what : what = <<Put(old), Unlock(d), Put(d)>>
    OBVIOUS
  <2>2. old \in Inum
    BY <1>7, <1>13 DEF Pointer
  <2>3. what \in Seq(Todo) /\ \A i \in Inum : Owed(i, what) = Is(old, i) + Is(d, i)
    BY <1>7, <2>1, <2>2, PutsUnlock1
  <2>4. ref' \in [Inum -> Int] /\ \A i \in Inum : ref'[i] = ref[i] + Is(old, i)
    BY <1>13, OneMore, Types
  <2>5. ASSUME NEW i \in Inum
        PROVE  ref'[i] + Holds(p, i) = ref[i] + Times(i, Locals("linkbad", m)) + Owed(i, what)
    <3>1. Times(i, Locals("linkbad", m)) = Is(l.ip, i)
      BY <1>10, LocalTimes
    <3>2. ref[i] \in Nat /\ Is(d, i) \in Nat /\ Is(l.ip, i) \in Nat /\ Is(old, i) \in Nat
      BY Pieces, IsNat
    <3> QED
      BY <1>7, <2>3, <2>4, <3>1, <3>2
  <2>6. Goto(p, "linkbad", m, what) /\ PlaceOK("linkbad", m, fd[p], what) /\ DirOK(type', "linkbad", m)
    BY <1>11, <1>13, <2>1
  <2> QED
    BY <1>6, <1>8, <1>9, <1>10, <2>3, <2>4, <2>5, <2>6, MoveOn
<1>14. CASE Return(p, <<Put(d), Put(l.ip)>>) /\ UNCHANGED <<ref, lock>>
  <2>1. PICK what : what = <<Put(d), Put(l.ip)>>
    OBVIOUS
  <2>2. what \in Seq(Todo) /\ \A i \in Inum : Owed(i, what) = Is(d, i) + Is(l.ip, i)
    BY <1>7, <2>1, Puts2
  <2>3. ref' \in [Inum -> Int] /\ \A i \in Inum : ref'[i] = ref[i]
    BY <1>14, NoneMore, Types
  <2>4. \A i \in Inum : ref'[i] + Holds(p, i) = ref[i] + Owed(i, what)
    BY <1>7, <2>2, <2>3
  <2> QED
    BY <1>6, <1>8, <1>9, <1>14, <2>1, <2>2, <2>3, <2>4, GiveBack
<1> QED
  BY <1>5, <1>12, <1>13, <1>14

LEMMA LinkBadKeeps ==
    ASSUME IInv, NEW p \in Proc, LinkBad(p)
    PROVE  IInv'
<1>1. PICK l : l = loc[p]
  OBVIOUS
<1>2. PICK x : x = l.at
  OBVIOUS
<1>3. PICK what : what = <<Put(x)>>
  OBVIOUS
<1>4. /\ At(p, "linkbad") /\ Return(p, what)
      /\ nlink' = [nlink EXCEPT ![x] = @ - 1]
      /\ UNCHANGED <<type, dir, dotdot, gone, ref, lock, cwd, fd>>
  BY <1>1, <1>2, <1>3 DEF LinkBad, Locks
<1>5. /\ PlaceOK("linkbad", l, fd[p], <<>>) /\ pc[p] # "chdir2" /\ todo[p] = <<>>
      /\ \A i : Holds(p, i) = Times(i, Locals("linkbad", l))
  BY <1>1, <1>4, Here
<1>6. x \in Inum /\ \A i : Holds(p, i) = Is(x, i)
  BY <1>2, <1>5, LocalTimes DEF PlaceOK, AtPlaces
<1>7. what \in Seq(Todo) /\ \A i \in Inum : Owed(i, what) = Is(x, i)
  BY <1>3, <1>6, Puts1
<1>8. ref' \in [Inum -> Int] /\ \A i \in Inum : ref'[i] = ref[i]
  BY <1>4, NoneMore, Types
<1>9. KeepsDirs(p) /\ UNCHANGED <<fd, cwd>>
  BY <1>4, SameTypes
<1>10. DiskOK'
  <2>1. nlink' \in [Inum -> Int]
    BY <1>6, <1>4 DEF IInv, TypeOK
  <2>2. dir' \in Entries /\ lock' \in [Inum -> Proc \cup {NoProc}]
    BY <1>4 DEF IInv, TypeOK, Entries
  <2> QED
    BY <1>4, <2>1, <2>2, DiskTyped
<1>11. \A i \in Inum : ref'[i] + Holds(p, i) = ref[i] + Owed(i, what)
  BY <1>6, <1>7, <1>8
<1> QED
  BY <1>4, <1>5, <1>7, <1>8, <1>9, <1>10, <1>11, GiveBack

LEMMA UnlinkKeeps ==
    ASSUME IInv, NEW p \in Proc, Unlink(p)
    PROVE  IInv'
<1>1. PICK l : l = loc[p]
  OBVIOUS
<1>2. PICK d : d = l.at
  OBVIOUS
<1>3. PICK x : x = Lookup(d, l.name)
  OBVIOUS
<1>4. PICK m : m = [l EXCEPT !.dp = d, !.at = x, !.slot = SlotOf(d, l.name)]
  OBVIOUS
<1>5. /\ At(p, "unlink") /\ UNCHANGED <<disk, cwd, fd>>
      /\ \/ Return(p, <<Put(d)>>) /\ UNCHANGED <<ref, lock>>
         \/ /\ l.name \notin {".", ".."} /\ x # NoInum
            /\ lock' = [lock EXCEPT ![d] = p] /\ Get(x)
            /\ Goto(p, "unlink2", m, <<>>)
  BY <1>1, <1>2, <1>3, <1>4 DEF Unlink, Locks
<1>6. /\ l \in Local /\ PlaceOK("unlink", l, fd[p], <<>>)
      /\ pc[p] # "chdir2" /\ todo[p] = <<>>
      /\ \A i : Holds(p, i) = Times(i, Locals("unlink", l))
  BY <1>1, <1>5, Here
<1>7. d \in Inum /\ x \in Pointer /\ \A i : Holds(p, i) = Is(d, i)
  BY <1>2, <1>6, <1>3, LocalTimes, LookupType DEF PlaceOK, AtPlaces
<1>8. CASE Return(p, <<Put(d)>>) /\ UNCHANGED <<ref, lock>>
  <2>1. PICK what : what = <<Put(d)>>
    OBVIOUS
  <2>2. what \in Seq(Todo) /\ \A i \in Inum : Owed(i, what) = Is(d, i)
    BY <1>7, <2>1, Puts1
  <2>3. ref' \in [Inum -> Int] /\ \A i \in Inum : ref'[i] = ref[i]
    BY <1>8, NoneMore, Types
  <2>4. \A i \in Inum : ref'[i] + Holds(p, i) = ref[i] + Owed(i, what)
    BY <1>7, <2>2, <2>3
  <2>5. DiskOK' /\ KeepsDirs(p)
    BY <1>5, <1>8, SameTypes, SameDisk DEF disk
  <2> QED
    BY <1>5, <1>6, <1>8, <2>1, <2>2, <2>3, <2>4, <2>5, GiveBack
<1>9. CASE /\ l.name \notin {".", ".."} /\ x # NoInum
           /\ lock' = [lock EXCEPT ![d] = p] /\ Get(x)
           /\ Goto(p, "unlink2", m, <<>>)
  <2>1. x \in Inum /\ SlotOf(d, l.name) \in Slot
    BY <1>3, <1>7, <1>9, SlotType DEF Pointer
  <2>2. m \in Local /\ m.at = x /\ m.dp = d /\ m.call = l.call
    BY <1>4, <1>6, <1>7, <2>1 DEF Local, Pointer
  <2>3. PlaceOK("unlink2", m, fd[p], <<>>) /\ DirOK(type', "unlink2", m)
    BY <1>6, <1>7, <2>1, <2>2 DEF PlaceOK, DirOK, AtPlaces, IpPlaces, DpPlaces, OldPlaces, Walks
  <2>4. DiskOK' /\ KeepsDirs(p)
    BY <1>5, <1>9, LockOnly
  <2>5. ref' \in [Inum -> Int] /\ \A i \in Inum : ref'[i] = ref[i] + Is(x, i)
    BY <1>9, OneMore, Types
  <2>6. ASSUME NEW i \in Inum
        PROVE  ref'[i] + Holds(p, i) = ref[i] + Times(i, Locals("unlink2", m)) + Owed(i, <<>>)
    <3>1. Times(i, Locals("unlink2", m)) = Is(d, i) + Is(x, i)
      BY <2>2, LocalTimes
    <3>2. ref[i] \in Nat /\ Is(d, i) \in Nat /\ Is(x, i) \in Nat /\ Owed(i, <<>>) = 0
      BY Pieces, IsNat, TimesNone
    <3> QED
      BY <1>7, <2>5, <3>1, <3>2
  <2>7. <<>> \in Seq(Todo) /\ "unlink2" \in Label \ {"chdir2"}
    BY DEF Label
  <2> QED
    BY <1>5, <1>6, <1>9, <2>2, <2>3, <2>4, <2>5, <2>6, <2>7, MoveOn
<1> QED
  BY <1>5, <1>8, <1>9

LEMMA UnlinkEntryKeeps ==
    ASSUME IInv, NEW p \in Proc, UnlinkEntry(p)
    PROVE  IInv'
<1>1. PICK l : l = loc[p]
  OBVIOUS
<1>2. PICK d : d = l.dp
  OBVIOUS
<1>3. PICK x : x = l.at
  OBVIOUS
<1>4. PICK m : m = [l EXCEPT !.ip = x]
  OBVIOUS
<1>5. PICK less \in Int : less = IF type[x] = "dir" THEN 1 ELSE 0
  OBVIOUS
<1>6. /\ At(p, "unlink2") /\ UNCHANGED <<type, dotdot, gone, ref, cwd, fd>>
      /\ \/ Return(p, <<Put(x), Unlock(d), Put(d)>>) /\ UNCHANGED <<dir, nlink, lock>>
         \/ /\ dir' = [dir EXCEPT ![d][l.slot] = Empty]
            /\ nlink' = [nlink EXCEPT ![d] = @ - less]
            /\ lock' = [lock EXCEPT ![d] = NoProc, ![x] = p]
            /\ Goto(p, "unlink3", m, <<Put(d)>>)
  BY <1>1, <1>2, <1>3, <1>4, <1>5 DEF UnlinkEntry, Locks
<1>7. /\ l \in Local /\ PlaceOK("unlink2", l, fd[p], <<>>)
      /\ pc[p] # "chdir2" /\ todo[p] = <<>>
      /\ \A i : Holds(p, i) = Times(i, Locals("unlink2", l))
  BY <1>1, <1>6, Here
<1>8. d \in Inum /\ x \in Inum /\ \A i : Holds(p, i) = Is(d, i) + Is(x, i)
  BY <1>2, <1>3, <1>7, LocalTimes DEF PlaceOK, AtPlaces, DpPlaces
<1>9. KeepsDirs(p) /\ UNCHANGED <<fd, cwd>>
  BY <1>6, SameTypes
<1>10. ref' \in [Inum -> Int] /\ \A i \in Inum : ref'[i] = ref[i]
  BY <1>6, NoneMore, Types
<1>11. dir \in Entries /\ nlink \in [Inum -> Int] /\ lock \in [Inum -> Proc \cup {NoProc}]
  BY DEF IInv, TypeOK, Entries
<1>12. CASE Return(p, <<Put(x), Unlock(d), Put(d)>>) /\ UNCHANGED <<dir, nlink, lock>>
  <2>1. PICK what : what = <<Put(x), Unlock(d), Put(d)>>
    OBVIOUS
  <2>2. what \in Seq(Todo) /\ \A i \in Inum : Owed(i, what) = Is(x, i) + Is(d, i)
    BY <1>8, <2>1, PutsUnlock1
  <2>3. \A i \in Inum : ref'[i] + Holds(p, i) = ref[i] + Owed(i, what)
    BY IsNat, <1>8, <1>10, <2>2
  <2>4. DiskOK'
    BY <1>6, <1>11, <1>12, DiskTyped
  <2> QED
    BY <1>7, <1>9, <1>10, <1>12, <2>1, <2>2, <2>3, <2>4, GiveBack
<1>13. CASE /\ dir' = [dir EXCEPT ![d][l.slot] = Empty]
            /\ nlink' = [nlink EXCEPT ![d] = @ - less]
            /\ lock' = [lock EXCEPT ![d] = NoProc, ![x] = p]
            /\ Goto(p, "unlink3", m, <<Put(d)>>)
  <2>1. PICK what : what = <<Put(d)>>
    OBVIOUS
  <2>2. what \in Seq(Todo) /\ \A i \in Inum : Owed(i, what) = Is(d, i)
    BY <1>8, <2>1, Puts1
  <2>3. m \in Local /\ m.ip = x /\ m.call = l.call
    BY <1>4, <1>7, <1>8 DEF Local, Pointer
  <2>4. PlaceOK("unlink3", m, fd[p], what) /\ DirOK(type', "unlink3", m)
    BY <1>7, <1>8, <2>3 DEF PlaceOK, DirOK, AtPlaces, IpPlaces, DpPlaces, OldPlaces, Walks
  <2>5. DiskOK'
    <3>1. dir' \in Entries
      BY <1>8, <1>13, ClearSet
    <3>2. nlink' \in [Inum -> Int]
      BY <1>8, <1>11, <1>13
    <3>3. lock' \in [Inum -> Proc \cup {NoProc}]
      BY <1>11, <1>13
    <3> QED
      BY <1>6, <3>1, <3>2, <3>3, DiskTyped
  <2>6. ASSUME NEW i \in Inum
        PROVE  ref'[i] + Holds(p, i) = ref[i] + Times(i, Locals("unlink3", m)) + Owed(i, what)
    <3>1. Times(i, Locals("unlink3", m)) = Is(x, i)
      BY <2>3, LocalTimes
    <3>2. ref[i] \in Nat /\ Is(d, i) \in Nat /\ Is(x, i) \in Nat
      BY Pieces, IsNat
    <3> QED
      BY <1>8, <1>10, <2>2, <3>1, <3>2
  <2>7. Goto(p, "unlink3", m, what) /\ "unlink3" \in Label \ {"chdir2"}
    BY <1>13, <2>1 DEF Label
  <2> QED
    BY <1>7, <1>9, <1>10, <2>2, <2>3, <2>4, <2>5, <2>6, <2>7, MoveOn
<1> QED
  BY <1>6, <1>12, <1>13

LEMMA UnlinkInodeKeeps ==
    ASSUME IInv, NEW p \in Proc, UnlinkInode(p)
    PROVE  IInv'
<1>1. PICK l : l = loc[p]
  OBVIOUS
<1>2. PICK x : x = l.ip
  OBVIOUS
<1>3. PICK what : what = <<Put(x)>>
  OBVIOUS
<1>4. /\ At(p, "unlink3") /\ Return(p, what)
      /\ nlink' = [nlink EXCEPT ![x] = @ - 1] /\ lock' = [lock EXCEPT ![x] = NoProc]
      /\ UNCHANGED <<type, dir, dotdot, gone, ref, cwd, fd>>
  BY <1>1, <1>2, <1>3 DEF UnlinkInode
<1>5. /\ PlaceOK("unlink3", l, fd[p], <<>>) /\ pc[p] # "chdir2" /\ todo[p] = <<>>
      /\ \A i : Holds(p, i) = Times(i, Locals("unlink3", l))
  BY <1>1, <1>4, Here
<1>6. x \in Inum /\ \A i : Holds(p, i) = Is(x, i)
  BY <1>2, <1>5, LocalTimes DEF PlaceOK, IpPlaces
<1>7. what \in Seq(Todo) /\ \A i \in Inum : Owed(i, what) = Is(x, i)
  BY <1>3, <1>6, Puts1
<1>8. ref' \in [Inum -> Int] /\ \A i \in Inum : ref'[i] = ref[i]
  BY <1>4, NoneMore, Types
<1>9. KeepsDirs(p) /\ UNCHANGED <<fd, cwd>>
  BY <1>4, SameTypes
<1>10. DiskOK'
  <2>1. nlink' \in [Inum -> Int]
    BY <1>6, <1>4 DEF IInv, TypeOK
  <2>2. dir' \in Entries /\ lock' \in [Inum -> Proc \cup {NoProc}]
    BY <1>4, LockSet DEF IInv, TypeOK, Entries
  <2> QED
    BY <1>4, <2>1, <2>2, DiskTyped
<1>11. \A i \in Inum : ref'[i] + Holds(p, i) = ref[i] + Owed(i, what)
  BY <1>6, <1>7, <1>8
<1> QED
  BY <1>4, <1>5, <1>7, <1>8, <1>9, <1>10, <1>11, GiveBack

LEMMA RenameOldKeeps ==
    ASSUME IInv, NEW p \in Proc, RenameOld(p)
    PROVE  IInv'
<1>1. PICK l : l = loc[p]
  OBVIOUS
<1>2. PICK d : d = l.at
  OBVIOUS
<1>3. PICK x : x = Lookup(d, l.name)
  OBVIOUS
<1>4. PICK start : start = Start(p, l.path2)
  OBVIOUS
<1>5. PICK m : m = [l EXCEPT !.olddp = d, !.ip = x, !.slot = SlotOf(d, l.name), !.at = start,
                             !.path = l.path2.elems, !.path2 = NoPath, !.then = "ren2"]
  OBVIOUS
<1>6. /\ At(p, "ren1") /\ UNCHANGED <<disk, lock, cwd, fd>>
      /\ \/ Return(p, <<Put(d)>>) /\ UNCHANGED ref
         \/ /\ l.name \notin {".", ".."} /\ x # NoInum
            /\ ref' = [j \in Inum |-> ref[j] + (IF j = x THEN 1 ELSE 0) + (IF j = start THEN 1 ELSE 0)]
            /\ Goto(p, "walk", m, <<>>)
  BY <1>1, <1>2, <1>3, <1>4, <1>5 DEF RenameOld, Locks
<1>7. /\ l \in Local /\ PlaceOK("ren1", l, fd[p], <<>>) /\ DirOK(type, "ren1", l)
      /\ pc[p] # "chdir2" /\ todo[p] = <<>>
      /\ \A i : Holds(p, i) = Times(i, Locals("ren1", l))
  BY <1>1, <1>6, Here
<1>8. /\ d \in Inum /\ type[d] = "dir" /\ x \in Pointer /\ start \in Inum
      /\ \A i : Holds(p, i) = Is(d, i)
      /\ l.path2.elems \in Seq(Name \cup {".", ".."}) /\ l.path2.elems # <<>>
  <2>1. d \in Inum /\ type[d] = "dir" /\ l.path2 \in Path
    BY <1>2, <1>7 DEF PlaceOK, DirOK, AtPlaces
  <2>2. l.path2.elems \in Seq(Name \cup {".", ".."}) /\ l.path2.elems # <<>>
    BY <2>1, InodeAssumption
  <2> QED
    BY <1>2, <1>3, <1>4, <1>7, <2>1, <2>2, LocalTimes, LookupType, StartIn
<1>9. DiskOK' /\ KeepsDirs(p) /\ UNCHANGED <<fd, cwd, type>>
  BY <1>6, SameTypes, SameDisk DEF disk
<1>10. CASE Return(p, <<Put(d)>>) /\ UNCHANGED ref
  <2>1. PICK what : what = <<Put(d)>>
    OBVIOUS
  <2>2. what \in Seq(Todo) /\ \A i \in Inum : Owed(i, what) = Is(d, i)
    BY <1>8, <2>1, Puts1
  <2>3. ref' \in [Inum -> Int] /\ \A i \in Inum : ref'[i] = ref[i]
    BY <1>10, NoneMore, Types
  <2>4. \A i \in Inum : ref'[i] + Holds(p, i) = ref[i] + Owed(i, what)
    BY <1>8, <2>2, <2>3
  <2> QED
    BY <1>7, <1>9, <1>10, <2>1, <2>2, <2>3, <2>4, GiveBack
<1>11. CASE /\ l.name \notin {".", ".."} /\ x # NoInum
            /\ ref' = [j \in Inum |-> ref[j] + (IF j = x THEN 1 ELSE 0) + (IF j = start THEN 1 ELSE 0)]
            /\ Goto(p, "walk", m, <<>>)
  <2>1. x \in Inum /\ SlotOf(d, l.name) \in Slot
    BY <1>3, <1>8, <1>11, SlotType DEF Pointer
  <2>2. /\ m \in Local /\ m.at = start /\ m.olddp = d /\ m.ip = x /\ m.then = "ren2"
        /\ m.call = l.call /\ m.path # <<>>
    BY <1>5, <1>7, <1>8, <2>1 DEF Local, Pointer, Label
  <2>3. PlaceOK("walk", m, fd[p], <<>>) /\ DirOK(type', "walk", m)
    BY <1>7, <1>8, <1>9, <2>1, <2>2
       DEF PlaceOK, DirOK, AtPlaces, IpPlaces, DpPlaces, OldPlaces, Walks, Lookups
  <2>4. \A i \in Inum : ref'[i] = ref[i] + Is(x, i) + Is(start, i) /\ ref[i] \in Nat
    BY <1>11, Pieces DEF Is
  <2>5. ref' \in [Inum -> Int]
    <3>1. \A i \in Inum : ref'[i] \in Int
      <4>1. ASSUME NEW i \in Inum PROVE ref'[i] \in Int
        BY Pieces, IsNat, <2>4
      <4> QED
        BY <4>1
    <3> QED
      BY <1>11, <3>1
  <2>6. ASSUME NEW i \in Inum
        PROVE  ref'[i] + Holds(p, i) = ref[i] + Times(i, Locals("walk", m)) + Owed(i, <<>>)
    <3>1. Times(i, Locals("walk", m)) = Is(start, i) + Is(d, i) + Is(x, i)
      BY <2>2, LocalTimes
    <3>2. /\ ref[i] \in Nat /\ Is(d, i) \in Nat /\ Is(x, i) \in Nat /\ Is(start, i) \in Nat
          /\ Owed(i, <<>>) = 0
      BY Pieces, IsNat, TimesNone
    <3> QED
      BY <1>8, <2>4, <3>1, <3>2
  <2>7. <<>> \in Seq(Todo) /\ "walk" \in Label \ {"chdir2"}
    BY DEF Label
  <2> QED
    BY <1>7, <1>9, <1>11, <2>2, <2>3, <2>5, <2>6, <2>7, MoveOn
<1> QED
  BY <1>6, <1>10, <1>11

LEMMA RenameTypeKeeps ==
    ASSUME IInv, NEW p \in Proc, RenameType(p)
    PROVE  IInv'
<1>1. PICK l : l = loc[p]
  OBVIOUS
<1>2. PICK m : m = [l EXCEPT !.dp = l.at]
  OBVIOUS
<1>3. /\ l \in Local /\ PlaceOK("ren2", l, fd[p], <<>>) /\ DirOK(type, "ren2", l)
      /\ pc[p] # "chdir2" /\ todo[p] = <<>>
      /\ \A i : Holds(p, i) = Times(i, Locals("ren2", l))
  BY <1>1, Here DEF RenameType
<1>4. /\ l.at \in Inum /\ l.olddp \in Inum /\ l.ip \in Inum
      /\ type[l.at] = "dir" /\ type[l.olddp] = "dir"
      /\ \A i : Holds(p, i) = Is(l.olddp, i) + Is(l.at, i) + Is(l.ip, i)
  BY <1>3, LocalTimes DEF PlaceOK, DirOK, AtPlaces, IpPlaces, OldPlaces
<1>5. /\ m \in Local /\ m.dp = l.at /\ m.at = l.at /\ m.olddp = l.olddp /\ m.ip = l.ip
      /\ m.call = l.call /\ m.name = l.name
  BY <1>2, <1>3, <1>4 DEF Local, Pointer
<1>6. /\ UNCHANGED <<disk, lock, cwd, fd>>
      /\ \/ Return(p, <<Put(m.olddp), Put(m.dp), Put(m.ip)>>) /\ UNCHANGED ref
         \/ m.name \notin {".", ".."} /\ Goto(p, "cycle", m, <<>>) /\ Get(m.dp)
         \/ m.name \notin {".", ".."} /\ Goto(p, "ren3", m, <<>>) /\ UNCHANGED ref
  BY <1>1, <1>2 DEF RenameType
<1>7. DiskOK' /\ KeepsDirs(p) /\ UNCHANGED <<fd, cwd, type>>
  BY <1>6, SameTypes, SameDisk DEF disk
<1>8. <<>> \in Seq(Todo) /\ "cycle" \in Label \ {"chdir2"} /\ "ren3" \in Label \ {"chdir2"}
  BY DEF Label
<1>9. ASSUME m.name \notin {".", ".."}, NEW place \in {"cycle", "ren3"}
      PROVE  PlaceOK(place, m, fd[p], <<>>) /\ DirOK(type', place, m)
  <2>1. m.name \in Name
    BY <1>5, <1>9 DEF Local
  <2> QED
    BY <1>3, <1>4, <1>5, <1>7, <2>1
       DEF PlaceOK, DirOK, AtPlaces, IpPlaces, DpPlaces, OldPlaces, Walks
<1>10. CASE Return(p, <<Put(m.olddp), Put(m.dp), Put(m.ip)>>) /\ UNCHANGED ref
  <2>1. PICK what : what = <<Put(m.olddp), Put(m.dp), Put(m.ip)>>
    OBVIOUS
  <2>2. what \in Seq(Todo) /\ \A i \in Inum : Owed(i, what) = Is(l.olddp, i) + Is(l.at, i) + Is(l.ip, i)
    BY <1>4, <1>5, <2>1, Puts3
  <2>3. ref' \in [Inum -> Int] /\ \A i \in Inum : ref'[i] = ref[i]
    BY <1>10, NoneMore, Types
  <2>4. \A i \in Inum : ref'[i] + Holds(p, i) = ref[i] + Owed(i, what)
    BY <1>4, <2>2, <2>3
  <2> QED
    BY <1>3, <1>7, <1>10, <2>1, <2>2, <2>3, <2>4, GiveBack
<1>11. CASE m.name \notin {".", ".."} /\ Goto(p, "cycle", m, <<>>) /\ Get(m.dp)
  <2>1. ref' \in [Inum -> Int] /\ \A i \in Inum : ref'[i] = ref[i] + Is(l.at, i)
    BY <1>5, <1>11, OneMore, Types
  <2>2. ASSUME NEW i \in Inum
        PROVE  ref'[i] + Holds(p, i) = ref[i] + Times(i, Locals("cycle", m)) + Owed(i, <<>>)
    <3>1. Times(i, Locals("cycle", m)) = Is(l.olddp, i) + Is(l.at, i) + Is(l.ip, i) + Is(l.at, i)
      BY <1>5, LocalTimes
    <3>2. /\ ref[i] \in Nat /\ Is(l.olddp, i) \in Nat /\ Is(l.at, i) \in Nat /\ Is(l.ip, i) \in Nat
          /\ Owed(i, <<>>) = 0
      BY Pieces, IsNat, TimesNone
    <3> QED
      BY <1>4, <2>1, <3>1, <3>2
  <2> QED
    BY <1>3, <1>5, <1>7, <1>8, <1>9, <1>11, <2>1, <2>2, MoveOn
<1>12. CASE m.name \notin {".", ".."} /\ Goto(p, "ren3", m, <<>>) /\ UNCHANGED ref
  <2>1. ref' \in [Inum -> Int] /\ \A i \in Inum : ref'[i] = ref[i]
    BY <1>12, NoneMore, Types
  <2>2. ASSUME NEW i \in Inum
        PROVE  ref'[i] + Holds(p, i) = ref[i] + Times(i, Locals("ren3", m)) + Owed(i, <<>>)
    <3>1. Times(i, Locals("ren3", m)) = Is(l.olddp, i) + Is(l.at, i) + Is(l.ip, i)
      BY <1>5, LocalTimes
    <3>2. /\ ref[i] \in Nat /\ Is(l.olddp, i) \in Nat /\ Is(l.at, i) \in Nat /\ Is(l.ip, i) \in Nat
          /\ Owed(i, <<>>) = 0
      BY Pieces, IsNat, TimesNone
    <3> QED
      BY <1>4, <2>1, <3>1, <3>2
  <2> QED
    BY <1>3, <1>5, <1>7, <1>8, <1>9, <1>12, <2>1, <2>2, MoveOn
<1> QED
  BY <1>6, <1>10, <1>11, <1>12

LEMMA RenameCycleKeeps ==
    ASSUME IInv, NEW p \in Proc, RenameCycle(p)
    PROVE  IInv'
<1>1. PICK l : l = loc[p]
  OBVIOUS
<1>2. PICK parent : parent = dotdot[l.at]
  OBVIOUS
<1>3. PICK m : m = [l EXCEPT !.at = l.dp]
  OBVIOUS
<1>4. PICK up : up = [l EXCEPT !.at = parent]
  OBVIOUS
<1>5. PICK what : what = <<Put(l.at)>>
  OBVIOUS
<1>6. /\ At(p, "cycle") /\ UNCHANGED <<disk, lock, cwd, fd>>
      /\ \/ Return(p, <<Put(l.at)>> \o Held(l)) /\ UNCHANGED ref
         \/ Goto(p, "ren3", m, what) /\ UNCHANGED ref
         \/ type[l.at] = "dir" /\ Goto(p, "cycle", up, what) /\ Get(parent)
  BY <1>1, <1>2, <1>3, <1>4, <1>5 DEF RenameCycle
<1>7. /\ l \in Local /\ PlaceOK("cycle", l, fd[p], <<>>) /\ DirOK(type, "cycle", l)
      /\ pc[p] # "chdir2" /\ todo[p] = <<>>
      /\ \A i : Holds(p, i) = Times(i, Locals("cycle", l))
  BY <1>1, <1>6, Here
<1>8. /\ l.at \in Inum /\ l.olddp \in Inum /\ l.dp \in Inum /\ l.ip \in Inum /\ l.name \in Name
      /\ type[l.dp] = "dir" /\ type[l.olddp] = "dir"
      /\ \A i : Holds(p, i) = Is(l.olddp, i) + Is(l.dp, i) + Is(l.ip, i) + Is(l.at, i)
  BY <1>7, LocalTimes DEF PlaceOK, DirOK, AtPlaces, IpPlaces, DpPlaces, OldPlaces
<1>9. DiskOK' /\ KeepsDirs(p) /\ UNCHANGED <<fd, cwd, type>>
  BY <1>6, SameTypes, SameDisk DEF disk
<1>10. what \in Seq(Todo) /\ \A i \in Inum : Owed(i, what) = Is(l.at, i)
  BY <1>5, <1>8, Puts1
<1>11. "cycle" \in Label \ {"chdir2"} /\ "ren3" \in Label \ {"chdir2"}
  BY DEF Label
<1>12. CASE Return(p, <<Put(l.at)>> \o Held(l)) /\ UNCHANGED ref
  <2>1. PICK held : held = Held(l)
    OBVIOUS
  <2>2. PICK all : all = <<Put(l.at)>> \o held
    OBVIOUS
  <2>3. /\ all \in Seq(Todo) /\ Return(p, all)
        /\ \A i \in Inum : Owed(i, all) = Is(l.at, i) + (Is(l.olddp, i) + Is(l.dp, i) + Is(l.ip, i))
    <3>1. /\ held \in Seq(Todo)
          /\ \A i \in Inum : Owed(i, held) = Is(l.olddp, i) + Is(l.dp, i) + Is(l.ip, i)
      BY <1>8, <2>1, Puts3 DEF Held
    <3>2. /\ all \in Seq(Todo)
          /\ \A i \in Inum : Owed(i, all) = One(Put(l.at), i) + Owed(i, held)
      BY <1>8, <2>2, <3>1, PutsOf, OwedCons
    <3>3. \A i \in Inum : One(Put(l.at), i) = Is(l.at, i)
      BY OneIs
    <3> QED
      BY <1>12, <2>1, <2>2, <3>1, <3>2, <3>3
  <2>4. ref' \in [Inum -> Int] /\ \A i \in Inum : ref'[i] = ref[i]
    BY <1>12, NoneMore, Types
  <2>5. ASSUME NEW i \in Inum PROVE ref'[i] + Holds(p, i) = ref[i] + Owed(i, all)
    <3>1. /\ ref[i] \in Nat /\ Is(l.olddp, i) \in Nat /\ Is(l.dp, i) \in Nat
          /\ Is(l.at, i) \in Nat /\ Is(l.ip, i) \in Nat
      BY Pieces, IsNat
    <3> QED
      BY <1>8, <2>3, <2>4, <3>1
  <2> QED
    BY <1>7, <1>9, <2>3, <2>4, <2>5, GiveBack
<1>13. CASE Goto(p, "ren3", m, what) /\ UNCHANGED ref
  <2>1. /\ m \in Local /\ m.at = l.dp /\ m.dp = l.dp /\ m.olddp = l.olddp /\ m.ip = l.ip
        /\ m.call = l.call /\ m.name = l.name
    BY <1>3, <1>7, <1>8 DEF Local, Pointer
  <2>2. PlaceOK("ren3", m, fd[p], what) /\ DirOK(type', "ren3", m)
    BY <1>7, <1>8, <1>9, <2>1
       DEF PlaceOK, DirOK, AtPlaces, IpPlaces, DpPlaces, OldPlaces, Walks
  <2>3. ref' \in [Inum -> Int] /\ \A i \in Inum : ref'[i] = ref[i]
    BY <1>13, NoneMore, Types
  <2>4. ASSUME NEW i \in Inum
        PROVE  ref'[i] + Holds(p, i) = ref[i] + Times(i, Locals("ren3", m)) + Owed(i, what)
    <3>1. Times(i, Locals("ren3", m)) = Is(l.olddp, i) + Is(l.dp, i) + Is(l.ip, i)
      BY <2>1, LocalTimes
    <3>2. /\ ref[i] \in Nat /\ Is(l.olddp, i) \in Nat /\ Is(l.dp, i) \in Nat
          /\ Is(l.at, i) \in Nat /\ Is(l.ip, i) \in Nat
      BY Pieces, IsNat
    <3> QED
      BY <1>8, <1>10, <2>3, <3>1, <3>2
  <2> QED
    BY <1>7, <1>9, <1>10, <1>11, <1>13, <2>1, <2>2, <2>3, <2>4, MoveOn
<1>14. CASE type[l.at] = "dir" /\ Goto(p, "cycle", up, what) /\ Get(parent)
  <2>1. parent \in Inum
    BY <1>2, <1>8, <1>14 DEF IInv, DotDotInv
  <2>2. /\ up \in Local /\ up.at = parent /\ up.dp = l.dp /\ up.olddp = l.olddp /\ up.ip = l.ip
        /\ up.call = l.call /\ up.name = l.name
    BY <1>4, <1>7, <2>1 DEF Local, Pointer
  <2>3. PlaceOK("cycle", up, fd[p], what) /\ DirOK(type', "cycle", up)
    BY <1>7, <1>8, <1>9, <2>1, <2>2
       DEF PlaceOK, DirOK, AtPlaces, IpPlaces, DpPlaces, OldPlaces, Walks
  <2>4. ref' \in [Inum -> Int] /\ \A i \in Inum : ref'[i] = ref[i] + Is(parent, i)
    BY <1>14, OneMore, Types
  <2>5. ASSUME NEW i \in Inum
        PROVE  ref'[i] + Holds(p, i) = ref[i] + Times(i, Locals("cycle", up)) + Owed(i, what)
    <3>1. Times(i, Locals("cycle", up)) = Is(l.olddp, i) + Is(l.dp, i) + Is(l.ip, i) + Is(parent, i)
      BY <2>2, LocalTimes
    <3>2. /\ ref[i] \in Nat /\ Is(l.olddp, i) \in Nat /\ Is(l.dp, i) \in Nat
          /\ Is(l.at, i) \in Nat /\ Is(l.ip, i) \in Nat /\ Is(parent, i) \in Nat
      BY Pieces, IsNat
    <3> QED
      BY <1>8, <1>10, <2>4, <3>1, <3>2
  <2> QED
    BY <1>7, <1>9, <1>10, <1>11, <1>14, <2>2, <2>3, <2>4, <2>5, MoveOn
<1> QED
  BY <1>6, <1>12, <1>13, <1>14

LEMMA RenameNewKeeps ==
    ASSUME IInv, NEW p \in Proc, RenameNew(p)
    PROVE  IInv'
<1>1. PICK l : l = loc[p]
  OBVIOUS
<1>2. PICK d : d = l.dp
  OBVIOUS
<1>3. PICK x : x = Lookup(d, l.name)
  OBVIOUS
<1>4. PICK m : m = [l EXCEPT !.at = x, !.xip = x]
  OBVIOUS
<1>5. /\ At(p, "ren3") /\ UNCHANGED <<disk, cwd, fd>>
      /\ \/ /\ Return(p, <<Put(d), Put(l.olddp), Put(l.ip)>>)
            /\ UNCHANGED <<ref, lock>>
         \/ /\ x = l.ip
            /\ Return(p, <<Put(x), Unlock(d), Put(d), Put(l.olddp), Put(l.ip)>>)
            /\ lock' = [lock EXCEPT ![d] = p] /\ Get(x)
         \/ /\ x \notin {NoInum, l.ip}
            /\ Goto(p, "ren4", m, <<>>)
            /\ lock' = [lock EXCEPT ![d] = p] /\ Get(x)
         \/ /\ Goto(p, "ren5", l, <<>>)
            /\ lock' = [lock EXCEPT ![d] = p] /\ UNCHANGED ref
  BY <1>1, <1>2, <1>3, <1>4 DEF RenameNew, Locks
<1>6. /\ l \in Local /\ PlaceOK("ren3", l, fd[p], <<>>) /\ DirOK(type, "ren3", l)
      /\ pc[p] # "chdir2" /\ todo[p] = <<>>
      /\ \A i : Holds(p, i) = Times(i, Locals("ren3", l))
  BY <1>1, <1>5, Here
<1>7. /\ d \in Inum /\ l.olddp \in Inum /\ l.ip \in Inum /\ l.name \in Name
      /\ type[d] = "dir" /\ type[l.olddp] = "dir"
      /\ \A i : Holds(p, i) = Is(l.olddp, i) + Is(d, i) + Is(l.ip, i)
  BY <1>2, <1>6, LocalTimes DEF PlaceOK, DirOK, AtPlaces, IpPlaces, DpPlaces, OldPlaces
<1>8. DiskOK' /\ KeepsDirs(p) /\ UNCHANGED <<fd, cwd, type>>
  <2>1. CASE UNCHANGED lock
    BY <1>5, <2>1, SameTypes, SameDisk DEF disk
  <2>2. CASE lock' = [lock EXCEPT ![d] = p]
    BY <1>5, <2>2, LockOnly DEF disk
  <2> QED
    BY <1>5, <2>1, <2>2
<1>9. x \in Pointer
  BY <1>3, <1>7, LookupType
<1>10. <<>> \in Seq(Todo) /\ "ren4" \in Label \ {"chdir2"} /\ "ren5" \in Label \ {"chdir2"}
  BY DEF Label
<1>11. CASE Return(p, <<Put(d), Put(l.olddp), Put(l.ip)>>) /\ UNCHANGED ref
  <2>1. PICK what : what = <<Put(d), Put(l.olddp), Put(l.ip)>>
    OBVIOUS
  <2>2. what \in Seq(Todo) /\ \A i \in Inum : Owed(i, what) = Is(d, i) + Is(l.olddp, i) + Is(l.ip, i)
    BY <1>7, <2>1, Puts3
  <2>3. ref' \in [Inum -> Int] /\ \A i \in Inum : ref'[i] = ref[i]
    BY <1>11, NoneMore, Types
  <2>4. ASSUME NEW i \in Inum PROVE ref'[i] + Holds(p, i) = ref[i] + Owed(i, what)
    <3>1. ref[i] \in Nat /\ Is(l.olddp, i) \in Nat /\ Is(d, i) \in Nat /\ Is(l.ip, i) \in Nat
      BY Pieces, IsNat
    <3> QED
      BY <1>7, <2>2, <2>3, <3>1
  <2> QED
    BY <1>6, <1>8, <1>11, <2>1, <2>2, <2>3, <2>4, GiveBack
<1>12. CASE /\ x = l.ip
            /\ Return(p, <<Put(x), Unlock(d), Put(d), Put(l.olddp), Put(l.ip)>>)
            /\ Get(x)
  <2>1. PICK what : what = <<Put(x), Unlock(d), Put(d), Put(l.olddp), Put(l.ip)>>
    OBVIOUS
  <2>2. /\ what \in Seq(Todo)
        /\ \A i \in Inum : Owed(i, what) = Is(x, i) + Is(d, i) + Is(l.olddp, i) + Is(l.ip, i)
    BY <1>7, <1>12, <2>1, PutsUnlock3
  <2>3. ref' \in [Inum -> Int] /\ \A i \in Inum : ref'[i] = ref[i] + Is(x, i)
    BY <1>12, OneMore, Types
  <2>4. ASSUME NEW i \in Inum PROVE ref'[i] + Holds(p, i) = ref[i] + Owed(i, what)
    <3>1. /\ ref[i] \in Nat /\ Is(l.olddp, i) \in Nat /\ Is(d, i) \in Nat /\ Is(l.ip, i) \in Nat
          /\ Is(x, i) \in Nat
      BY Pieces, IsNat
    <3> QED
      BY <1>7, <2>2, <2>3, <3>1
  <2> QED
    BY <1>6, <1>8, <1>12, <2>1, <2>2, <2>3, <2>4, GiveBack
<1>13. CASE x \notin {NoInum, l.ip} /\ Goto(p, "ren4", m, <<>>) /\ Get(x)
  <2>1. x \in Inum
    BY <1>9, <1>13 DEF Pointer
  <2>2. /\ m \in Local /\ m.at = x /\ m.xip = x /\ m.dp = d /\ m.olddp = l.olddp /\ m.ip = l.ip
        /\ m.call = l.call /\ m.name = l.name
    BY <1>2, <1>4, <1>6, <2>1 DEF Local, Pointer
  <2>3. PlaceOK("ren4", m, fd[p], <<>>) /\ DirOK(type', "ren4", m)
    BY <1>6, <1>7, <1>8, <2>1, <2>2
       DEF PlaceOK, DirOK, AtPlaces, IpPlaces, DpPlaces, OldPlaces, Walks
  <2>4. ref' \in [Inum -> Int] /\ \A i \in Inum : ref'[i] = ref[i] + Is(x, i)
    BY <1>13, OneMore, Types
  <2>5. ASSUME NEW i \in Inum
        PROVE  ref'[i] + Holds(p, i) = ref[i] + Times(i, Locals("ren4", m)) + Owed(i, <<>>)
    <3>1. Times(i, Locals("ren4", m)) = Is(l.olddp, i) + Is(d, i) + Is(l.ip, i) + Is(x, i)
      BY <2>2, LocalTimes
    <3>2. /\ ref[i] \in Nat /\ Is(l.olddp, i) \in Nat /\ Is(d, i) \in Nat /\ Is(l.ip, i) \in Nat
          /\ Is(x, i) \in Nat /\ Owed(i, <<>>) = 0
      BY Pieces, IsNat, TimesNone
    <3> QED
      BY <1>7, <2>4, <3>1, <3>2
  <2> QED
    BY <1>6, <1>8, <1>10, <1>13, <2>2, <2>3, <2>4, <2>5, MoveOn
<1>14. CASE Goto(p, "ren5", l, <<>>) /\ UNCHANGED ref
  <2>1. PlaceOK("ren5", l, fd[p], <<>>) /\ DirOK(type', "ren5", l)
    BY <1>2, <1>6, <1>7, <1>8 DEF PlaceOK, DirOK, AtPlaces, IpPlaces, DpPlaces, OldPlaces, Walks
  <2>2. ref' \in [Inum -> Int] /\ \A i \in Inum : ref'[i] = ref[i]
    BY <1>14, NoneMore, Types
  <2>3. ASSUME NEW i \in Inum
        PROVE  ref'[i] + Holds(p, i) = ref[i] + Times(i, Locals("ren5", l)) + Owed(i, <<>>)
    <3>1. Times(i, Locals("ren5", l)) = Is(l.olddp, i) + Is(d, i) + Is(l.ip, i)
      BY <1>2, LocalTimes
    <3>2. /\ ref[i] \in Nat /\ Is(l.olddp, i) \in Nat /\ Is(d, i) \in Nat /\ Is(l.ip, i) \in Nat
          /\ Owed(i, <<>>) = 0
      BY Pieces, IsNat, TimesNone
    <3> QED
      BY <1>7, <2>2, <3>1, <3>2
  <2> QED
    BY <1>6, <1>8, <1>10, <1>14, <2>1, <2>2, <2>3, MoveOn
<1> QED
  BY <1>5, <1>11, <1>12, <1>13, <1>14

LEMMA RenameReplaceKeeps ==
    ASSUME IInv, NEW p \in Proc, RenameReplace(p)
    PROVE  IInv'
<1>1. PICK l : l = loc[p]
  OBVIOUS
<1>2. PICK d : d = l.dp
  OBVIOUS
<1>3. PICK x : x = l.xip
  OBVIOUS
<1>4. PICK less \in Int : less = IF type[x] = "dir" THEN 1 ELSE 0
  OBVIOUS
<1>5. /\ At(p, "ren4") /\ UNCHANGED <<type, dir, dotdot, gone, ref, lock, cwd, fd>>
      /\ \/ /\ Return(p, <<Put(x), Unlock(d), Put(d), Put(l.olddp), Put(l.ip)>>)
            /\ UNCHANGED nlink
         \/ /\ nlink' = [nlink EXCEPT ![x] = @ - 1, ![d] = @ - less]
            /\ Goto(p, "ren5", l, <<Put(x)>>)
  BY <1>1, <1>2, <1>3, <1>4 DEF RenameReplace, Locks
<1>6. /\ l \in Local /\ PlaceOK("ren4", l, fd[p], <<>>) /\ DirOK(type, "ren4", l)
      /\ pc[p] # "chdir2" /\ todo[p] = <<>>
      /\ \A i : Holds(p, i) = Times(i, Locals("ren4", l))
  BY <1>1, <1>5, Here
<1>7. /\ d \in Inum /\ l.olddp \in Inum /\ l.ip \in Inum /\ x \in Inum /\ l.name \in Name
      /\ type[d] = "dir" /\ type[l.olddp] = "dir"
      /\ \A i : Holds(p, i) = Is(l.olddp, i) + Is(d, i) + Is(l.ip, i) + Is(x, i)
  BY <1>2, <1>3, <1>6, LocalTimes DEF PlaceOK, DirOK, AtPlaces, IpPlaces, DpPlaces, OldPlaces
<1>8. KeepsDirs(p) /\ UNCHANGED <<fd, cwd, type>>
  BY <1>5, SameTypes
<1>9. DiskOK'
  <2>1. nlink' \in [Inum -> Int]
    <3>1. nlink \in [Inum -> Int] /\ nlink[x] - 1 \in Int
      BY <1>7 DEF IInv, TypeOK
    <3>2. CASE nlink' = [nlink EXCEPT ![x] = @ - 1, ![d] = @ - less]
      BY <1>7, <3>1, <3>2
    <3> QED
      BY <1>5, <3>1, <3>2
  <2>2. dir' \in Entries /\ lock' \in [Inum -> Proc \cup {NoProc}]
    BY <1>5 DEF IInv, TypeOK, Entries
  <2> QED
    BY <1>5, <2>1, <2>2, DiskTyped
<1>10. ref' \in [Inum -> Int] /\ \A i \in Inum : ref'[i] = ref[i]
  BY <1>5, NoneMore, Types
<1>11. CASE Return(p, <<Put(x), Unlock(d), Put(d), Put(l.olddp), Put(l.ip)>>)
  <2>1. PICK what : what = <<Put(x), Unlock(d), Put(d), Put(l.olddp), Put(l.ip)>>
    OBVIOUS
  <2>2. /\ what \in Seq(Todo)
        /\ \A i \in Inum : Owed(i, what) = Is(x, i) + Is(d, i) + Is(l.olddp, i) + Is(l.ip, i)
    BY <1>7, <2>1, PutsUnlock3
  <2>3. ASSUME NEW i \in Inum PROVE ref'[i] + Holds(p, i) = ref[i] + Owed(i, what)
    <3>1. /\ ref[i] \in Nat /\ Is(l.olddp, i) \in Nat /\ Is(d, i) \in Nat /\ Is(l.ip, i) \in Nat
          /\ Is(x, i) \in Nat
      BY Pieces, IsNat
    <3> QED
      BY <1>7, <1>10, <2>2, <3>1
  <2> QED
    BY <1>6, <1>8, <1>9, <1>10, <1>11, <2>1, <2>2, <2>3, GiveBack
<1>12. CASE Goto(p, "ren5", l, <<Put(x)>>)
  <2>1. PICK what : what = <<Put(x)>>
    OBVIOUS
  <2>2. what \in Seq(Todo) /\ \A i \in Inum : Owed(i, what) = Is(x, i)
    BY <1>7, <2>1, Puts1
  <2>3. PlaceOK("ren5", l, fd[p], what) /\ DirOK(type', "ren5", l)
    BY <1>2, <1>6, <1>7, <1>8 DEF PlaceOK, DirOK, AtPlaces, IpPlaces, DpPlaces, OldPlaces, Walks
  <2>4. ASSUME NEW i \in Inum
        PROVE  ref'[i] + Holds(p, i) = ref[i] + Times(i, Locals("ren5", l)) + Owed(i, what)
    <3>1. Times(i, Locals("ren5", l)) = Is(l.olddp, i) + Is(d, i) + Is(l.ip, i)
      BY <1>2, LocalTimes
    <3>2. /\ ref[i] \in Nat /\ Is(l.olddp, i) \in Nat /\ Is(d, i) \in Nat /\ Is(l.ip, i) \in Nat
          /\ Is(x, i) \in Nat
      BY Pieces, IsNat
    <3> QED
      BY <1>7, <1>10, <2>2, <3>1, <3>2
  <2>5. Goto(p, "ren5", l, what) /\ "ren5" \in Label \ {"chdir2"}
    BY <1>12, <2>1 DEF Label
  <2> QED
    BY <1>6, <1>8, <1>9, <1>10, <2>2, <2>3, <2>4, <2>5, MoveOn
<1> QED
  BY <1>5, <1>11, <1>12

LEMMA RenameEnterKeeps ==
    ASSUME IInv, NEW p \in Proc, RenameEnter(p)
    PROVE  IInv'
<1>1. PICK l : l = loc[p]
  OBVIOUS
<1>2. PICK d : d = l.dp
  OBVIOUS
<1>3. PICK m : m = [l EXCEPT !.at = l.olddp]
  OBVIOUS
<1>4. PICK what : what = <<Put(d)>>
  OBVIOUS
<1>5. PICK more \in Int : more = IF Moved(l) THEN 1 ELSE 0
  OBVIOUS
<1>6. /\ At(p, "ren5") /\ UNCHANGED <<type, dotdot, gone, ref, cwd, fd>>
      /\ \/ dir' = DirLink(d, l.name, l.ip)
         \/ dir' = [dir EXCEPT ![d][SlotOf(d, l.name)] = [name |-> l.name, inum |-> l.ip]]
      /\ nlink' = [nlink EXCEPT ![d] = @ + more]
      /\ lock' = [lock EXCEPT ![d] = NoProc]
      /\ Goto(p, "ren6", m, what)
  BY <1>1, <1>2, <1>3, <1>4, <1>5 DEF RenameEnter
<1>7. /\ l \in Local /\ PlaceOK("ren5", l, fd[p], <<>>) /\ DirOK(type, "ren5", l)
      /\ pc[p] # "chdir2" /\ todo[p] = <<>>
      /\ \A i : Holds(p, i) = Times(i, Locals("ren5", l))
  BY <1>1, <1>6, Here
<1>8. /\ d \in Inum /\ l.olddp \in Inum /\ l.ip \in Inum /\ l.name \in Name
      /\ type[l.olddp] = "dir"
      /\ \A i : Holds(p, i) = Is(l.olddp, i) + Is(d, i) + Is(l.ip, i)
  BY <1>2, <1>7, LocalTimes DEF PlaceOK, DirOK, AtPlaces, IpPlaces, DpPlaces, OldPlaces
<1>9. KeepsDirs(p) /\ UNCHANGED <<fd, cwd, type>>
  BY <1>6, SameTypes
<1>10. DiskOK'
  <2>1. nlink' \in [Inum -> Int]
    <3>1. nlink \in [Inum -> Int] /\ nlink[d] + more \in Int
      BY <1>8 DEF IInv, TypeOK
    <3> QED
      BY <1>6, <3>1
  <2>2. dir' \in Entries
    BY <1>8, <1>6, EntrySet DEF Pointer, DirLink
  <2>3. lock' \in [Inum -> Proc \cup {NoProc}]
    BY <1>6, LockSet
  <2> QED
    BY <1>6, <2>1, <2>2, <2>3, DiskTyped
<1>11. ref' \in [Inum -> Int] /\ \A i \in Inum : ref'[i] = ref[i]
  BY <1>6, NoneMore, Types
<1>12. what \in Seq(Todo) /\ \A i \in Inum : Owed(i, what) = Is(d, i)
  BY <1>4, <1>8, Puts1
<1>13. /\ m \in Local /\ m.at = l.olddp /\ m.dp = d /\ m.olddp = l.olddp /\ m.ip = l.ip
       /\ m.call = l.call
  BY <1>2, <1>3, <1>7 DEF Local
<1>14. PlaceOK("ren6", m, fd[p], what) /\ DirOK(type', "ren6", m)
  BY <1>7, <1>8, <1>9, <1>13 DEF PlaceOK, DirOK, AtPlaces, IpPlaces, DpPlaces, OldPlaces, Walks
<1>15. ASSUME NEW i \in Inum
       PROVE  ref'[i] + Holds(p, i) = ref[i] + Times(i, Locals("ren6", m)) + Owed(i, what)
  <2>1. Times(i, Locals("ren6", m)) = Is(l.olddp, i) + Is(l.ip, i)
    BY <1>13, LocalTimes
  <2>2. ref[i] \in Nat /\ Is(l.olddp, i) \in Nat /\ Is(d, i) \in Nat /\ Is(l.ip, i) \in Nat
    BY Pieces, IsNat
  <2> QED
    BY <1>8, <1>11, <1>12, <2>1, <2>2
<1>16. "ren6" \in Label \ {"chdir2"}
  BY DEF Label
<1> QED
  BY <1>6, <1>7, <1>9, <1>10, <1>11, <1>12, <1>13, <1>14, <1>15, <1>16, MoveOn

LEMMA RenameClearKeeps ==
    ASSUME IInv, NEW p \in Proc, RenameClear(p)
    PROVE  IInv'
<1>1. PICK l : l = loc[p]
  OBVIOUS
<1>2. PICK d : d = l.olddp
  OBVIOUS
<1>3. PICK m : m = [l EXCEPT !.at = l.ip]
  OBVIOUS
<1>4. PICK less \in Int : less = IF Moved(l) THEN 1 ELSE 0
  OBVIOUS
<1>5. /\ At(p, "ren6") /\ UNCHANGED <<type, dotdot, gone, ref, lock, cwd, fd>>
      /\ dir' = [dir EXCEPT ![d][l.slot] = Empty]
      /\ nlink' = [nlink EXCEPT ![d] = @ - less]
      /\ \/ type[l.ip] = "dir" /\ Goto(p, "ren7", m, <<Put(d)>>)
         \/ Return(p, <<Put(d), Put(l.ip)>>)
  BY <1>1, <1>2, <1>3, <1>4 DEF RenameClear, Locks, Moved
<1>6. /\ l \in Local /\ PlaceOK("ren6", l, fd[p], <<>>)
      /\ pc[p] # "chdir2" /\ todo[p] = <<>>
      /\ \A i : Holds(p, i) = Times(i, Locals("ren6", l))
  BY <1>1, <1>5, Here
<1>7. /\ d \in Inum /\ l.dp \in Inum /\ l.ip \in Inum
      /\ \A i : Holds(p, i) = Is(d, i) + Is(l.ip, i)
  BY <1>2, <1>6, LocalTimes DEF PlaceOK, AtPlaces, IpPlaces, DpPlaces, OldPlaces
<1>8. KeepsDirs(p) /\ UNCHANGED <<fd, cwd, type>>
  BY <1>5, SameTypes
<1>9. DiskOK'
  <2>1. nlink' \in [Inum -> Int]
    <3>1. nlink \in [Inum -> Int] /\ nlink[d] - less \in Int
      BY <1>7 DEF IInv, TypeOK
    <3> QED
      BY <1>5, <3>1
  <2>2. dir' \in Entries
    BY <1>5, <1>7, ClearSet
  <2>3. lock' \in [Inum -> Proc \cup {NoProc}]
    BY <1>5 DEF IInv, TypeOK
  <2> QED
    BY <1>5, <2>1, <2>2, <2>3, DiskTyped
<1>10. ref' \in [Inum -> Int] /\ \A i \in Inum : ref'[i] = ref[i]
  BY <1>5, NoneMore, Types
<1>11. CASE type[l.ip] = "dir" /\ Goto(p, "ren7", m, <<Put(d)>>)
  <2>1. PICK what : what = <<Put(d)>>
    OBVIOUS
  <2>2. what \in Seq(Todo) /\ \A i \in Inum : Owed(i, what) = Is(d, i)
    BY <1>7, <2>1, Puts1
  <2>3. m \in Local /\ m.at = l.ip /\ m.dp = l.dp /\ m.ip = l.ip /\ m.call = l.call
    BY <1>3, <1>6, <1>7 DEF Local, Pointer
  <2>4. PlaceOK("ren7", m, fd[p], what) /\ DirOK(type', "ren7", m)
    BY <1>6, <1>7, <1>8, <1>11, <2>3
       DEF PlaceOK, DirOK, AtPlaces, IpPlaces, DpPlaces, OldPlaces, Walks
  <2>5. ASSUME NEW i \in Inum
        PROVE  ref'[i] + Holds(p, i) = ref[i] + Times(i, Locals("ren7", m)) + Owed(i, what)
    <3>1. Times(i, Locals("ren7", m)) = Is(l.ip, i)
      BY <2>3, LocalTimes
    <3>2. ref[i] \in Nat /\ Is(d, i) \in Nat /\ Is(l.ip, i) \in Nat
      BY Pieces, IsNat
    <3> QED
      BY <1>7, <1>10, <2>2, <3>1, <3>2
  <2>6. Goto(p, "ren7", m, what) /\ "ren7" \in Label \ {"chdir2"}
    BY <1>11, <2>1 DEF Label
  <2> QED
    BY <1>6, <1>8, <1>9, <1>10, <2>2, <2>3, <2>4, <2>5, <2>6, MoveOn
<1>12. CASE Return(p, <<Put(d), Put(l.ip)>>)
  <2>1. PICK what : what = <<Put(d), Put(l.ip)>>
    OBVIOUS
  <2>2. what \in Seq(Todo) /\ \A i \in Inum : Owed(i, what) = Is(d, i) + Is(l.ip, i)
    BY <1>7, <2>1, Puts2
  <2>3. \A i \in Inum : ref'[i] + Holds(p, i) = ref[i] + Owed(i, what)
    BY <1>7, <1>10, <2>2
  <2> QED
    BY <1>6, <1>8, <1>9, <1>10, <1>12, <2>1, <2>2, <2>3, GiveBack
<1> QED
  BY <1>5, <1>11, <1>12

LEMMA RenameDotDotKeeps ==
    ASSUME IInv, NEW p \in Proc, RenameDotDot(p)
    PROVE  IInv'
<1>1. PICK l : l = loc[p]
  OBVIOUS
<1>2. PICK x : x = l.ip
  OBVIOUS
<1>3. PICK old : old = dotdot[x]
  OBVIOUS
<1>4. \/ /\ At(p, "ren7") /\ UNCHANGED <<disk, cwd, fd>>
         /\ lock' = [lock EXCEPT ![x] = p] /\ Get(old)
         /\ Goto(p, "ren8", l, <<Put(old)>>)
      \/ /\ At(p, "ren8") /\ UNCHANGED <<type, nlink, dir, gone, ref, cwd, fd>>
         /\ dotdot' = [dotdot EXCEPT ![x] = l.dp]
         /\ lock' = [lock EXCEPT ![x] = NoProc]
         /\ Return(p, <<Put(x)>>)
  BY <1>1, <1>2, <1>3 DEF RenameDotDot, Locks
<1>5. CASE /\ At(p, "ren7") /\ UNCHANGED <<disk, cwd, fd>>
           /\ lock' = [lock EXCEPT ![x] = p] /\ Get(old)
           /\ Goto(p, "ren8", l, <<Put(old)>>)
  <2>1. PICK what : what = <<Put(old)>>
    OBVIOUS
  <2>2. /\ l \in Local /\ PlaceOK("ren7", l, fd[p], <<>>) /\ DirOK(type, "ren7", l)
        /\ pc[p] # "chdir2" /\ todo[p] = <<>>
        /\ \A i : Holds(p, i) = Times(i, Locals("ren7", l))
    BY <1>1, <1>5, Here
  <2>3. x \in Inum /\ type[x] = "dir" /\ \A i : Holds(p, i) = Is(x, i)
    BY <1>2, <2>2, LocalTimes DEF PlaceOK, DirOK, IpPlaces
  <2>4. old \in Inum
    BY <1>3, <2>3 DEF IInv, DotDotInv
  <2>5. what \in Seq(Todo) /\ \A i \in Inum : Owed(i, what) = Is(old, i)
    BY <2>1, <2>4, Puts1
  <2>6. DiskOK' /\ KeepsDirs(p) /\ UNCHANGED <<fd, cwd, type>>
    BY <1>5, LockOnly DEF disk
  <2>7. PlaceOK("ren8", l, fd[p], what) /\ DirOK(type', "ren8", l)
    BY <1>2, <2>2, <2>3, <2>6
       DEF PlaceOK, DirOK, AtPlaces, IpPlaces, DpPlaces, OldPlaces, Walks
  <2>8. ref' \in [Inum -> Int] /\ \A i \in Inum : ref'[i] = ref[i] + Is(old, i)
    BY <1>5, OneMore, Types
  <2>9. ASSUME NEW i \in Inum
        PROVE  ref'[i] + Holds(p, i) = ref[i] + Times(i, Locals("ren8", l)) + Owed(i, what)
    <3>1. Times(i, Locals("ren8", l)) = Is(x, i)
      BY <1>2, LocalTimes
    <3>2. ref[i] \in Nat /\ Is(x, i) \in Nat /\ Is(old, i) \in Nat
      BY Pieces, IsNat
    <3> QED
      BY <2>3, <2>5, <2>8, <3>1, <3>2
  <2>10. Goto(p, "ren8", l, what) /\ "ren8" \in Label \ {"chdir2"}
    BY <1>5, <2>1 DEF Label
  <2> QED
    BY <2>2, <2>5, <2>6, <2>7, <2>8, <2>9, <2>10, MoveOn
<1>6. CASE /\ At(p, "ren8") /\ UNCHANGED <<type, nlink, dir, gone, ref, cwd, fd>>
           /\ dotdot' = [dotdot EXCEPT ![x] = l.dp]
           /\ lock' = [lock EXCEPT ![x] = NoProc]
           /\ Return(p, <<Put(x)>>)
  <2>1. PICK what : what = <<Put(x)>>
    OBVIOUS
  <2>2. /\ l \in Local /\ PlaceOK("ren8", l, fd[p], <<>>)
        /\ pc[p] # "chdir2" /\ todo[p] = <<>>
        /\ \A i : Holds(p, i) = Times(i, Locals("ren8", l))
    BY <1>1, <1>6, Here
  <2>3. x \in Inum /\ l.dp \in Inum /\ \A i : Holds(p, i) = Is(x, i)
    BY <1>2, <2>2, LocalTimes DEF PlaceOK, IpPlaces, DpPlaces
  <2>4. what \in Seq(Todo) /\ \A i \in Inum : Owed(i, what) = Is(x, i)
    BY <2>1, <2>3, Puts1
  <2>5. ref' \in [Inum -> Int] /\ \A i \in Inum : ref'[i] = ref[i]
    BY <1>6, NoneMore, Types
  <2>6. KeepsDirs(p)
    BY <1>6, SameTypes
  <2>7. DiskOK'
    <3>1. lock' \in [Inum -> Proc \cup {NoProc}]
      BY <1>6, LockSet
    <3>2. dotdot \in [Inum -> Inum \cup {NoInum}]
      BY DEF IInv, TypeOK
    <3>3. dotdot' \in [Inum -> Inum \cup {NoInum}]
      BY <1>6, <2>3, <3>2
    <3>4. DotDotInv'
      BY <1>6, <2>3, <3>2 DEF IInv, DotDotInv
    <3>5. /\ type' \in [Inum -> {"free", "file", "dir"}] /\ nlink' \in [Inum -> Int]
          /\ dir' \in Entries /\ gone' \in [Inum -> Nat]
      BY <1>6 DEF IInv, TypeOK, Entries
    <3> QED
      BY <3>1, <3>3, <3>4, <3>5 DEF DiskOK, Entries
  <2>8. \A i \in Inum : ref'[i] + Holds(p, i) = ref[i] + Owed(i, what)
    BY <2>3, <2>4, <2>5
  <2> QED
    BY <1>6, <2>1, <2>2, <2>4, <2>5, <2>6, <2>7, <2>8, GiveBack
<1> QED
  BY <1>4, <1>5, <1>6

-----------------------------------------------------------------------------
(* The invariant of references and types *)

\* Everybody stands in the root, and nobody holds anything else.
LEMMA InitHolds ==
    ASSUME Init
    PROVE  IInv
<1>1. TypeOK
  <2>1. Root \in Inum /\ NoCall \in Local
    BY RootType, NoCallType
  <2>2. Cardinality(Proc) \in Nat
    BY InodeAssumption, FS_CardinalityType
  <2>3. NoEntries \in [Slot -> [name : Name \cup {"."}, inum : Inum \cup {NoInum}]]
    BY DEF NoEntries, Empty
  <2>4. <<>> \in Seq([op : {"put", "drop", "unlock"}, ino : Inum])
    OBVIOUS
  <2>5. ref \in [Inum -> Nat]
    BY <2>2 DEF Init
  <2>6. pc \in [Proc -> Label] /\ loc \in [Proc -> Local]
    BY <2>1 DEF Init, Label
  <2>7. todo \in [Proc -> Seq([op : {"put", "drop", "unlock"}, ino : Inum])]
    BY <2>4 DEF Init
  <2> QED
    BY <2>1, <2>3, <2>5, <2>6, <2>7 DEF Init, TypeOK
<1>2. PlaceInv
  <2>1. PlaceOK("user", NoCall, NoInum, <<>>)
    BY DEF PlaceOK, NoCall, AtPlaces, IpPlaces, DpPlaces, OldPlaces, Walks
  <2> QED
    BY <2>1 DEF Init, PlaceInv
<1>3. DirInv
  BY DEF Init, DirInv, DirOK, OldPlaces, Walks
<1>4. DotDotInv
  BY RootType DEF Init, DotDotInv
<1>5. ASSUME NEW i \in Inum PROVE ref[i] = SumFunction([q \in Proc |-> RefsOf(q, i)])
  <2>1. PICK F : F = [q \in Proc |-> RefsOf(q, i)]
    OBVIOUS
  <2>2. ASSUME NEW q \in Proc PROVE F[q] = Is(Root, i)
    <3>1. RefsOf(q, i) = RefsAt(fd[q], cwd[q], pc[q], loc[q], todo[q], i)
      BY <1>1, RefsOfAt
    <3>2. fd[q] = NoInum /\ cwd[q] = Root /\ pc[q] = "user" /\ loc[q] = NoCall /\ todo[q] = <<>>
      BY DEF Init
    <3>3. Times(i, Locals("user", NoCall)) = 0 /\ Owed(i, <<>>) = 0
      BY LocalTimes, TimesNone
    <3>4. Is(NoInum, i) = 0 /\ Is(Root, i) \in Nat
      BY InodeAssumption, IsNat DEF Is
    <3>5. RefsOf(q, i) = 0 + Is(Root, i) + 0 + 0
      BY <3>1, <3>2, <3>3, <3>4 DEF RefsAt
    <3> QED
      BY <2>1, <3>4, <3>5
  <2>3. Counts(F, Proc) /\ SumFunction(F) = SumFunctionOnSet(F, Proc)
    BY <1>1, <2>1, RefsSum
  <2>4. CASE i = Root
    BY <2>2, <2>4, <2>1, <2>3, SumOnes, InodeAssumption DEF Is, Init
  <2>5. CASE i # Root
    BY <2>2, <2>5, <2>1, <2>3, SumZero, InodeAssumption DEF Is, Init
  <2> QED
    BY <2>4, <2>5
<1> QED
  BY <1>1, <1>2, <1>3, <1>4, <1>5 DEF IInv, RefsCounted

-----------------------------------------------------------------------------
(* The theorems about references and types *)

LEMMA Inductive ==
    IInv /\ [Next]_vars => IInv'
<1> SUFFICES ASSUME IInv, [Next]_vars
             PROVE  IInv'
  OBVIOUS
<1>1. CASE UNCHANGED vars
  <2>1. TypeOK' /\ PlaceInv' /\ DirInv' /\ DotDotInv'
    BY <1>1 DEF vars, disk, IInv, TypeOK, PlaceInv, DirInv, DotDotInv
  <2>2. RefsCounted'
    BY <1>1 DEF vars, disk, IInv, RefsCounted, RefsOf, LocalRefs
  <2> QED
    BY <2>1, <2>2 DEF IInv
<1>2. ASSUME NEW p \in Proc,
             \/ Call(p) \/ Close(p) \/ Walk(p) \/ PutCheck(p) \/ Release(p)
             \/ Create(p) \/ Created(p) \/ Open(p) \/ Chdir(p) \/ ChdirDone(p)
             \/ LinkOld(p) \/ LinkNew(p) \/ LinkBad(p)
             \/ Unlink(p) \/ UnlinkEntry(p) \/ UnlinkInode(p)
             \/ RenameOld(p) \/ RenameType(p) \/ RenameCycle(p) \/ RenameNew(p)
             \/ RenameReplace(p) \/ RenameEnter(p) \/ RenameClear(p) \/ RenameDotDot(p)
      PROVE  IInv'
  <2>1. CASE Call(p) \/ Close(p) \/ Walk(p) \/ PutCheck(p) \/ Release(p)
    BY <2>1, CallKeeps, CloseKeeps, WalkKeeps, PutCheckKeeps, ReleaseKeeps
  <2>2. CASE Create(p) \/ Created(p) \/ Open(p) \/ Chdir(p) \/ ChdirDone(p)
    BY <2>2, CreateKeeps, CreatedKeeps, OpenKeeps, ChdirKeeps, ChdirDoneKeeps
  <2>3. CASE LinkOld(p) \/ LinkNew(p) \/ LinkBad(p)
    BY <2>3, LinkOldKeeps, LinkNewKeeps, LinkBadKeeps
  <2>4. CASE Unlink(p) \/ UnlinkEntry(p) \/ UnlinkInode(p)
    BY <2>4, UnlinkKeeps, UnlinkEntryKeeps, UnlinkInodeKeeps
  <2>5. CASE RenameOld(p) \/ RenameType(p) \/ RenameCycle(p) \/ RenameNew(p)
    BY <2>5, RenameOldKeeps, RenameTypeKeeps, RenameCycleKeeps, RenameNewKeeps
  <2>6. CASE RenameReplace(p) \/ RenameEnter(p) \/ RenameClear(p) \/ RenameDotDot(p)
    BY <2>6, RenameReplaceKeeps, RenameEnterKeeps, RenameClearKeeps, RenameDotDotKeeps
  <2> QED
    BY <1>2, <2>1, <2>2, <2>3, <2>4, <2>5, <2>6
<1> QED
  BY <1>1, <1>2 DEF Next

\* Whatever calls run, interleave and fail in fs.c and sysfile.c, the inductive
\* invariant holds: types, which pointers a call holds where it is, that what it
\* has found to be a directory still is one, and the counts.
THEOREM Invariance == Spec => []IInv
<1>1. Init => IInv
  BY InitHolds
<1>2. IInv /\ [Next]_vars => IInv'
  BY Inductive
<1> QED
  BY <1>1, <1>2, PTL DEF Spec

\* No variable of the inode layer leaves its type: ip->ref never becomes negative,
\* a working directory is always an inode, and iput() is never called with a null
\* pointer (fs.c:291-366, sysfile.c:335-680).
THEOREM TypeCorrect == Spec => []TypeOK
<1>1. IInv => TypeOK
  BY DEF IInv
<1> QED
  BY <1>1, Invariance, PTL

\* ip->ref is exactly the number of open files, working directories and pointers
\* of running calls, on every path through open, mkdir, chdir, link, unlink and
\* rename, those that fail half way included (fs.c:122-127, sysfile.c:335-680).
THEOREM ReferencesCounted == Spec => []RefsCounted
<1>1. IInv => RefsCounted
  BY DEF IInv
<1> QED
  BY <1>1, Invariance, PTL

\* Only iput() takes an inode's type away.
LEMMA OnlyPutFrees ==
    ASSUME IInv, NEW p \in Proc, NEW i \in Inum, type[i] # "free", type'[i] = "free",
           \/ Call(p) \/ Close(p) \/ Walk(p) \/ PutCheck(p) \/ Release(p)
           \/ Create(p) \/ Created(p) \/ Open(p) \/ Chdir(p) \/ ChdirDone(p)
           \/ LinkOld(p) \/ LinkNew(p) \/ LinkBad(p)
           \/ Unlink(p) \/ UnlinkEntry(p) \/ UnlinkInode(p)
           \/ RenameOld(p) \/ RenameType(p) \/ RenameCycle(p) \/ RenameNew(p)
           \/ RenameReplace(p) \/ RenameEnter(p) \/ RenameClear(p) \/ RenameDotDot(p)
    PROVE  PutCheck(p)
<1>0. type' # type
  OBVIOUS
<1>1. ~ (Call(p) \/ Close(p) \/ Release(p))
  BY <1>0 DEF Call, Close, Release, disk
<1>2. ~ Walk(p)
  BY <1>0 DEF Walk, disk
<1>3. ~ Create(p)
  <2>1. SUFFICES ASSUME Create(p) PROVE FALSE
    OBVIOUS
  <2>2. PICK j \in Inum, t \in {"file", "dir"} : type' = [type EXCEPT ![j] = t]
    BY <1>0, <2>1 DEF Create, NewInum, disk
  <2> QED
    BY <2>2 DEF IInv, TypeOK
<1>4. ~ (Created(p) \/ Open(p) \/ Chdir(p) \/ ChdirDone(p))
  BY <1>0 DEF Created, Open, Chdir, ChdirDone, disk
<1>5. ~ (LinkOld(p) \/ LinkNew(p) \/ LinkBad(p))
  BY <1>0 DEF LinkOld, LinkNew, LinkBad, disk
<1>6. ~ (Unlink(p) \/ UnlinkEntry(p) \/ UnlinkInode(p))
  BY <1>0 DEF Unlink, UnlinkEntry, UnlinkInode, disk
<1>7. ~ (RenameOld(p) \/ RenameType(p) \/ RenameCycle(p) \/ RenameNew(p))
  BY <1>0 DEF RenameOld, RenameType, RenameCycle, RenameNew, disk
<1>8. ~ (RenameReplace(p) \/ RenameEnter(p) \/ RenameClear(p) \/ RenameDotDot(p))
  BY <1>0 DEF RenameReplace, RenameEnter, RenameClear, RenameDotDot, disk
<1> QED
  BY <1>1, <1>2, <1>3, <1>4, <1>5, <1>6, <1>7, <1>8

LEMMA FreesAloneStep ==
    ASSUME IInv, [Next]_vars, NEW i \in Inum, type[i] # "free", type'[i] = "free"
    PROVE  \E p \in Proc : /\ Owed(i, todo[p]) = 1 /\ RefsOf(p, i) = 1
                           /\ \A q \in Proc \ {p} : RefsOf(q, i) = 0
<1>1. PICK p \in Proc : PutCheck(p)
  <2>1. Next
    BY DEF vars
  <2>2. PICK p \in Proc : Plain(p) \/ Renames(p)
    BY <2>1 DEF Next, Plain, Renames
  <2>3. PutCheck(p)
    BY <2>2, OnlyPutFrees DEF Plain, Renames
  <2> QED
    BY <2>3
<1>2. todo[p] # <<>> /\ Head(todo[p]).op = "put"
  BY <1>1 DEF PutCheck
<1>3. Head(todo[p]).ino = i /\ ref[i] = 1
  <2>1. PICK j : j = Head(todo[p]).ino
    OBVIOUS
  <2>2. type' = type \/ (ref[j] = 1 /\ type' = [type EXCEPT ![j] = "free"])
    BY <1>1, <2>1 DEF PutCheck, Unreferenced
  <2> QED
    BY <2>1, <2>2 DEF IInv, TypeOK
<1>4. Owed(i, todo[p]) >= 1 /\ Owed(i, todo[p]) \in Nat
  BY <1>2, Types, OwedFirst, <1>3 DEF One
<1>5. RefsOf(p, i) >= Owed(i, todo[p]) /\ RefsOf(p, i) \in Nat
  <2>1. RefsOf(p, i) = Now(p, i) /\ RefsOf(p, i) \in Nat
    BY Types, RefsOfAt DEF Now
  <2> QED
    BY <1>4, <2>1, Pieces
<1>6. RefsOf(p, i) <= 1 /\ \A q \in Proc \ {p} : RefsOf(p, i) + RefsOf(q, i) <= 1
  BY <1>3, Types, RefsTerms
<1>7. Owed(i, todo[p]) = 1 /\ RefsOf(p, i) = 1
  BY <1>4, <1>5, <1>6
<1>8. ASSUME NEW q \in Proc \ {p} PROVE RefsOf(q, i) = 0
  BY Types, RefsOfAt, <1>6, <1>7
<1> QED
  BY <1>7, <1>8

\* An iput() that frees an inode puts the only reference there is (fs.c:339-350).
THEOREM FreedAlone == Spec => FreesAlone
<1>1. IInv /\ [Next]_vars =>
        [\A i \in Inum : type[i] # "free" /\ type'[i] = "free" =>
            \E p \in Proc : /\ Owed(i, todo[p]) = 1 /\ RefsOf(p, i) = 1
                            /\ \A q \in Proc \ {p} : RefsOf(q, i) = 0]_vars
  BY FreesAloneStep
<1> QED
  BY <1>1, Invariance, PTL DEF Spec, FreesAlone

-----------------------------------------------------------------------------
(* Sets that a step changes by one member *)

LEMMA OneMember ==
    ASSUME NEW S, IsFiniteSet(S), NEW T, NEW x, T \ {x} = S \ {x}
    PROVE  /\ IsFiniteSet(T) /\ Cardinality(T) = Cardinality(S) - In(x, S) + In(x, T)
           /\ Cardinality(S) \in Nat /\ Cardinality(T) \in Nat
<1>1. ASSUME NEW U, IsFiniteSet(U)
      PROVE  /\ IsFiniteSet(U \ {x}) /\ Cardinality(U) \in Nat
             /\ Cardinality(U) = Cardinality(U \ {x}) + In(x, U)
  <2>1. Cardinality(U) \in Nat /\ IsFiniteSet(U \ {x})
    BY <1>1, FS_CardinalityType, FS_RemoveElement
  <2>2. CASE x \in U
    BY <1>1, <2>2, FS_RemoveElement, <2>1 DEF In
  <2>3. CASE x \notin U
    BY <2>3, <2>1 DEF In
  <2> QED
    BY <2>2, <2>3
<1>2. IsFiniteSet(T)
  BY <1>1, FS_AddElement, FS_Subset
<1>3. Cardinality(S \ {x}) \in Nat
  BY <1>1, FS_CardinalityType
<1>4. Cardinality(S) = Cardinality(S \ {x}) + In(x, S) /\ Cardinality(S) \in Nat
  BY <1>1
<1>5. Cardinality(T) = Cardinality(T \ {x}) + In(x, T) /\ Cardinality(T) \in Nat
  BY <1>1, <1>2
<1>6. In(x, S) \in Nat /\ In(x, T) \in Nat
  BY DEF In
<1>7. Cardinality(T \ {x}) = Cardinality(S \ {x})
  OBVIOUS
<1> QED
  BY <1>2, <1>3, <1>4, <1>5, <1>6, <1>7

LEMMA SlotFinite ==
    IsFiniteSet(Slot) /\ IsFiniteSet(Inum \X Slot) /\ Cardinality(Name) \in Nat /\ IsFiniteSet(Inum)
<1>1. Cardinality(Name) \in Nat
  BY InodeAssumption, FS_CardinalityType
<1>2. IsFiniteSet(Slot)
  BY <1>1, FS_Interval DEF Slot
<1> QED
  BY <1>1, <1>2, InodeAssumption, FS_Product

LEMMA NamesFinite ==
    ASSUME NEW E, NEW i
    PROVE  IsFiniteSet(NamesIn(E, i)) /\ Cardinality(NamesIn(E, i)) \in Nat
<1>1. IsFiniteSet(NamesIn(E, i))
  BY SlotFinite, FS_Subset DEF NamesIn
<1> QED
  BY <1>1, FS_CardinalityType

LEMMA SubsFinite ==
    ASSUME NEW E, NEW t, NEW d
    PROVE  IsFiniteSet(SubsIn(E, t, d)) /\ Cardinality(SubsIn(E, t, d)) \in Nat
<1>1. IsFiniteSet(SubsIn(E, t, d))
  BY SlotFinite, FS_Subset DEF SubsIn
<1> QED
  BY <1>1, FS_CardinalityType

\* One slot of one directory changes.
LEMMA SlotSet ==
    ASSUME NEW E \in Entries, NEW d \in Inum, NEW s \in Slot, NEW e \in Entry, NEW t, NEW k \in Inum,
           NEW G \in Entries, G[d][s] = e, \A x \in Inum, y \in Slot : x # d \/ y # s => G[x][y] = E[x][y]
    PROVE  /\ Cardinality(NamesIn(G, k)) = Cardinality(NamesIn(E, k)) - Is(E[d][s].inum, k) + Is(e.inum, k)
           /\ Cardinality(SubsIn(G, t, k)) = Cardinality(SubsIn(E, t, k))
                  - (IF k = d THEN IsDir(t, E[d][s].inum) ELSE 0) + (IF k = d THEN IsDir(t, e.inum) ELSE 0)
<1>1. G \in Entries /\ G[d][s] = e /\ \A x \in Inum, y \in Slot : x # d \/ y # s => G[x][y] = E[x][y]
  OBVIOUS
<1>2. PICK x : x = <<d, s>>
  OBVIOUS
<1>3. NamesIn(G, k) \ {x} = NamesIn(E, k) \ {x}
  <2>1. ASSUME NEW y \in Inum \X Slot, y # x PROVE G[y[1]][y[2]] = E[y[1]][y[2]]
    BY <1>1, <1>2, <2>1
  <2> QED
    BY <2>1 DEF NamesIn
<1>4. In(x, NamesIn(G, k)) = Is(e.inum, k) /\ In(x, NamesIn(E, k)) = Is(E[d][s].inum, k)
  BY <1>1, <1>2 DEF In, Is, NamesIn
<1>5. Cardinality(NamesIn(G, k)) = Cardinality(NamesIn(E, k)) - Is(E[d][s].inum, k) + Is(e.inum, k)
  <2>1. PICK S, T : S = NamesIn(E, k) /\ T = NamesIn(G, k)
    OBVIOUS
  <2>2. Cardinality(T) = Cardinality(S) - In(x, S) + In(x, T)
    BY <1>3, <2>1, NamesFinite, OneMember
  <2> QED
    BY <1>4, <2>1, <2>2
<1>6. CASE k = d
  <2>1. SubsIn(G, t, k) \ {s} = SubsIn(E, t, k) \ {s}
    BY <1>1, <1>6 DEF SubsIn
  <2>2. In(s, SubsIn(G, t, k)) = IsDir(t, e.inum) /\ In(s, SubsIn(E, t, k)) = IsDir(t, E[d][s].inum)
    BY <1>1, <1>6 DEF In, IsDir, SubsIn
  <2>3. Cardinality(SubsIn(G, t, k)) = Cardinality(SubsIn(E, t, k)) - IsDir(t, E[d][s].inum) + IsDir(t, e.inum)
    <3>1. PICK S, T : S = SubsIn(E, t, k) /\ T = SubsIn(G, t, k)
      OBVIOUS
    <3>2. Cardinality(T) = Cardinality(S) - In(s, S) + In(s, T)
      BY <2>1, <3>1, SubsFinite, OneMember
    <3> QED
      BY <2>2, <3>1, <3>2
  <2> QED
    BY <1>1, <1>5, <1>6, <2>3
<1>7. CASE k # d
  <2>1. SubsIn(G, t, k) = SubsIn(E, t, k)
    BY <1>1, <1>7 DEF SubsIn
  <2> QED
    BY <1>1, <1>5, <1>7, <2>1, SubsFinite
<1> QED
  BY <1>6, <1>7

\* What a step does to the calls that are between a count and a name.
LEMMA PendingStep ==
    ASSUME TypeOK, NEW p \in Proc, NEW place, NEW l, NEW what, Goto(p, place, l, what), NEW i
    PROVE  /\ Cardinality(Pending(i)') = Cardinality(Pending(i))
                  - Awaits(pc[p], loc[p], i) + Awaits(place, l, i)
           /\ Pending(i)' \ {p} = Pending(i) \ {p}
           /\ p \in Pending(i)' <=> Pends(place, l, i)
<1>1. /\ pc'[p] = place /\ loc'[p] = l
      /\ \A q \in Proc \ {p} : pc'[q] = pc[q] /\ loc'[q] = loc[q]
  BY DEF Goto, TypeOK
<1>2. Pending(i)' \ {p} = Pending(i) \ {p}
  BY <1>1 DEF Pending
<1>3. p \in Pending(i)' <=> Pends(place, l, i)
  BY <1>1 DEF Pending, Pends
<1>4. p \in Pending(i) <=> Pends(pc[p], loc[p], i)
  BY DEF Pending, Pends
<1>5. IsFiniteSet(Pending(i))
  BY InodeAssumption, FS_Subset DEF Pending
<1>6. In(p, Pending(i)') = Awaits(place, l, i) /\ In(p, Pending(i)) = Awaits(pc[p], loc[p], i)
  BY <1>3, <1>4 DEF In, Awaits
<1>7. Cardinality(Pending(i)') = Cardinality(Pending(i)) - In(p, Pending(i)) + In(p, Pending(i)')
  <2>1. PICK S, T : S = Pending(i) /\ T = Pending(i)'
    OBVIOUS
  <2> QED
    BY <1>2, <1>5, <2>1, OneMember
<1> QED
  BY <1>2, <1>3, <1>6, <1>7

-----------------------------------------------------------------------------
(* Links and locks: what a step has to show *)

LEMMA JStep ==
    ASSUME TypeOK, JInv, NEW p \in Proc, NEW place, NEW l, NEW what, Goto(p, place, l, what),
           CallOK(place, l), TodoOK(place, l, what), LockMove(p, place, l, what),
           EntryOK(dir', type', place, l), EntriesStay(p), DiskInv'
    PROVE  JInv'
<1>1. /\ pc'[p] = place /\ loc'[p] = l /\ todo'[p] = what
      /\ \A q \in Proc \ {p} : pc'[q] = pc[q] /\ loc'[q] = loc[q] /\ todo'[q] = todo[q]
  BY DEF Goto, TypeOK
<1>2. CallInv'
  BY <1>1 DEF JInv, CallInv
<1>3. TodoInv'
  BY <1>1 DEF JInv, TodoInv
<1>4. LockInv'
  <2>1. ASSUME NEW q \in Proc, NEW i \in Inum
        PROVE  lock'[i] = q <=> HasLock(pc'[q], loc'[q], todo'[q], i)
    <3>1. CASE q = p
      BY <1>1, <3>1 DEF LockMove
    <3>2. CASE q # p
      BY <1>1, <3>2, InodeAssumption DEF JInv, LockInv, LockMove
    <3> QED
      BY <3>1, <3>2
  <2> QED
    BY <2>1 DEF LockInv
<1>5. EntryInv'
  BY <1>1 DEF EntriesStay, EntryInv
<1> QED
  BY <1>2, <1>3, <1>4, <1>5 DEF JInv, DiskInv

\* Nobody is between a count and a name of a free inode.
LEMMA PendingLive ==
    ASSUME TypeOK, JInv, NEW p \in Proc, NEW i \in Inum, Pends(pc[p], loc[p], i)
    PROVE  type[i] # "free"
<1>1. p \in Pending(i)
  BY DEF Pending, Pends
<1> QED
  BY <1>1 DEF JInv, LinkInv

\* The names stay; only a count may change, with the call that is about it.
LEMMA NlinkStep ==
    ASSUME TypeOK, JInv, NEW p \in Proc, NEW place, NEW l, NEW what, Goto(p, place, l, what),
           UNCHANGED <<type, dir, dotdot, gone>>,
           \A i \in Inum : Pends(place, l, i) => type[i] # "free",
           \A i \in Inum : nlink'[i] = nlink[i] - Awaits(pc[p], loc[p], i) + Awaits(place, l, i)
    PROVE  DiskInv' /\ EntriesStay(p)
<1>1. NamesInv' /\ FilesEmpty' /\ type'[Root] = "dir"
  BY DEF JInv, NamesInv, FilesEmpty
<1>2. OneParent' /\ NoCircle'
  BY DEF JInv, OneParent, NoCircle, NamedDirs, NamesOf
<1>3. EntriesStay(p)
  BY DEF JInv, EntryInv, EntriesStay
<1>4. ASSUME NEW i \in Inum
      PROVE  IF type'[i] = "free" THEN NamesOf(i)' = {} /\ Pending(i)' = {} /\ gone'[i] = 0
             ELSE nlink'[i] = LinksTo(i)'
  <2>1. NamesOf(i)' = NamesOf(i) /\ SubDirs(i)' = SubDirs(i)
    BY DEF NamesOf, SubDirs
  <2>2. Cardinality(Pending(i)') = Cardinality(Pending(i)) - Awaits(pc[p], loc[p], i) + Awaits(place, l, i)
        /\ Pending(i)' \ {p} = Pending(i) \ {p} /\ (p \in Pending(i)' <=> Pends(place, l, i))
    BY PendingStep
  <2>3. CASE type[i] = "free"
    BY <2>3, <2>2, <2>1 DEF JInv, LinkInv
  <2>4. CASE type[i] # "free"
    <3>1. nlink[i] = LinksTo(i)
      BY <2>4 DEF JInv, LinkInv
    <3>2. NamesOf(i) = NamesIn(dir, i) /\ SubDirs(i) = SubsIn(dir, type, i)
      BY DEF NamesOf, SubDirs, NamesIn, SubsIn
    <3>3. Cardinality(NamesOf(i)) \in Nat /\ Cardinality(SubDirs(i)) \in Nat
      BY <3>2, NamesFinite, SubsFinite
    <3>4. Cardinality(Pending(i)) \in Nat
      BY InodeAssumption, FS_Subset, FS_CardinalityType DEF Pending
    <3>5. gone[i] \in Nat /\ gone'[i] = gone[i] /\ Is(Root, i) \in Nat
      BY IsNat DEF TypeOK
    <3>6. Awaits(pc[p], loc[p], i) \in Nat /\ Awaits(place, l, i) \in Nat
      BY DEF Awaits
    <3>7. LinksTo(i)' = Cardinality(NamesOf(i)) + Cardinality(SubDirs(i)) + Cardinality(Pending(i)')
                        + gone[i] + Is(Root, i)
      BY <2>1, <3>5 DEF LinksTo
    <3>8. LinksTo(i) = Cardinality(NamesOf(i)) + Cardinality(SubDirs(i)) + Cardinality(Pending(i))
                        + gone[i] + Is(Root, i)
      BY DEF LinksTo
    <3>9. nlink'[i] = LinksTo(i)'
      BY <2>2, <3>1, <3>3, <3>4, <3>5, <3>6, <3>7, <3>8
    <3> QED
      BY <2>4, <3>9
  <2> QED
    BY <2>3, <2>4
<1> QED
  BY <1>1, <1>2, <1>3, <1>4 DEF DiskInv, LinkInv

\* Names and counts stay.
LEMMA SameLinks ==
    ASSUME TypeOK, JInv, NEW p \in Proc, NEW place, NEW l, NEW what, Goto(p, place, l, what),
           UNCHANGED <<type, nlink, dir, dotdot, gone>>,
           \A i \in Inum : Pends(place, l, i) <=> Pends(pc[p], loc[p], i)
    PROVE  DiskInv' /\ EntriesStay(p)
<1>1. \A i \in Inum : Pends(place, l, i) => type[i] # "free"
  BY PendingLive
<1>2. ASSUME NEW i \in Inum
      PROVE  nlink'[i] = nlink[i] - Awaits(pc[p], loc[p], i) + Awaits(place, l, i)
  BY DEF Awaits, TypeOK
<1> QED
  BY <1>1, <1>2, NlinkStep

-----------------------------------------------------------------------------
(* Locks of a call *)

LEMMA UnlocksIn ==
    ASSUME NEW i, NEW x, NEW y
    PROVE  /\ ~Unlocks(i, <<>>) /\ ~Unlocks(i, <<Put(x)>>) /\ ~Unlocks(i, <<Put(x), Put(y)>>)
           /\ Unlocks(i, <<Put(x), Unlock(y), Put(y)>>) <=> i = y
<1>1. /\ DOMAIN <<>> = {} /\ DOMAIN <<Put(x)>> = {1} /\ DOMAIN <<Put(x), Put(y)>> = {1, 2}
      /\ DOMAIN <<Put(x), Unlock(y), Put(y)>> = {1, 2, 3}
  OBVIOUS
<1>2. Put(x) # Unlock(i) /\ Put(y) # Unlock(i) /\ (Unlock(y) = Unlock(i) <=> i = y)
  BY DEF Put, Unlock
<1> QED
  BY <1>1, <1>2 DEF Unlocks

LEMMA TodoShapes ==
    ASSUME NEW place, NEW l, NEW x, NEW y
    PROVE  /\ TodoOK(place, l, <<>>) /\ TodoOK(place, l, <<Put(x)>>)
           /\ TodoOK(place, l, <<Put(x), Put(y)>>)
           /\ LockedAt(place, l) = NoInum => TodoOK(place, l, <<Put(x), Unlock(y), Put(y)>>)
<1>1. /\ DOMAIN <<>> = {} /\ DOMAIN <<Put(x)>> = {1} /\ DOMAIN <<Put(x), Put(y)>> = {1, 2}
      /\ DOMAIN <<Put(x), Unlock(y), Put(y)>> = {1, 2, 3}
  OBVIOUS
<1>2. Put(x).op = "put" /\ Put(y).op = "put"
  BY DEF Put
<1> QED
  BY <1>1, <1>2 DEF TodoOK

\* A step that neither has a lock before nor after.
LEMMA Unlocked ==
    ASSUME JInv, NEW p \in Proc, NEW place, NEW l, NEW what, UNCHANGED lock, todo[p] = <<>>,
           LockedAt(pc[p], loc[p]) = NoInum, LockedAt(place, l) = NoInum,
           \A i \in Inum : ~Unlocks(i, what)
    PROVE  LockMove(p, place, l, what)
<1>1. NoInum \notin Inum
  BY InodeAssumption
<1>2. ASSUME NEW i \in Inum PROVE lock[i] # p
  <2>1. ~Unlocks(i, todo[p])
    BY UnlocksIn
  <2> QED
    BY <1>1, <2>1 DEF JInv, LockInv, HasLock
<1> QED
  BY <1>1, <1>2 DEF LockMove, HasLock

\* A step from lock to lock that changes nothing on the disk.
LEMMA PlainStep ==
    ASSUME TypeOK, JInv, NEW p \in Proc, NEW place, NEW l, NEW what, Goto(p, place, l, what),
           UNCHANGED <<disk, lock>>, todo[p] = <<>>,
           LockedAt(pc[p], loc[p]) = NoInum, LockedAt(place, l) = NoInum,
           \A i \in Inum : ~Unlocks(i, what), TodoOK(place, l, what),
           \A i \in Inum : Pends(place, l, i) <=> Pends(pc[p], loc[p], i),
           CallOK(place, l), EntryOK(dir, type, place, l)
    PROVE  JInv'
<1>1. UNCHANGED <<type, nlink, dir, dotdot, gone>>
  BY DEF disk
<1>2. DiskInv' /\ EntriesStay(p)
  BY <1>1, SameLinks
<1>3. LockMove(p, place, l, what)
  BY Unlocked
<1>4. EntryOK(dir', type', place, l)
  BY <1>1
<1> QED
  BY <1>2, <1>3, <1>4, JStep

\* Where a call comes back to.
LEMMA Returns ==
    ASSUME NEW p \in Proc, NEW what, Return(p, what)
    PROVE  \E place \in {"user", "return"} :
               /\ Goto(p, place, NoCall, what) /\ CallOK(place, NoCall)
               /\ LockedAt(place, NoCall) = NoInum /\ EntryOK(dir', type', place, NoCall)
               /\ EntryOK(dir, type, place, NoCall)
               /\ \A i \in Inum : ~Pends(place, NoCall, i)
<1>1. PICK place \in {"user", "return"} : Goto(p, place, NoCall, what)
  BY DEF Return
<1>2. CallOK(place, NoCall) /\ LockedAt(place, NoCall) = NoInum
  BY DEF CallOK, Going, LockedAt
<1>3. EntryOK(dir', type', place, NoCall) /\ EntryOK(dir, type, place, NoCall)
  BY DEF EntryOK, Walks
<1>4. \A i \in Inum : ~Pends(place, NoCall, i)
  BY InodeAssumption DEF Pends, NoCall
<1> QED
  BY <1>1, <1>2, <1>3, <1>4

LEMMA PlainReturn ==
    ASSUME TypeOK, JInv, NEW p \in Proc, NEW what, Return(p, what),
           UNCHANGED <<disk, lock>>, todo[p] = <<>>, LockedAt(pc[p], loc[p]) = NoInum,
           \A i \in Inum : ~Unlocks(i, what), \A place : TodoOK(place, NoCall, what),
           \A i \in Inum : ~Pends(pc[p], loc[p], i)
    PROVE  JInv'
<1>1. PICK place \in {"user", "return"} :
               /\ Goto(p, place, NoCall, what) /\ CallOK(place, NoCall)
               /\ LockedAt(place, NoCall) = NoInum /\ EntryOK(dir, type, place, NoCall)
               /\ \A i \in Inum : ~Pends(place, NoCall, i)
  BY Returns
<1> QED
  BY <1>1, PlainStep

LEMMA JTypes ==
    ASSUME JInv, NEW p \in Proc
    PROVE  CallOK(pc[p], loc[p]) /\ TodoOK(pc[p], loc[p], todo[p]) /\ EntryOK(dir, type, pc[p], loc[p])
           /\ NoInum \notin Inum
  BY InodeAssumption DEF JInv, CallInv, TodoInv, EntryInv

-----------------------------------------------------------------------------
(* Links and locks: one lemma for each action *)

LEMMA CallLinks ==
    ASSUME IInv, JInv, NEW p \in Proc, Call(p), ~Begins(p)
    PROVE  JInv'
<1>1. PICK c \in Calls[p] :
        /\ ~Running(p)
        /\ Goto(p, "walk", [NoCall EXCEPT !.call = c.call, !.then = First(c.call),
                                         !.at = Start(p, c.path), !.path = c.path.elems,
                                         !.path2 = c.path2], <<>>)
        /\ UNCHANGED <<disk, lock>>
  BY DEF Call
<1>2. PICK l : l = [NoCall EXCEPT !.call = c.call, !.then = First(c.call), !.at = Start(p, c.path),
                                  !.path = c.path.elems, !.path2 = c.path2]
  OBVIOUS
<1>4. l.call = c.call /\ l.then = First(c.call) /\ l.ip = NoInum
  BY <1>2 DEF NoCall
<1>3. c.call \in Habit /\ c.call \notin {"rename", "rename_alone"}
  BY <1>1, <1>2, Types, <1>4, InodeAssumption DEF Goto, TypeOK, Begins
<1>5. pc[p] = "user" /\ todo[p] = <<>> /\ loc[p] = NoCall
  BY <1>1, Types, JTypes DEF Running, PlaceOK, CallOK, Going
<1>6. CallOK("walk", l) /\ EntryOK(dir, type, "walk", l) /\ LockedAt("walk", l) = NoInum
  BY <1>3, <1>4 DEF CallOK, Going, EntryOK, Walks, LockedAt, First, Habit
<1>7. \A i \in Inum : Pends("walk", l, i) <=> Pends(pc[p], loc[p], i)
  BY <1>4, <1>5, JTypes DEF Pends, NoCall
<1>8. LockedAt(pc[p], loc[p]) = NoInum
  BY <1>5 DEF LockedAt
<1>9. (\A i \in Inum : ~Unlocks(i, <<>>)) /\ TodoOK("walk", l, <<>>)
  BY UnlocksIn, TodoShapes
<1> QED
  BY <1>1, <1>2, <1>5, <1>6, <1>7, <1>8, <1>9, Types, PlainStep

LEMMA CloseLinks ==
    ASSUME IInv, JInv, NEW p \in Proc, Close(p)
    PROVE  JInv'
<1>1. pc[p] = "user" /\ Return(p, <<Put(fd[p])>>) /\ UNCHANGED <<disk, lock>>
  BY DEF Close
<1>2. todo[p] = <<>> /\ loc[p] = NoCall
  BY <1>1, Types, JTypes DEF PlaceOK, CallOK, Going
<1>3. LockedAt(pc[p], loc[p]) = NoInum /\ \A i \in Inum : ~Pends(pc[p], loc[p], i)
  BY <1>1, <1>2, JTypes DEF LockedAt, Pends, NoCall
<1>4. (\A i \in Inum : ~Unlocks(i, <<Put(fd[p])>>)) /\ \A place : TodoOK(place, NoCall, <<Put(fd[p])>>)
  BY UnlocksIn, TodoShapes
<1> QED
  BY <1>1, <1>2, <1>3, <1>4, Types, PlainReturn

LEMMA ReleaseLinks ==
    ASSUME IInv, JInv, NEW p \in Proc, Release(p)
    PROVE  JInv'
<1>1. PICK h : h = Head(todo[p])
  OBVIOUS
<1>2. /\ todo[p] # <<>> /\ h.op # "put"
      /\ \/ h.op = "drop" /\ UNCHANGED lock
         \/ h.op # "drop" /\ lock' = [lock EXCEPT ![h.ino] = NoProc]
      /\ todo' = [todo EXCEPT ![p] = Tail(todo[p])]
      /\ UNCHANGED <<disk, loc>>
  BY <1>1, Types DEF Release, TypeOK
<1>3. h \in Todo /\ Tail(todo[p]) \in Seq(Todo)
  BY <1>1, <1>2, Types
<1>4. PICK place : /\ pc' = [pc EXCEPT ![p] = place]
                   /\ place = pc[p] \/ (place = "user" /\ pc[p] = "return")
  BY DEF Release
<1>5. Goto(p, place, loc[p], Tail(todo[p]))
  BY <1>2, <1>4, Types DEF Goto, TypeOK
<1>6. /\ CallOK(place, loc[p]) /\ LockedAt(place, loc[p]) = LockedAt(pc[p], loc[p])
      /\ EntryOK(dir, type, place, loc[p])
      /\ \A i \in Inum : Pends(place, loc[p], i) <=> Pends(pc[p], loc[p], i)
  BY <1>4, JTypes DEF CallOK, Going, LockedAt, EntryOK, Walks, Pends
<1>7. DiskInv' /\ EntriesStay(p) /\ EntryOK(dir', type', place, loc[p])
  BY <1>2, <1>5, <1>6, Types, SameLinks DEF disk
<1>8. PICK n \in Nat : /\ DOMAIN todo[p] = 1..n + 1 /\ DOMAIN Tail(todo[p]) = 1..n
                       /\ todo[p][1] = h /\ \A k \in 1..n : Tail(todo[p])[k] = todo[p][k + 1]
  <2>1. Len(todo[p]) \in Nat /\ Len(todo[p]) # 0
    BY <1>2, Types
  <2>2. PICK n \in Nat : Len(todo[p]) = n + 1
    BY <2>1
  <2>3. DOMAIN todo[p] = 1..Len(todo[p]) /\ todo[p][1] = h
    BY <1>1, <1>2, Types
  <2>4. DOMAIN Tail(todo[p]) = 1..Len(todo[p]) - 1
    BY <1>2, Types
  <2>5. \A k \in 1..Len(todo[p]) - 1 : Tail(todo[p])[k] = todo[p][k + 1]
    BY <1>2, Types
  <2>6. Len(todo[p]) - 1 = n
    BY <2>2
  <2> QED
    BY <2>2, <2>3, <2>4, <2>5, <2>6
<1>9. TodoOK(place, loc[p], Tail(todo[p]))
  <2>1. ASSUME NEW k \in 1..n, NEW m \in 1..n, Tail(todo[p])[k].op = "unlock", Tail(todo[p])[m].op = "unlock"
        PROVE  k = m
    BY <1>8, <2>1, JTypes DEF TodoOK
  <2>2. ASSUME NEW k \in 1..n, LockedAt(place, loc[p]) # NoInum
        PROVE  Tail(todo[p])[k].op # "unlock"
    BY <1>8, <1>6, <2>2, JTypes DEF TodoOK
  <2> QED
    BY <1>8, <2>1, <2>2 DEF TodoOK
<1>10. ASSUME NEW i
       PROVE  Unlocks(i, todo[p]) <=> h = Unlock(i) \/ Unlocks(i, Tail(todo[p]))
  <2>1. ASSUME NEW k \in 1..n + 1, todo[p][k] = Unlock(i), k # 1
        PROVE  Unlocks(i, Tail(todo[p]))
    <3>1. k - 1 \in 1..n /\ (k - 1) + 1 = k
      BY <2>1
    <3>2. Tail(todo[p])[k - 1] = Unlock(i)
      BY <1>8, <2>1, <3>1
    <3> QED
      BY <1>8, <3>1, <3>2 DEF Unlocks
  <2>2. ASSUME NEW k \in 1..n, Tail(todo[p])[k] = Unlock(i)
        PROVE  Unlocks(i, todo[p])
    BY <1>8, <2>2 DEF Unlocks
  <2>3. 1 \in 1..n + 1
    OBVIOUS
  <2>4. h = Unlock(i) => Unlocks(i, todo[p])
    BY <1>8, <2>3 DEF Unlocks
  <2>5. Unlocks(i, todo[p]) => h = Unlock(i) \/ Unlocks(i, Tail(todo[p]))
    BY <1>8, <2>1 DEF Unlocks
  <2>6. Unlocks(i, Tail(todo[p])) => Unlocks(i, todo[p])
    BY <1>8, <2>2 DEF Unlocks
  <2> QED
    BY <2>4, <2>5, <2>6
<1>11. LockMove(p, place, loc[p], Tail(todo[p]))
  <2>1. ASSUME NEW i \in Inum PROVE lock[i] = p <=> HasLock(pc[p], loc[p], todo[p], i)
    BY DEF JInv, LockInv
  <2>2. CASE h.op = "drop"
    BY <2>2, <1>2, <1>6, <1>10, <2>1 DEF Unlock, LockMove, HasLock
  <2>3. CASE h.op # "drop"
    <3>1. h = Unlock(h.ino) /\ h.op = "unlock" /\ h.ino \in Inum
      BY <1>2, <1>3, <2>3 DEF Todo, Unlock
    <3>2. 1 \in 1..n + 1 /\ \A k \in 1..n : k + 1 \in 1..n + 1 /\ k + 1 # 1
      OBVIOUS
    <3>3. LockedAt(place, loc[p]) = NoInum
      BY <1>6, <1>8, <3>1, <3>2, JTypes DEF TodoOK
    <3>4. \A i : ~Unlocks(i, Tail(todo[p]))
      <4>1. ASSUME NEW k \in 1..n PROVE Tail(todo[p])[k].op # "unlock"
        BY <1>8, <3>1, <3>2, JTypes DEF TodoOK
      <4> QED
        BY <1>8, <4>1 DEF Unlocks, Unlock
    <3>5. ASSUME NEW i \in Inum PROVE lock[i] = p <=> i = h.ino
      BY <3>1, <1>6, <1>10, <2>1, <3>3, <3>4, JTypes DEF Unlock, HasLock
    <3>6. ASSUME NEW i \in Inum PROVE lock'[i] = IF i = h.ino THEN NoProc ELSE lock[i]
      BY <1>2, <2>3, Types, SMTT(20) DEF TypeOK
    <3>7. NoProc # p /\ \A i \in Inum : ~HasLock(place, loc[p], Tail(todo[p]), i)
      BY <3>3, <3>4, InodeAssumption, JTypes DEF HasLock
    <3>8. ASSUME NEW i \in Inum
          PROVE  (lock'[i] = p <=> FALSE) /\ (lock'[i] = lock[i] \/ {lock[i], lock'[i]} \subseteq {p, NoProc})
      BY <3>5, <3>6, <3>7
    <3> QED
      BY <3>7, <3>8 DEF LockMove
  <2> QED
    BY <2>2, <2>3
<1> QED
  BY <1>5, <1>6, <1>7, <1>9, <1>11, Types, JStep

LEMMA WalkLinks ==
    ASSUME IInv, JInv, NEW p \in Proc, Walk(p)
    PROVE  JInv'
<1>1. PICK l : l = loc[p]
  OBVIOUS
<1>2. /\ pc[p] = "walk" /\ todo[p] = <<>> /\ CallOK("walk", l) /\ l.then \in Lookups /\ l.ip \in Pointer
      /\ UNCHANGED <<disk, lock>>
  BY <1>1, Types, JTypes DEF Walk, Locks, At, Local, PlaceOK
<1>3. LockedAt(pc[p], loc[p]) = NoInum
  BY <1>2 DEF LockedAt
<1>4. ASSUME WalkFails(p) PROVE JInv'
  <2>1. CASE l.then = "link2"
    <3>1. PICK k : k = [l EXCEPT !.at = l.ip]
      OBVIOUS
    <3>2. Goto(p, "linkbad", k, <<Put(l.at)>>)
      BY <1>1, <1>4, <2>1, <3>1 DEF WalkFails
    <3>3. k.call = l.call /\ k.ip = l.ip /\ k.at = l.ip
      BY <1>1, <3>1, Types DEF Local
    <3>4. CallOK("linkbad", k) /\ EntryOK(dir, type, "linkbad", k) /\ LockedAt("linkbad", k) = NoInum
      BY <1>1, <1>2, <2>1, <3>3, JTypes DEF CallOK, Going, EntryOK, Walks, LockedAt
    <3>5. \A i \in Inum : Pends("linkbad", k, i) <=> Pends(pc[p], loc[p], i)
      BY <1>1, <1>2, <3>3 DEF Pends
    <3>6. (\A i \in Inum : ~Unlocks(i, <<Put(l.at)>>)) /\ TodoOK("linkbad", k, <<Put(l.at)>>)
      BY UnlocksIn, TodoShapes
    <3> QED
      BY <1>2, <1>3, <3>2, <3>4, <3>5, <3>6, Types, PlainStep
  <2>2. CASE l.then # "link2"
    <3>1. Return(p, <<Put(l.at)>>)
      BY <1>1, <1>2, <1>4, <2>2 DEF WalkFails, CallOK, Going
    <3>2. l.call = "link" => l.ip = NoInum
      BY <1>2, <2>2 DEF CallOK, Going, Lookups
    <3>4. \A i \in Inum : ~Pends(pc[p], loc[p], i)
      BY <1>1, <1>2, <3>2, JTypes DEF Pends
    <3>3. (\A i \in Inum : ~Unlocks(i, <<Put(l.at)>>)) /\ \A place : TodoOK(place, NoCall, <<Put(l.at)>>)
      BY UnlocksIn, TodoShapes
    <3> QED
      BY <1>2, <1>3, <3>1, <3>3, <3>4, Types, PlainReturn
  <2> QED
    BY <2>1, <2>2
<1>5. ASSUME NEW place \in {"walk", l.then}, NEW k, NEW what, Goto(p, place, k, what),
             k.call = l.call, k.ip = l.ip, k.then = l.then, what = <<>> \/ what = <<Put(l.at)>>
      PROVE  JInv'
  <2>1. CallOK(place, k) /\ EntryOK(dir, type, place, k) /\ LockedAt(place, k) = NoInum
    <3>1. Going(place, k) = l.then
      BY <1>2, <1>5 DEF Going, Lookups
    <3>2. l.then \notin {"user", "return", "linkbad", "unlink2", "created", "unlink3"}
      BY <1>2 DEF Lookups
    <3>3. CallOK(place, k)
      BY <1>2, <1>5, <3>1, <3>2 DEF CallOK, Going
    <3>4. EntryOK(dir, type, place, k)
      BY <1>1, <1>2, <1>5, <3>2, JTypes DEF EntryOK, Walks
    <3> QED
      BY <3>2, <3>3, <3>4 DEF LockedAt
  <2>2. \A i \in Inum : Pends(place, k, i) <=> Pends(pc[p], loc[p], i)
    BY <1>1, <1>2, <1>5 DEF Pends, Lookups
  <2>3. (\A i \in Inum : ~Unlocks(i, what)) /\ TodoOK(place, k, what)
    <3>1. CASE what = <<>>
      BY <3>1, UnlocksIn, TodoShapes
    <3>2. CASE what = <<Put(l.at)>>
      BY <3>2, UnlocksIn, TodoShapes
    <3> QED
      BY <1>5, <3>1, <3>2
  <2> QED
    BY <1>2, <1>3, <1>5, <2>1, <2>2, <2>3, Types, PlainStep
<1>6. \/ WalkFails(p)
      \/ \E k : Goto(p, l.then, [l EXCEPT !.name = k, !.path = <<>>], <<>>)
      \/ \E x, path, place : /\ place \in {"walk", l.then}
                             /\ Goto(p, place, [l EXCEPT !.at = x, !.path = path], <<Put(l.at)>>)
  BY <1>1 DEF Walk
<1>7. ASSUME NEW k, Goto(p, l.then, [l EXCEPT !.name = k, !.path = <<>>], <<>>)
      PROVE  JInv'
  <2>1. PICK m : m = [l EXCEPT !.name = k, !.path = <<>>]
    OBVIOUS
  <2>2. m.call = l.call /\ m.ip = l.ip /\ m.then = l.then
    BY <1>1, <2>1, Types DEF Local
  <2> QED
    BY <1>5, <1>7, <2>1, <2>2
<1>8. ASSUME NEW x, NEW path, NEW place \in {"walk", l.then},
             Goto(p, place, [l EXCEPT !.at = x, !.path = path], <<Put(l.at)>>)
      PROVE  JInv'
  <2>1. PICK m : m = [l EXCEPT !.at = x, !.path = path]
    OBVIOUS
  <2>2. m.call = l.call /\ m.ip = l.ip /\ m.then = l.then
    BY <1>1, <2>1, Types DEF Local
  <2> QED
    BY <1>5, <1>8, <2>1, <2>2
<1> QED
  BY <1>4, <1>6, <1>7, <1>8

-----------------------------------------------------------------------------
(* iput() *)

\* A directory loses all its entries.
LEMMA ClearDir ==
    ASSUME NEW E \in Entries, NEW j \in Inum, NEW G \in Entries, G[j] = NoEntries,
           \A d \in Inum : d # j => G[d] = E[d], NEW i \in Inum, NEW T, T = SlotsOf(E, j, i)
    PROVE  /\ NamesIn(G, i) = NamesIn(E, i) \ ({j} \X Slot)
           /\ Cardinality(NamesIn(G, i)) + Cardinality(T) = Cardinality(NamesIn(E, i))
           /\ Cardinality(T) \in Nat
<1>1. G[j] = NoEntries /\ \A d \in Inum : d # j => G[d] = E[d]
  OBVIOUS
<1>2. \A s \in Slot : NoEntries[s].inum # i
  BY InodeAssumption DEF NoEntries, Empty
<1>3. NamesIn(G, i) = NamesIn(E, i) \ ({j} \X Slot)
  BY <1>1, <1>2 DEF NamesIn
<1>4. PICK X : X = {j} \X T
  OBVIOUS
<1>5. NamesIn(E, i) = NamesIn(G, i) \cup X /\ NamesIn(G, i) \cap X = {}
  BY <1>3, <1>4 DEF NamesIn, SlotsOf
<1>6. IsFiniteSet(T) /\ Cardinality(T) \in Nat
  BY SlotFinite, FS_Subset, FS_CardinalityType DEF SlotsOf
<1>7. IsFiniteSet(X) /\ Cardinality(X) = Cardinality(T)
  <2>1. IsFiniteSet({j}) /\ Cardinality({j}) = 1
    BY FS_Singleton
  <2>2. IsFiniteSet(X) /\ Cardinality(X) = Cardinality({j}) * Cardinality(T)
    BY <1>4, <1>6, <2>1, FS_Product
  <2> QED
    BY <1>6, <2>1, <2>2
<1>8. Cardinality(NamesIn(G, i) \cup X) = Cardinality(NamesIn(G, i)) + Cardinality(X) - Cardinality(NamesIn(G, i) \cap X)
  BY <1>7, NamesFinite, FS_Union
<1>9. Cardinality(NamesIn(G, i) \cap X) = 0 /\ Cardinality(NamesIn(G, i)) \in Nat
  BY <1>5, NamesFinite, FS_EmptySet
<1>10. Cardinality(NamesIn(E, i)) = Cardinality(NamesIn(G, i) \cup X)
  BY <1>5
<1>11. Cardinality(NamesIn(G, i)) + Cardinality(T) = Cardinality(NamesIn(E, i))
  BY <1>6, <1>7, <1>8, <1>9, <1>10
<1> QED
  BY <1>3, <1>6, <1>11

LEMMA ClearNames ==
    ASSUME IInv, NEW j \in Inum, dir' = [dir EXCEPT ![j] = NoEntries], NEW i \in Inum
    PROVE  /\ Cardinality(NamesIn(dir', i)) + Cardinality(SlotsOf(dir, j, i)) = Cardinality(NamesIn(dir, i))
           /\ Cardinality(SlotsOf(dir, j, i)) \in Nat
<1>1. PICK E, G, T : E = dir /\ G = dir' /\ T = SlotsOf(dir, j, i)
  OBVIOUS
<1>2. NoEntries \in [Slot -> [name : Name \cup {"."}, inum : Inum \cup {NoInum}]]
  BY DEF NoEntries, Empty
<1>4. E \in Entries /\ G \in Entries /\ T = SlotsOf(E, j, i)
  BY <1>1, <1>2 DEF IInv, TypeOK, Entries
<1>5. G[j] = NoEntries /\ \A d \in Inum : d # j => G[d] = E[d]
  BY <1>1, <1>4 DEF Entries
<1>3. Cardinality(NamesIn(G, i)) + Cardinality(T) = Cardinality(NamesIn(E, i)) /\ Cardinality(T) \in Nat
  BY <1>4, <1>5, ClearDir
<1> QED
  BY <1>1, <1>3

\* What has no links has no name, no child and no call that is about to give it one.
LEMMA NoLinks ==
    ASSUME IInv, JInv, NEW j \in Inum, type[j] # "free", nlink[j] = 0
    PROVE  NamesOf(j) = {} /\ SubDirs(j) = {} /\ Pending(j) = {} /\ j # Root
<1>1. NamesOf(j) = NamesIn(dir, j) /\ SubDirs(j) = SubsIn(dir, type, j)
  BY DEF NamesOf, NamesIn, SubDirs, SubsIn
<1>2. IsFiniteSet(NamesOf(j)) /\ IsFiniteSet(SubDirs(j)) /\ IsFiniteSet(Pending(j))
  BY <1>1, NamesFinite, SubsFinite, InodeAssumption, FS_Subset DEF Pending
<1>3. /\ Cardinality(NamesOf(j)) \in Nat /\ Cardinality(SubDirs(j)) \in Nat
      /\ Cardinality(Pending(j)) \in Nat /\ gone[j] \in Nat /\ Is(Root, j) \in Nat
  BY <1>2, FS_CardinalityType, IsNat DEF IInv, TypeOK
<1>4. 0 = Cardinality(NamesOf(j)) + Cardinality(SubDirs(j)) + Cardinality(Pending(j)) + gone[j] + Is(Root, j)
  BY DEF JInv, LinkInv, LinksTo
<1>5. Cardinality(NamesOf(j)) = 0 /\ Cardinality(SubDirs(j)) = 0 /\ Cardinality(Pending(j)) = 0 /\ Is(Root, j) = 0
  BY <1>3, <1>4
<1> QED
  BY <1>2, <1>5, FS_EmptySet DEF Is

\* An inode nobody has locked is in no entry that somebody is about to clear.
LEMMA FreeUnlinks ==
    ASSUME IInv, JInv, NEW q \in Proc, NEW j \in Inum, Free(j), pc[q] = "unlink2"
    PROVE  loc[q].dp # j
<1>1. CASE loc[q].dp = j
  BY <1>1, InodeAssumption DEF HasLock, LockedAt, JInv, LockInv, Free
<1> QED
  BY <1>1

LEMMA FreesLinks ==
    ASSUME IInv, JInv, NEW p \in Proc, NEW j \in Inum, type[j] # "free", nlink[j] = 0, Free(j),
           UNCHANGED <<nlink, pc, loc>>,
           type' = [type EXCEPT ![j] = "free"], dir' = [dir EXCEPT ![j] = NoEntries],
           dotdot' = [dotdot EXCEPT ![j] = NoInum],
           gone' = [k \in Inum |-> IF k = j THEN 0 ELSE
                       gone[k] + Cardinality({s \in Slot : dir[j][s].inum = k})]
    PROVE  DiskInv' /\ \A q \in Proc : EntryOK(dir', type', pc[q], loc[q])
<1>1. NamesOf(j) = {} /\ SubDirs(j) = {} /\ Pending(j) = {} /\ j # Root
  BY NoLinks
<1>2. /\ type'[j] = "free" /\ dir'[j] = NoEntries /\ gone'[j] = 0 /\ dir' \in Entries /\ dir \in Entries
      /\ \A i \in Inum : i # j => type'[i] = type[i] /\ dir'[i] = dir[i] /\ dotdot'[i] = dotdot[i]
  BY DEF NoEntries, Empty, IInv, TypeOK, Entries
<1>3. ASSUME NEW d \in Inum, NEW s \in Slot PROVE dir[d][s].inum # j
  <2>1. <<d, s>> \notin NamesOf(j)
    BY <1>1
  <2> QED
    BY <2>1 DEF NamesOf
<1>4. NoInum \notin Inum /\ Root \in Inum /\ \A s \in Slot : NoEntries[s] = Empty
  BY InodeAssumption, RootType DEF NoEntries
<1>5. NamesInv' /\ FilesEmpty' /\ type'[Root] = "dir"
  <2>1. NamesInv'
    <3>1. ASSUME NEW d \in Inum, NEW s \in Slot
          PROVE  /\ dir'[d][s].inum = NoInum <=> dir'[d][s] = Empty
                 /\ dir'[d][s].inum # NoInum => dir'[d][s].name \in Name
                 /\ \A t \in Slot : dir'[d][s].inum # NoInum /\ dir'[d][t].name = dir'[d][s].name => t = s
      <4>1. CASE d = j
        BY <1>2, <1>4, <4>1 DEF Empty
      <4>2. CASE d # j
        BY <1>2, <4>2 DEF JInv, NamesInv
      <4> QED
        BY <4>1, <4>2
    <3> QED
      BY <3>1 DEF NamesInv
  <2>2. FilesEmpty'
    BY <1>2 DEF JInv, FilesEmpty
  <2> QED
    BY <1>1, <1>2, <1>4, <2>1, <2>2 DEF JInv
<1>6. \A i \in Inum : NamesOf(i)' \subseteq NamesOf(i) /\ \A e \in NamesOf(i)' : e[1] # j
  BY <1>2, <1>4 DEF NamesOf, Empty
<1>7. OneParent'
  <2>1. ASSUME NEW d \in Inum, NEW s \in Slot, NEW i, i = dir'[d][s].inum, i # NoInum, type'[i] = "dir"
        PROVE  i # Root /\ dotdot'[i] = d /\ NamesOf(i)' = {<<d, s>>}
    <3>1. d # j /\ i = dir[d][s].inum /\ i \in Inum
      BY <1>2, <1>4, <2>1 DEF Empty, Entries
    <3>2. i # j /\ type[i] = "dir"
      BY <1>2, <2>1, <3>1
    <3>3. i # Root /\ dotdot[i] = d /\ NamesOf(i) = {<<d, s>>}
      BY <2>1, <3>1, <3>2 DEF JInv, OneParent
    <3>4. <<d, s>> \in NamesOf(i)'
      BY <2>1 DEF NamesOf
    <3> QED
      BY <1>2, <1>6, <3>1, <3>2, <3>3, <3>4
  <2> QED
    BY <2>1 DEF OneParent
<1>8. NoCircle'
  <2>1. NamedDirs' \subseteq NamedDirs \ {j}
    BY <1>2, <1>6 DEF NamedDirs
  <2>2. ASSUME NEW S \in SUBSET NamedDirs', S # {} PROVE \E i \in S : dotdot'[i] \notin S
    <3>1. PICK i \in S : dotdot[i] \notin S
      BY <2>1, <2>2 DEF JInv, NoCircle
    <3> QED
      BY <1>2, <2>1, <3>1 DEF NamedDirs
  <2> QED
    BY <2>2 DEF NoCircle
<1>9. LinkInv'
  <2>1. ASSUME NEW i \in Inum
        PROVE  IF type'[i] = "free" THEN NamesOf(i)' = {} /\ Pending(i)' = {} /\ gone'[i] = 0
               ELSE nlink'[i] = LinksTo(i)'
    <3>1. Pending(i)' = Pending(i)
      BY DEF Pending
    <3>2. CASE i = j
      BY <1>1, <1>2, <1>6, <3>1, <3>2
    <3>3. CASE i # j
      <4>1. PICK T : T = SlotsOf(dir, j, i)
        OBVIOUS
      <4>2. gone'[i] = gone[i] + Cardinality(T) /\ gone[i] \in Nat
        BY <3>3, <4>1 DEF IInv, TypeOK, SlotsOf
      <4>3. /\ Cardinality(NamesIn(dir', i)) + Cardinality(T) = Cardinality(NamesIn(dir, i))
            /\ Cardinality(T) \in Nat
        BY <4>1, ClearNames
      <4>4. Cardinality(NamesIn(dir', i)) \in Nat /\ Cardinality(NamesIn(dir, i)) \in Nat
        BY NamesFinite
      <4>5. CASE type[i] = "free"
        <5>1. NamesOf(i) = {} /\ Pending(i) = {} /\ gone[i] = 0
          BY <4>5 DEF JInv, LinkInv
        <5>2. ASSUME NEW s \in Slot PROVE dir[j][s].inum # i
          <6>1. <<j, s>> \notin NamesOf(i)
            BY <5>1
          <6> QED
            BY <6>1 DEF NamesOf
        <5>4. T = {}
          BY <4>1, <5>2 DEF SlotsOf
        <5>3. Cardinality(T) = 0
          BY <5>4, FS_EmptySet
        <5> QED
          BY <1>2, <1>6, <3>1, <3>3, <4>2, <4>5, <5>1, <5>3
      <4>6. CASE type[i] # "free"
        <5>1. SubDirs(i)' = SubDirs(i)
          <6>1. ASSUME NEW s \in Slot, dir[i][s].inum # NoInum
                PROVE  type'[dir[i][s].inum] = type[dir[i][s].inum]
            BY <1>2, <1>3, <6>1 DEF Entries
          <6> QED
            BY <1>2, <3>3, <6>1 DEF SubDirs
        <5>2. nlink[i] = Cardinality(NamesIn(dir, i)) + Cardinality(SubDirs(i)) + Cardinality(Pending(i))
                         + gone[i] + Is(Root, i)
          BY <4>6 DEF JInv, LinkInv, LinksTo, NamesOf, NamesIn
        <5>3. LinksTo(i)' = Cardinality(NamesIn(dir', i)) + Cardinality(SubDirs(i)) + Cardinality(Pending(i))
                            + gone'[i] + Is(Root, i)
          BY <3>1, <5>1 DEF LinksTo, NamesOf, NamesIn
        <5>4. Cardinality(SubDirs(i)) \in Nat /\ Cardinality(Pending(i)) \in Nat /\ Is(Root, i) \in Nat
          <6>1. SubDirs(i) = SubsIn(dir, type, i)
            BY DEF SubDirs, SubsIn
          <6>2. IsFiniteSet(Pending(i))
            BY InodeAssumption, FS_Subset DEF Pending
          <6> QED
            BY <6>1, <6>2, SubsFinite, FS_CardinalityType, IsNat
        <5>5. LinksTo(i)' = nlink[i]
          BY <4>2, <4>3, <4>4, <5>2, <5>3, <5>4
        <5> QED
          BY <1>2, <3>3, <4>6, <5>5
      <4> QED
        BY <4>5, <4>6
    <3> QED
      BY <3>2, <3>3
  <2> QED
    BY <2>1 DEF LinkInv
<1>10. ASSUME NEW q \in Proc PROVE EntryOK(dir', type', pc[q], loc[q])
  <2>1. EntryOK(dir, type, pc[q], loc[q]) /\ PlaceOK(pc[q], loc[q], fd[q], todo[q]) /\ CallOK(pc[q], loc[q])
    BY Types, JTypes DEF JInv, EntryInv
  <2>2. pc[q] = "unlink2" => loc[q].dp \in Inum /\ loc[q].dp # j
    BY <2>1, FreeUnlinks DEF PlaceOK, DpPlaces
  <2>3. ASSUME pc[q] \in {"link2", "linkbad"} \/ Walks(pc[q], loc[q], {"link2"})
        PROVE  loc[q].ip # j /\ loc[q].ip \in Inum
    <3>1. loc[q].call = "link"
      BY <2>1, <2>3 DEF CallOK, Going, Walks
    <3>2. q \in Pending(loc[q].ip)
      BY <3>1 DEF Pending
    <3>3. loc[q].ip \in Inum
      BY <2>1, <2>3 DEF PlaceOK, CallOK, Going, IpPlaces, AtPlaces, Walks
    <3> QED
      BY <1>1, <3>2, <3>3
  <2> QED
    BY <1>2, <2>1, <2>2, <2>3 DEF EntryOK
<1> QED
  BY <1>5, <1>7, <1>8, <1>9, <1>10 DEF DiskInv

LEMMA PutCheckLinks ==
    ASSUME IInv, JInv, NEW p \in Proc, PutCheck(p)
    PROVE  JInv'
<1>1. PICK j : j = Head(todo[p]).ino
  OBVIOUS
<1>2. /\ todo[p] # <<>> /\ Head(todo[p]).op = "put" /\ Free(j)
      /\ todo' = [todo EXCEPT ![p] = <<Drop(j)>> \o Tail(todo[p])]
      /\ UNCHANGED <<nlink, lock, pc, loc>>
  BY <1>1, Types DEF PutCheck, IInv, TypeOK
<1>3. Head(todo[p]) \in Todo /\ j \in Inum
  <2>1. Head(todo[p]) \in Todo
    BY <1>2, Types
  <2> QED
    BY <1>1, <2>1 DEF Todo
<1>4. PICK what : what = <<Drop(j)>> \o Tail(todo[p])
  OBVIOUS
<1>5. DOMAIN what = DOMAIN todo[p] /\ \A k \in DOMAIN what : k # 1 => what[k] = todo[p][k]
  <2>1. PICK s \in Seq(Todo) : s = todo[p]
    BY Types
  <2>2. Drop(j) \in Todo
    BY <1>3 DEF Drop, Todo
  <2>3. s # <<>> /\ what = <<Drop(j)>> \o Tail(s)
    BY <1>2, <1>4, <2>1
  <2>4. Len(what) = Len(s) /\ DOMAIN what = 1..Len(what) /\ DOMAIN s = 1..Len(s)
    BY <2>2, <2>3
  <2>5. \A k \in 1..Len(s) : k # 1 => what[k] = s[k]
    BY <2>2, <2>3
  <2> QED
    BY <2>1, <2>4, <2>5
<1>6. 1 \in DOMAIN todo[p] => what[1].op = "drop" /\ todo[p][1].op = "put"
  BY <1>2, <1>3, <1>4, Types DEF Drop, Todo
<1>7. \A k \in DOMAIN what : what[k].op = "unlock" \/ todo[p][k].op = "unlock" => what[k] = todo[p][k]
  BY <1>5, <1>6
<1>8. \A i : Unlocks(i, what) <=> Unlocks(i, todo[p])
  BY <1>5, <1>7 DEF Unlocks, Unlock
<1>9. Goto(p, pc[p], loc[p], what)
  BY <1>2, <1>4, Types DEF Goto, IInv, TypeOK
<1>10. TodoOK(pc[p], loc[p], what)
  BY <1>5, <1>7, JTypes DEF TodoOK
<1>11. LockMove(p, pc[p], loc[p], what)
  BY <1>2, <1>8 DEF LockMove, HasLock, JInv, LockInv
<1>12. DiskInv' /\ \A q \in Proc : EntryOK(dir', type', pc[q], loc[q])
  <2>1. CASE UNCHANGED <<type, dir, dotdot, gone>>
    BY <1>2, <1>9, <2>1, Types, SameLinks, JTypes DEF EntriesStay
  <2>2. CASE ~UNCHANGED <<type, dir, dotdot, gone>>
    BY <1>1, <1>2, <1>3, <2>2, FreesLinks DEF PutCheck
  <2> QED
    BY <2>1, <2>2
<1> QED
  BY <1>9, <1>10, <1>11, <1>12, Types, JTypes, JStep DEF EntriesStay

-----------------------------------------------------------------------------
(* open(), chdir(), and the ends of other calls *)

LEMMA NoneOrOne ==
    ASSUME NEW x, NEW what, what = <<>> \/ what = <<Put(x)>>
    PROVE  (\A i : ~Unlocks(i, what)) /\ \A place, l : TodoOK(place, l, what)
<1>1. CASE what = <<>>
  BY <1>1, UnlocksIn, TodoShapes
<1>2. CASE what = <<Put(x)>>
  BY <1>2, UnlocksIn, TodoShapes
<1> QED
  BY <1>1, <1>2

LEMMA OpenLinks ==
    ASSUME IInv, JInv, NEW p \in Proc, Open(p)
    PROVE  JInv'
<1>1. PICK what : Return(p, what) /\ (what = <<>> \/ \E x : what = <<Put(x)>>)
  BY DEF Open
<1>2. pc[p] \in {"createold", "open"} /\ todo[p] = <<>> /\ UNCHANGED <<disk, lock>>
  BY DEF Open, Locks, At
<1>3. LockedAt(pc[p], loc[p]) = NoInum /\ \A i \in Inum : ~Pends(pc[p], loc[p], i)
  BY <1>2, JTypes DEF LockedAt, Pends, CallOK, Going
<1>4. (\A i \in Inum : ~Unlocks(i, what)) /\ \A place : TodoOK(place, NoCall, what)
  <2>1. CASE what = <<>>
    BY <2>1, NoneOrOne
  <2>2. CASE \E x : what = <<Put(x)>>
    BY <2>2, NoneOrOne
  <2> QED
    BY <1>1, <2>1, <2>2
<1> QED
  BY <1>1, <1>2, <1>3, <1>4, Types, PlainReturn

LEMMA ChdirLinks ==
    ASSUME IInv, JInv, NEW p \in Proc, Chdir(p)
    PROVE  JInv'
<1>1. pc[p] = "chdir" /\ todo[p] = <<>> /\ UNCHANGED <<disk, lock>>
  BY DEF Chdir, Locks, At
<1>2. LockedAt(pc[p], loc[p]) = NoInum /\ loc[p].call = "chdir" /\ \A i \in Inum : ~Pends(pc[p], loc[p], i)
  BY <1>1, JTypes DEF LockedAt, Pends, CallOK, Going
<1>3. CASE Return(p, <<Put(loc[p].at)>>)
  <2>1. (\A i \in Inum : ~Unlocks(i, <<Put(loc[p].at)>>)) /\ \A place : TodoOK(place, NoCall, <<Put(loc[p].at)>>)
    BY UnlocksIn, TodoShapes
  <2> QED
    BY <1>1, <1>2, <1>3, <2>1, Types, PlainReturn
<1>4. CASE Goto(p, "chdir2", [loc[p] EXCEPT !.ip = loc[p].at], <<Put(cwd[p])>>)
  <2>1. PICK l : l = [loc[p] EXCEPT !.ip = loc[p].at]
    OBVIOUS
  <2>2. l.call = "chdir"
    BY <1>2, <2>1, Types DEF Local
  <2>3. /\ CallOK("chdir2", l) /\ EntryOK(dir, type, "chdir2", l) /\ LockedAt("chdir2", l) = NoInum
        /\ \A i \in Inum : ~Pends("chdir2", l, i)
    BY <2>2 DEF CallOK, Going, EntryOK, Walks, LockedAt, Pends
  <2>4. (\A i \in Inum : ~Unlocks(i, <<Put(cwd[p])>>)) /\ TodoOK("chdir2", l, <<Put(cwd[p])>>)
    BY UnlocksIn, TodoShapes
  <2> QED
    BY <1>1, <1>2, <1>4, <2>1, <2>3, <2>4, Types, PlainStep
<1> QED
  BY <1>3, <1>4 DEF Chdir

LEMMA ChdirDoneLinks ==
    ASSUME IInv, JInv, NEW p \in Proc, ChdirDone(p)
    PROVE  JInv'
<1>1. pc[p] = "chdir2" /\ todo[p] = <<>> /\ Return(p, <<>>) /\ UNCHANGED <<disk, lock>>
  BY DEF ChdirDone, At
<1>2. LockedAt(pc[p], loc[p]) = NoInum /\ \A i \in Inum : ~Pends(pc[p], loc[p], i)
  BY <1>1, JTypes DEF LockedAt, Pends, CallOK, Going
<1>3. (\A i \in Inum : ~Unlocks(i, <<>>)) /\ \A place : TodoOK(place, NoCall, <<>>)
  BY UnlocksIn, TodoShapes
<1> QED
  BY <1>1, <1>2, <1>3, Types, PlainReturn

\* A call that has a lock gives it back; one that has none takes one.
LEMMA LockGiven ==
    ASSUME IInv, JInv, NEW p \in Proc, NEW place, NEW l, NEW what, todo[p] = <<>>,
           NEW i \in Inum, LockedAt(pc[p], loc[p]) = i, lock' = [lock EXCEPT ![i] = NoProc],
           LockedAt(place, l) = NoInum, \A j \in Inum : ~Unlocks(j, what)
    PROVE  LockMove(p, place, l, what)
<1>1. \A j \in Inum : lock'[j] = IF j = i THEN NoProc ELSE lock[j]
  BY DEF IInv, TypeOK
<1>2. \A j \in Inum : lock[j] = p <=> j = i
  <2>1. \A j : ~Unlocks(j, todo[p])
    BY UnlocksIn
  <2> QED
    BY <2>1 DEF JInv, LockInv, HasLock
<1>3. \A j \in Inum : ~HasLock(place, l, what, j)
  BY InodeAssumption DEF HasLock
<1> QED
  BY <1>1, <1>2, <1>3, InodeAssumption DEF LockMove

LEMMA LockTaken ==
    ASSUME IInv, JInv, NEW p \in Proc, NEW place, NEW l, NEW what, todo[p] = <<>>,
           NEW i \in Inum, LockedAt(pc[p], loc[p]) = NoInum, lock' = [lock EXCEPT ![i] = p], Free(i),
           \A j \in Inum : HasLock(place, l, what, j) <=> j = i
    PROVE  LockMove(p, place, l, what)
<1>1. \A j \in Inum : lock'[j] = IF j = i THEN p ELSE lock[j]
  BY DEF IInv, TypeOK
<1>2. \A j \in Inum : lock[j] # p
  <2>1. \A j : ~Unlocks(j, todo[p])
    BY UnlocksIn
  <2> QED
    BY <2>1, InodeAssumption DEF JInv, LockInv, HasLock
<1> QED
  BY <1>1, <1>2, InodeAssumption DEF LockMove, Free

LEMMA CreatedLinks ==
    ASSUME IInv, JInv, NEW p \in Proc, Created(p)
    PROVE  JInv'
<1>1. PICK i : i = loc[p].ip
  OBVIOUS
<1>2. /\ pc[p] = "created" /\ todo[p] = <<>> /\ UNCHANGED disk /\ lock' = [lock EXCEPT ![i] = NoProc]
      /\ \E w : Return(p, w) /\ (w = <<>> \/ w = <<Put(i)>>)
  BY <1>1 DEF Created, At
<1>3. PICK what : Return(p, what) /\ (what = <<>> \/ what = <<Put(i)>>)
  BY <1>2
<1>4. i \in Inum
  BY <1>1, <1>2, Types DEF PlaceOK, IpPlaces
<1>5. LockedAt(pc[p], loc[p]) = i /\ \A j \in Inum : ~Pends(pc[p], loc[p], j)
  BY <1>1, <1>2, JTypes DEF LockedAt, Pends, CallOK, Going
<1>6. PICK place \in {"user", "return"} :
          /\ Goto(p, place, NoCall, what) /\ CallOK(place, NoCall)
          /\ LockedAt(place, NoCall) = NoInum /\ EntryOK(dir', type', place, NoCall)
          /\ \A j \in Inum : ~Pends(place, NoCall, j)
  BY <1>3, Returns
<1>7. (\A j \in Inum : ~Unlocks(j, what)) /\ TodoOK(place, NoCall, what)
  BY <1>3, NoneOrOne
<1>8. LockMove(p, place, NoCall, what)
  BY <1>2, <1>4, <1>5, <1>6, <1>7, LockGiven
<1>9. DiskInv' /\ EntriesStay(p)
  BY <1>2, <1>5, <1>6, Types, SameLinks DEF disk
<1> QED
  BY <1>6, <1>7, <1>8, <1>9, Types, JStep

LEMMA UnlinkInodeLinks ==
    ASSUME IInv, JInv, NEW p \in Proc, UnlinkInode(p)
    PROVE  JInv'
<1>1. PICK i : i = loc[p].ip
  OBVIOUS
<1>2. /\ pc[p] = "unlink3" /\ todo[p] = <<>> /\ lock' = [lock EXCEPT ![i] = NoProc]
      /\ nlink' = [nlink EXCEPT ![i] = @ - 1] /\ Return(p, <<Put(i)>>)
      /\ UNCHANGED <<type, dir, dotdot, gone>>
  BY <1>1 DEF UnlinkInode, At
<1>3. i \in Inum
  BY <1>1, <1>2, Types DEF PlaceOK, IpPlaces
<1>4. LockedAt(pc[p], loc[p]) = i
  BY <1>1, <1>2 DEF LockedAt
<1>5. PICK place \in {"user", "return"} :
          /\ Goto(p, place, NoCall, <<Put(i)>>) /\ CallOK(place, NoCall)
          /\ LockedAt(place, NoCall) = NoInum /\ EntryOK(dir', type', place, NoCall)
          /\ \A j \in Inum : ~Pends(place, NoCall, j)
  BY <1>2, Returns
<1>6. (\A j \in Inum : ~Unlocks(j, <<Put(i)>>)) /\ TodoOK(place, NoCall, <<Put(i)>>)
  BY UnlocksIn, TodoShapes
<1>7. LockMove(p, place, NoCall, <<Put(i)>>)
  BY <1>2, <1>3, <1>4, <1>5, <1>6, LockGiven
<1>8. ASSUME NEW j \in Inum
      PROVE  nlink'[j] = nlink[j] - Awaits(pc[p], loc[p], j) + Awaits(place, NoCall, j)
  BY <1>1, <1>2, <1>5, <1>3, IsNat DEF Awaits, Pends, Is, IInv, TypeOK
<1>9. DiskInv' /\ EntriesStay(p)
  BY <1>2, <1>5, <1>8, Types, NlinkStep
<1> QED
  BY <1>5, <1>6, <1>7, <1>9, Types, JStep

LEMMA LinkOldLinks ==
    ASSUME IInv, JInv, NEW p \in Proc, LinkOld(p)
    PROVE  JInv'
<1>1. PICK j : j = loc[p].at
  OBVIOUS
<1>2. pc[p] = "link1" /\ todo[p] = <<>> /\ UNCHANGED <<type, dir, dotdot, gone, lock>> /\ type[j] # "free"
  BY <1>1 DEF LinkOld, Locks, At, Lockable
<1>3. j \in Inum /\ loc[p].call = "link" /\ loc[p].ip = NoInum /\ LockedAt(pc[p], loc[p]) = NoInum
  BY <1>1, <1>2, Types, JTypes DEF PlaceOK, AtPlaces, CallOK, Going, LockedAt
<1>4. \A i \in Inum : ~Pends(pc[p], loc[p], i)
  BY <1>3, Types DEF Pends
<1>5. CASE type[j] = "dir"
  <2>1. Return(p, <<Put(j)>>) /\ UNCHANGED <<disk, lock>>
    BY <1>1, <1>2, <1>5 DEF LinkOld, disk
  <2>2. (\A i \in Inum : ~Unlocks(i, <<Put(j)>>)) /\ \A place : TodoOK(place, NoCall, <<Put(j)>>)
    BY UnlocksIn, TodoShapes
  <2> QED
    BY <1>2, <1>3, <1>4, <2>1, <2>2, Types, PlainReturn
<1>6. CASE type[j] # "dir"
  <2>1. PICK at, path : Goto(p, "walk", [loc[p] EXCEPT !.ip = j, !.at = at, !.path = path,
                                                      !.path2 = NoPath, !.then = "link2"], <<>>)
    BY <1>1, <1>6 DEF LinkOld
  <2>2. nlink' = [nlink EXCEPT ![j] = @ + 1]
    BY <1>1, <1>6 DEF LinkOld
  <2>3. PICK l : l = [loc[p] EXCEPT !.ip = j, !.at = at, !.path = path, !.path2 = NoPath, !.then = "link2"]
    OBVIOUS
  <2>4. l.call = "link" /\ l.ip = j /\ l.then = "link2"
    BY <1>3, <2>3, Types DEF Local
  <2>5. type[j] = "file"
    BY <1>2, <1>3, <1>6 DEF IInv, TypeOK
  <2>6. CallOK("walk", l) /\ EntryOK(dir', type', "walk", l) /\ LockedAt("walk", l) = NoInum
    BY <1>2, <2>4, <2>5 DEF CallOK, Going, EntryOK, Walks, LockedAt
  <2>7. (\A i \in Inum : ~Unlocks(i, <<>>)) /\ TodoOK("walk", l, <<>>)
    BY UnlocksIn, TodoShapes
  <2>8. LockMove(p, "walk", l, <<>>)
    BY <1>2, <1>3, <2>6, <2>7, Unlocked
  <2>9. \A i \in Inum : Pends("walk", l, i) <=> i = j
    BY <2>4 DEF Pends
  <2>10. ASSUME NEW i \in Inum
         PROVE  nlink'[i] = nlink[i] - Awaits(pc[p], loc[p], i) + Awaits("walk", l, i)
    BY <1>4, <2>9, <1>3, <2>2, IsNat DEF Awaits, Is, IInv, TypeOK
  <2>11. DiskInv' /\ EntriesStay(p)
    BY <1>2, <2>1, <2>3, <2>9, <2>10, Types, NlinkStep
  <2> QED
    BY <2>1, <2>3, <2>6, <2>7, <2>8, <2>11, Types, JStep
<1> QED
  BY <1>5, <1>6

LEMMA LinkBadLinks ==
    ASSUME IInv, JInv, NEW p \in Proc, LinkBad(p)
    PROVE  JInv'
<1>1. PICK i : i = loc[p].at
  OBVIOUS
<1>2. /\ pc[p] = "linkbad" /\ todo[p] = <<>> /\ nlink' = [nlink EXCEPT ![i] = @ - 1]
      /\ Return(p, <<Put(i)>>) /\ UNCHANGED <<type, dir, dotdot, gone, lock>>
  BY <1>1 DEF LinkBad, Locks, At
<1>3. i \in Inum /\ loc[p].call = "link" /\ loc[p].ip = i /\ LockedAt(pc[p], loc[p]) = NoInum
  BY <1>1, <1>2, Types, JTypes DEF PlaceOK, AtPlaces, CallOK, Going, LockedAt
<1>4. PICK place \in {"user", "return"} :
          /\ Goto(p, place, NoCall, <<Put(i)>>) /\ CallOK(place, NoCall)
          /\ LockedAt(place, NoCall) = NoInum /\ EntryOK(dir', type', place, NoCall)
          /\ \A j \in Inum : ~Pends(place, NoCall, j)
  BY <1>2, Returns
<1>5. (\A j \in Inum : ~Unlocks(j, <<Put(i)>>)) /\ TodoOK(place, NoCall, <<Put(i)>>)
  BY UnlocksIn, TodoShapes
<1>6. LockMove(p, place, NoCall, <<Put(i)>>)
  BY <1>2, <1>3, <1>4, <1>5, Unlocked
<1>7. ASSUME NEW j \in Inum
      PROVE  nlink'[j] = nlink[j] - Awaits(pc[p], loc[p], j) + Awaits(place, NoCall, j)
  BY <1>3, <1>4, <1>2, IsNat DEF Awaits, Pends, Is, IInv, TypeOK
<1>8. DiskInv' /\ EntriesStay(p)
  BY <1>2, <1>4, <1>7, Types, NlinkStep
<1> QED
  BY <1>4, <1>5, <1>6, <1>8, Types, JStep

LEMMA UnlinkLinks ==
    ASSUME IInv, JInv, NEW p \in Proc, Unlink(p)
    PROVE  JInv'
<1>1. PICK l, d, i : l = loc[p] /\ d = l.at /\ i = Lookup(d, l.name)
  OBVIOUS
<1>2. pc[p] = "unlink" /\ todo[p] = <<>> /\ UNCHANGED disk /\ Free(d)
  BY <1>1 DEF Unlink, Locks, At, Lockable
<1>3. /\ d \in Inum /\ l.call = "unlink" /\ LockedAt(pc[p], loc[p]) = NoInum
      /\ \A j \in Inum : ~Pends(pc[p], loc[p], j)
  BY <1>1, <1>2, Types, JTypes DEF PlaceOK, AtPlaces, CallOK, Going, LockedAt, Pends
<1>4. CASE Return(p, <<Put(d)>>) /\ UNCHANGED lock
  <2>1. (\A j \in Inum : ~Unlocks(j, <<Put(d)>>)) /\ \A place : TodoOK(place, NoCall, <<Put(d)>>)
    BY UnlocksIn, TodoShapes
  <2> QED
    BY <1>2, <1>3, <1>4, <2>1, Types, PlainReturn
<1>5. CASE /\ l.name \notin {".", ".."} /\ i # NoInum /\ lock' = [lock EXCEPT ![d] = p]
           /\ Goto(p, "unlink2", [l EXCEPT !.dp = d, !.at = i, !.slot = SlotOf(d, l.name)], <<>>)
  <2>1. PICK k : k = [l EXCEPT !.dp = d, !.at = i, !.slot = SlotOf(d, l.name)]
    OBVIOUS
  <2>2. k.call = "unlink" /\ k.dp = d /\ k.at = i /\ k.slot = SlotOf(d, l.name)
    BY <1>1, <1>3, <2>1, Types DEF Local
  <2>3. \E s \in Slot : dir[d][s].name = l.name
    BY <1>1, <1>5 DEF Lookup
  <2>4. SlotOf(d, l.name) \in Slot /\ i = dir[d][SlotOf(d, l.name)].inum
    BY <1>1, <1>5, <2>3 DEF Lookup, SlotOf
  <2>5. CallOK("unlink2", k) /\ EntryOK(dir', type', "unlink2", k) /\ LockedAt("unlink2", k) = d
    BY <1>2, <2>2, <2>4 DEF CallOK, Going, EntryOK, Walks, LockedAt, disk
  <2>6. \A j \in Inum : ~Pends("unlink2", k, j)
    BY <2>2 DEF Pends
  <2>7. (\A j \in Inum : ~Unlocks(j, <<>>)) /\ TodoOK("unlink2", k, <<>>)
    BY UnlocksIn, TodoShapes
  <2>8. \A j \in Inum : HasLock("unlink2", k, <<>>, j) <=> j = d
    BY <2>5, <2>7 DEF HasLock
  <2>9. LockMove(p, "unlink2", k, <<>>)
    BY <1>2, <1>3, <1>5, <2>8, LockTaken
  <2>10. DiskInv' /\ EntriesStay(p)
    BY <1>2, <1>3, <1>5, <2>1, <2>6, Types, SameLinks DEF disk
  <2> QED
    BY <1>5, <2>1, <2>5, <2>7, <2>9, <2>10, Types, JStep
<1> QED
  BY <1>1, <1>4, <1>5 DEF Unlink

-----------------------------------------------------------------------------
(* A slot of a directory changes *)

LEMMA OneSlotSet ==
    ASSUME IInv, NEW d \in Inum, NEW s \in Slot, NEW e \in Entry, dir' = [dir EXCEPT ![d][s] = e]
    PROVE  OneSlot(d, s, e)
<1>1. dir \in Entries
  BY DEF IInv, TypeOK, Entries
<1>2. dir' \in Entries
  BY <1>1 DEF Entries, Entry
<1> QED
  BY <1>1, <1>2 DEF Entries, OneSlot

\* A directory that lacks a name has room for it.
LEMMA RoomLeft ==
    ASSUME NamesInv, NEW d \in Inum, NEW n \in Name, \A s \in Slot : dir[d][s].name # n
    PROVE  EmptySlot(d) \in Slot /\ dir[d][EmptySlot(d)] = Empty
<1>1. ASSUME \A s \in Slot : dir[d][s] # Empty PROVE FALSE
  <2>1. PICK T : T = Name \ {n}
    OBVIOUS
  <2>2. IsFiniteSet(Name) /\ Cardinality(Name) \in Nat
    BY InodeAssumption, SlotFinite
  <2>3. IsFiniteSet(T) /\ Cardinality(T) = Cardinality(Name) - 1
    BY <2>1, <2>2, FS_RemoveElement
  <2>4. IsFiniteSet(Slot) /\ Cardinality(Slot) = Cardinality(Name)
    BY <2>2, FS_Interval, SlotFinite DEF Slot
  <2>5. \A s \in Slot : dir[d][s].name \in T
    BY <1>1, <2>1 DEF NamesInv
  <2>6. PICK f : f = [s \in Slot |-> dir[d][s].name]
    OBVIOUS
  <2>7. f \in [Slot -> T] /\ \A s \in Slot : f[s] = dir[d][s].name
    BY <2>5, <2>6
  <2>8. Cardinality(T) < Cardinality(Slot)
    BY <2>2, <2>3, <2>4
  <2>9. PICK x \in Slot, y \in Slot : x # y /\ f[x] = f[y]
    BY <2>3, <2>4, <2>7, <2>8, FS_PigeonHole
  <2>10. dir[d][x].name = dir[d][y].name /\ dir[d][x].inum # NoInum
    BY <1>1, <2>7, <2>9 DEF NamesInv
  <2> QED
    BY <2>9, <2>10 DEF NamesInv
<1>2. PICK D : D = {s \in Slot : dir[d][s] = Empty}
  OBVIOUS
<1>3. PICK T : T = {1..s : s \in D}
  OBVIOUS
<1>4. T \in SUBSET (SUBSET Slot) /\ T # {}
  BY <1>2, SlotFinite, <1>1, <1>3 DEF Slot
<1>5. PICK U \in T : \A V \in T : V \subseteq U => V = U
  BY <1>4, SlotFinite, LeastSubset
<1>6. PICK m \in D : U = 1..m
  BY <1>3, <1>5
<1>7. ASSUME NEW t \in D PROVE m <= t
  <2>1. 1..t \in T /\ t \in Nat /\ m \in Nat /\ m >= 1
    BY <1>2, <1>3, SlotFinite DEF Slot
  <2>2. CASE t < m
    <3>1. 1..t \subseteq 1..m
      BY <2>1, <2>2
    <3>2. 1..t = 1..m
      BY <1>5, <1>6, <2>1, <3>1
    <3>3. m \in 1..t
      BY <2>1, <3>2
    <3> QED
      BY <2>1, <2>2, <3>3
  <2> QED
    BY <2>1, <2>2
<1>8. m \in Slot /\ dir[d][m] = Empty /\ \A t \in Slot : dir[d][t] = Empty => m <= t
  BY <1>2, <1>7
<1> QED
  BY <1>8 DEF EmptySlot

\* Names and subdirectories, after one slot has changed.
LEMMA NamesChange ==
    ASSUME IInv, NEW d \in Inum, NEW s \in Slot, NEW e \in Entry, OneSlot(d, s, e),
           \A x \in Inum, y \in Slot : dir[x][y].inum # NoInum => type'[dir[x][y].inum] = type[dir[x][y].inum],
           NEW k \in Inum
    PROVE  /\ Cardinality(NamesOf(k)') = Cardinality(NamesOf(k)) - Is(dir[d][s].inum, k) + Is(e.inum, k)
           /\ Cardinality(SubDirs(k)') = Cardinality(SubDirs(k))
                  - (IF k = d THEN IsDir(type, dir[d][s].inum) ELSE 0)
                  + (IF k = d THEN IsDir(type', e.inum) ELSE 0)
           /\ Cardinality(NamesOf(k)) \in Nat /\ Cardinality(SubDirs(k)) \in Nat
<1>1. PICK E, G, t, u : E = dir /\ G = dir' /\ t = type' /\ u = type
  OBVIOUS
<1>2. E \in Entries /\ G \in Entries /\ G[d][s] = e
  BY <1>1 DEF IInv, TypeOK, Entries, OneSlot
<1>3. \A x \in Inum, y \in Slot : x # d \/ y # s => G[x][y] = E[x][y]
  BY <1>1 DEF OneSlot
<1>4. /\ Cardinality(NamesIn(G, k)) = Cardinality(NamesIn(E, k)) - Is(E[d][s].inum, k) + Is(e.inum, k)
      /\ Cardinality(SubsIn(G, t, k)) = Cardinality(SubsIn(E, t, k))
             - (IF k = d THEN IsDir(t, E[d][s].inum) ELSE 0) + (IF k = d THEN IsDir(t, e.inum) ELSE 0)
  BY <1>2, <1>3, SlotSet
<1>5. SubsIn(E, t, k) = SubsIn(E, u, k) /\ IsDir(t, E[d][s].inum) = IsDir(u, E[d][s].inum)
  BY <1>1 DEF SubsIn, IsDir
<1>6. /\ NamesOf(k) = NamesIn(E, k) /\ NamesOf(k)' = NamesIn(G, k)
      /\ SubDirs(k) = SubsIn(E, u, k) /\ SubDirs(k)' = SubsIn(G, t, k)
  BY <1>1 DEF NamesOf, NamesIn, SubDirs, SubsIn
<1>7. Cardinality(NamesIn(E, k)) \in Nat /\ Cardinality(SubsIn(E, u, k)) \in Nat
  BY NamesFinite, SubsFinite
<1> QED
  BY <1>1, <1>4, <1>5, <1>6, <1>7

\* Nobody else is about to clear an entry of a directory that p has, or gets.
LEMMA OthersEntries ==
    ASSUME IInv, JInv, NEW p \in Proc, NEW d \in Inum, Free(d) \/ lock[d] = p,
           \A x \in Inum : x # d => dir'[x] = dir[x],
           \A i \in Inum : type[i] = "file" => type'[i] = "file"
    PROVE  EntriesStay(p)
<1>1. ASSUME NEW q \in Proc \ {p} PROVE EntryOK(dir', type', pc[q], loc[q])
  <2>1. EntryOK(dir, type, pc[q], loc[q]) /\ PlaceOK(pc[q], loc[q], fd[q], todo[q]) /\ CallOK(pc[q], loc[q])
    BY Types, JTypes DEF JInv, EntryInv
  <2>2. pc[q] = "unlink2" => loc[q].dp \in Inum /\ loc[q].dp # d
    <3>1. ASSUME pc[q] = "unlink2", loc[q].dp = d PROVE FALSE
      BY <3>1, InodeAssumption DEF HasLock, LockedAt, JInv, LockInv, Free
    <3> QED
      BY <2>1, <3>1 DEF PlaceOK, DpPlaces
  <2>3. pc[q] \in {"link2", "linkbad"} \/ Walks(pc[q], loc[q], {"link2"}) => loc[q].ip \in Inum
    BY <2>1 DEF PlaceOK, CallOK, Going, IpPlaces, AtPlaces, Walks
  <2> QED
    BY <2>1, <2>2, <2>3 DEF EntryOK
<1> QED
  BY <1>1 DEF EntriesStay

\* A name that is not found is in no slot.
LEMMA NoSuchName ==
    ASSUME NamesInv, NEW d \in Inum, NEW n \in Name, Lookup(d, n) = NoInum
    PROVE  \A s \in Slot : dir[d][s].name # n
<1>1. ASSUME NEW s \in Slot, dir[d][s].name = n PROVE FALSE
  <2>1. n # "." /\ n # ".."
    BY InodeAssumption
  <2>2. PICK t : t = CHOOSE y \in Slot : dir[d][y].name = n
    OBVIOUS
  <2>3. t \in Slot /\ dir[d][t].name = n /\ dir[d][t].inum = NoInum
    BY <1>1, <2>1, <2>2 DEF Lookup
  <2>4. dir[d][t] = Empty
    BY <2>3 DEF NamesInv
  <2> QED
    BY <2>1, <2>3, <2>4 DEF Empty
<1> QED
  BY <1>1

\* What the links of an inode become.
LEMMA LinksStep ==
    ASSUME IInv, JInv, NEW p \in Proc, NEW place, NEW l, NEW what, Goto(p, place, l, what),
           NEW d \in Inum, NEW s \in Slot, NEW e \in Entry, OneSlot(d, s, e), UNCHANGED gone,
           \A x \in Inum, y \in Slot : dir[x][y].inum # NoInum => type'[dir[x][y].inum] = type[dir[x][y].inum],
           NEW k \in Inum, type[k] # "free"
    PROVE  LinksTo(k)' = nlink[k] - Is(dir[d][s].inum, k) + Is(e.inum, k)
               - (IF k = d THEN IsDir(type, dir[d][s].inum) ELSE 0)
               + (IF k = d THEN IsDir(type', e.inum) ELSE 0)
               - Awaits(pc[p], loc[p], k) + Awaits(place, l, k)
<1>1. PICK n, m, n2, m2 : /\ n = Cardinality(NamesOf(k)) /\ m = Cardinality(SubDirs(k))
                          /\ n2 = Cardinality(NamesOf(k)') /\ m2 = Cardinality(SubDirs(k)')
  OBVIOUS
<1>2. PICK a, b, x, y : /\ a = Is(dir[d][s].inum, k) /\ b = Is(e.inum, k)
                        /\ x = (IF k = d THEN IsDir(type, dir[d][s].inum) ELSE 0)
                        /\ y = (IF k = d THEN IsDir(type', e.inum) ELSE 0)
  OBVIOUS
<1>3. n2 = n - a + b /\ m2 = m - x + y /\ n \in Nat /\ m \in Nat
  BY <1>1, <1>2, NamesChange
<1>4. PICK c, c2, f, h : /\ c = Cardinality(Pending(k)) /\ c2 = Cardinality(Pending(k)')
                         /\ f = Awaits(pc[p], loc[p], k) /\ h = Awaits(place, l, k)
  OBVIOUS
<1>5. c2 = c - f + h
  BY <1>4, Types, PendingStep
<1>6. c \in Nat
  BY InodeAssumption, FS_Subset, <1>4, FS_CardinalityType DEF Pending
<1>7. a \in Nat /\ b \in Nat /\ x \in Nat /\ y \in Nat /\ f \in Nat /\ h \in Nat
  BY <1>2, <1>4, IsNat DEF IsDir, Awaits
<1>8. gone[k] \in Nat /\ Is(Root, k) \in Nat
  BY IsNat DEF IInv, TypeOK
<1>9. nlink[k] = n + m + c + gone[k] + Is(Root, k)
  BY <1>1, <1>4 DEF JInv, LinkInv, LinksTo
<1>10. LinksTo(k)' = n2 + m2 + c2 + gone[k] + Is(Root, k)
  BY <1>1, <1>4 DEF LinksTo
<1>11. LinksTo(k)' = nlink[k] - a + b - x + y - f + h
  BY <1>3, <1>5, <1>6, <1>7, <1>8, <1>9, <1>10
<1> QED
  BY <1>2, <1>4, <1>11

LEMMA EnterNames ==
    ASSUME IInv, JInv, NEW d \in Inum, NEW s \in Slot, NEW e \in Entry, OneSlot(d, s, e),
           e.name \in Name, e.inum \in Inum, dir[d][s] = Empty, \A t \in Slot : dir[d][t].name # e.name
    PROVE  NamesInv'
<1>1. e # Empty /\ NoInum \notin Inum
  BY InodeAssumption DEF Empty
<1>2. ASSUME NEW x \in Inum, NEW y \in Slot
      PROVE  /\ dir'[x][y].inum = NoInum <=> dir'[x][y] = Empty
             /\ dir'[x][y].inum # NoInum => dir'[x][y].name \in Name
             /\ \A t \in Slot : dir'[x][y].inum # NoInum /\ dir'[x][t].name = dir'[x][y].name => t = y
  <2>1. CASE x # d
    BY <2>1 DEF OneSlot, JInv, NamesInv
  <2>2. CASE x = d
    <3>1. dir'[d][s] = e /\ \A t \in Slot : t # s => dir'[d][t] = dir[d][t]
      BY DEF OneSlot
    <3>2. CASE y = s
      BY <1>1, <2>2, <3>1, <3>2
    <3>3. CASE y # s
      BY <1>1, <2>2, <3>1, <3>3 DEF JInv, NamesInv
    <3> QED
      BY <3>2, <3>3
  <2> QED
    BY <2>1, <2>2
<1> QED
  BY <1>2 DEF NamesInv

\* A file gets another name.
LEMMA FileNamed ==
    ASSUME IInv, JInv, NEW p \in Proc, NEW place, NEW l, NEW what, Goto(p, place, l, what),
           NEW d \in Inum, type[d] = "dir", NEW s \in Slot, NEW e \in Entry, OneSlot(d, s, e),
           e.name \in Name, e.inum \in Inum, dir[d][s] = Empty, \A t \in Slot : dir[d][t].name # e.name,
           type[e.inum] = "file", UNCHANGED <<type, nlink, dotdot, gone>>,
           \A k \in Inum : Awaits(pc[p], loc[p], k) = Is(e.inum, k) /\ Awaits(place, l, k) = 0
    PROVE  DiskInv'
<1>1. NamesInv' /\ type'[Root] = "dir"
  BY EnterNames DEF JInv
<1>2. \A x \in Inum : x # d => dir'[x] = dir[x]
  BY DEF OneSlot, Entries, IInv, TypeOK
<1>3. FilesEmpty'
  BY <1>2 DEF JInv, FilesEmpty
<1>4. \A x \in Inum, y \in Slot : dir'[x][y].inum # e.inum => dir'[x][y] = dir[x][y]
  BY DEF OneSlot
<1>5. \A x \in Inum, y \in Slot : dir'[x][y] = dir[x][y] \/ (dir'[x][y].inum = e.inum /\ dir[x][y].inum = NoInum)
  BY DEF OneSlot, Empty
<1>6. ASSUME NEW k \in Inum, k # e.inum PROVE NamesOf(k)' = NamesOf(k)
  BY <1>5, <1>6, InodeAssumption DEF NamesOf
<1>7. OneParent'
  <2>1. ASSUME NEW x \in Inum, NEW y \in Slot, NEW k, k = dir'[x][y].inum, k # NoInum, type'[k] = "dir"
        PROVE  k # Root /\ dotdot'[k] = x /\ NamesOf(k)' = {<<x, y>>}
    <3>1. k # e.inum /\ k \in Inum
      BY <2>1 DEF OneSlot, Entries
    <3>2. k = dir[x][y].inum
      BY <1>4, <2>1, <3>1
    <3> QED
      BY <1>6, <2>1, <3>1, <3>2 DEF JInv, OneParent
  <2> QED
    BY <2>1 DEF OneParent
<1>8. NoCircle'
  BY <1>6 DEF NamedDirs, JInv, NoCircle
<1>9. LinkInv'
  <2>1. ASSUME NEW k \in Inum
        PROVE  IF type'[k] = "free" THEN NamesOf(k)' = {} /\ Pending(k)' = {} /\ gone'[k] = 0
               ELSE nlink'[k] = LinksTo(k)'
    <3>1. CASE type[k] = "free"
      <4>1. Pending(k)' \ {p} = Pending(k) \ {p} /\ (p \in Pending(k)' <=> Pends(place, l, k))
        BY Types, PendingStep
      <4>2. ~Pends(place, l, k)
        BY DEF Awaits
      <4>3. NamesOf(k) = {} /\ Pending(k) = {} /\ gone[k] = 0
        BY <3>1 DEF JInv, LinkInv
      <4> QED
        BY <1>6, <3>1, <4>1, <4>2, <4>3
    <3>2. CASE type[k] # "free"
      <4>1. \A x \in Inum, y \in Slot : dir[x][y].inum # NoInum => type'[dir[x][y].inum] = type[dir[x][y].inum]
        OBVIOUS
      <4>2. LinksTo(k)' = nlink[k] - Is(dir[d][s].inum, k) + Is(e.inum, k)
               - (IF k = d THEN IsDir(type, dir[d][s].inum) ELSE 0)
               + (IF k = d THEN IsDir(type', e.inum) ELSE 0)
               - Awaits(pc[p], loc[p], k) + Awaits(place, l, k)
        BY <3>2, <4>1, LinksStep
      <4>3. /\ Is(dir[d][s].inum, k) = 0 /\ IsDir(type, dir[d][s].inum) = 0 /\ IsDir(type', e.inum) = 0
            /\ Awaits(pc[p], loc[p], k) = Is(e.inum, k) /\ Awaits(place, l, k) = 0
        BY InodeAssumption DEF Is, IsDir, Empty
      <4>4. nlink[k] \in Int /\ Is(e.inum, k) \in Nat
        BY IsNat DEF IInv, TypeOK
      <4>5. LinksTo(k)' = nlink[k]
        BY <4>2, <4>3, <4>4
      <4> QED
        BY <3>2, <4>5
    <3> QED
      BY <3>1, <3>2
  <2> QED
    BY <2>1 DEF LinkInv
<1> QED
  BY <1>1, <1>3, <1>7, <1>8, <1>9 DEF DiskInv

LEMMA LinkNewLinks ==
    ASSUME IInv, JInv, NEW p \in Proc, LinkNew(p)
    PROVE  JInv'
<1>1. PICK l, d, old : l = loc[p] /\ d = l.at /\ old = Lookup(d, l.name)
  OBVIOUS
<1>2. /\ pc[p] = "link2" /\ todo[p] = <<>> /\ Free(d) /\ UNCHANGED <<type, nlink, dotdot, gone>>
  BY <1>1 DEF LinkNew, Locks, At, Lockable
<1>3. /\ d \in Inum /\ l.ip \in Inum /\ l \in Local /\ l.call = "link" /\ type[d] = "dir"
      /\ LockedAt(pc[p], loc[p]) = NoInum
  BY <1>1, <1>2, Types, JTypes DEF PlaceOK, AtPlaces, IpPlaces, DirOK, CallOK, Going, LockedAt
<1>4. \A i \in Inum : Pends(pc[p], loc[p], i) <=> i = l.ip
  BY <1>1, <1>3 DEF Pends
<1>5. type[l.ip] = "file"
  BY <1>1, <1>2, JTypes DEF EntryOK
<1>6. PICK k : k = [l EXCEPT !.at = l.ip]
  OBVIOUS
<1>7. k.call = "link" /\ k.ip = l.ip /\ k.at = l.ip
  BY <1>3, <1>6 DEF Local
<1>8. /\ CallOK("linkbad", k) /\ EntryOK(dir, type, "linkbad", k) /\ LockedAt("linkbad", k) = NoInum
      /\ \A i \in Inum : Pends("linkbad", k, i) <=> Pends(pc[p], loc[p], i)
  BY <1>4, <1>5, <1>7 DEF CallOK, Going, EntryOK, Walks, LockedAt, Pends
<1>9. CASE Goto(p, "linkbad", k, <<Put(d)>>) /\ UNCHANGED <<dir, lock>>
  <2>1. (\A i \in Inum : ~Unlocks(i, <<Put(d)>>)) /\ TodoOK("linkbad", k, <<Put(d)>>)
    BY UnlocksIn, TodoShapes
  <2>2. UNCHANGED <<disk, lock>>
    BY <1>2, <1>9 DEF disk
  <2> QED
    BY <1>2, <1>3, <1>8, <1>9, <2>1, <2>2, Types, PlainStep
<1>10. CASE /\ Goto(p, "linkbad", k, <<Put(old), Unlock(d), Put(d)>>)
            /\ lock' = [lock EXCEPT ![d] = p] /\ UNCHANGED dir
  <2>1. PICK what : what = <<Put(old), Unlock(d), Put(d)>>
    OBVIOUS
  <2>2. (\A i \in Inum : Unlocks(i, what) <=> i = d) /\ TodoOK("linkbad", k, what)
    BY <1>8, <2>1, UnlocksIn, TodoShapes
  <2>3. \A i \in Inum : HasLock("linkbad", k, what, i) <=> i = d
    BY <1>8, <2>2, InodeAssumption DEF HasLock
  <2>4. LockMove(p, "linkbad", k, what)
    BY <1>2, <1>3, <1>10, <2>3, LockTaken
  <2>5. DiskInv' /\ EntriesStay(p)
    BY <1>2, <1>8, <1>10, <2>1, Types, SameLinks
  <2>6. EntryOK(dir', type', "linkbad", k)
    BY <1>2, <1>8, <1>10
  <2> QED
    BY <1>8, <1>10, <2>1, <2>2, <2>4, <2>5, <2>6, Types, JStep
<1>11. CASE /\ old = NoInum /\ dir' = DirLink(d, l.name, l.ip)
            /\ Return(p, <<Put(d), Put(l.ip)>>) /\ UNCHANGED lock
  <2>1. l.name \in Name
    BY <1>1, <1>3, <1>11, LookupNone DEF Local
  <2>2. \A s \in Slot : dir[d][s].name # l.name
    BY <1>1, <1>3, <1>11, <2>1, NoSuchName DEF JInv
  <2>3. PICK s : s = EmptySlot(d)
    OBVIOUS
  <2>4. s \in Slot /\ dir[d][s] = Empty
    BY <1>3, <2>1, <2>2, <2>3, RoomLeft DEF JInv
  <2>5. PICK e : e = [name |-> l.name, inum |-> l.ip]
    OBVIOUS
  <2>6. e \in Entry /\ e.name = l.name /\ e.inum = l.ip
    BY <1>3, <2>1, <2>5 DEF Entry
  <2>7. OneSlot(d, s, e)
    BY <1>11, <2>3, <2>5, <1>3, <2>4, <2>6, OneSlotSet DEF DirLink
  <2>8. PICK what : what = <<Put(d), Put(l.ip)>>
    OBVIOUS
  <2>9. PICK place \in {"user", "return"} :
          /\ Goto(p, place, NoCall, what) /\ CallOK(place, NoCall)
          /\ LockedAt(place, NoCall) = NoInum /\ EntryOK(dir', type', place, NoCall)
          /\ \A j \in Inum : ~Pends(place, NoCall, j)
    BY <1>11, <2>8, Returns
  <2>10. (\A j \in Inum : ~Unlocks(j, what)) /\ TodoOK(place, NoCall, what)
    BY <2>8, UnlocksIn, TodoShapes
  <2>11. LockMove(p, place, NoCall, what)
    BY <1>2, <1>3, <1>11, <2>9, <2>10, Unlocked
  <2>12. \A j \in Inum : Awaits(pc[p], loc[p], j) = Is(e.inum, j) /\ Awaits(place, NoCall, j) = 0
    BY <1>4, <2>6, <2>9 DEF Awaits, Is
  <2>13. DiskInv'
    BY <1>2, <1>3, <1>5, <2>1, <2>2, <2>4, <2>6, <2>7, <2>9, <2>12, FileNamed
  <2>14. EntriesStay(p)
    <3>1. \A x \in Inum : x # d => dir'[x] = dir[x]
      BY <2>7 DEF OneSlot, Entries, IInv, TypeOK
    <3> QED
      BY <1>2, <1>3, <3>1, OthersEntries
  <2> QED
    BY <2>9, <2>10, <2>11, <2>13, <2>14, Types, JStep
<1>12. \/ Goto(p, "linkbad", k, <<Put(d)>>) /\ UNCHANGED <<dir, lock>>
       \/ /\ Goto(p, "linkbad", k, <<Put(old), Unlock(d), Put(d)>>)
          /\ lock' = [lock EXCEPT ![d] = p] /\ UNCHANGED dir
       \/ /\ old = NoInum /\ dir' = DirLink(d, l.name, l.ip)
          /\ Return(p, <<Put(d), Put(l.ip)>>) /\ UNCHANGED lock
  BY <1>1, <1>6 DEF LinkNew
<1> QED
  BY <1>9, <1>10, <1>11, <1>12

\* An entry is cleared.
LEMMA ClearedNames ==
    ASSUME IInv, JInv, NEW d \in Inum, NEW s \in Slot, OneSlot(d, s, Empty)
    PROVE  NamesInv'
<1>1. Empty.name = "." /\ Empty.inum = NoInum /\ "." \notin Name
  BY InodeAssumption DEF Empty
<1>2. ASSUME NEW x \in Inum, NEW y \in Slot
      PROVE  /\ dir'[x][y].inum = NoInum <=> dir'[x][y] = Empty
             /\ dir'[x][y].inum # NoInum => dir'[x][y].name \in Name
             /\ \A t \in Slot : dir'[x][y].inum # NoInum /\ dir'[x][t].name = dir'[x][y].name => t = y
  <2>1. \A t \in Slot : dir'[x][t] = dir[x][t] \/ (dir'[x][t] = Empty /\ x = d /\ t = s)
    BY DEF OneSlot
  <2>2. /\ dir[x][y].inum = NoInum <=> dir[x][y] = Empty
        /\ dir[x][y].inum # NoInum => dir[x][y].name \in Name
        /\ \A t \in Slot : dir[x][y].inum # NoInum /\ dir[x][t].name = dir[x][y].name => t = y
    BY DEF JInv, NamesInv
  <2>3. CASE dir'[x][y] = dir[x][y]
    BY <1>1, <2>1, <2>2, <2>3
  <2>4. CASE dir'[x][y] = Empty
    BY <1>1, <2>4
  <2> QED
    BY <2>1, <2>3, <2>4
<1> QED
  BY <1>2 DEF NamesInv

\* unlink() clears the entry of an inode, and one link of the parent if it is a directory.
LEMMA NameCleared ==
    ASSUME IInv, JInv, NEW p \in Proc, NEW place, NEW l, NEW what, Goto(p, place, l, what),
           NEW d \in Inum, NEW s \in Slot, OneSlot(d, s, Empty), NEW i \in Inum,
           dir[d][s].inum = i, type[i] # "free", UNCHANGED <<type, dotdot, gone>>,
           \A k \in Inum : Awaits(pc[p], loc[p], k) = 0 /\ Awaits(place, l, k) = Is(i, k),
           \A k \in Inum : nlink'[k] = nlink[k] - (IF k = d THEN IF type[i] = "dir" THEN 1 ELSE 0 ELSE 0)
    PROVE  DiskInv'
<1>1. NamesInv' /\ type'[Root] = "dir"
  BY ClearedNames DEF JInv
<1>2. NoInum \notin Inum /\ Empty.inum = NoInum /\ Empty \in Entry /\ \A t \in Slot : NoEntries[t] = Empty
  BY InodeAssumption DEF Empty, Entry, NoEntries
<1>3. \A x \in Inum : x # d => dir'[x] = dir[x]
  BY DEF OneSlot, Entries, IInv, TypeOK
<1>4. \A x \in Inum, y \in Slot : dir'[x][y] = dir[x][y] \/ dir'[x][y].inum = NoInum
  BY <1>2 DEF OneSlot
<1>5. FilesEmpty'
  BY <1>2, <1>3 DEF JInv, FilesEmpty
<1>6. \A k \in Inum : NamesOf(k)' \subseteq NamesOf(k)
  BY <1>2, <1>4 DEF NamesOf
<1>7. OneParent'
  <2>1. ASSUME NEW x \in Inum, NEW y \in Slot, NEW k, k = dir'[x][y].inum, k # NoInum, type'[k] = "dir"
        PROVE  k # Root /\ dotdot'[k] = x /\ NamesOf(k)' = {<<x, y>>}
    <3>1. k \in Inum /\ k = dir[x][y].inum
      BY <1>4, <2>1 DEF OneSlot, Entries
    <3>2. k # Root /\ dotdot[k] = x /\ NamesOf(k) = {<<x, y>>}
      BY <2>1, <3>1 DEF JInv, OneParent
    <3>3. <<x, y>> \in NamesOf(k)'
      BY <2>1 DEF NamesOf
    <3> QED
      BY <1>6, <3>1, <3>2, <3>3
  <2> QED
    BY <2>1 DEF OneParent
<1>8. NoCircle'
  <2>1. NamedDirs' \subseteq NamedDirs
    BY <1>6 DEF NamedDirs
  <2>2. ASSUME NEW S \in SUBSET NamedDirs', S # {} PROVE \E k \in S : dotdot'[k] \notin S
    BY <2>1, <2>2 DEF JInv, NoCircle
  <2> QED
    BY <2>2 DEF NoCircle
<1>9. LinkInv'
  <2>1. ASSUME NEW k \in Inum
        PROVE  IF type'[k] = "free" THEN NamesOf(k)' = {} /\ Pending(k)' = {} /\ gone'[k] = 0
               ELSE nlink'[k] = LinksTo(k)'
    <3>1. CASE type[k] = "free"
      <4>1. Pending(k)' \ {p} = Pending(k) \ {p} /\ (p \in Pending(k)' <=> Pends(place, l, k))
        BY Types, PendingStep
      <4>2. ~Pends(place, l, k)
        BY <3>1 DEF Is, Awaits
      <4>3. NamesOf(k) = {} /\ Pending(k) = {} /\ gone[k] = 0
        BY <3>1 DEF JInv, LinkInv
      <4> QED
        BY <1>6, <3>1, <4>1, <4>2, <4>3
    <3>2. CASE type[k] # "free"
      <4>1. \A x \in Inum, y \in Slot : dir[x][y].inum # NoInum => type'[dir[x][y].inum] = type[dir[x][y].inum]
        OBVIOUS
      <4>2. LinksTo(k)' = nlink[k] - Is(dir[d][s].inum, k) + Is(Empty.inum, k)
               - (IF k = d THEN IsDir(type, dir[d][s].inum) ELSE 0)
               + (IF k = d THEN IsDir(type', Empty.inum) ELSE 0)
               - Awaits(pc[p], loc[p], k) + Awaits(place, l, k)
        BY <1>2, <3>2, <4>1, LinksStep
      <4>3. /\ Is(dir[d][s].inum, k) = Is(i, k) /\ Is(Empty.inum, k) = 0 /\ IsDir(type', Empty.inum) = 0
            /\ IsDir(type, dir[d][s].inum) = (IF type[i] = "dir" THEN 1 ELSE 0)
            /\ Awaits(pc[p], loc[p], k) = 0 /\ Awaits(place, l, k) = Is(i, k)
        BY <1>2 DEF Is, IsDir
      <4>4. nlink[k] \in Int /\ Is(i, k) \in Nat
        BY IsNat DEF IInv, TypeOK
      <4>5. nlink'[k] = nlink[k] - (IF k = d THEN IF type[i] = "dir" THEN 1 ELSE 0 ELSE 0)
        OBVIOUS
      <4>6. LinksTo(k)' = nlink'[k]
        BY <4>2, <4>3, <4>4, <4>5
      <4> QED
        BY <3>2, <4>6
    <3> QED
      BY <3>1, <3>2
  <2> QED
    BY <2>1 DEF LinkInv
<1> QED
  BY <1>1, <1>5, <1>7, <1>8, <1>9 DEF DiskInv

LEMMA UnlinkEntryLinks ==
    ASSUME IInv, JInv, NEW p \in Proc, UnlinkEntry(p)
    PROVE  JInv'
<1>1. PICK l, d, i : l = loc[p] /\ d = l.dp /\ i = l.at
  OBVIOUS
<1>2. /\ pc[p] = "unlink2" /\ todo[p] = <<>> /\ UNCHANGED <<type, dotdot, gone>>
      /\ Free(i) /\ type[i] # "free"
  BY <1>1 DEF UnlinkEntry, Locks, At, Lockable
<1>3. /\ d \in Inum /\ i \in Inum /\ l \in Local /\ LockedAt(pc[p], loc[p]) = d /\ l.call = "unlink"
      /\ l.slot \in Slot /\ dir[d][l.slot].inum = i
  <2>1. PlaceOK("unlink2", l, fd[p], <<>>) /\ CallOK("unlink2", l) /\ EntryOK(dir, type, "unlink2", l)
    BY <1>1, <1>2, Types, JTypes
  <2>2. d \in Inum /\ i \in Inum
    BY <1>1, <2>1 DEF PlaceOK, AtPlaces, DpPlaces
  <2>3. l.slot \in Slot /\ dir[d][l.slot].inum = i
    BY <1>1, <2>1 DEF EntryOK
  <2> QED
    BY <1>1, <1>2, <2>1, <2>2, <2>3, Types DEF CallOK, Going, LockedAt
<1>4. \A j \in Inum : ~Pends(pc[p], loc[p], j)
  BY <1>1, <1>2, <1>3 DEF Pends
<1>5. \A j \in Inum : lock[j] = p <=> j = d
  <2>1. \A j : ~Unlocks(j, todo[p])
    <3>1. todo[p] = <<>>
      BY <1>2
    <3> QED
      BY <3>1, UnlocksIn
  <2> QED
    BY <1>3, <2>1 DEF JInv, LockInv, HasLock
<1>6. i # d
  BY <1>2, <1>3, <1>5, InodeAssumption DEF Free
<1>7. CASE Return(p, <<Put(i), Unlock(d), Put(d)>>) /\ UNCHANGED <<dir, nlink, lock>>
  <2>1. PICK what : what = <<Put(i), Unlock(d), Put(d)>>
    OBVIOUS
  <2>2. PICK place \in {"user", "return"} :
          /\ Goto(p, place, NoCall, what) /\ CallOK(place, NoCall)
          /\ LockedAt(place, NoCall) = NoInum /\ EntryOK(dir', type', place, NoCall)
          /\ \A j \in Inum : ~Pends(place, NoCall, j)
    BY <1>7, <2>1, Returns
  <2>3. (\A j \in Inum : Unlocks(j, what) <=> j = d) /\ TodoOK(place, NoCall, what)
    BY <2>1, <2>2, UnlocksIn, TodoShapes
  <2>4. LockMove(p, place, NoCall, what)
    BY <2>2, <2>3, InodeAssumption, <1>5, <1>7 DEF HasLock, LockMove
  <2>5. DiskInv' /\ EntriesStay(p)
    BY <1>2, <1>4, <1>7, <2>2, Types, SameLinks
  <2> QED
    BY <2>2, <2>3, <2>4, <2>5, Types, JStep
<1>8. CASE /\ dir' = [dir EXCEPT ![d][l.slot] = Empty]
           /\ nlink' = [nlink EXCEPT ![d] = @ - IF type[i] = "dir" THEN 1 ELSE 0]
           /\ lock' = [lock EXCEPT ![d] = NoProc, ![i] = p]
           /\ Goto(p, "unlink3", [l EXCEPT !.ip = i], <<Put(d)>>)
  <2>1. PICK k, s : k = [l EXCEPT !.ip = i] /\ s = l.slot
    OBVIOUS
  <2>2. k.call = "unlink" /\ k.ip = i /\ Goto(p, "unlink3", k, <<Put(d)>>)
    BY <1>3, <1>8, <2>1 DEF Local
  <2>3. CallOK("unlink3", k) /\ EntryOK(dir', type', "unlink3", k) /\ LockedAt("unlink3", k) = i
    BY <2>2 DEF CallOK, Going, EntryOK, Walks, LockedAt
  <2>4. (\A j \in Inum : ~Unlocks(j, <<Put(d)>>)) /\ TodoOK("unlink3", k, <<Put(d)>>)
    BY UnlocksIn, TodoShapes
  <2>5. LockMove(p, "unlink3", k, <<Put(d)>>)
    <3>1. \A j \in Inum : lock'[j] = IF j = i THEN p ELSE IF j = d THEN NoProc ELSE lock[j]
      BY <1>6, <1>8 DEF IInv, TypeOK
    <3>2. \A j \in Inum : HasLock("unlink3", k, <<Put(d)>>, j) <=> j = i
      BY <2>3, <2>4 DEF HasLock
    <3>3. lock[d] = p /\ lock[i] = NoProc /\ p # NoProc
      BY <1>2, <1>3, <1>5, InodeAssumption DEF Free
    <3>4. \A j \in Inum : lock'[j] = p <=> j = i
      BY <1>5, <3>1, <3>3
    <3>5. \A j \in Inum : lock'[j] = lock[j] \/ {lock[j], lock'[j]} \subseteq {p, NoProc}
      BY <3>1, <3>3
    <3> QED
      BY <3>2, <3>4, <3>5 DEF LockMove
  <2>6. OneSlot(d, s, Empty)
    BY <1>3, <1>8, <2>1, OneSlotSet DEF Empty, Entry
  <2>7. \A j \in Inum : Awaits(pc[p], loc[p], j) = 0 /\ Awaits("unlink3", k, j) = Is(i, j)
    BY <1>4, <2>2 DEF Awaits, Pends, Is
  <2>8. DiskInv'
    <3>1. \A j \in Inum : nlink'[j] = nlink[j] - (IF j = d THEN IF type[i] = "dir" THEN 1 ELSE 0 ELSE 0)
      BY <1>8 DEF IInv, TypeOK
    <3> QED
      BY <1>2, <1>3, <2>1, <2>2, <2>6, <2>7, <3>1, NameCleared
  <2>9. EntriesStay(p)
    <3>1. \A x \in Inum : x # d => dir'[x] = dir[x]
      BY <2>6 DEF OneSlot, Entries, IInv, TypeOK
    <3>2. lock[d] = p
      BY <1>3, <1>5
    <3> QED
      BY <1>2, <1>3, <3>1, <3>2, OthersEntries
  <2> QED
    BY <2>2, <2>3, <2>4, <2>5, <2>8, <2>9, Types, JStep
<1> QED
  BY <1>1, <1>7, <1>8 DEF UnlinkEntry

\* create() makes an inode: a file, or a directory that counts as a link of its parent.
LEMMA InodeMade ==
    ASSUME IInv, JInv, NEW p \in Proc, NEW place, NEW l, NEW what, Goto(p, place, l, what),
           NEW d \in Inum, type[d] = "dir", NEW s \in Slot, NEW e \in Entry, OneSlot(d, s, e),
           NEW i \in Inum, e.name \in Name, e.inum = i, dir[d][s] = Empty,
           \A t \in Slot : dir[d][t].name # e.name,
           type[i] = "free", NEW kind \in {"file", "dir"}, type'[i] = kind, nlink'[i] = 1,
           kind = "dir" => dotdot'[i] = d, UNCHANGED gone,
           \A k \in Inum : k # i =>
               /\ type'[k] = type[k] /\ dotdot'[k] = dotdot[k]
               /\ nlink'[k] = nlink[k] + (IF k = d /\ kind = "dir" THEN 1 ELSE 0),
           \A k \in Inum : ~Pends(pc[p], loc[p], k) /\ ~Pends(place, l, k)
    PROVE  DiskInv'
<1>1. i # d /\ NoInum \notin Inum /\ i # Root /\ Root \in Inum
  BY InodeAssumption, RootType DEF JInv
<1>2. \A x \in Inum : x # d => dir'[x] = dir[x]
  BY DEF OneSlot, Entries, IInv, TypeOK
<1>3. /\ type'[i] = kind /\ \A k \in Inum : k # i => type'[k] = type[k] /\ dotdot'[k] = dotdot[k]
      /\ kind = "dir" => dotdot'[i] = d
  OBVIOUS
<1>4. NamesInv' /\ type'[Root] = "dir"
  BY EnterNames, <1>1, <1>3 DEF JInv
<1>5. NamesOf(i) = {} /\ Pending(i) = {} /\ gone[i] = 0 /\ dir[i] = NoEntries
  BY DEF JInv, LinkInv, FilesEmpty
<1>6. ASSUME NEW x \in Inum, NEW y \in Slot PROVE dir[x][y].inum # i
  <2>1. <<x, y>> \notin NamesOf(i)
    BY <1>5
  <2> QED
    BY <2>1 DEF NamesOf
<1>7. FilesEmpty'
  BY <1>1, <1>2, <1>3, <1>5 DEF JInv, FilesEmpty
<1>8. \A x \in Inum, y \in Slot : dir'[x][y] = dir[x][y] \/ (x = d /\ y = s /\ dir'[x][y].inum = i)
  BY DEF OneSlot
<1>9. ASSUME NEW k \in Inum, k # i PROVE NamesOf(k)' = NamesOf(k)
  BY <1>1, <1>8, <1>9 DEF Empty, NamesOf
<1>10. NamesOf(i)' = {<<d, s>>}
  BY <1>6, <1>8 DEF OneSlot, NamesOf
<1>11. OneParent'
  <2>1. ASSUME NEW x \in Inum, NEW y \in Slot, NEW k, k = dir'[x][y].inum, k # NoInum, type'[k] = "dir"
        PROVE  k # Root /\ dotdot'[k] = x /\ NamesOf(k)' = {<<x, y>>}
    <3>1. k \in Inum
      BY <2>1 DEF OneSlot, Entries
    <3>2. CASE k = i
      <4>1. x = d /\ y = s
        <5>1. dir'[x][y].inum = i /\ dir[x][y].inum # i
          BY <1>6, <2>1, <3>2
        <5>2. dir'[x][y] # dir[x][y]
          BY <5>1
        <5> QED
          BY <1>8, <5>2
      <4> QED
        BY <1>1, <1>3, <1>10, <2>1, <3>2, <4>1
    <3>3. CASE k # i
      BY <1>3, <1>8, <2>1, <3>1, <3>3, <1>9 DEF JInv, OneParent
    <3> QED
      BY <3>2, <3>3
  <2> QED
    BY <2>1 DEF OneParent
<1>12. NoCircle'
  <2>1. NamedDirs' \subseteq NamedDirs \cup {i}
    BY <1>3, <1>9 DEF NamedDirs
  <2>2. ASSUME NEW k \in NamedDirs PROVE k # i /\ k \in Inum /\ dotdot[k] # i
    <3>1. k \in Inum /\ k # i /\ type[k] = "dir" /\ NamesOf(k) # {}
      BY <1>5, <2>2 DEF NamedDirs
    <3>2. PICK x \in Inum, y \in Slot : dir[x][y].inum = k
      BY <3>1 DEF NamesOf
    <3>3. dotdot[k] = x
      BY <1>1, <3>1, <3>2 DEF JInv, OneParent
    <3>4. dir[i][y].inum = NoInum
      BY <1>5 DEF NoEntries, Empty
    <3>5. x # i
      BY <1>1, <3>1, <3>2, <3>4
    <3> QED
      BY <3>1, <3>3, <3>5
  <2>3. ASSUME NEW S \in SUBSET NamedDirs', S # {} PROVE \E k \in S : dotdot'[k] \notin S
    <3>1. PICK T : T = S \ {i}
      OBVIOUS
    <3>2. CASE T = {}
      BY <2>3, <3>1, <3>2, <1>3, <1>1 DEF NamedDirs
    <3>3. CASE T # {}
      <4>1. T \in SUBSET NamedDirs
        BY <2>1, <3>1
      <4>2. PICK k \in T : dotdot[k] \notin T
        BY <3>3, <4>1 DEF JInv, NoCircle
      <4>3. k \in S /\ dotdot'[k] = dotdot[k] /\ dotdot[k] # i
        BY <1>3, <2>2, <3>1, <4>1, <4>2
      <4> QED
        BY <3>1, <4>2, <4>3
    <3> QED
      BY <3>2, <3>3
  <2> QED
    BY <2>3 DEF NoCircle
<1>13. LinkInv'
  <2>1. ASSUME NEW k \in Inum PROVE Pending(k)' = Pending(k)
    <3>1. /\ Pending(k)' \ {p} = Pending(k) \ {p}
          /\ p \in Pending(k)' <=> Pends(place, l, k)
      BY Types, PendingStep
    <3>2. p \in Pending(k) <=> Pends(pc[p], loc[p], k)
      BY DEF Pending, Pends
    <3>3. PICK S, T : S = Pending(k) /\ T = Pending(k)'
      OBVIOUS
    <3>4. p \notin S /\ p \notin T /\ S \ {p} = T \ {p}
      BY <3>1, <3>2, <3>3
    <3>5. S = S \ {p} /\ T = T \ {p}
      BY <3>4
    <3>6. S = T
      BY <3>4, <3>5
    <3> QED
      BY <3>3, <3>6
  <2>2. ASSUME NEW k \in Inum
        PROVE  IF type'[k] = "free" THEN NamesOf(k)' = {} /\ Pending(k)' = {} /\ gone'[k] = 0
               ELSE nlink'[k] = LinksTo(k)'
    <3>1. CASE k = i
      <4>1. SubDirs(i)' = {}
        BY <1>1, <1>2, <1>5 DEF NoEntries, Empty, SubDirs
      <4>2. LinksTo(i)' = Cardinality({<<d, s>>}) + Cardinality({}) + Cardinality({}) + gone[i] + Is(Root, i)
        BY <1>5, <1>10, <2>1, <4>1 DEF LinksTo
      <4>3. Cardinality({}) = 0 /\ Cardinality({<<d, s>>}) = 1 /\ Is(Root, i) = 0 /\ gone[i] = 0
        BY <1>1, <1>5, FS_EmptySet, FS_Singleton DEF Is
      <4>4. nlink'[i] = 1
        OBVIOUS
      <4>5. LinksTo(i)' = 1
        BY <4>2, <4>3
      <4> QED
        BY <1>3, <3>1, <4>4, <4>5
    <3>2. CASE k # i /\ type[k] = "free"
      BY <3>2, <1>3, <1>9, <2>1 DEF JInv, LinkInv
    <3>3. CASE k # i /\ type[k] # "free"
      <4>1. \A x \in Inum, y \in Slot : dir[x][y].inum # NoInum => type'[dir[x][y].inum] = type[dir[x][y].inum]
        <5>1. \A x \in Inum, y \in Slot : dir[x][y].inum # NoInum => dir[x][y].inum \in Inum
          BY DEF IInv, TypeOK
        <5> QED
          BY <1>3, <1>6, <5>1
      <4>2. LinksTo(k)' = nlink[k] - Is(dir[d][s].inum, k) + Is(e.inum, k)
               - (IF k = d THEN IsDir(type, dir[d][s].inum) ELSE 0)
               + (IF k = d THEN IsDir(type', e.inum) ELSE 0)
               - Awaits(pc[p], loc[p], k) + Awaits(place, l, k)
        BY <3>3, <4>1, LinksStep
      <4>3. /\ Is(dir[d][s].inum, k) = 0 /\ Is(e.inum, k) = 0 /\ IsDir(type, dir[d][s].inum) = 0
            /\ IsDir(type', e.inum) = (IF kind = "dir" THEN 1 ELSE 0)
            /\ Awaits(pc[p], loc[p], k) = 0 /\ Awaits(place, l, k) = 0
        BY <1>1, <1>3, <3>3 DEF Is, IsDir, Empty, Awaits
      <4>4. nlink[k] \in Int
        BY DEF IInv, TypeOK
      <4>5. nlink'[k] = nlink[k] + (IF k = d /\ kind = "dir" THEN 1 ELSE 0)
        BY <3>3
      <4>6. LinksTo(k)' = nlink'[k]
        BY <4>2, <4>3, <4>4, <4>5
      <4> QED
        BY <1>3, <3>3, <4>6
    <3> QED
      BY <3>1, <3>2, <3>3
  <2> QED
    BY <2>2 DEF LinkInv
<1> QED
  BY <1>4, <1>7, <1>11, <1>12, <1>13 DEF DiskInv

LEMMA LiveStep ==
    ASSUME IInv, LiveLocks, Next
    PROVE  LiveLocks'
<1>1. ASSUME UNCHANGED <<type, lock>> PROVE LiveLocks'
  BY <1>1 DEF LiveLocks
<1>2. ASSUME NEW i, UNCHANGED type, lock' = [lock EXCEPT ![i] = NoProc] PROVE LiveLocks'
  BY <1>2 DEF LiveLocks, IInv, TypeOK
<1>3. ASSUME NEW i, NEW p, UNCHANGED type, type[i] # "free", lock' = [lock EXCEPT ![i] = p] PROVE LiveLocks'
  BY <1>3 DEF LiveLocks, IInv, TypeOK
<1>4. ASSUME NEW p \in Proc,
             \/ Call(p) \/ Close(p) \/ Walk(p) \/ Open(p) \/ Chdir(p) \/ ChdirDone(p) \/ LinkOld(p) \/ LinkBad(p)
             \/ RenameOld(p) \/ RenameType(p) \/ RenameCycle(p) \/ RenameReplace(p) \/ RenameClear(p)
      PROVE  LiveLocks'
  BY <1>1, <1>4 DEF Call, Close, Walk, Open, Chdir, ChdirDone, LinkOld, LinkBad, RenameOld, RenameType,
     RenameCycle, RenameReplace, RenameClear, disk
<1>5. ASSUME NEW p \in Proc, Release(p) \/ Created(p) \/ UnlinkInode(p) \/ RenameEnter(p)
      PROVE  LiveLocks'
  BY <1>1, <1>2, <1>5 DEF Release, Created, UnlinkInode, RenameEnter, disk
<1>6. ASSUME NEW p \in Proc, LinkNew(p) \/ Unlink(p) \/ RenameNew(p) \/ RenameDotDot(p)
      PROVE  LiveLocks'
  <2>1. CASE LinkNew(p) \/ Unlink(p)
    BY <2>1, <1>1, <1>3 DEF LinkNew, Unlink, Locks, Lockable, disk
  <2>2. CASE RenameNew(p)
    <3>1. UNCHANGED type /\ pc[p] = "ren3"
      BY <2>2 DEF RenameNew, Locks, At, disk
    <3>2. UNCHANGED lock \/ lock' = [lock EXCEPT ![loc[p].dp] = p]
      BY <2>2 DEF RenameNew
    <3>3. type[loc[p].dp] # "free"
      BY <3>1, Types DEF DirOK
    <3> QED
      BY <1>1, <1>3, <3>1, <3>2, <3>3
  <2>3. CASE RenameDotDot(p)
    <3>1. UNCHANGED type /\ pc[p] \in {"ren7", "ren8"}
      BY <2>3 DEF RenameDotDot, Locks, At, disk
    <3>2. \/ lock' = [lock EXCEPT ![loc[p].ip] = NoProc]
          \/ lock' = [lock EXCEPT ![loc[p].ip] = p]
      BY <2>3 DEF RenameDotDot
    <3>3. type[loc[p].ip] # "free"
      BY <3>1, Types DEF DirOK
    <3> QED
      BY <1>2, <1>3, <3>1, <3>2, <3>3
  <2> QED
    BY <1>6, <2>1, <2>2, <2>3
<1>7. ASSUME NEW p \in Proc, UnlinkEntry(p)
      PROVE  LiveLocks'
  BY <1>7 DEF UnlinkEntry, Locks, Lockable, LiveLocks, IInv, TypeOK
<1>8. ASSUME NEW p \in Proc, Create(p)
      PROVE  LiveLocks'
  <2>1. \/ UNCHANGED <<type, lock>>
        \/ \E i \in Inum, k \in {"file", "dir"} : type' = [type EXCEPT ![i] = k] /\ lock' = [lock EXCEPT ![i] = p]
    BY <1>8 DEF Create, disk, NewInum
  <2> QED
    BY <1>1, <2>1 DEF LiveLocks, IInv, TypeOK
<1>9. ASSUME NEW p \in Proc, PutCheck(p)
      PROVE  LiveLocks'
  <2>1. PICK i : i = Head(todo[p]).ino
    OBVIOUS
  <2>2. UNCHANGED lock /\ lock[i] = NoProc /\ (UNCHANGED type \/ type' = [type EXCEPT ![i] = "free"])
    BY <1>9, <2>1 DEF PutCheck, Free
  <2> QED
    BY <2>2 DEF LiveLocks, IInv, TypeOK
<1> QED
  BY <1>4, <1>5, <1>6, <1>7, <1>8, <1>9 DEF Next

LEMMA CreateLinks ==
    ASSUME IInv, JInv, LiveLocks, NEW p \in Proc, Create(p)
    PROVE  JInv'
<1>1. PICK l, d, old : l = loc[p] /\ d = l.at /\ old = Lookup(d, l.name)
  OBVIOUS
<1>2. pc[p] = "create" /\ todo[p] = <<>> /\ Free(d)
  BY <1>1 DEF Create, Locks, At, Lockable
<1>3. /\ d \in Inum /\ l \in Local /\ l.call \in {"creat", "mkdir"} /\ type[d] = "dir"
      /\ LockedAt(pc[p], loc[p]) = NoInum
  BY <1>1, <1>2, Types, JTypes DEF PlaceOK, AtPlaces, DirOK, CallOK, Going, LockedAt
<1>4. \A i \in Inum : ~Pends(pc[p], loc[p], i)
  BY <1>1, <1>2, <1>3 DEF Pends
<1>5. CASE Goto(p, "createold", [l EXCEPT !.at = old], <<Put(d)>>) /\ UNCHANGED <<disk, lock>>
  <2>1. PICK k : k = [l EXCEPT !.at = old]
    OBVIOUS
  <2>2. k.call = l.call
    BY <1>3, <2>1 DEF Local
  <2>3. /\ CallOK("createold", k) /\ EntryOK(dir, type, "createold", k) /\ LockedAt("createold", k) = NoInum
        /\ \A i \in Inum : ~Pends("createold", k, i)
    BY <1>3, <2>2 DEF CallOK, Going, EntryOK, Walks, LockedAt, Pends
  <2>4. (\A i \in Inum : ~Unlocks(i, <<Put(d)>>)) /\ TodoOK("createold", k, <<Put(d)>>)
    BY UnlocksIn, TodoShapes
  <2> QED
    BY <1>2, <1>3, <1>4, <1>5, <2>1, <2>3, <2>4, Types, PlainStep
<1>6. CASE Return(p, <<Put(d)>>) /\ UNCHANGED <<disk, lock>>
  <2>1. (\A i \in Inum : ~Unlocks(i, <<Put(d)>>)) /\ \A place : TodoOK(place, NoCall, <<Put(d)>>)
    BY UnlocksIn, TodoShapes
  <2> QED
    BY <1>2, <1>3, <1>4, <1>6, <2>1, Types, PlainReturn
<1>7. ASSUME NEW i \in NewInum, old = NoInum,
             type' = [type EXCEPT ![i] = IF l.call = "mkdir" THEN "dir" ELSE "file"],
             nlink' = [nlink EXCEPT ![i] = 1, ![d] = @ + IF l.call = "mkdir" THEN 1 ELSE 0],
             dotdot' = [dotdot EXCEPT ![i] = IF l.call = "mkdir" THEN d ELSE NoInum],
             dir' = DirLink(d, l.name, i), lock' = [lock EXCEPT ![i] = p],
             Goto(p, "created", [l EXCEPT !.ip = i], <<Put(d)>>), UNCHANGED gone
      PROVE  JInv'
  <2>17. PICK kind : kind = IF l.call = "mkdir" THEN "dir" ELSE "file"
    OBVIOUS
  <2>1. i \in Inum /\ type[i] = "free" /\ kind \in {"file", "dir"} /\ i # d
    BY <1>3, <1>7, <2>17 DEF NewInum
  <2>2. l.name \in Name
    BY <1>1, <1>3, <1>7, LookupNone DEF Local
  <2>3. \A s \in Slot : dir[d][s].name # l.name
    BY <1>1, <1>3, <1>7, <2>2, NoSuchName DEF JInv
  <2>4. PICK s : s = EmptySlot(d)
    OBVIOUS
  <2>5. s \in Slot /\ dir[d][s] = Empty
    BY <1>3, <2>2, <2>3, <2>4, RoomLeft DEF JInv
  <2>6. PICK e : e = [name |-> l.name, inum |-> i]
    OBVIOUS
  <2>7. e \in Entry /\ e.name = l.name /\ e.inum = i
    BY <2>1, <2>2, <2>6 DEF Entry
  <2>8. OneSlot(d, s, e)
    BY <1>7, <2>4, <2>6, <1>3, <2>5, <2>7, OneSlotSet DEF DirLink
  <2>9. PICK k : k = [l EXCEPT !.ip = i]
    OBVIOUS
  <2>10. k.call = l.call /\ k.ip = i /\ Goto(p, "created", k, <<Put(d)>>)
    BY <1>3, <1>7, <2>9 DEF Local
  <2>11. /\ CallOK("created", k) /\ EntryOK(dir', type', "created", k) /\ LockedAt("created", k) = i
         /\ \A j \in Inum : ~Pends("created", k, j)
    BY <1>3, <2>10 DEF CallOK, Going, EntryOK, Walks, LockedAt, Pends
  <2>12. (\A j \in Inum : ~Unlocks(j, <<Put(d)>>)) /\ TodoOK("created", k, <<Put(d)>>)
    BY UnlocksIn, TodoShapes
  <2>13. LockMove(p, "created", k, <<Put(d)>>)
    BY <2>11, <2>12, <2>1, <1>2, <1>3, <1>7, LockTaken DEF HasLock, LiveLocks, Free
  <2>14. /\ type'[i] = kind /\ nlink'[i] = 1
         /\ kind = "dir" => dotdot'[i] = d
         /\ \A j \in Inum : j # i =>
               /\ type'[j] = type[j] /\ dotdot'[j] = dotdot[j]
               /\ nlink'[j] = nlink[j] + (IF j = d /\ kind = "dir" THEN 1 ELSE 0)
    BY <1>7, <2>1, <2>17 DEF IInv, TypeOK
  <2>15. DiskInv'
    <3>1. Goto(p, "created", k, <<Put(d)>>) /\ e.name \in Name /\ e.inum = i
      BY <2>2, <2>7, <2>10
    <3>2. \A t \in Slot : dir[d][t].name # e.name
      BY <2>3, <2>7
    <3>3. \A j \in Inum : ~Pends(pc[p], loc[p], j) /\ ~Pends("created", k, j)
      BY <1>4, <2>11
    <3>4. UNCHANGED gone
      BY <1>7
    <3> QED
      BY <1>3, <2>1, <2>5, <2>7, <2>8, <2>14, <3>1, <3>2, <3>3, <3>4, InodeMade
  <2>16. EntriesStay(p)
    <3>1. \A x \in Inum : x # d => dir'[x] = dir[x]
      BY <2>8 DEF OneSlot, Entries, IInv, TypeOK
    <3>2. \A x \in Inum : type[x] = "file" => type'[x] = "file"
      BY <2>1, <2>14
    <3> QED
      BY <1>2, <1>3, <3>1, <3>2, OthersEntries
  <2> QED
    BY <2>10, <2>11, <2>12, <2>13, <2>15, <2>16, Types, JStep
<1>8. \/ Goto(p, "createold", [l EXCEPT !.at = old], <<Put(d)>>) /\ UNCHANGED <<disk, lock>>
      \/ Return(p, <<Put(d)>>) /\ UNCHANGED <<disk, lock>>
      \/ \E i \in NewInum :
             /\ old = NoInum
             /\ type' = [type EXCEPT ![i] = IF l.call = "mkdir" THEN "dir" ELSE "file"]
             /\ nlink' = [nlink EXCEPT ![i] = 1, ![d] = @ + IF l.call = "mkdir" THEN 1 ELSE 0]
             /\ dotdot' = [dotdot EXCEPT ![i] = IF l.call = "mkdir" THEN d ELSE NoInum]
             /\ dir' = DirLink(d, l.name, i) /\ lock' = [lock EXCEPT ![i] = p]
             /\ Goto(p, "created", [l EXCEPT !.ip = i], <<Put(d)>>) /\ UNCHANGED gone
  BY <1>1 DEF Create
<1> QED
  BY <1>5, <1>6, <1>7, <1>8

-----------------------------------------------------------------------------
(* Links: the steps of calls that do not rename *)

LEMMA InitLinks ==
    Init => JInv /\ LiveLocks
<1> SUFFICES ASSUME Init PROVE JInv /\ LiveLocks
  OBVIOUS
<1>1. /\ \A p \in Proc : pc[p] = "user" /\ loc[p] = NoCall /\ todo[p] = <<>>
      /\ \A i \in Inum : lock[i] = NoProc /\ dir[i] = NoEntries /\ gone[i] = 0
      /\ \A i \in Inum : type[i] = (IF i = Root THEN "dir" ELSE "free") /\ nlink[i] = (IF i = Root THEN 1 ELSE 0)
  BY DEF Init
<1>2. NoInum \notin Inum /\ NoProc \notin Proc /\ Root \in Inum
  BY InodeAssumption, RootType
<1>3. CallInv /\ TodoInv
  BY <1>1, TodoShapes DEF CallInv, CallOK, Going, TodoInv
<1>4. LockInv
  <2>1. ASSUME NEW p \in Proc, NEW i \in Inum PROVE lock[i] = p <=> HasLock(pc[p], loc[p], todo[p], i)
    <3>1. ~Unlocks(i, todo[p]) /\ LockedAt(pc[p], loc[p]) = NoInum
      BY <1>1, UnlocksIn DEF LockedAt
    <3> QED
      BY <1>1, <1>2, <3>1 DEF HasLock
  <2> QED
    BY <2>1 DEF LockInv
<1>5. \A d \in Inum, s \in Slot : dir[d][s] = Empty /\ dir[d][s].inum = NoInum
  BY <1>1 DEF NoEntries, Empty
<1>6. NamesInv /\ FilesEmpty /\ EntryInv
  BY <1>1, <1>5 DEF NamesInv, FilesEmpty, EntryInv, EntryOK, Walks
<1>7. \A i \in Inum : NamesOf(i) = {} /\ SubDirs(i) = {} /\ Pending(i) = {}
  BY <1>1, <1>2, <1>5 DEF NamesOf, SubDirs, Pending, NoCall
<1>8. OneParent /\ NoCircle
  BY <1>5, <1>7 DEF OneParent, NoCircle, NamedDirs
<1>9. LinkInv
  <2>1. ASSUME NEW i \in Inum
        PROVE  IF type[i] = "free" THEN NamesOf(i) = {} /\ Pending(i) = {} /\ gone[i] = 0
               ELSE nlink[i] = LinksTo(i)
    <3>1. LinksTo(i) = Cardinality({}) + Cardinality({}) + Cardinality({}) + 0 + Is(Root, i)
      BY <1>1, <1>7 DEF LinksTo
    <3>2. LinksTo(i) = Is(Root, i)
      BY <3>1, FS_EmptySet, IsNat
    <3> QED
      BY <1>1, <1>7, <3>2 DEF Is
  <2> QED
    BY <2>1 DEF LinkInv
<1> QED
  BY <1>1, <1>2, <1>3, <1>4, <1>6, <1>8, <1>9 DEF JInv, LiveLocks

\* While no rename() runs, none makes a step.
LEMMA PlainSteps ==
    ASSUME JInv, Next
    PROVE  \E p \in Proc : Plain(p)
<1>1. PICK p \in Proc : Plain(p) \/ Renames(p)
  BY DEF Next, Plain, Renames
<1>2. pc[p] \notin {"ren1", "ren2", "cycle", "ren3", "ren4", "ren5", "ren6", "ren7", "ren8"}
  BY JTypes DEF CallOK, Going
<1>3. ~Renames(p)
  BY <1>2 DEF Renames, RenameOld, RenameType, RenameCycle, RenameNew, RenameReplace, RenameEnter,
     RenameClear, RenameDotDot, Locks, At
<1> QED
  BY <1>1, <1>3

LEMMA NextLinks ==
    ASSUME IInv, JInv, LiveLocks, [Next]_vars, \A p \in Proc : ~Begins(p)
    PROVE  JInv' /\ LiveLocks'
<1>1. CASE UNCHANGED vars
  <2>1. JInv'
    <3>1. /\ CallInv' = CallInv /\ LockInv' = LockInv /\ TodoInv' = TodoInv /\ NamesInv' = NamesInv
          /\ FilesEmpty' = FilesEmpty /\ EntryInv' = EntryInv
      BY <1>1 DEF vars, CallInv, LockInv, TodoInv, NamesInv, FilesEmpty, EntryInv
    <3>2. \A i : NamesOf(i)' = NamesOf(i) /\ SubDirs(i)' = SubDirs(i) /\ Pending(i)' = Pending(i)
      BY <1>1 DEF vars, NamesOf, SubDirs, Pending
    <3>3. \A i : LinksTo(i)' = LinksTo(i)
      BY <1>1, <3>2 DEF vars, LinksTo
    <3>4. LinkInv'
      BY <1>1, <3>2, <3>3 DEF vars, JInv, LinkInv
    <3>5. OneParent'
      BY <1>1, <3>2 DEF vars, JInv, OneParent
    <3>6. NoCircle'
      BY <1>1, <3>2 DEF vars, NamedDirs, JInv, NoCircle
    <3> QED
      BY <1>1, <3>1, <3>4, <3>5, <3>6 DEF vars, JInv
  <2> QED
    BY <1>1, <2>1 DEF vars, LiveLocks
<1>2. ASSUME Next PROVE JInv'
  <2>1. PICK p \in Proc : Plain(p)
    BY <1>2, PlainSteps
  <2> QED
    BY <2>1, CallLinks, CloseLinks, WalkLinks, PutCheckLinks, ReleaseLinks, CreateLinks, CreatedLinks,
       OpenLinks, ChdirLinks, ChdirDoneLinks, LinkOldLinks, LinkNewLinks, LinkBadLinks, UnlinkLinks,
       UnlinkEntryLinks, UnlinkInodeLinks DEF Plain
<1> QED
  BY <1>1, <1>2, LiveStep

LEMMA NoneBegins ==
    ASSUME NoRename, IInv, NEW p \in Proc
    PROVE  ~Begins(p)
<1> SUFFICES ASSUME Call(p) PROVE loc'[p].call \notin {"rename", "rename_alone"}
  BY DEF Begins
<1>1. PICK c \in Calls[p] : \E l :
        /\ l = [NoCall EXCEPT !.call = c.call, !.then = First(c.call), !.at = Start(p, c.path),
                              !.path = c.path.elems, !.path2 = c.path2]
        /\ Goto(p, "walk", l, <<>>)
  BY DEF Call
<1>2. PICK l : /\ l = [NoCall EXCEPT !.call = c.call, !.then = First(c.call), !.at = Start(p, c.path),
                                     !.path = c.path.elems, !.path2 = c.path2]
               /\ Goto(p, "walk", l, <<>>)
  BY <1>1
<1>3. loc'[p] = l /\ l.call = c.call
  BY <1>2, Types DEF Goto, TypeOK, NoCall
<1> QED
  BY <1>3 DEF NoRename

\* The links of programs that do not rename.
LEMMA LinksWithoutRename ==
    ASSUME NoRename
    PROVE  Spec => [](IInv /\ JInv /\ LiveLocks)
<1>1. Init => JInv /\ LiveLocks
  BY InitLinks
<1>2. IInv /\ (JInv /\ LiveLocks) /\ [Next]_vars => (JInv /\ LiveLocks)'
  BY NextLinks, NoneBegins
<1>3. Spec => []IInv
  BY Invariance
<1> QED
  BY <1>1, <1>2, <1>3, PTL DEF Spec

LEMMA LinksCountedFrom ==
    JInv => LinksCounted
<1> SUFFICES ASSUME JInv, NEW i \in Inum, type[i] # "free" PROVE nlink[i] = LinksTo(i)
  BY DEF LinksCounted, LinksTo, Is
<1> QED
  BY DEF JInv, LinkInv

LEMMA TreeFrom ==
    JInv => TreeStaysTree
<1> SUFFICES ASSUME JInv PROVE TreeStaysTree
  OBVIOUS
<1>1. ASSUME NEW i \in NamedDirs, NEW e \in NamesOf(i)
      PROVE  i # Root /\ NamesOf(i) = {e} /\ dotdot[i] = e[1]
  <2>1. PICK d \in Inum, s \in Slot : e = <<d, s>> /\ dir[d][s].inum = i
    BY <1>1 DEF NamesOf
  <2>2. type[i] = "dir" /\ i # NoInum
    BY <1>1, InodeAssumption DEF NamedDirs
  <2>3. i # Root /\ dotdot[i] = d /\ NamesOf(i) = {<<d, s>>}
    BY <2>1, <2>2 DEF JInv, OneParent
  <2> QED
    BY <2>1, <2>3
<1>2. \A i \in NamedDirs : i # Root
  BY <1>1 DEF NamedDirs
<1>3. \A S \in SUBSET NamedDirs : S # {} => \E i \in S : dotdot[i] \notin S
  BY DEF JInv, NoCircle
<1> QED
  BY <1>1, <1>2, <1>3 DEF TreeStaysTree

-----------------------------------------------------------------------------
(* Users of inodes, for paths without ".." *)

LEMMA PointersIn ==
    ASSUME IInv, JInv, NEW p \in Proc
    PROVE  /\ fd[p] # NoInum => fd[p] \in Inum
           /\ cwd[p] \in Inum
           /\ pc[p] \in {"walk", "create", "createold", "open", "chdir", "link1", "link2", "linkbad", "unlink", "unlink2"}
                 => loc[p].at \in Inum
           /\ pc[p] \in {"created", "chdir2", "unlink3", "link2"} \/ Walks(pc[p], loc[p], {"link2"}) => loc[p].ip \in Inum
           /\ pc[p] = "unlink2" => loc[p].dp \in Inum
<1>1. PlaceOK(pc[p], loc[p], fd[p], todo[p]) /\ fd[p] \in Pointer /\ cwd[p] \in Inum
  BY Types
<1> QED
  BY <1>1 DEF PlaceOK, AtPlaces, IpPlaces, DpPlaces, Walks, Pointer

\* p moves on, and no inode goes.
LEMMA UStep ==
    ASSUME IInv, JInv, UInv, NEW p \in Proc, NEW place, NEW l, NEW what, Goto(p, place, l, what),
           NEW f, fd' = [fd EXCEPT ![p] = f], NEW c, cwd' = [cwd EXCEPT ![p] = c],
           \A i \in Inum : type[i] # "free" => type'[i] # "free",
           LiveAt(type', f, c, place, l), NoUpAt(place, l)
    PROVE  UInv'
<1>1. /\ pc'[p] = place /\ loc'[p] = l /\ fd'[p] = f /\ cwd'[p] = c
      /\ \A q \in Proc \ {p} : pc'[q] = pc[q] /\ loc'[q] = loc[q] /\ fd'[q] = fd[q] /\ cwd'[q] = cwd[q]
  BY DEF Goto, IInv, TypeOK
<1>2. ASSUME NEW q \in Proc PROVE LiveAt(type', fd'[q], cwd'[q], pc'[q], loc'[q]) /\ NoUpAt(pc'[q], loc'[q])
  <2>1. CASE q = p
    BY <1>1, <2>1
  <2>2. CASE q # p
    BY PointersIn, <1>1, <2>2 DEF UInv, LiveInv, NoUpInv, LiveAt
  <2> QED
    BY <2>1, <2>2
<1> QED
  BY <1>2 DEF UInv, LiveInv, NoUpInv

\* ... without opening, closing or leaving anything.
LEMMA UGoto ==
    ASSUME IInv, JInv, UInv, NEW p \in Proc, NEW place, NEW l, NEW what, Goto(p, place, l, what),
           UNCHANGED <<fd, cwd>>,
           \A i \in Inum : type[i] # "free" => type'[i] # "free",
           LiveAt(type', fd[p], cwd[p], place, l), NoUpAt(place, l)
    PROVE  UInv'
<1>1. fd' = [fd EXCEPT ![p] = fd[p]] /\ cwd' = [cwd EXCEPT ![p] = cwd[p]]
  BY DEF IInv, TypeOK
<1> QED
  BY <1>1, UStep

LEMMA UReturn ==
    ASSUME IInv, JInv, UInv, NEW p \in Proc, NEW what, Return(p, what), UNCHANGED <<fd, cwd>>,
           \A i \in Inum : type[i] # "free" => type'[i] # "free", pc[p] # "chdir2"
    PROVE  UInv'
<1>1. PICK place \in {"user", "return"} : Goto(p, place, NoCall, what)
  BY Returns
<1>2. LiveAt(type, fd[p], cwd[p], pc[p], loc[p])
  BY DEF UInv, LiveInv
<1>3. LiveAt(type', fd[p], cwd[p], place, NoCall) /\ NoUpAt(place, NoCall)
  BY <1>2, PointersIn DEF LiveAt, Walks, NoUpAt
<1> QED
  BY <1>1, <1>3, UGoto

\* What is found in a directory has a type.
LEMMA FoundLive ==
    ASSUME IInv, JInv, NEW d \in Inum, type[d] # "free", NEW n \in Name \cup {"."}, Lookup(d, n) # NoInum
    PROVE  Lookup(d, n) \in Inum /\ type[Lookup(d, n)] # "free"
<1>1. CASE n = "."
  BY <1>1 DEF Lookup
<1>2. CASE n # "."
  <2>1. n # ".."
    BY <1>2, InodeAssumption
  <2>2. PICK s \in Slot : Lookup(d, n) = dir[d][s].inum
    BY <1>2, <2>1 DEF Lookup
  <2>3. PICK x : x = Lookup(d, n)
    OBVIOUS
  <2>4. x \in Inum
    BY <2>2, <2>3 DEF IInv, TypeOK
  <2>5. <<d, s>> \in NamesOf(x)
    BY <2>2, <2>3 DEF NamesOf
  <2>6. type[x] # "free"
    BY <2>4, <2>5 DEF JInv, LinkInv
  <2> QED
    BY <2>3, <2>4, <2>6
<1> QED
  BY <1>1, <1>2

\* What a process has in hand now.
LEMMA UTypes ==
    ASSUME UInv, NEW p \in Proc
    PROVE  LiveAt(type, fd[p], cwd[p], pc[p], loc[p]) /\ NoUpAt(pc[p], loc[p])
  BY DEF UInv, LiveInv, NoUpInv

LEMMA StartLive ==
    ASSUME IInv, JInv, UInv, NEW p \in Proc, pc[p] # "chdir2", NEW f
    PROVE  type[Start(p, f)] # "free"
<1>1. type[cwd[p]] # "free"
  BY UTypes DEF LiveAt
<1>2. type[Root] # "free"
  BY DEF JInv
<1> QED
  BY <1>1, <1>2 DEF Start

-----------------------------------------------------------------------------
(* Users: one lemma for each action *)

LEMMA CallUses ==
    ASSUME NoRename, NoUp, IInv, JInv, UInv, NEW p \in Proc, Call(p)
    PROVE  UInv'
<1>1. PICK c \in Calls[p] :
        /\ ~Running(p)
        /\ Goto(p, "walk", [NoCall EXCEPT !.call = c.call, !.then = First(c.call),
                                         !.at = Start(p, c.path), !.path = c.path.elems,
                                         !.path2 = c.path2], <<>>)
        /\ UNCHANGED <<disk, cwd, fd>>
  BY DEF Call
<1>2. PICK l : l = [NoCall EXCEPT !.call = c.call, !.then = First(c.call), !.at = Start(p, c.path),
                                  !.path = c.path.elems, !.path2 = c.path2]
  OBVIOUS
<1>3. c.path \in Path /\ c.call \in Habit /\ c.call \notin {"rename", "rename_alone"}
  BY InodeAssumption DEF NoRename
<1>4. l.then # "link2" /\ l.at = Start(p, c.path) /\ l.path = c.path.elems
  BY <1>2, <1>3 DEF NoCall, First, Habit
<1>5. pc[p] = "user" /\ type' = type
  BY <1>1 DEF Running, disk
<1>6. type[l.at] # "free" /\ \A k \in DOMAIN l.path : l.path[k] # ".."
  BY <1>3, <1>4, <1>5, StartLive DEF NoUp
<1>7. LiveAt(type', fd[p], cwd[p], "walk", l) /\ NoUpAt("walk", l)
  BY <1>4, <1>5, <1>6, UTypes DEF LiveAt, NoUpAt, Walks
<1> QED
  BY <1>1, <1>2, <1>5, <1>7, UGoto

LEMMA CloseUses ==
    ASSUME IInv, JInv, UInv, NEW p \in Proc, Close(p)
    PROVE  UInv'
<1>1. /\ pc[p] = "user" /\ fd' = [fd EXCEPT ![p] = NoInum] /\ Return(p, <<Put(fd[p])>>)
      /\ type' = type /\ cwd' = [cwd EXCEPT ![p] = cwd[p]]
  BY DEF Close, disk, IInv, TypeOK
<1>2. PICK place \in {"user", "return"} : Goto(p, place, NoCall, <<Put(fd[p])>>)
  BY <1>1, Returns
<1>3. LiveAt(type', NoInum, cwd[p], place, NoCall) /\ NoUpAt(place, NoCall)
  BY <1>1, UTypes DEF LiveAt, Walks, NoUpAt
<1> QED
  BY <1>1, <1>2, <1>3, UStep

\* The rest of a path is part of it.
LEMMA PathTail ==
    ASSUME NEW s \in Seq(Name \cup {".", ".."}), s # <<>>, \A k \in DOMAIN s : s[k] # ".."
    PROVE  Head(s) \in Name \cup {"."} /\ \A k \in DOMAIN Tail(s) : Tail(s)[k] # ".."
<1>1. Head(s) = s[1] /\ 1 \in DOMAIN s /\ s[1] \in Name \cup {".", ".."}
  OBVIOUS
<1>2. DOMAIN Tail(s) = 1..(Len(s) - 1) /\ \A k \in 1..(Len(s) - 1) : Tail(s)[k] = s[k + 1] /\ k + 1 \in DOMAIN s
  OBVIOUS
<1> QED
  BY <1>1, <1>2

LEMMA WalkUses ==
    ASSUME IInv, JInv, UInv, NEW p \in Proc, Walk(p)
    PROVE  UInv'
<1>1. PICK l : l = loc[p]
  OBVIOUS
<1>2. /\ pc[p] = "walk" /\ type[l.at] # "free" /\ UNCHANGED <<fd, cwd>> /\ type' = type
      /\ \A i \in Inum : type[i] # "free" => type'[i] # "free"
  BY <1>1 DEF Walk, Locks, At, Lockable, disk
<1>3. l \in Local /\ l.then \in Lookups /\ l.path # <<>> /\ l.at \in Inum
  BY <1>1, <1>2, Types DEF PlaceOK, AtPlaces
<1>4. /\ fd[p] # NoInum => type[fd[p]] # "free"
      /\ type[cwd[p]] # "free"
      /\ l.then = "link2" => type[l.ip] # "free"
      /\ \A k \in DOMAIN l.path : l.path[k] # ".."
  BY <1>1, <1>2, UTypes DEF LiveAt, NoUpAt, Walks
<1>5. Head(l.path) \in Name \cup {"."} /\ \A k \in DOMAIN Tail(l.path) : Tail(l.path)[k] # ".."
  BY <1>3, <1>4, PathTail DEF Local
<1>6. ASSUME NEW k, NEW place \in {"walk", l.then}, NEW what, Goto(p, place, k, what),
             k.ip = l.ip, k.then = l.then, type[k.at] # "free", NoUpAt(place, k)
      PROVE  UInv'
  BY <1>2, <1>3, <1>4, <1>6, UGoto DEF LiveAt, Walks, Lookups
<1>7. CASE WalkFails(p)
  <2>1. CASE l.then = "link2"
    <3>1. PICK k : k = [l EXCEPT !.at = l.ip]
      OBVIOUS
    <3>2. Goto(p, "linkbad", k, <<Put(l.at)>>)
      BY <1>1, <1>7, <2>1, <3>1 DEF WalkFails
    <3>3. k.at = l.ip
      BY <1>3, <3>1 DEF Local
    <3>4. LiveAt(type', fd[p], cwd[p], "linkbad", k) /\ NoUpAt("linkbad", k)
      BY <1>2, <1>4, <2>1, <3>3 DEF LiveAt, Walks, NoUpAt
    <3> QED
      BY <1>2, <3>2, <3>4, UGoto
  <2>2. CASE l.then # "link2"
    BY <1>1, <1>7, <2>2, <1>2, UReturn DEF WalkFails
  <2> QED
    BY <2>1, <2>2
<1>8. CASE Goto(p, l.then, [l EXCEPT !.name = Head(l.path), !.path = <<>>], <<>>)
  <2>1. PICK k : k = [l EXCEPT !.name = Head(l.path), !.path = <<>>]
    OBVIOUS
  <2>2. k.ip = l.ip /\ k.then = l.then /\ k.at = l.at /\ k.name = Head(l.path)
    BY <1>3, <2>1 DEF Local
  <2>3. NoUpAt(l.then, k)
    BY <1>3, <1>5, <2>2, InodeAssumption DEF NoUpAt, Lookups
  <2> QED
    BY <1>2, <1>6, <1>8, <2>1, <2>2, <2>3
<1>9. ASSUME Lookup(l.at, Head(l.path)) # NoInum, NEW place \in {"walk", l.then},
             place = l.then => ~(WantsParent(l)),
             Goto(p, place, [l EXCEPT !.at = Lookup(l.at, Head(l.path)), !.path = Tail(l.path)], <<Put(l.at)>>)
      PROVE  UInv'
  <2>1. PICK x : x = Lookup(l.at, Head(l.path))
    OBVIOUS
  <2>2. type[x] # "free"
    BY <1>2, <1>3, <1>5, <1>9, <2>1, FoundLive
  <2>3. PICK k : k = [l EXCEPT !.at = x, !.path = Tail(l.path)]
    OBVIOUS
  <2>4. k.ip = l.ip /\ k.then = l.then /\ k.at = x /\ k.path = Tail(l.path)
    BY <1>3, <2>3 DEF Local
  <2>5. NoUpAt(place, k)
    BY <1>3, <1>5, <1>9, <2>4 DEF NoUpAt, Lookups, WantsParent
  <2> QED
    BY <1>2, <1>6, <1>9, <2>1, <2>2, <2>3, <2>4, <2>5
<1>10. ASSUME ~WalkFails(p),
              ~Goto(p, l.then, [l EXCEPT !.name = Head(l.path), !.path = <<>>], <<>>)
       PROVE  /\ Lookup(l.at, Head(l.path)) # NoInum
              /\ \E place \in {"walk", l.then} :
                    /\ place = l.then => ~WantsParent(l)
                    /\ Goto(p, place, [l EXCEPT !.at = Lookup(l.at, Head(l.path)), !.path = Tail(l.path)],
                            <<Put(l.at)>>)
  BY <1>3, <1>1, <1>10 DEF Lookups, Walk
<1> QED
  BY <1>7, <1>8, <1>9, <1>10

\* Who has no reference to an inode has no pointer to it.
LEMMA NotUsed ==
    ASSUME NEW f, NEW c, NEW place \in Label, NEW l, NEW j,
           Is(f, j) = 0, place # "chdir2" => Is(c, j) = 0, Times(j, Locals(place, l)) = 0
    PROVE  /\ f # j
           /\ place # "chdir2" => c # j
           /\ place \in {"walk", "create", "createold", "open", "chdir", "link1", "link2", "linkbad", "unlink",
                         "unlink2"} => l.at # j
           /\ place \in {"created", "chdir2", "unlink3", "link2"} \/ Walks(place, l, {"link2"}) => l.ip # j
           /\ place = "unlink2" => l.dp # j
<1>1. Is(j, j) = 1 /\ \A x : Is(x, j) \in Nat
  BY IsNat DEF Is
<1>2. f # j /\ (place # "chdir2" => c # j)
  BY <1>1
<1>3. place \in {"create", "createold", "open", "chdir", "link1", "linkbad", "unlink"} => l.at # j
  <2>1. place = "create" => l.at # j
    BY <1>1, LocalTimes
  <2>2. place = "createold" => l.at # j
    BY <1>1, LocalTimes
  <2>3. place = "open" => l.at # j
    BY <1>1, LocalTimes
  <2>4. place = "chdir" => l.at # j
    BY <1>1, LocalTimes
  <2>5. place = "link1" => l.at # j
    BY <1>1, LocalTimes
  <2>6. place = "linkbad" => l.at # j
    BY <1>1, LocalTimes
  <2>7. place = "unlink" => l.at # j
    BY <1>1, LocalTimes
  <2> QED
    BY <2>1, <2>2, <2>3, <2>4, <2>5, <2>6, <2>7
<1>4. place = "link2" => l.at # j /\ l.ip # j
  BY LocalTimes, <1>1
<1>5. place = "unlink2" => l.at # j /\ l.dp # j
  BY LocalTimes, <1>1
<1>6. place \in {"created", "chdir2", "unlink3"} => l.ip # j
  <2>1. place = "created" => l.ip # j
    BY <1>1, LocalTimes
  <2>2. place = "chdir2" => l.ip # j
    BY <1>1, LocalTimes
  <2>3. place = "unlink3" => l.ip # j
    BY <1>1, LocalTimes
  <2> QED
    BY <2>1, <2>2, <2>3
<1>7. place = "walk" => l.at # j /\ (l.then = "link2" => l.ip # j)
  <2>1. /\ l.then = "link2" => Times(j, Locals("walk", l)) = Is(l.at, j) + Is(l.ip, j)
        /\ l.then = "ren2" => Times(j, Locals("walk", l)) = Is(l.at, j) + Is(l.olddp, j) + Is(l.ip, j)
        /\ l.then \notin {"link2", "ren2"} => Times(j, Locals("walk", l)) = Is(l.at, j)
    BY LocalTimes
  <2>2. CASE l.then = "link2"
    BY <1>1, <2>1, <2>2
  <2>3. CASE l.then = "ren2"
    BY <1>1, <2>1, <2>3
  <2>4. CASE l.then \notin {"link2", "ren2"}
    BY <1>1, <2>1, <2>4
  <2> QED
    BY <2>2, <2>3, <2>4
<1> QED
  BY <1>2, <1>3, <1>4, <1>5, <1>6, <1>7 DEF Walks

\* iput() that frees leaves nobody with the inode.
LEMMA PutCheckUses ==
    ASSUME IInv, JInv, UInv, NEW p \in Proc, PutCheck(p)
    PROVE  UInv'
<1>1. PICK j : j = Head(todo[p]).ino
  OBVIOUS
<1>2. UNCHANGED <<fd, cwd, pc, loc>>
  BY DEF PutCheck
<1>3. CASE type' = type
  BY <1>2, <1>3 DEF UInv, LiveInv, NoUpInv
<1>4. CASE type' # type
  <2>1. type' = [type EXCEPT ![j] = "free"] /\ type[j] # "free" /\ todo[p] # <<>>
    BY <1>1, <1>4 DEF PutCheck
  <2>2. j \in Inum
    <3>1. Head(todo[p]) \in Todo
      BY <2>1, Types
    <3> QED
      BY <1>1, <3>1 DEF Todo
  <2>3. /\ \A i \in Inum : i # j => type'[i] = type[i]
        /\ type'[j] = "free"
    BY <2>1, <2>2 DEF IInv, TypeOK
  <2>4. PICK r \in Proc : /\ Owed(j, todo[r]) = 1 /\ RefsOf(r, j) = 1
                          /\ \A q \in Proc \ {r} : RefsOf(q, j) = 0
    BY <2>1, <2>2, <2>3, FreesAloneStep DEF Next
  <2>5. ASSUME NEW q \in Proc
        PROVE  /\ Is(fd[q], j) = 0 /\ (pc[q] # "chdir2" => Is(cwd[q], j) = 0)
               /\ Times(j, Locals(pc[q], loc[q])) = 0
    <3>1. /\ Is(fd[q], j) \in Nat /\ Is(cwd[q], j) \in Nat
          /\ RefsOf(q, j) = Is(fd[q], j) + (IF pc[q] = "chdir2" THEN 0 ELSE Is(cwd[q], j))
                            + Times(j, Locals(pc[q], loc[q])) + Owed(j, todo[q])
          /\ Times(j, Locals(pc[q], loc[q])) \in Nat /\ Owed(j, todo[q]) \in Nat
      BY <2>2, Pieces, Types, RefsOfAt DEF Now
    <3>2. RefsOf(q, j) <= Owed(j, todo[q])
      <4>1. CASE q = r
        BY <2>4, <4>1
      <4>2. CASE q # r
        BY <2>4, <4>2, <3>1
      <4> QED
        BY <4>1, <4>2
    <3> QED
      BY <3>1, <3>2
  <2>6. ASSUME NEW q \in Proc PROVE LiveAt(type', fd'[q], cwd'[q], pc'[q], loc'[q])
    BY UTypes, Types, <1>2, <2>3, <2>5, NotUsed, PointersIn DEF LiveAt
  <2>7. NoUpInv'
    BY <1>2 DEF UInv, NoUpInv
  <2> QED
    BY <2>6, <2>7 DEF UInv, LiveInv
<1> QED
  BY <1>3, <1>4

LEMMA ReleaseUses ==
    ASSUME IInv, JInv, UInv, NEW p \in Proc, Release(p)
    PROVE  UInv'
<1>1. PICK place : place = IF pc[p] = "return" /\ Len(todo[p]) = 1 THEN "user" ELSE pc[p]
  OBVIOUS
<1>2. /\ Goto(p, place, loc[p], Tail(todo[p]))
      /\ UNCHANGED <<fd, cwd>> /\ type' = type
  BY <1>1, Types DEF Release, Goto, disk, IInv, TypeOK
<1>3. LiveAt(type', fd[p], cwd[p], place, loc[p]) /\ NoUpAt(place, loc[p])
  BY <1>1, <1>2, UTypes DEF LiveAt, NoUpAt, Walks
<1> QED
  BY <1>2, <1>3, UGoto

LEMMA CreateUses ==
    ASSUME IInv, JInv, UInv, NEW p \in Proc, Create(p)
    PROVE  UInv'
<1>1. PICK l, d, old : l = loc[p] /\ d = l.at /\ old = Lookup(d, l.name)
  OBVIOUS
<1>2. pc[p] = "create" /\ UNCHANGED <<cwd, fd>>
  BY <1>1 DEF Create, Locks, At
<1>3. /\ d \in Inum /\ l \in Local /\ type[d] # "free" /\ l.name \in Name \cup {"."}
  BY <1>1, <1>2, Types, UTypes DEF PlaceOK, AtPlaces, DirOK, Local, NoUpAt
<1>4. CASE Goto(p, "createold", [l EXCEPT !.at = old], <<Put(d)>>) /\ UNCHANGED disk /\ old # NoInum
  <2>1. PICK k : k = [l EXCEPT !.at = old]
    OBVIOUS
  <2>2. k.at = old
    BY <1>3, <2>1 DEF Local
  <2>3. type[old] # "free" /\ type' = type
    BY <1>1, <1>3, <1>4, FoundLive DEF disk
  <2>4. LiveAt(type', fd[p], cwd[p], "createold", k) /\ NoUpAt("createold", k)
    BY <1>2, <2>2, <2>3, UTypes DEF LiveAt, NoUpAt, Walks
  <2> QED
    BY <1>2, <1>4, <2>1, <2>3, <2>4, UGoto
<1>5. CASE Return(p, <<Put(d)>>) /\ UNCHANGED disk
  BY <1>5, <1>2, UReturn DEF disk
<1>6. ASSUME NEW i \in NewInum, type' = [type EXCEPT ![i] = IF l.call = "mkdir" THEN "dir" ELSE "file"],
             Goto(p, "created", [l EXCEPT !.ip = i], <<Put(d)>>)
      PROVE  UInv'
  <2>1. PICK k : k = [l EXCEPT !.ip = i]
    OBVIOUS
  <2>2. k.ip = i
    BY <1>3, <2>1 DEF Local
  <2>3. i \in Inum /\ type[i] = "free"
    BY <1>6 DEF NewInum
  <2>4. type'[i] # "free" /\ \A j \in Inum : type[j] # "free" => type'[j] # "free"
    BY <1>6, <2>3 DEF IInv, TypeOK
  <2>5. LiveAt(type, fd[p], cwd[p], "create", l)
    BY <1>1, <1>2, UTypes
  <2>6. fd[p] # NoInum => type'[fd[p]] # "free"
    BY <2>4, <2>5, PointersIn DEF LiveAt
  <2>7. type'[cwd[p]] # "free"
    BY <2>4, <2>5, PointersIn DEF LiveAt
  <2>8. LiveAt(type', fd[p], cwd[p], "created", k) /\ NoUpAt("created", k)
    BY <2>2, <2>4, <2>6, <2>7 DEF LiveAt, NoUpAt, Walks
  <2> QED
    BY <1>2, <1>6, <2>1, <2>4, <2>8, UGoto
<1> QED
  BY <1>1, <1>4, <1>5, <1>6 DEF Create

\* A call that opens what it has in hand, or not.
LEMMA OpenUses ==
    ASSUME IInv, JInv, UInv, NEW p \in Proc, Open(p) \/ Created(p)
    PROVE  UInv'
<1>1. PICK i : IF pc[p] = "created" THEN i = loc[p].ip ELSE i = loc[p].at
  OBVIOUS
<1>2. pc[p] \in {"created", "createold", "open"} /\ UNCHANGED cwd /\ type' = type
  BY DEF Open, Created, Locks, At, disk
<1>3. type[i] # "free"
  BY <1>1, <1>2, UTypes DEF LiveAt, Walks
<1>4. \/ fd' = [fd EXCEPT ![p] = i] /\ Return(p, <<>>)
      \/ Return(p, <<Put(i)>>) /\ UNCHANGED fd
  BY <1>1 DEF Open, Created, Locks, At
<1>5. CASE fd' = [fd EXCEPT ![p] = i] /\ Return(p, <<>>)
  <2>1. PICK place \in {"user", "return"} : Goto(p, place, NoCall, <<>>)
    BY <1>5, Returns
  <2>2. LiveAt(type', i, cwd[p], place, NoCall) /\ NoUpAt(place, NoCall)
    BY <1>2, <1>3, UTypes DEF LiveAt, NoUpAt, Walks
  <2>3. cwd' = [cwd EXCEPT ![p] = cwd[p]]
    BY <1>2 DEF IInv, TypeOK
  <2> QED
    BY <1>2, <1>5, <2>1, <2>2, <2>3, UStep
<1>6. CASE Return(p, <<Put(i)>>) /\ UNCHANGED fd
  BY <1>2, <1>6, UReturn
<1> QED
  BY <1>4, <1>5, <1>6

LEMMA ChdirUses ==
    ASSUME IInv, JInv, UInv, NEW p \in Proc, Chdir(p)
    PROVE  UInv'
<1>1. pc[p] = "chdir" /\ type[loc[p].at] # "free" /\ UNCHANGED <<cwd, fd>> /\ type' = type
  BY DEF Chdir, Locks, At, Lockable, disk
<1>2. \/ Goto(p, "chdir2", [loc[p] EXCEPT !.ip = loc[p].at], <<Put(cwd[p])>>)
      \/ Return(p, <<Put(loc[p].at)>>)
  BY DEF Chdir
<1>3. CASE Goto(p, "chdir2", [loc[p] EXCEPT !.ip = loc[p].at], <<Put(cwd[p])>>)
  <2>1. PICK k : k = [loc[p] EXCEPT !.ip = loc[p].at]
    OBVIOUS
  <2>2. k.ip = loc[p].at
    BY <2>1, Types DEF Local
  <2>3. LiveAt(type', fd[p], cwd[p], "chdir2", k) /\ NoUpAt("chdir2", k)
    BY <1>1, <2>2, UTypes DEF LiveAt, NoUpAt, Walks
  <2> QED
    BY <1>1, <1>3, <2>1, <2>3, UGoto
<1>4. CASE Return(p, <<Put(loc[p].at)>>)
  BY <1>1, <1>4, UReturn
<1> QED
  BY <1>2, <1>3, <1>4

LEMMA ChdirDoneUses ==
    ASSUME IInv, JInv, UInv, NEW p \in Proc, ChdirDone(p)
    PROVE  UInv'
<1>1. /\ pc[p] = "chdir2" /\ cwd' = [cwd EXCEPT ![p] = loc[p].ip] /\ Return(p, <<>>)
      /\ type' = type /\ fd' = [fd EXCEPT ![p] = fd[p]]
  BY DEF ChdirDone, At, disk, IInv, TypeOK
<1>2. PICK place \in {"user", "return"} : Goto(p, place, NoCall, <<>>)
  BY <1>1, Returns
<1>3. LiveAt(type', fd[p], loc[p].ip, place, NoCall) /\ NoUpAt(place, NoCall)
  BY <1>1, UTypes DEF LiveAt, NoUpAt, Walks
<1> QED
  BY <1>1, <1>2, <1>3, UStep

LEMMA LinkOldUses ==
    ASSUME NoUp, IInv, JInv, UInv, NEW p \in Proc, LinkOld(p)
    PROVE  UInv'
<1>1. PICK j, path, at : j = loc[p].at /\ path = loc[p].path2 /\ at = Start(p, path)
  OBVIOUS
<1>2. pc[p] = "link1" /\ type[j] # "free" /\ UNCHANGED <<cwd, fd>> /\ type' = type
  BY <1>1 DEF LinkOld, Locks, At, Lockable
<1>3. path \in Path
  BY <1>1, <1>2, Types DEF PlaceOK
<1>4. \/ Return(p, <<Put(j)>>)
      \/ Goto(p, "walk", [loc[p] EXCEPT !.ip = j, !.at = at, !.path = path.elems, !.path2 = NoPath,
                                        !.then = "link2"], <<>>)
  BY <1>1 DEF LinkOld
<1>5. CASE Return(p, <<Put(j)>>)
  BY <1>2, <1>5, UReturn
<1>6. CASE Goto(p, "walk", [loc[p] EXCEPT !.ip = j, !.at = at, !.path = path.elems, !.path2 = NoPath,
                                          !.then = "link2"], <<>>)
  <2>1. PICK k : k = [loc[p] EXCEPT !.ip = j, !.at = at, !.path = path.elems, !.path2 = NoPath, !.then = "link2"]
    OBVIOUS
  <2>2. k.ip = j /\ k.at = at /\ k.path = path.elems
    BY <2>1, Types DEF Local
  <2>3. type[at] # "free"
    BY <1>1, <1>2, StartLive
  <2>4. LiveAt(type', fd[p], cwd[p], "walk", k) /\ NoUpAt("walk", k)
    BY <1>2, <1>3, <2>2, <2>3, UTypes DEF LiveAt, NoUpAt, Walks, NoUp
  <2> QED
    BY <1>2, <1>6, <2>1, <2>4, UGoto
<1> QED
  BY <1>4, <1>5, <1>6

LEMMA LinkNewUses ==
    ASSUME IInv, JInv, UInv, NEW p \in Proc, LinkNew(p)
    PROVE  UInv'
<1>1. pc[p] = "link2" /\ UNCHANGED <<cwd, fd>> /\ type' = type
  BY DEF LinkNew, Locks, At
<1>2. (\E what : Return(p, what)) \/ (\E what : Goto(p, "linkbad", [loc[p] EXCEPT !.at = loc[p].ip], what))
  BY DEF LinkNew
<1>3. CASE \E what : Return(p, what)
  BY <1>1, <1>3, UReturn
<1>4. CASE \E what : Goto(p, "linkbad", [loc[p] EXCEPT !.at = loc[p].ip], what)
  <2>1. PICK k : k = [loc[p] EXCEPT !.at = loc[p].ip]
    OBVIOUS
  <2>2. k.at = loc[p].ip
    BY <2>1, Types DEF Local
  <2>3. LiveAt(type', fd[p], cwd[p], "linkbad", k) /\ NoUpAt("linkbad", k)
    BY <1>1, <2>2, UTypes DEF LiveAt, NoUpAt, Walks
  <2> QED
    BY <1>1, <1>4, <2>1, <2>3, UGoto
<1> QED
  BY <1>2, <1>3, <1>4

LEMMA UnlinkUses ==
    ASSUME IInv, JInv, UInv, NEW p \in Proc, Unlink(p)
    PROVE  UInv'
<1>1. PICK l, d, i : l = loc[p] /\ d = l.at /\ i = Lookup(d, l.name)
  OBVIOUS
<1>2. pc[p] = "unlink" /\ UNCHANGED <<cwd, fd>> /\ type' = type /\ type[d] # "free"
  BY <1>1 DEF Unlink, Locks, At, Lockable, disk
<1>3. l \in Local /\ d \in Inum
  BY <1>1, <1>2, Types DEF PlaceOK, AtPlaces
<1>4. \/ Return(p, <<Put(d)>>)
      \/ /\ l.name \notin {".", ".."} /\ i # NoInum
         /\ Goto(p, "unlink2", [l EXCEPT !.dp = d, !.at = i, !.slot = SlotOf(d, l.name)], <<>>)
  BY <1>1 DEF Unlink
<1>5. CASE Return(p, <<Put(d)>>)
  BY <1>2, <1>5, UReturn
<1>6. CASE /\ l.name \notin {".", ".."} /\ i # NoInum
           /\ Goto(p, "unlink2", [l EXCEPT !.dp = d, !.at = i, !.slot = SlotOf(d, l.name)], <<>>)
  <2>1. PICK k : k = [l EXCEPT !.dp = d, !.at = i, !.slot = SlotOf(d, l.name)]
    OBVIOUS
  <2>2. k.dp = d /\ k.at = i
    BY <1>3, <2>1 DEF Local
  <2>3. l.name \in Name
    BY <1>3, <1>6 DEF Local
  <2>4. type[i] # "free"
    BY <1>1, <1>2, <1>3, <1>6, <2>3, FoundLive
  <2>5. LiveAt(type', fd[p], cwd[p], "unlink2", k) /\ NoUpAt("unlink2", k)
    BY <1>1, <1>2, <2>2, <2>4, UTypes DEF LiveAt, NoUpAt, Walks
  <2> QED
    BY <1>2, <1>6, <2>1, <2>5, UGoto
<1> QED
  BY <1>4, <1>5, <1>6

LEMMA UnlinkEntryUses ==
    ASSUME IInv, JInv, UInv, NEW p \in Proc, UnlinkEntry(p)
    PROVE  UInv'
<1>1. pc[p] = "unlink2" /\ type[loc[p].at] # "free" /\ UNCHANGED <<cwd, fd>> /\ type' = type
  BY DEF UnlinkEntry, Locks, At, Lockable
<1>2. \/ \E what : Return(p, what)
      \/ \E what : Goto(p, "unlink3", [loc[p] EXCEPT !.ip = loc[p].at], what)
  BY DEF UnlinkEntry
<1>3. CASE \E what : Return(p, what)
  BY <1>1, <1>3, UReturn
<1>4. CASE \E what : Goto(p, "unlink3", [loc[p] EXCEPT !.ip = loc[p].at], what)
  <2>1. PICK k : k = [loc[p] EXCEPT !.ip = loc[p].at]
    OBVIOUS
  <2>2. k.ip = loc[p].at
    BY <2>1, Types DEF Local
  <2>3. LiveAt(type', fd[p], cwd[p], "unlink3", k) /\ NoUpAt("unlink3", k)
    BY <1>1, <2>2, UTypes DEF LiveAt, NoUpAt, Walks
  <2> QED
    BY <1>1, <1>4, <2>1, <2>3, UGoto
<1> QED
  BY <1>2, <1>3, <1>4

\* unlink()'s and link()'s last steps.
LEMMA LastUses ==
    ASSUME IInv, JInv, UInv, NEW p \in Proc, UnlinkInode(p) \/ LinkBad(p)
    PROVE  UInv'
<1>1. pc[p] \in {"unlink3", "linkbad"} /\ UNCHANGED <<cwd, fd>> /\ type' = type /\ \E what : Return(p, what)
  BY DEF UnlinkInode, LinkBad, Locks, At
<1> QED
  BY <1>1, UReturn

-----------------------------------------------------------------------------
(* Users: the invariant, and what follows from it *)

LEMMA InitUses ==
    Init => UInv
<1> SUFFICES ASSUME Init PROVE UInv
  OBVIOUS
<1>1. /\ \A p \in Proc : pc[p] = "user" /\ fd[p] = NoInum /\ cwd[p] = Root
      /\ type[Root] = "dir"
  BY RootType DEF Init
<1> QED
  BY <1>1 DEF UInv, LiveInv, NoUpInv, LiveAt, NoUpAt, Walks

LEMMA NextUses ==
    ASSUME NoRename, NoUp, IInv, JInv, UInv, [Next]_vars
    PROVE  UInv'
<1>1. CASE UNCHANGED vars
  BY <1>1 DEF vars, UInv, LiveInv, NoUpInv
<1>2. CASE Next
  <2>1. PICK p \in Proc : Plain(p)
    BY <1>2, PlainSteps
  <2> QED
    BY <2>1, CallUses, CloseUses, WalkUses, PutCheckUses, ReleaseUses, CreateUses, OpenUses,
       ChdirUses, ChdirDoneUses, LinkOldUses, LinkNewUses, UnlinkUses, UnlinkEntryUses, LastUses
       DEF Plain
<1> QED
  BY <1>1, <1>2

\* An entry counts as a link.
LEMMA EntryLinked ==
    ASSUME IInv, JInv, NEW d \in Inum, NEW s \in Slot, dir[d][s].inum # NoInum
    PROVE  type[dir[d][s].inum] # "free" /\ nlink[dir[d][s].inum] >= 1
<1>1. PICK i : i = dir[d][s].inum
  OBVIOUS
<1>2. i \in Inum
  BY <1>1 DEF IInv, TypeOK
<1>3. <<d, s>> \in NamesOf(i)
  BY <1>1 DEF NamesOf
<1>4. type[i] # "free" /\ nlink[i] = LinksTo(i)
  BY <1>2, <1>3 DEF JInv, LinkInv
<1>5. NamesOf(i) = NamesIn(dir, i) /\ SubDirs(i) = SubsIn(dir, type, i)
  BY DEF NamesOf, NamesIn, SubDirs, SubsIn
<1>6. IsFiniteSet(NamesOf(i)) /\ IsFiniteSet(SubDirs(i)) /\ IsFiniteSet(Pending(i))
  BY <1>5, NamesFinite, SubsFinite, InodeAssumption, FS_Subset DEF Pending
<1>7. /\ Cardinality(NamesOf(i)) \in Nat /\ Cardinality(SubDirs(i)) \in Nat
      /\ Cardinality(Pending(i)) \in Nat /\ gone[i] \in Nat /\ Is(Root, i) \in Nat
  BY <1>2, <1>6, FS_CardinalityType, IsNat DEF IInv, TypeOK
<1>8. Cardinality(NamesOf(i)) # 0
  BY <1>3, <1>6, FS_EmptySet
<1>9. nlink[i] >= 1
  BY <1>4, <1>7, <1>8 DEF LinksTo
<1> QED
  BY <1>1, <1>4, <1>9

\* Whom a pointer leads to has a type.
LEMMA LocalLive ==
    ASSUME JInv, UInv, NEW p \in Proc, NEW k \in DOMAIN LocalRefs(p)
    PROVE  type[LocalRefs(p)[k]] # "free"
<1>1. PICK place, l : place = pc[p] /\ l = loc[p]
  OBVIOUS
<1>2. CallOK(place, l) /\ LiveAt(type, fd[p], cwd[p], place, l) /\ k \in DOMAIN Locals(place, l)
  BY <1>1, JTypes, UTypes DEF LocalRefs
<1>3. type[Locals(place, l)[k]] # "free"
  <2>1. CASE place = "walk"
    <3>1. CASE l.then = "link2"
      BY <2>1, <3>1, <1>2 DEF Locals, LiveAt, Walks
    <3>2. CASE l.then # "link2"
      <4>1. l.then # "ren2"
        BY <1>2, <2>1 DEF CallOK, Going
      <4>2. Locals(place, l) = <<l.at>>
        BY <2>1, <3>2, <4>1 DEF Locals
      <4>3. type[l.at] # "free"
        BY <1>2, <2>1 DEF LiveAt
      <4> QED
        BY <1>2, <4>2, <4>3
    <3> QED
      BY <3>1, <3>2
  <2>2. CASE place \in {"create", "createold", "open", "chdir", "link1", "unlink", "linkbad"}
    BY <2>2, <1>2 DEF Locals, LiveAt
  <2>3. CASE place \in {"created", "chdir2", "unlink3"}
    BY <2>3, <1>2 DEF Locals, LiveAt
  <2>4. CASE place = "link2"
    BY <2>4, <1>2 DEF Locals, LiveAt
  <2>5. CASE place = "unlink2"
    BY <2>5, <1>2 DEF Locals, LiveAt
  <2>6. CASE place \in {"user", "return"}
    BY <2>6, <1>2 DEF Locals
  <2>7. place # "walk" => place \in {"user", "return", "create", "createold", "created", "open", "chdir", "chdir2",
              "link1", "link2", "linkbad", "unlink", "unlink2", "unlink3"}
    BY <1>2 DEF CallOK, Going
  <2> QED
    BY <2>1, <2>2, <2>3, <2>4, <2>5, <2>6, <2>7
<1> QED
  BY <1>1, <1>3 DEF LocalRefs

LEMMA DanglesNot ==
    IInv /\ JInv /\ UInv => NothingDangles
<1> SUFFICES ASSUME IInv, JInv, UInv PROVE NothingDangles
  OBVIOUS
<1>1. ASSUME NEW i \in Inum, Users(i) # {} PROVE type[i] # "free"
  <2>1. PICK p \in Proc : \/ fd[p] = i
                          \/ cwd[p] = i /\ pc[p] # "chdir2"
                          \/ \E k \in DOMAIN LocalRefs(p) : LocalRefs(p)[k] = i
    BY <1>1 DEF Users
  <2>2. fd[p] = i \/ (cwd[p] = i /\ pc[p] # "chdir2") => type[i] # "free"
    BY UTypes, InodeAssumption DEF LiveAt
  <2> QED
    BY <2>1, <2>2, LocalLive
<1> QED
  BY <1>1, EntryLinked DEF NothingDangles

\* No entry and no user of an inode is left when it is freed (fs.c:313-316), for
\* programs that neither rename nor look up "..": what a lookup returns, what a
\* process has open, stands in or has in the middle of a call is an inode with a
\* type, whatever create(), link(), unlink() and iput() do in between.
THEOREM NoneDangles ==
    ASSUME NoRename, NoUp
    PROVE  Spec => []NothingDangles
<1>1. Init => UInv
  BY InitUses
<1>2. (IInv /\ JInv /\ LiveLocks) /\ UInv /\ [Next]_vars => UInv'
  BY NextUses
<1>3. IInv /\ JInv /\ UInv => NothingDangles
  BY DanglesNot
<1>4. Spec => [](IInv /\ JInv /\ LiveLocks)
  BY LinksWithoutRename
<1> QED
  BY <1>1, <1>2, <1>3, <1>4, PTL DEF Spec

-----------------------------------------------------------------------------
(* Order of locks, for link()s to a name *)

LEMMA OrderStep ==
    ASSUME IInv, OrderInv, NEW p \in Proc, NEW place, NEW l, NEW what, Goto(p, place, l, what),
           OrderOK(place, l, what)
    PROVE  OrderInv'
<1>1. /\ pc'[p] = place /\ loc'[p] = l /\ todo'[p] = what
      /\ \A q \in Proc \ {p} : pc'[q] = pc[q] /\ loc'[q] = loc[q] /\ todo'[q] = todo[q]
  BY DEF Goto, IInv, TypeOK
<1>2. \A q \in Proc : OrderOK(pc'[q], loc'[q], todo'[q])
  BY <1>1 DEF OrderInv
<1> QED
  BY <1>2 DEF OrderInv

\* What a step does first.
LEMMA PutShapes ==
    ASSUME NEW x, NEW y
    PROVE  /\ PutsBefore(<<>>) /\ PutsBefore(<<Put(x)>>) /\ PutsBefore(<<Put(x), Put(y)>>)
           /\ x # y => PutsBefore(<<Put(x), Unlock(y), Put(y)>>)
           /\ \A place, l : PutsOther(place, l, <<>>)
           /\ \A place, l : LockedAt(place, l) # x => PutsOther(place, l, <<Put(x)>>)
           /\ \A place, l, s : LockedAt(place, l) = NoInum => PutsOther(place, l, s)
<1>1. /\ DOMAIN <<>> = {} /\ DOMAIN <<Put(x)>> = {1} /\ DOMAIN <<Put(x), Put(y)>> = {1, 2}
      /\ DOMAIN <<Put(x), Unlock(y), Put(y)>> = {1, 2, 3}
  OBVIOUS
<1>2. /\ Put(x).op = "put" /\ Put(y).op = "put" /\ Unlock(y).op = "unlock"
      /\ Put(x).ino = x /\ Unlock(y).ino = y
  BY DEF Put, Unlock
<1>3. PutsBefore(<<>>) /\ PutsBefore(<<Put(x)>>) /\ PutsBefore(<<Put(x), Put(y)>>)
  BY <1>1, <1>2 DEF PutsBefore
<1>4. x # y => PutsBefore(<<Put(x), Unlock(y), Put(y)>>)
  BY <1>1, <1>2 DEF PutsBefore
<1> QED
  BY <1>1, <1>2, <1>3, <1>4 DEF PutsOther

LEMMA ReturnNamed ==
    ASSUME NEW place \in {"user", "return"}
    PROVE  NamedOK(place, NoCall) /\ LockedAt(place, NoCall) = NoInum
  BY DEF NamedOK, Walks, LockedAt

LEMMA OrderReturn ==
    ASSUME IInv, OrderInv, NEW p \in Proc, NEW what, Return(p, what), PutsBefore(what)
    PROVE  OrderInv'
<1>1. PICK place \in {"user", "return"} : Goto(p, place, NoCall, what)
  BY Returns
<1>2. OrderOK(place, NoCall, what)
  BY <1>1, ReturnNamed, PutShapes DEF OrderOK
<1> QED
  BY <1>1, <1>2, OrderStep

\* A step to a place without a lock.
LEMMA OrderGoto ==
    ASSUME IInv, OrderInv, NEW p \in Proc, NEW place, NEW l, NEW what, Goto(p, place, l, what),
           LockedAt(place, l) = NoInum \/ what = <<>>, PutsBefore(what), NamedOK(place, l)
    PROVE  OrderInv'
<1>1. PutsOther(place, l, what)
  BY PutShapes
<1> QED
  BY <1>1, OrderStep DEF OrderOK

LEMMA OrderTypes ==
    ASSUME OrderInv, NEW p \in Proc
    PROVE  NamedOK(pc[p], loc[p]) /\ PutsBefore(todo[p]) /\ PutsOther(pc[p], loc[p], todo[p])
  BY DEF OrderInv, OrderOK

\* unlink() locks a directory and what is in it: two inodes.
LEMMA EntryOther ==
    ASSUME IInv, JInv, NEW d \in Inum, NEW s \in Slot, dir[d][s].inum # NoInum
    PROVE  /\ dir[d][s].inum # d
           /\ type[d] = "dir"
           /\ type[dir[d][s].inum] = "dir" => dir[d][s].inum \in NamedDirs /\ dotdot[dir[d][s].inum] = d
<1>1. PICK i : i = dir[d][s].inum
  OBVIOUS
<1>2. i \in Inum /\ <<d, s>> \in NamesOf(i)
  BY <1>1 DEF IInv, TypeOK, NamesOf
<1>3. type[d] = "dir"
  BY DEF JInv, FilesEmpty, NoEntries, Empty
<1>4. ASSUME type[i] = "dir" PROVE i \in NamedDirs /\ dotdot[i] = d
  BY <1>1, <1>2, <1>4 DEF NamedDirs, JInv, OneParent
<1>5. i # d
  <2>1. SUFFICES ASSUME i = d PROVE FALSE
    OBVIOUS
  <2>2. {i} \in SUBSET NamedDirs /\ dotdot[i] \in {i}
    BY <1>3, <1>4, <2>1
  <2> QED
    BY <2>2 DEF JInv, NoCircle
<1> QED
  BY <1>1, <1>3, <1>4, <1>5

-----------------------------------------------------------------------------
(* Order: one lemma for each action *)

LEMMA CallOrder ==
    ASSUME LinksNamed, IInv, OrderInv, NEW p \in Proc, Call(p)
    PROVE  OrderInv'
<1>1. PICK c \in Calls[p] :
        Goto(p, "walk", [NoCall EXCEPT !.call = c.call, !.then = First(c.call),
                                      !.at = Start(p, c.path), !.path = c.path.elems,
                                      !.path2 = c.path2], <<>>)
  BY DEF Call
<1>2. PICK l : l = [NoCall EXCEPT !.call = c.call, !.then = First(c.call), !.at = Start(p, c.path),
                                  !.path = c.path.elems, !.path2 = c.path2]
  OBVIOUS
<1>3. c.call \in Habit
  BY InodeAssumption
<1>4. l.then = First(c.call) /\ l.path2 = c.path2
  BY <1>2 DEF NoCall
<1>5. l.then # "link2" /\ (l.then = "link1" => c.call = "link")
  BY <1>3, <1>4 DEF First, Habit
<1>6. NamedOK("walk", l)
  BY <1>4, <1>5 DEF NamedOK, Walks, LinksNamed
<1> QED
  BY <1>1, <1>2, <1>6, PutShapes, OrderGoto

LEMMA WalkOrder ==
    ASSUME IInv, JInv, OrderInv, NEW p \in Proc, Walk(p)
    PROVE  OrderInv'
<1>1. PICK l : l = loc[p]
  OBVIOUS
<1>2. pc[p] = "walk" /\ l \in Local /\ l.then \in Lookups /\ l.path # <<>> /\ NamedOK("walk", l)
  BY <1>1, Types, OrderTypes DEF Walk, Locks, At, PlaceOK
<1>3. CASE WalkFails(p)
  <2>1. CASE l.then = "link2"
    <3>1. Goto(p, "linkbad", [l EXCEPT !.at = l.ip], <<Put(l.at)>>)
      BY <1>1, <1>3, <2>1 DEF WalkFails
    <3>2. \A k : NamedOK("linkbad", k) /\ LockedAt("linkbad", k) = NoInum
      BY DEF NamedOK, Walks, LockedAt
    <3> QED
      BY <3>1, <3>2, PutShapes, OrderGoto
  <2>2. CASE l.then # "link2"
    BY <1>1, <1>2, <1>3, <2>2, JTypes, PutShapes, OrderReturn DEF WalkFails, CallOK, Going
  <2> QED
    BY <2>1, <2>2
<1>4. CASE /\ WantsParent(l) /\ Len(l.path) = 1
           /\ Goto(p, l.then, [l EXCEPT !.name = Head(l.path), !.path = <<>>], <<>>)
  <2>1. PICK k : k = [l EXCEPT !.name = Head(l.path), !.path = <<>>]
    OBVIOUS
  <2>2. k.name = Head(l.path) /\ Head(l.path) = l.path[Len(l.path)]
    BY <1>2, <1>4, <2>1 DEF Local
  <2>3. l.then # "link1" /\ l.then # "walk" /\ (l.then = "link2" => EndsInName(l.path))
    BY <1>2, <1>4 DEF WantsParent, NamedOK, Walks
  <2>4. NamedOK(l.then, k)
    BY <2>2, <2>3 DEF NamedOK, Walks, EndsInName
  <2> QED
    BY <1>4, <2>1, <2>4, PutShapes, OrderGoto
<1>5. ASSUME NEW x, NEW place, \/ place = l.then /\ Len(l.path) = 1 /\ ~WantsParent(l)
                               \/ place = "walk" /\ Len(l.path) # 1,
             Goto(p, place, [l EXCEPT !.at = x, !.path = Tail(l.path)], <<Put(l.at)>>)
      PROVE  OrderInv'
  <2>1. PICK k : k = [l EXCEPT !.at = x, !.path = Tail(l.path)]
    OBVIOUS
  <2>2. k.then = l.then /\ k.path2 = l.path2 /\ k.path = Tail(l.path)
    BY <1>2, <2>1 DEF Local
  <2>3. NamedOK(place, k)
    <3>1. CASE place = l.then /\ ~WantsParent(l)
      BY <1>2, <2>2, <3>1 DEF NamedOK, Walks, WantsParent, Lookups
    <3>2. CASE place = "walk" /\ Len(l.path) # 1
      <4>1. PICK s \in Seq(Name \cup {".", ".."}) : s = l.path
        BY <1>2 DEF Local
      <4>2. Len(s) \in Nat /\ Len(s) # 0 /\ Len(s) # 1
        BY <1>2, <3>2, <4>1
      <4>3. Len(Tail(s)) = Len(s) - 1
        BY <1>2, <4>1
      <4>4. Len(s) - 1 \in 1..(Len(s) - 1)
        <5>1. PICK n : n = Len(s)
          OBVIOUS
        <5>2. n - 1 \in 1..(n - 1)
          BY <4>2, <5>1
        <5> QED
          BY <5>1, <5>2
      <4>5. Tail(s)[Len(s) - 1] = s[(Len(s) - 1) + 1]
        BY <1>2, <4>1, <4>4
      <4>6. (Len(s) - 1) + 1 = Len(s)
        BY <4>2
      <4>7. EndsInName(l.path) => EndsInName(k.path)
        BY <2>2, <4>1, <4>3, <4>5, <4>6 DEF EndsInName
      <4> QED
        BY <1>2, <2>2, <3>2, <4>7 DEF NamedOK, Walks
    <3> QED
      BY <1>5, <3>1, <3>2
  <2>4. LockedAt(place, k) = NoInum
    BY <1>2, <1>5 DEF LockedAt, Lookups
  <2> QED
    BY <1>5, <2>1, <2>3, <2>4, PutShapes, OrderGoto
<1>6. \/ WalkFails(p)
      \/ /\ WantsParent(l) /\ Len(l.path) = 1
         /\ Goto(p, l.then, [l EXCEPT !.name = Head(l.path), !.path = <<>>], <<>>)
      \/ \E x, place : /\ \/ place = l.then /\ Len(l.path) = 1 /\ ~WantsParent(l)
                          \/ place = "walk" /\ Len(l.path) # 1
                       /\ Goto(p, place, [l EXCEPT !.at = x, !.path = Tail(l.path)], <<Put(l.at)>>)
  BY <1>1 DEF Walk
<1> QED
  BY <1>3, <1>4, <1>5, <1>6

LEMMA PutCheckOrder ==
    ASSUME IInv, OrderInv, NEW p \in Proc, PutCheck(p)
    PROVE  OrderInv'
<1>1. PICK j : j = Head(todo[p]).ino
  OBVIOUS
<1>2. /\ todo[p] # <<>> /\ Head(todo[p]).op = "put"
      /\ todo' = [todo EXCEPT ![p] = <<Drop(j)>> \o Tail(todo[p])]
      /\ UNCHANGED <<pc, loc>>
  BY <1>1, Types DEF PutCheck, IInv, TypeOK
<1>3. PICK what, s : what = <<Drop(j)>> \o Tail(todo[p]) /\ s = todo[p]
  OBVIOUS
<1>4. s \in Seq(Todo) /\ s # <<>> /\ Drop(j) \in Todo
  <2>1. s \in Seq(Todo) /\ s # <<>>
    BY <1>2, <1>3, Types
  <2>2. Head(s) \in Todo
    BY <2>1
  <2> QED
    BY <1>1, <1>3, <2>1, <2>2 DEF Drop, Todo
<1>5. DOMAIN what = DOMAIN s /\ \A k \in DOMAIN what : k # 1 => what[k] = s[k]
  BY <1>3, <1>4
<1>6. what[1] = Drop(j) /\ s[1] = Head(s)
  BY <1>3, <1>4
<1>7. \A k \in DOMAIN what : what[k].ino = s[k].ino /\ (what[k].op = "unlock" => s[k].op = "unlock")
  <2>1. what[1].ino = s[1].ino /\ what[1].op # "unlock"
    BY <1>1, <1>3, <1>6 DEF Drop
  <2> QED
    BY <1>5, <2>1
<1>8. OrderOK(pc[p], loc[p], what)
  <2>1. PutsBefore(what)
    <3>1. PutsBefore(s)
      BY <1>3, OrderTypes
    <3>2. SUFFICES ASSUME NEW k \in DOMAIN what, NEW m \in DOMAIN what, m < k, what[k].op = "unlock"
                   PROVE  what[m].ino # what[k].ino
      BY DEF PutsBefore
    <3>3. s[m].ino # s[k].ino
      BY <1>5, <1>7, <3>1, <3>2 DEF PutsBefore
    <3> QED
      BY <1>7, <3>3
  <2>2. PutsOther(pc[p], loc[p], what)
    <3>1. PutsOther(pc[p], loc[p], s)
      BY <1>3, OrderTypes
    <3>2. SUFFICES ASSUME LockedAt(pc[p], loc[p]) # NoInum, NEW k \in DOMAIN what
                   PROVE  what[k].ino # LockedAt(pc[p], loc[p])
      BY DEF PutsOther
    <3>3. s[k].ino # LockedAt(pc[p], loc[p])
      BY <1>5, <3>1, <3>2 DEF PutsOther
    <3> QED
      BY <1>7, <3>3
  <2> QED
    BY <2>1, <2>2, OrderTypes DEF OrderOK
<1>9. Goto(p, pc[p], loc[p], what)
  BY <1>2, <1>3, Types DEF Goto, IInv, TypeOK
<1> QED
  BY <1>8, <1>9, OrderStep

LEMMA ReleaseOrder ==
    ASSUME IInv, OrderInv, NEW p \in Proc, Release(p)
    PROVE  OrderInv'
<1>1. todo[p] # <<>> /\ todo' = [todo EXCEPT ![p] = Tail(todo[p])] /\ UNCHANGED loc
  BY Types DEF Release, IInv, TypeOK
<1>2. PICK place : /\ pc' = [pc EXCEPT ![p] = place]
                   /\ place = pc[p] \/ (place = "user" /\ pc[p] = "return")
  BY DEF Release
<1>3. Goto(p, place, loc[p], Tail(todo[p]))
  BY <1>1, <1>2, Types DEF Goto, IInv, TypeOK
<1>4. PICK s \in Seq(Todo) : s = todo[p] /\ s # <<>>
  BY <1>1, Types
<1>5. \A k \in DOMAIN Tail(s) : k + 1 \in DOMAIN s /\ Tail(s)[k] = s[k + 1] /\ k \in Nat
  BY <1>4
<1>6. NamedOK(place, loc[p]) /\ LockedAt(place, loc[p]) = LockedAt(pc[p], loc[p])
  BY <1>2, OrderTypes DEF NamedOK, Walks, LockedAt
<1>7. PutsBefore(Tail(s))
  <2>1. SUFFICES ASSUME NEW k \in DOMAIN Tail(s), NEW m \in DOMAIN Tail(s), m < k, Tail(s)[k].op = "unlock"
                 PROVE  Tail(s)[m].ino # Tail(s)[k].ino
    BY DEF PutsBefore
  <2>2. m + 1 < k + 1 /\ s[k + 1].op = "unlock" /\ k + 1 \in DOMAIN s /\ m + 1 \in DOMAIN s
    BY <1>5, <2>1
  <2>3. s[m + 1].ino # s[k + 1].ino
    BY <1>4, <2>2, OrderTypes DEF PutsBefore
  <2> QED
    BY <1>5, <2>3
<1>8. PutsOther(place, loc[p], Tail(s))
  BY <1>4, <1>5, <1>6, OrderTypes DEF PutsOther
<1> QED
  BY <1>3, <1>4, <1>6, <1>7, <1>8, OrderStep DEF OrderOK

LEMMA CreateOrder ==
    ASSUME IInv, JInv, OrderInv, NEW p \in Proc, Create(p)
    PROVE  OrderInv'
<1>1. PICK l, d : l = loc[p] /\ d = l.at
  OBVIOUS
<1>2. l \in Local /\ type[d] = "dir"
  BY <1>1, Types DEF Create, Locks, At, DirOK
<1>3. \/ \E k : Goto(p, "createold", k, <<Put(d)>>)
      \/ Return(p, <<Put(d)>>)
      \/ \E i \in NewInum : Goto(p, "created", [l EXCEPT !.ip = i], <<Put(d)>>)
  BY <1>1 DEF Create
<1>4. \A k : NamedOK("createold", k) /\ LockedAt("createold", k) = NoInum /\ NamedOK("created", k)
             /\ LockedAt("created", k) = k.ip
  BY DEF NamedOK, Walks, LockedAt
<1>5. ASSUME NEW i \in NewInum, Goto(p, "created", [l EXCEPT !.ip = i], <<Put(d)>>)
      PROVE  OrderInv'
  <2>1. PICK k : k = [l EXCEPT !.ip = i]
    OBVIOUS
  <2>2. k.ip = i /\ i # d
    BY <1>2, <1>5, <2>1 DEF Local, NewInum
  <2>3. OrderOK("created", k, <<Put(d)>>)
    BY <1>4, <2>2, PutShapes DEF OrderOK
  <2> QED
    BY <1>5, <2>1, <2>3, OrderStep
<1>6. CASE \E k : Goto(p, "createold", k, <<Put(d)>>)
  BY <1>4, <1>6, PutShapes, OrderGoto
<1>7. CASE Return(p, <<Put(d)>>)
  BY <1>7, PutShapes, OrderReturn
<1> QED
  BY <1>3, <1>5, <1>6, <1>7

LEMMA OpenOrder ==
    ASSUME IInv, OrderInv, NEW p \in Proc,
           Open(p) \/ Created(p) \/ ChdirDone(p) \/ Close(p) \/ LinkBad(p) \/ UnlinkInode(p)
    PROVE  OrderInv'
<1>1. Return(p, <<>>) \/ \E i : Return(p, <<Put(i)>>)
  BY DEF Open, Created, ChdirDone, Close, LinkBad, UnlinkInode
<1> QED
  BY <1>1, PutShapes, OrderReturn

LEMMA ChdirOrder ==
    ASSUME IInv, OrderInv, NEW p \in Proc, Chdir(p)
    PROVE  OrderInv'
<1>1. (\E l, i : Goto(p, "chdir2", l, <<Put(i)>>)) \/ \E i : Return(p, <<Put(i)>>)
  BY DEF Chdir
<1>2. \A l : NamedOK("chdir2", l) /\ LockedAt("chdir2", l) = NoInum
  BY DEF NamedOK, Walks, LockedAt
<1>3. CASE \E i : Return(p, <<Put(i)>>)
  BY <1>3, PutShapes, OrderReturn
<1>4. CASE \E l, i : Goto(p, "chdir2", l, <<Put(i)>>)
  BY <1>2, <1>4, PutShapes, OrderGoto
<1> QED
  BY <1>1, <1>3, <1>4

LEMMA LinkOldOrder ==
    ASSUME IInv, OrderInv, NEW p \in Proc, LinkOld(p)
    PROVE  OrderInv'
<1>1. PICK l, path, at : l = loc[p] /\ path = l.path2 /\ at = Start(p, path)
  OBVIOUS
<1>2. pc[p] = "link1" /\ l \in Local /\ EndsInName(path.elems)
  BY <1>1, Types, OrderTypes DEF LinkOld, Locks, At, NamedOK
<1>3. \/ Return(p, <<Put(l.at)>>)
      \/ Goto(p, "walk", [l EXCEPT !.ip = l.at, !.at = at, !.path = path.elems, !.path2 = NoPath,
                                   !.then = "link2"], <<>>)
  BY <1>1 DEF LinkOld
<1>4. CASE Return(p, <<Put(l.at)>>)
  BY <1>4, PutShapes, OrderReturn
<1>5. CASE Goto(p, "walk", [l EXCEPT !.ip = l.at, !.at = at, !.path = path.elems, !.path2 = NoPath,
                                     !.then = "link2"], <<>>)
  <2>1. PICK k : k = [l EXCEPT !.ip = l.at, !.at = at, !.path = path.elems, !.path2 = NoPath, !.then = "link2"]
    OBVIOUS
  <2>2. k.path = path.elems /\ k.then = "link2"
    BY <1>2, <2>1 DEF Local
  <2>3. NamedOK("walk", k)
    BY <1>2, <2>2 DEF NamedOK, Walks
  <2> QED
    BY <1>5, <2>1, <2>3, PutShapes, OrderGoto
<1> QED
  BY <1>3, <1>4, <1>5

LEMMA LinkNewOrder ==
    ASSUME IInv, JInv, OrderInv, NEW p \in Proc, LinkNew(p)
    PROVE  OrderInv'
<1>1. PICK l, d, old : l = loc[p] /\ d = l.at /\ old = Lookup(d, l.name)
  OBVIOUS
<1>2. d \in Inum /\ l.name \in Name
  BY <1>1, Types, OrderTypes DEF LinkNew, Locks, At, PlaceOK, AtPlaces, NamedOK
<1>3. old # NoInum => old # d
  <2>1. l.name # "." /\ l.name # ".."
    BY <1>2, InodeAssumption
  <2>2. old # NoInum => \E s \in Slot : old = dir[d][s].inum
    BY <1>1, <2>1 DEF Lookup
  <2> QED
    BY <1>2, <2>2, EntryOther
<1>4. \A k : NamedOK("linkbad", k) /\ LockedAt("linkbad", k) = NoInum
  BY DEF NamedOK, Walks, LockedAt
<1>5. \/ \E k : Goto(p, "linkbad", k, <<Put(d)>>)
      \/ old # NoInum /\ \E k : Goto(p, "linkbad", k, <<Put(old), Unlock(d), Put(d)>>)
      \/ \E i : Return(p, <<Put(d), Put(i)>>)
  BY <1>1 DEF LinkNew
<1>6. CASE \E k : Goto(p, "linkbad", k, <<Put(d)>>)
  BY <1>4, <1>6, PutShapes, OrderGoto
<1>7. CASE old # NoInum /\ \E k : Goto(p, "linkbad", k, <<Put(old), Unlock(d), Put(d)>>)
  BY <1>3, <1>7, PutShapes, <1>4, OrderGoto
<1>8. CASE \E i : Return(p, <<Put(d), Put(i)>>)
  BY <1>8, PutShapes, OrderReturn
<1> QED
  BY <1>5, <1>6, <1>7, <1>8

LEMMA UnlinkOrder ==
    ASSUME IInv, OrderInv, NEW p \in Proc, Unlink(p)
    PROVE  OrderInv'
<1>1. (\E l : Goto(p, "unlink2", l, <<>>)) \/ \E i : Return(p, <<Put(i)>>)
  BY DEF Unlink
<1>2. \A l : NamedOK("unlink2", l)
  BY DEF NamedOK, Walks
<1>3. CASE \E i : Return(p, <<Put(i)>>)
  BY <1>3, PutShapes, OrderReturn
<1>4. CASE \E l : Goto(p, "unlink2", l, <<>>)
  BY <1>2, <1>4, PutShapes, OrderGoto
<1> QED
  BY <1>1, <1>3, <1>4

LEMMA UnlinkEntryOrder ==
    ASSUME IInv, JInv, OrderInv, NEW p \in Proc, UnlinkEntry(p)
    PROVE  OrderInv'
<1>1. PICK l, d, i : l = loc[p] /\ d = l.dp /\ i = l.at
  OBVIOUS
<1>2. pc[p] = "unlink2"
  BY DEF UnlinkEntry, Locks, At
<1>3. d \in Inum /\ i \in Inum /\ l \in Local /\ l.slot \in Slot /\ dir[d][l.slot].inum = i
  BY <1>1, <1>2, Types, JTypes DEF PlaceOK, AtPlaces, DpPlaces, EntryOK
<1>4. i # d
  BY <1>3, EntryOther, InodeAssumption
<1>5. \/ Return(p, <<Put(i), Unlock(d), Put(d)>>)
      \/ Goto(p, "unlink3", [l EXCEPT !.ip = i], <<Put(d)>>)
  BY <1>1 DEF UnlinkEntry
<1>6. CASE Return(p, <<Put(i), Unlock(d), Put(d)>>)
  BY <1>4, <1>6, PutShapes, OrderReturn
<1>7. CASE Goto(p, "unlink3", [l EXCEPT !.ip = i], <<Put(d)>>)
  <2>1. PICK k : k = [l EXCEPT !.ip = i]
    OBVIOUS
  <2>2. LockedAt("unlink3", k) = i /\ NamedOK("unlink3", k)
    BY <1>3, <2>1 DEF Local, LockedAt, NamedOK, Walks
  <2>3. OrderOK("unlink3", k, <<Put(d)>>)
    BY <1>4, <2>2, PutShapes DEF OrderOK
  <2> QED
    BY <1>7, <2>1, <2>3, OrderStep
<1> QED
  BY <1>5, <1>6, <1>7

-----------------------------------------------------------------------------
(* Order: every step of calls that do not rename, and what follows *)

LEMMA InitOrder ==
    Init => OrderInv
<1> SUFFICES ASSUME Init PROVE OrderInv
  OBVIOUS
<1>1. \A p \in Proc : pc[p] = "user" /\ loc[p] = NoCall /\ todo[p] = <<>>
  BY DEF Init
<1>2. OrderOK("user", NoCall, <<>>)
  BY ReturnNamed, PutShapes DEF OrderOK
<1> QED
  BY <1>1, <1>2 DEF OrderInv

LEMMA NextOrder ==
    ASSUME LinksNamed, IInv, JInv, OrderInv, [Next]_vars
    PROVE  OrderInv'
<1>1. CASE UNCHANGED vars
  BY <1>1 DEF vars, OrderInv
<1>2. CASE Next
  <2>1. PICK p \in Proc : Plain(p)
    BY <1>2, PlainSteps
  <2> QED
    BY <2>1, CallOrder, WalkOrder, PutCheckOrder, ReleaseOrder, CreateOrder, OpenOrder, ChdirOrder,
       LinkOldOrder, LinkNewOrder, UnlinkOrder, UnlinkEntryOrder DEF Plain
<1> QED
  BY <1>1, <1>2

LEMMA NeedsIn ==
    ASSUME IInv, JInv, NEW p \in Proc
    PROVE  Needs(p) \in Pointer
<1>1. CASE todo[p] # <<>>
  <2>1. Head(todo[p]) \in Todo
    BY <1>1, Types
  <2> QED
    BY <1>1, <2>1 DEF Needs, Todo, Pointer
<1>2. CASE todo[p] = <<>>
  BY Types, JTypes, <1>2 DEF Local, CallOK, Going, Needs, Pointer
<1> QED
  BY <1>1, <1>2

\* Who has a lock and waits for another one, not in an iput(), is in unlink():
\* the lock is of a directory, and the other is of what is in it.
LEMMA WaitsBelow ==
    ASSUME IInv, JInv, OrderInv, NEW p \in Proc, NEW i \in Inum, lock[i] = p,
           Needs(p) # NoInum, ~PutsUnderLock(p)
    PROVE  /\ type[i] = "dir"
           /\ type[Needs(p)] = "dir" => Needs(p) \in NamedDirs /\ dotdot[Needs(p)] = i
<1>1. HasLock(pc[p], loc[p], todo[p], i)
  BY DEF JInv, LockInv
<1>2. CASE todo[p] # <<>>
  <2>1. PICK s \in Seq(Todo) : s = todo[p]
    BY Types
  <2>2. PICK h : h = Head(s)
    OBVIOUS
  <2>3. h.op = "put" /\ Needs(p) = h.ino
    BY <1>2, <2>1, <2>2 DEF Needs
  <2>4. i = h.ino
    BY <1>2, <2>1, <2>2, <2>3 DEF PutsUnderLock
  <2>5. DOMAIN s = 1..Len(s) /\ 1 \in DOMAIN s /\ s[1] = h
    BY <1>2, <2>1, <2>2
  <2>6. CASE LockedAt(pc[p], loc[p]) = i
    BY <2>1, <2>4, <2>5, <2>6, OrderTypes, InodeAssumption DEF PutsOther
  <2>7. CASE Unlocks(i, todo[p])
    <3>1. PICK k \in DOMAIN s : s[k] = Unlock(i)
      BY <2>1, <2>7 DEF Unlocks
    <3>2. s[k].op = "unlock" /\ s[k].ino = i
      BY <3>1 DEF Unlock
    <3>3. 1 < k
      BY <2>3, <2>5, <3>2
    <3>4. s[1].ino # s[k].ino
      BY <2>1, <2>5, <3>2, <3>3, OrderTypes DEF PutsBefore
    <3> QED
      BY <2>4, <2>5, <3>2, <3>4
  <2> QED
    BY <1>1, <2>6, <2>7 DEF HasLock
<1>3. CASE todo[p] = <<>>
  <2>1. LockedAt(pc[p], loc[p]) = i
    <3>1. \A j : ~Unlocks(j, <<>>)
      BY UnlocksIn
    <3> QED
      BY <1>1, <1>3, <3>1 DEF HasLock
  <2>2. pc[p] \in {"created", "unlink3", "unlink2"}
    BY <2>1, InodeAssumption DEF LockedAt
  <2>3. pc[p] = "unlink2"
    BY <1>3, <2>2 DEF Needs
  <2>4. loc[p].dp = i /\ Needs(p) = loc[p].at
    BY <1>3, <2>1, <2>3 DEF LockedAt, Needs
  <2>5. loc[p].slot \in Slot /\ dir[i][loc[p].slot].inum = Needs(p)
    BY <2>3, <2>4, JTypes DEF EntryOK
  <2>6. /\ type[i] = "dir"
        /\ type[dir[i][loc[p].slot].inum] = "dir" =>
             dir[i][loc[p].slot].inum \in NamedDirs /\ dotdot[dir[i][loc[p].slot].inum] = i
    BY <2>5, EntryOther
  <2> QED
    BY <2>5, <2>6
<1> QED
  BY <1>2, <1>3

\* Going down from directory to directory does not go on for ever.
LEMMA NoChain ==
    ASSUME JInv, NEW T \in SUBSET NamedDirs, T # {}, \A i \in T : \E j \in T : dotdot[j] = i
    PROVE  FALSE
<1>1. PICK f : f = [i \in T |-> CHOOSE j \in T : dotdot[j] = i]
  OBVIOUS
<1>2. f \in [T -> T] /\ \A i \in T : dotdot[f[i]] = i
  BY <1>1
<1>3. f \in Injection(T, T)
  BY <1>2 DEF Injection, IsInjective
<1>4. IsFiniteSet(T)
  BY InodeAssumption, FS_Subset DEF NamedDirs
<1>5. f \in Surjection(T, T)
  BY <1>3, <1>4, FS_Injection
<1>6. \A j \in T : \E i \in T : f[i] = j
  BY <1>5 DEF Surjection
<1>7. \A j \in T : dotdot[j] \in T
  BY <1>2, <1>6
<1> QED
  BY <1>7 DEF JInv, NoCircle

LEMMA DeadlocksInPuts ==
    IInv /\ JInv /\ OrderInv => DeadlockOnlyInPut
<1> SUFFICES ASSUME IInv, JInv, OrderInv PROVE DeadlockOnlyInPut
  OBVIOUS
<1> SUFFICES ASSUME NEW S \in (SUBSET Proc) \ {{}}, \A p \in S : \E q \in S : WaitsFor(p, q)
             PROVE  \E p \in S : PutsUnderLock(p)
  BY DEF DeadlockOnlyInPut
<1> SUFFICES ASSUME \A p \in S : ~PutsUnderLock(p) PROVE FALSE
  OBVIOUS
<1>1. S # {} /\ \A p \in S : p \in Proc
  OBVIOUS
<1> DEFINE R == {q \in S : \E p \in S : WaitsFor(p, q)}
           T == {Needs(q) : q \in R}
<1>2. ASSUME NEW q \in R
      PROVE  \E p \in S : /\ q = lock[Needs(p)] /\ Needs(p) # NoInum
                          /\ type[Needs(p)] = "dir"
                          /\ type[Needs(q)] = "dir" => Needs(q) \in NamedDirs /\ dotdot[Needs(q)] = Needs(p)
  <2>1. PICK p \in S : WaitsFor(p, q)
    OBVIOUS
  <2>2. PICK i : i = Needs(p)
    OBVIOUS
  <2>3. i \in Inum /\ lock[i] = q /\ i # NoInum
    BY <1>1, <2>1, <2>2, NeedsIn DEF WaitsFor, Pointer
  <2>4. Needs(q) # NoInum
    BY DEF WaitsFor
  <2>5. /\ type[i] = "dir"
        /\ type[Needs(q)] = "dir" => Needs(q) \in NamedDirs /\ dotdot[Needs(q)] = i
    BY <1>1, <2>3, <2>4, WaitsBelow
  <2> QED
    BY <2>2, <2>3, <2>5
<1>3. ASSUME NEW q \in R
      PROVE  \E r \in R : /\ r = lock[Needs(q)]
                          /\ type[Needs(q)] = "dir" /\ Needs(q) \in NamedDirs
                          /\ type[Needs(r)] = "dir" => dotdot[Needs(r)] = Needs(q)
  <2>1. PICK r \in S : WaitsFor(q, r)
    OBVIOUS
  <2>2. r \in R /\ r = lock[Needs(q)] /\ Needs(q) # NoInum
    BY <2>1 DEF WaitsFor
  <2>3. Needs(q) \in Inum /\ Needs(r) # NoInum
    BY <1>1, <2>2, NeedsIn DEF WaitsFor, Pointer
  <2>4. type[Needs(q)] = "dir" /\ (type[Needs(r)] = "dir" => dotdot[Needs(r)] = Needs(q))
    BY <1>1, <2>2, <2>3, WaitsBelow
  <2> HIDE DEF R
  <2> QED
    BY <1>2, <2>2, <2>4
<1>4. T # {}
  BY <1>1
<1>5. T \in SUBSET NamedDirs
  <2> HIDE DEF R
  <2> QED
    BY <1>3
<1>6. ASSUME NEW i \in T PROVE \E j \in T : dotdot[j] = i
  <2> HIDE DEF R
  <2>1. PICK q \in R : i = Needs(q)
    OBVIOUS
  <2>2. PICK r \in R : type[Needs(r)] = "dir" => dotdot[Needs(r)] = Needs(q)
    BY <1>3
  <2>3. type[Needs(r)] = "dir"
    BY <1>3
  <2> QED
    BY <2>1, <2>2, <2>3
<1> HIDE DEF T
<1> QED
  BY <1>4, <1>5, <1>6, NoChain

-----------------------------------------------------------------------------
(* What fits together still does when a name goes, a name comes, an inode is freed *)

LEMMA NamedLives ==
    ASSUME NEW t, NEW n, NEW d, NEW u, NEW g, Typed(t, n, d, u, g), Sound(t, n, d, u, g),
           NEW x \in Inum, NEW s \in Slot, d[x][s].inum # NoInum
    PROVE  /\ d[x][s].inum \in Inum /\ t[d[x][s].inum] # "free" /\ d[x][s].name \in Name
           /\ <<x, s>> \in NamesIn(d, d[x][s].inum) /\ t[x] = "dir"
           /\ t[d[x][s].inum] = "dir" => d[x][s].inum # Root /\ d[x][s].inum # x
<1>1. d[x][s].inum \in Inum
  BY DEF Typed, Entries
<1>2. <<x, s>> \in NamesIn(d, d[x][s].inum)
  BY DEF NamesIn
<1>3. t[d[x][s].inum] # "free" /\ d[x][s].name \in Name
  BY <1>1, <1>2 DEF Sound, LinksFit, NamesFit
<1>4. t[x] = "dir"
  BY DEF Sound, NoEntries, Empty
<1>5. CASE t[d[x][s].inum] = "dir" /\ d[x][s].inum = x
  <2>1. u[x] = x /\ x \in DirsIn(t, d)
    BY <1>2, <1>5 DEF Sound, ParentsFit, DirsIn
  <2>2. {x} \subseteq DirsIn(t, d) /\ {x} # {}
    BY <2>1
  <2>3. \E i \in {x} : u[i] \notin {x}
    BY <2>2 DEF Sound, Acyclic
  <2> QED
    BY <2>1, <2>3
<1>6. t[d[x][s].inum] = "dir" => d[x][s].inum # Root
  BY DEF Sound, ParentsFit
<1> QED
  BY <1>1, <1>2, <1>3, <1>4, <1>5, <1>6

LEMMA NatsAt ==
    ASSUME NEW t, NEW n, NEW d, NEW u, NEW g, Typed(t, n, d, u, g), NEW k \in Inum
    PROVE  /\ Cardinality(NamesIn(d, k)) \in Nat /\ Cardinality(SubsIn(d, t, k)) \in Nat
           /\ g[k] \in Nat /\ Is(Root, k) \in Nat /\ n[k] \in Int
           /\ \A i : Is(i, k) \in Nat /\ IsDir(t, i) \in Nat
  BY NamesFinite, SubsFinite, IsNat DEF Typed, IsDir

\* A name is removed.
LEMMA Unnamed ==
    ASSUME NEW t, NEW n, NEW d, NEW u, NEW g, Typed(t, n, d, u, g), Sound(t, n, d, u, g),
           NEW x \in Inum, NEW s \in Slot, NEW i \in Inum, d[x][s].inum = i,
           NEW m, NEW e \in Entries, e[x][s] = Empty,
           \A y \in Inum, r \in Slot : y # x \/ r # s => e[y][r] = d[y][r],
           \A k \in Inum : m[k] = n[k] - Is(i, k) - (IF k = x THEN IsDir(t, i) ELSE 0)
    PROVE  Sound(t, m, e, u, g)
<1>0. /\ e[x][s] = Empty /\ \A y \in Inum, r \in Slot : y # x \/ r # s => e[y][r] = d[y][r]
      /\ d \in Entries /\ e \in Entries /\ NoInum \notin Inum /\ Empty.inum = NoInum
  BY InodeAssumption DEF Typed, Empty
<1>1. i \in Inum /\ t[i] # "free" /\ t[x] = "dir"
  <2>1. d[x][s].inum # NoInum
    BY <1>0
  <2>2. <<x, s>> \in NamesIn(d, i)
    BY DEF NamesIn
  <2>3. t[i] # "free"
    BY <2>2 DEF Sound, LinksFit
  <2>4. t[x] = "dir"
    BY <1>0, <2>1 DEF Sound, NoEntries
  <2> QED
    BY <2>3, <2>4
<1>2. \A k \in Inum : NamesIn(e, k) \subseteq NamesIn(d, k)
  <2>1. ASSUME NEW k \in Inum, NEW y \in Inum, NEW r \in Slot, e[y][r].inum = k PROVE d[y][r].inum = k
    BY <1>0, <2>1
  <2> QED
    BY <2>1 DEF NamesIn
<1>3. NamesFit(e)
  <2>1. ASSUME NEW y \in Inum, NEW r \in Slot
        PROVE  /\ e[y][r].inum = NoInum <=> e[y][r] = Empty
               /\ e[y][r].inum # NoInum => e[y][r] = d[y][r]
    BY <1>0 DEF Sound, NamesFit
  <2>2. ASSUME NEW y \in Inum, NEW r \in Slot, NEW q \in Slot, e[y][r].inum # NoInum, e[y][q].name = e[y][r].name
        PROVE  q = r
    BY <2>1, <2>2, InodeAssumption, <1>0 DEF Sound, NamesFit, Empty
  <2>3. \A y \in Inum, r \in Slot : e[y][r].inum # NoInum => e[y][r].name \in Name
    BY <2>1 DEF Sound, NamesFit
  <2> QED
    BY <2>1, <2>2, <2>3 DEF NamesFit
<1>4. ASSUME NEW k \in Inum
      PROVE  IF t[k] = "free" THEN NamesIn(e, k) = {} /\ g[k] = 0 ELSE m[k] = LinksAt(t, e, g, k)
  <2>1. CASE t[k] = "free"
    BY <1>2, <2>1 DEF Sound, LinksFit
  <2>2. CASE t[k] # "free"
    <3>1. n[k] = LinksAt(t, d, g, k)
      BY <2>2 DEF Sound, LinksFit
    <3>2. /\ Cardinality(NamesIn(e, k)) = Cardinality(NamesIn(d, k)) - Is(i, k) + Is(NoInum, k)
          /\ Cardinality(SubsIn(e, t, k)) = Cardinality(SubsIn(d, t, k))
                  - (IF k = x THEN IsDir(t, i) ELSE 0) + (IF k = x THEN IsDir(t, NoInum) ELSE 0)
      <4>1. Empty \in Entry /\ Empty.inum = NoInum
        BY DEF Empty, Entry
      <4> QED
        BY <1>0, <4>1, SlotSet
    <3>3. Is(NoInum, k) = 0 /\ IsDir(t, NoInum) = 0
      BY <1>0 DEF Is, IsDir
    <3>4. m[k] = n[k] - Is(i, k) - (IF k = x THEN IsDir(t, i) ELSE 0)
      OBVIOUS
    <3>5. CASE k = x
      BY <2>2, <3>1, <3>2, <3>3, <3>4, <3>5, NatsAt DEF LinksAt
    <3>6. CASE k # x
      BY <2>2, <3>1, <3>2, <3>3, <3>4, <3>6, NatsAt DEF LinksAt
    <3> QED
      BY <3>5, <3>6
  <2> QED
    BY <2>1, <2>2
<1>5. ParentsFit(t, e, u)
  <2>1. ASSUME NEW y \in Inum, NEW r \in Slot, NEW k, k = e[y][r].inum, k # NoInum, t[k] = "dir"
        PROVE  k # Root /\ u[k] = y /\ NamesIn(e, k) = {<<y, r>>}
    <3>1. k = d[y][r].inum /\ k \in Inum
      <4>1. y # x \/ r # s
        BY <1>0, <2>1
      <4>2. e[y][r] = d[y][r]
        BY <1>0, <4>1
      <4>3. e[y][r].inum \in Inum \cup {NoInum}
        BY <1>0 DEF Entries
      <4> QED
        BY <2>1, <4>2, <4>3
    <3>2. k # Root /\ u[k] = y /\ NamesIn(d, k) = {<<y, r>>}
      BY <2>1, <3>1 DEF Sound, ParentsFit
    <3>3. <<y, r>> \in NamesIn(e, k)
      BY <2>1 DEF NamesIn
    <3> QED
      BY <1>2, <3>1, <3>2, <3>3
  <2> QED
    BY <2>1 DEF ParentsFit
<1>6. Acyclic(t, e, u)
  BY <1>2 DEF DirsIn, Sound, Acyclic
<1>7. ASSUME NEW y \in Inum, t[y] # "dir" PROVE e[y] = NoEntries
  <2>1. d[y] = NoEntries /\ y # x
    BY <1>1, <1>7 DEF Sound
  <2>2. \A r \in Slot : e[y][r] = d[y][r]
    BY <1>0, <2>1
  <2>3. e[y] = d[y]
    BY <1>0, <2>2 DEF Entries
  <2> QED
    BY <2>1, <2>3
<1> QED
  BY <1>3, <1>4, <1>5, <1>6, <1>7 DEF Sound, LinksFit

\* A file gets a name, or a directory that has none, and it is not above its new place.
LEMMA NewlyNamed ==
    ASSUME NEW t, NEW n, NEW d, NEW u, NEW g, Typed(t, n, d, u, g), Sound(t, n, d, u, g),
           NEW x \in Inum, t[x] = "dir", NEW s \in Slot, d[x][s] = Empty,
           NEW a \in Name, \A r \in Slot : d[x][r].name # a, NEW i \in Inum, t[i] # "free",
           NEW A \in SUBSET Inum, NEW w,
           t[i] = "dir" => /\ NamesIn(d, i) = {} /\ i # Root /\ w[i] = x
                           /\ x \in A /\ i \notin A /\ Above(t, d, u, A),
           \A k \in Inum : k # i => w[k] = u[k],
           NEW m, NEW e \in Entries, e[x][s] = [name |-> a, inum |-> i],
           \A y \in Inum, r \in Slot : y # x \/ r # s => e[y][r] = d[y][r],
           \A k \in Inum : m[k] = n[k] + Is(i, k) + (IF k = x THEN IsDir(t, i) ELSE 0)
    PROVE  Sound(t, m, e, w, g)
<1>0. /\ e[x][s].name = a /\ e[x][s].inum = i /\ \A y \in Inum, r \in Slot : y # x \/ r # s => e[y][r] = d[y][r]
      /\ d \in Entries /\ e \in Entries /\ NoInum \notin Inum /\ Empty.inum = NoInum /\ d[x][s].inum = NoInum
      /\ e[x][s] # Empty /\ i # NoInum
  BY InodeAssumption DEF Typed, Empty
<1>2. \A k \in Inum : k # i => NamesIn(e, k) = NamesIn(d, k)
  <2>1. ASSUME NEW k \in Inum, k # i, NEW y \in Inum, NEW r \in Slot PROVE e[y][r].inum = k <=> d[y][r].inum = k
    BY <1>0, <2>1
  <2> QED
    BY <2>1 DEF NamesIn
<1>3. NamesFit(e)
  <2>1. ASSUME NEW y \in Inum, NEW r \in Slot
        PROVE  /\ e[y][r].inum = NoInum <=> e[y][r] = Empty
               /\ e[y][r].inum # NoInum => e[y][r].name \in Name
    BY <1>0 DEF Sound, NamesFit
  <2>2. ASSUME NEW y \in Inum, NEW r \in Slot, NEW q \in Slot, e[y][r].inum # NoInum, e[y][q].name = e[y][r].name
        PROVE  q = r
    <3>1. CASE y = x /\ r = s
      BY <1>0, <2>2, <3>1
    <3>2. CASE y = x /\ q = s
      BY <1>0, <2>2, <3>2
    <3>3. CASE y # x \/ (r # s /\ q # s)
      BY <1>0, <2>2, <3>3 DEF Sound, NamesFit
    <3> QED
      BY <3>1, <3>2, <3>3
  <2> QED
    BY <2>1, <2>2 DEF NamesFit
<1>4. ASSUME NEW k \in Inum
      PROVE  IF t[k] = "free" THEN NamesIn(e, k) = {} /\ g[k] = 0 ELSE m[k] = LinksAt(t, e, g, k)
  <2>1. CASE t[k] = "free"
    BY <2>1, <1>2 DEF Sound, LinksFit
  <2>2. CASE t[k] # "free"
    <3>1. n[k] = LinksAt(t, d, g, k)
      BY <2>2 DEF Sound, LinksFit
    <3>2. /\ Cardinality(NamesIn(e, k)) = Cardinality(NamesIn(d, k)) - Is(NoInum, k) + Is(i, k)
          /\ Cardinality(SubsIn(e, t, k)) = Cardinality(SubsIn(d, t, k))
                  - (IF k = x THEN IsDir(t, NoInum) ELSE 0) + (IF k = x THEN IsDir(t, i) ELSE 0)
      <4>1. PICK f : f = [name |-> a, inum |-> i]
        OBVIOUS
      <4>2. f \in Entry /\ f.inum = i /\ e[x][s] = f
        BY <4>1 DEF Entry
      <4> QED
        BY <1>0, <4>2, SlotSet
    <3>3. Is(NoInum, k) = 0 /\ IsDir(t, NoInum) = 0
      BY <1>0 DEF Is, IsDir
    <3>4. m[k] = n[k] + Is(i, k) + (IF k = x THEN IsDir(t, i) ELSE 0)
      OBVIOUS
    <3>5. CASE k = x
      BY <2>2, <3>1, <3>2, <3>3, <3>4, <3>5, NatsAt DEF LinksAt
    <3>6. CASE k # x
      BY <2>2, <3>1, <3>2, <3>3, <3>4, <3>6, NatsAt DEF LinksAt
    <3> QED
      BY <3>5, <3>6
  <2> QED
    BY <2>1, <2>2
<1>5. t[i] = "dir" => NamesIn(e, i) = {<<x, s>>}
  <2>1. ASSUME t[i] = "dir", NEW y \in Inum, NEW r \in Slot PROVE e[y][r].inum = i <=> y = x /\ r = s
    <3>1. <<y, r>> \notin NamesIn(d, i)
      BY <2>1
    <3>2. d[y][r].inum # i
      BY <3>1 DEF NamesIn
    <3> QED
      BY <1>0, <3>2
  <2> QED
    BY <2>1 DEF NamesIn
<1>6. ParentsFit(t, e, w)
  <2>1. ASSUME NEW y \in Inum, NEW r \in Slot, NEW k, k = e[y][r].inum, k # NoInum, t[k] = "dir"
        PROVE  k # Root /\ w[k] = y /\ NamesIn(e, k) = {<<y, r>>}
    <3>1. k \in Inum
      BY <1>0, <2>1 DEF Entries
    <3>2. CASE k = i
      <4>1. <<y, r>> \in NamesIn(e, i)
        BY <2>1, <3>2 DEF NamesIn
      <4>2. y = x /\ r = s
        BY <1>5, <2>1, <3>2, <4>1
      <4> QED
        BY <1>5, <2>1, <3>2, <4>2
    <3>3. CASE k # i
      BY <1>0, <2>1, <3>3, <1>2, <3>1 DEF Sound, ParentsFit
    <3> QED
      BY <3>2, <3>3
  <2> QED
    BY <2>1 DEF ParentsFit
<1>7. ASSUME NEW S \in SUBSET DirsIn(t, e), S # {} PROVE \E k \in S : w[k] \notin S
  <2>1. \A k \in S : k \in Inum /\ t[k] = "dir" /\ (k # i => k \in DirsIn(t, d) /\ w[k] = u[k])
    BY <1>2 DEF DirsIn
  <2>2. CASE i \notin S
    <3>1. S \in SUBSET DirsIn(t, d)
      BY <2>1, <2>2
    <3>2. PICK k \in S : u[k] \notin S
      BY <1>7, <3>1 DEF Sound, Acyclic
    <3> QED
      BY <2>1, <2>2, <3>2
  <2>3. CASE i \in S
    <3>1. t[i] = "dir"
      BY <2>1, <2>3
    <3>2. w[i] = x /\ x \in A /\ i \notin A /\ Above(t, d, u, A)
      BY <3>1
    <3>3. CASE x \notin S
      BY <2>3, <3>2, <3>3
    <3>4. CASE x \in S
      <4>1. PICK T : T = S \cap A
        OBVIOUS
      <4>2. T \in SUBSET DirsIn(t, d) /\ T # {}
        BY <2>1, <3>2, <3>4, <4>1
      <4>3. PICK k \in T : u[k] \notin T
        BY <4>2 DEF Sound, Acyclic
      <4>4. u[k] \in A
        BY <3>2, <4>1, <4>2, <4>3 DEF Above, DirsIn
      <4>5. k # i /\ k \in S
        BY <3>2, <4>1, <4>3
      <4> QED
        BY <2>1, <4>1, <4>3, <4>4, <4>5
    <3> QED
      BY <3>3, <3>4
  <2> QED
    BY <2>2, <2>3
<1>8. ASSUME NEW y \in Inum, t[y] # "dir" PROVE e[y] = NoEntries
  <2>1. d[y] = NoEntries /\ y # x
    BY <1>8 DEF Sound
  <2>2. \A r \in Slot : e[y][r] = d[y][r]
    BY <1>0, <2>1
  <2>3. e[y] = d[y]
    BY <1>0, <2>2 DEF Entries
  <2> QED
    BY <2>1, <2>3
<1>9. t[Root] = "dir"
  BY DEF Sound
<1>10. LinksFit(t, m, e, g)
  BY <1>4 DEF LinksFit
<1>11. Acyclic(t, e, w)
  BY <1>7 DEF Acyclic
<1> QED
  BY <1>3, <1>6, <1>8, <1>9, <1>10, <1>11 DEF Sound

\* What has no links is freed with everything it lists.
LEMMA Freed ==
    ASSUME NEW t, NEW n, NEW d, NEW u, NEW g, Typed(t, n, d, u, g), Sound(t, n, d, u, g),
           NEW j \in Inum, t[j] # "free", n[j] = 0,
           NEW v, NEW e \in Entries, NEW w, NEW h, v[j] = "free", e[j] = NoEntries, h[j] = 0,
           \A k \in Inum : k # j => /\ v[k] = t[k] /\ e[k] = d[k] /\ w[k] = u[k]
                                    /\ h[k] = g[k] + Cardinality(SlotsOf(d, j, k))
    PROVE  Sound(v, n, e, w, h)
<1>0. /\ v[j] = "free" /\ e[j] = NoEntries /\ h[j] = 0 /\ d \in Entries /\ e \in Entries
      /\ \A k \in Inum : k # j => v[k] = t[k] /\ e[k] = d[k] /\ w[k] = u[k]
      /\ NoInum \notin Inum /\ \A s \in Slot : NoEntries[s] = Empty
      /\ Empty.inum = NoInum
  BY InodeAssumption DEF Typed, NoEntries, Empty
<1>1. NamesIn(d, j) = {} /\ j # Root
  BY NatsAt, NamesFinite, FS_EmptySet DEF Sound, LinksFit, LinksAt, Is
<1>2. ASSUME NEW x \in Inum, NEW s \in Slot PROVE d[x][s].inum # j
  <2>1. <<x, s>> \notin NamesIn(d, j)
    BY <1>1
  <2> QED
    BY <2>1 DEF NamesIn
<1>3. NamesFit(e)
  <2>1. ASSUME NEW x \in Inum, NEW s \in Slot
        PROVE  /\ e[x][s].inum = NoInum <=> e[x][s] = Empty
               /\ e[x][s].inum # NoInum => e[x][s].name \in Name
               /\ \A r \in Slot : e[x][s].inum # NoInum /\ e[x][r].name = e[x][s].name => r = s
    <3>1. CASE x = j
      BY <1>0, <3>1
    <3>2. CASE x # j
      BY <1>0, <3>2 DEF Sound, NamesFit
    <3> QED
      BY <3>1, <3>2
  <2> QED
    BY <2>1 DEF NamesFit
<1>4. ASSUME NEW x \in Inum, v[x] # "dir" PROVE e[x] = NoEntries
  BY <1>0, <1>4 DEF Sound
<1>5. v[Root] = "dir"
  BY <1>0, <1>1, RootType DEF Sound
<1>6. ASSUME NEW k \in Inum
      PROVE  NamesIn(e, k) \subseteq NamesIn(d, k) /\ \A f \in NamesIn(e, k) : f[1] # j
  BY <1>0 DEF NamesIn
<1>7. ParentsFit(v, e, w)
  <2>1. ASSUME NEW x \in Inum, NEW s \in Slot, NEW i, i = e[x][s].inum, i # NoInum, v[i] = "dir"
        PROVE  i # Root /\ w[i] = x /\ NamesIn(e, i) = {<<x, s>>}
    <3>1. x # j
      BY <1>0, <2>1
    <3>2. i = d[x][s].inum /\ i \in Inum
      BY <1>0, <3>1, <2>1 DEF Entries
    <3>3. i # j /\ t[i] = "dir"
      BY <1>0, <2>1, <3>2
    <3>4. i # Root /\ u[i] = x /\ NamesIn(d, i) = {<<x, s>>}
      BY <2>1, <3>2, <3>3 DEF Sound, ParentsFit
    <3>5. <<x, s>> \in NamesIn(e, i)
      BY <2>1 DEF NamesIn
    <3> QED
      BY <1>0, <1>6, <3>2, <3>3, <3>4, <3>5
  <2> QED
    BY <2>1 DEF ParentsFit
<1>8. DirsIn(v, e) \subseteq DirsIn(t, d) \ {j}
  BY <1>0, <1>6 DEF DirsIn
<1>9. Acyclic(v, e, w)
  <2>1. ASSUME NEW S \in SUBSET DirsIn(v, e), S # {} PROVE \E i \in S : w[i] \notin S
    <3>1. S \in SUBSET DirsIn(t, d)
      BY <1>8
    <3>2. PICK i \in S : u[i] \notin S
      BY <2>1, <3>1 DEF Sound, Acyclic
    <3>3. i \in Inum /\ i # j
      BY <1>8 DEF DirsIn
    <3> QED
      BY <1>0, <3>2, <3>3
  <2> QED
    BY <2>1 DEF Acyclic
<1>10. ASSUME NEW k \in Inum
       PROVE  IF v[k] = "free" THEN NamesIn(e, k) = {} /\ h[k] = 0 ELSE n[k] = LinksAt(v, e, h, k)
  <2>1. CASE k = j
    BY <1>0, <1>1, <1>6, <2>1
  <2>2. CASE k # j
    <3>1. PICK T : T = SlotsOf(d, j, k)
      OBVIOUS
    <3>2. /\ Cardinality(NamesIn(e, k)) + Cardinality(T) = Cardinality(NamesIn(d, k))
          /\ Cardinality(T) \in Nat
      BY <1>0, <3>1, ClearDir
    <3>3. h[k] = g[k] + Cardinality(T)
      BY <2>2, <3>1
    <3>4. CASE t[k] = "free"
      <4>1. NamesIn(d, k) = {} /\ g[k] = 0
        BY <3>4 DEF Sound, LinksFit
      <4>2. NamesIn(e, k) = {}
        BY <1>6, <4>1
      <4>3. Cardinality({}) = 0
        BY FS_EmptySet
      <4>4. Cardinality(T) = 0
        BY <3>2, <4>1, <4>2, <4>3
      <4> QED
        BY <1>0, <2>2, <3>3, <3>4, <4>1, <4>2, <4>4
    <3>5. CASE t[k] # "free"
      <4>1. SubsIn(e, v, k) = SubsIn(d, t, k)
        <5>1. ASSUME NEW s \in Slot, d[k][s].inum # NoInum PROVE v[d[k][s].inum] = t[d[k][s].inum]
          BY <1>0, <1>2, <5>1 DEF Entries
        <5> QED
          BY <1>0, <2>2, <5>1 DEF SubsIn
      <4>2. n[k] = Cardinality(NamesIn(d, k)) + Cardinality(SubsIn(d, t, k)) + g[k] + Is(Root, k)
        BY <3>5 DEF Sound, LinksFit, LinksAt
      <4>3. LinksAt(v, e, h, k) = Cardinality(NamesIn(e, k)) + Cardinality(SubsIn(d, t, k)) + h[k] + Is(Root, k)
        BY <4>1 DEF LinksAt
      <4>4. Cardinality(NamesIn(e, k)) \in Nat
        BY NamesFinite
      <4>5. n[k] = LinksAt(v, e, h, k)
        BY <3>2, <3>3, <4>2, <4>3, <4>4, NatsAt
      <4> QED
        BY <1>0, <2>2, <3>5, <4>5
    <3> QED
      BY <3>4, <3>5
  <2> QED
    BY <2>1, <2>2
<1>11. LinksFit(v, n, e, h)
  BY <1>10 DEF LinksFit
<1> QED
  BY <1>3, <1>4, <1>5, <1>7, <1>9, <1>11 DEF Sound

-----------------------------------------------------------------------------
(* From the invariant of the other calls to that of rename(), and back *)

LEMMA DiskTypes ==
    ASSUME IInv
    PROVE  Typed(type, nlink, dir, dotdot, gone) /\ dir \in Entries
  BY DEF IInv, TypeOK, Typed, Entries

LEMMA FitsDisk ==
    ASSUME IInv, \A i \in Inum : Pending(i) = {}
    PROVE  Fits <=> DiskInv
<1>1. \A i : NamesOf(i) = NamesIn(dir, i) /\ SubDirs(i) = SubsIn(dir, type, i)
  BY DEF NamesOf, NamesIn, SubDirs, SubsIn
<1>2. NamedDirs = DirsIn(type, dir)
  BY <1>1 DEF NamedDirs, DirsIn
<1>3. NamesFit(dir) <=> NamesInv
  BY DEF NamesFit, NamesInv
<1>4. Acyclic(type, dir, dotdot) <=> NoCircle
  BY <1>2 DEF Acyclic, NoCircle
<1>5. ParentsFit(type, dir, dotdot) <=> OneParent
  BY <1>1 DEF ParentsFit, OneParent
<1>6. LinksFit(type, nlink, dir, gone) <=> LinkInv
  <2>1. ASSUME NEW i \in Inum PROVE LinksTo(i) = LinksAt(type, dir, gone, i)
    BY FS_EmptySet, <1>1, DiskTypes, NatsAt DEF LinksTo, LinksAt
  <2> QED
    BY <1>1, <2>1 DEF LinksFit, LinkInv
<1> QED
  BY <1>3, <1>4, <1>5, <1>6 DEF Fits, Sound, DiskInv, FilesEmpty

LEMMA EarlyFits ==
    ASSUME NEW place, Early(place), NEW l
    PROVE  Meant(place, l) <=> Fits
<1>1. /\ DirsMeant(dir, place, l) = dir /\ LinksMeant(type, nlink, place, l) = nlink
      /\ UpMeant(type, dotdot, place, l) = dotdot
  BY DEF Early, DirsMeant, LinksMeant, UpMeant
<1> QED
  BY <1>1 DEF Meant, Fits

LEMMA RStep ==
    ASSUME IInv, NEW p \in Proc, RInv(p), NEW place, NEW l, NEW what, Goto(p, place, l, what),
           RMove(p, place, l, what)
    PROVE  RInv(p)'
<1>1. /\ pc'[p] = place /\ loc'[p] = l /\ todo'[p] = what
      /\ \A q \in Proc \ {p} : pc'[q] = pc[q] /\ loc'[q] = loc[q] /\ todo'[q] = todo[q]
  BY DEF Goto, IInv, TypeOK
<1>2. \A q \in Proc \ {p} : Quiet(q)'
  BY <1>1 DEF RInv, Quiet
<1>3. Meant(place, l)' => Meant(pc[p], loc[p])'
  BY <1>1 DEF Meant
<1> QED
  BY <1>1, <1>2, <1>3 DEF RInv, RMove

\* A rename() that is done leaves what is there as it is meant.
LEMMA RReturn ==
    ASSUME IInv, IInv', NEW p \in Proc, RInv(p), NEW what, Return(p, what), Fits',
           \A place : TodoOK(place, NoCall, what),
           \A i \in Inum : lock'[i] = IF Unlocks(i, what) THEN p ELSE NoProc
    PROVE  JInv'
<1>1. PICK place \in {"user", "return"} : Goto(p, place, NoCall, what)
  BY DEF Return
<1>2. /\ pc'[p] = place /\ loc'[p] = NoCall /\ todo'[p] = what
      /\ \A q \in Proc \ {p} : pc'[q] = pc[q] /\ loc'[q] = loc[q] /\ todo'[q] = todo[q]
  BY <1>1 DEF Goto, IInv, TypeOK
<1>3. ASSUME NEW q \in Proc
      PROVE  /\ pc'[q] \in {"user", "return"} /\ loc'[q] = NoCall
             /\ q # p => NoUnlock(todo'[q])
    BY <1>2 DEF RInv, Quiet
<1>4. NoCall.call = "none" /\ NoCall.ip = NoInum /\ NoInum \notin Inum
  BY InodeAssumption DEF NoCall
<1>5. (\A i \in Inum : Pending(i) = {})'
  BY <1>3, <1>4 DEF Pending
<1>6. DiskInv'
  BY <1>5, FitsDisk, PTL
<1>7. CallInv'
  BY <1>3 DEF CallInv, CallOK, Going
<1>8. EntryInv'
  BY <1>3 DEF EntryInv, EntryOK, Walks
<1>9. ASSUME NEW q \in Proc PROVE LockedAt(pc'[q], loc'[q]) = NoInum
  BY <1>3 DEF LockedAt
<1>10. TodoInv'
  <2>1. ASSUME NEW q \in Proc PROVE TodoOK(pc'[q], loc'[q], todo'[q])
    <3>1. CASE q = p
      BY <1>2, <3>1
    <3>2. CASE q # p
      BY <1>3, <1>9, <3>2 DEF TodoOK, NoUnlock
    <3> QED
      BY <3>1, <3>2
  <2> QED
    BY <2>1 DEF TodoInv
<1>11. LockInv'
  <2>1. ASSUME NEW q \in Proc, NEW i \in Inum PROVE lock'[i] = q <=> HasLock(pc'[q], loc'[q], todo'[q], i)
    <3>1. HasLock(pc'[q], loc'[q], todo'[q], i) <=> Unlocks(i, todo'[q])
      BY <1>4, <1>9 DEF HasLock
    <3>2. CASE q = p
      BY <1>2, <3>1, <3>2, InodeAssumption
    <3>3. CASE q # p
      BY <1>3, <3>3, <3>1, InodeAssumption DEF Unlocks, NoUnlock, Unlock
    <3> QED
      BY <3>2, <3>3
  <2> QED
    BY <2>1 DEF LockInv
<1> QED
  BY <1>6, <1>7, <1>8, <1>10, <1>11 DEF JInv, DiskInv

-----------------------------------------------------------------------------
(* Steps of rename() that only read *)

LEMMA SameMeant ==
    ASSUME UNCHANGED <<type, nlink, dir, dotdot, gone>>, NEW place, NEW l
    PROVE  Meant(place, l)' <=> Meant(place, l)
  BY DEF Meant

\* What a rename() returns with.
LEMMA RenShapes ==
    ASSUME NEW x, NEW y, NEW z, NEW w
    PROVE  /\ NoUnlock(<<>>) /\ NoUnlock(<<Put(x)>>) /\ NoUnlock(<<Put(x), Put(y)>>)
           /\ NoUnlock(<<Put(x), Put(y), Put(z)>>) /\ NoUnlock(<<Put(x), Put(y), Put(z), Put(w)>>)
           /\ \A i : Unlocks(i, <<Put(x), Unlock(y), Put(y), Put(z), Put(w)>>) <=> i = y
           /\ \A place : TodoOK(place, NoCall, <<Put(x), Unlock(y), Put(y), Put(z), Put(w)>>)
           /\ \A s : NoUnlock(s) => (\A place : TodoOK(place, NoCall, s)) /\ \A i : ~Unlocks(i, s)
           /\ \A place, l : RenLocks(place, l, <<>>)
<1>1. /\ DOMAIN <<>> = {} /\ DOMAIN <<Put(x)>> = {1} /\ DOMAIN <<Put(x), Put(y)>> = {1, 2}
      /\ DOMAIN <<Put(x), Put(y), Put(z)>> = {1, 2, 3} /\ DOMAIN <<Put(x), Put(y), Put(z), Put(w)>> = {1, 2, 3, 4}
      /\ DOMAIN <<Put(x), Unlock(y), Put(y), Put(z), Put(w)>> = {1, 2, 3, 4, 5}
  OBVIOUS
<1>2. \A a : Put(a).op = "put" /\ Unlock(a).op = "unlock" /\ Unlock(a).ino = a
  BY DEF Put, Unlock
<1>3. /\ NoUnlock(<<>>) /\ NoUnlock(<<Put(x)>>) /\ NoUnlock(<<Put(x), Put(y)>>)
      /\ NoUnlock(<<Put(x), Put(y), Put(z)>>) /\ NoUnlock(<<Put(x), Put(y), Put(z), Put(w)>>)
  BY <1>1, <1>2 DEF NoUnlock
<1>4. \A i : Unlocks(i, <<Put(x), Unlock(y), Put(y), Put(z), Put(w)>>) <=> i = y
  BY <1>2, <1>1 DEF Unlocks
<1>5. \A place : LockedAt(place, NoCall) = NoInum
  BY DEF LockedAt, NoCall
<1>6. \A place : TodoOK(place, NoCall, <<Put(x), Unlock(y), Put(y), Put(z), Put(w)>>)
  BY <1>1, <1>2, <1>5 DEF TodoOK
<1>7. ASSUME NEW s, NoUnlock(s) PROVE (\A place : TodoOK(place, NoCall, s)) /\ \A i : ~Unlocks(i, s)
  BY <1>2, <1>7 DEF TodoOK, NoUnlock, Unlocks
<1>8. \A place, l : RenLocks(place, l, <<>>)
  BY <1>1, <1>3 DEF RenLocks
<1> QED
  BY <1>3, <1>4, <1>6, <1>7, <1>8

\* What a rename() is known to be at.
LEMMA RTypes ==
    ASSUME IInv, NEW p \in Proc, RInv(p)
    PROVE  /\ pc[p] \in RenPlaces \/ Walks(pc[p], loc[p], {"ren1", "ren2"})
           /\ loc[p].call = "rename_alone" /\ pc[p] \notin {"user", "return"}
           /\ RenOK(type, dir, dotdot, pc[p], loc[p]) /\ UpOK(type, dir, dotdot, pc[p], loc[p])
           /\ Meant(pc[p], loc[p]) /\ RenLocks(pc[p], loc[p], todo[p])
           /\ \A i \in Inum : lock[i] = IF i = RenLock(pc[p], loc[p]) THEN p ELSE NoProc
           /\ Early(pc[p]) => Fits
           /\ type \in [Inum -> {"free", "file", "dir"}] /\ loc[p] \in Local /\ dir \in Entries
           /\ Typed(type, nlink, dir, dotdot, gone) /\ NoInum \notin Inum
<1>1. RenOK(type, dir, dotdot, pc[p], loc[p])
  BY DEF RInv
<1>2. pc[p] \in RenPlaces \/ Walks(pc[p], loc[p], {"ren1", "ren2"})
  BY <1>1 DEF RenOK
<1>3. pc[p] \notin {"user", "return"}
  BY <1>2 DEF RenPlaces, Walks
<1>4. Early(pc[p]) => Fits
  BY EarlyFits DEF RInv
<1> QED
  BY <1>1, <1>2, <1>3, <1>4, Types, DiskTypes DEF RInv, RenOK, TypeOK

\* A step that reads and goes on.
LEMMA RPlain ==
    ASSUME IInv, NEW p \in Proc, RInv(p), NEW place, NEW l, NEW what, Goto(p, place, l, what),
           UNCHANGED <<disk, lock>>, Early(pc[p]), Early(place),
           RenLock(pc[p], loc[p]) = NoInum, RenLock(place, l) = NoInum, NoUnlock(what),
           RenOK(type, dir, dotdot, place, l), UpOK(type, dir, dotdot, place, l)
    PROVE  RInv(p)'
<1>1. UNCHANGED <<type, nlink, dir, dotdot, gone>>
  BY DEF disk
<1>2. Meant(place, l)'
  BY <1>1, RTypes, EarlyFits, SameMeant
<1>3. RenLocks(place, l, what)
  BY DEF RenLocks
<1>4. \A i \in Inum : lock'[i] = IF i = RenLock(place, l) THEN p ELSE NoProc
  BY RTypes
<1> QED
  BY <1>1, <1>2, <1>3, <1>4, RStep DEF RMove

\* A step that reads and returns.
LEMMA RPlainReturn ==
    ASSUME IInv, IInv', NEW p \in Proc, RInv(p), NEW what, Return(p, what),
           UNCHANGED <<disk, lock>>, Early(pc[p]),
           RenLock(pc[p], loc[p]) = NoInum, NoUnlock(what)
    PROVE  JInv'
<1>1. UNCHANGED <<type, nlink, dir, dotdot, gone>>
  BY DEF disk
<1>2. Fits'
  BY RTypes, <1>1 DEF Fits
<1>3. (\A place : TodoOK(place, NoCall, what)) /\ \A i : ~Unlocks(i, what)
  BY RenShapes
<1>4. \A i \in Inum : lock'[i] = IF Unlocks(i, what) THEN p ELSE NoProc
  BY <1>3, RTypes
<1> QED
  BY <1>2, <1>3, <1>4, RReturn

\* A rename() begins.
LEMMA RenameBegins ==
    ASSUME RenamesAlone, IInv, JInv, NEW p \in Proc, Begins(p)
    PROVE  RInv(p)'
<1>1. PICK c \in Calls[p] :
        /\ MayBegin(c)
        /\ Goto(p, "walk", [NoCall EXCEPT !.call = c.call, !.then = First(c.call),
                                         !.at = Start(p, c.path), !.path = c.path.elems,
                                         !.path2 = c.path2], <<>>)
        /\ UNCHANGED <<disk, lock>>
  BY DEF Begins, Call
<1>2. PICK l : l = [NoCall EXCEPT !.call = c.call, !.then = First(c.call), !.at = Start(p, c.path),
                                  !.path = c.path.elems, !.path2 = c.path2]
  OBVIOUS
<1>3. l.call = c.call /\ l.then = First(c.call) /\ l.xip = NoInum
  BY <1>2 DEF NoCall
<1>4. /\ pc'[p] = "walk" /\ loc'[p] = l /\ todo'[p] = <<>>
      /\ \A q \in Proc \ {p} : pc'[q] = pc[q] /\ loc'[q] = loc[q] /\ todo'[q] = todo[q]
  BY <1>1, <1>2, Types DEF Goto, TypeOK
<1>5. c.call = "rename_alone" /\ l.then = "ren1"
  BY <1>3, <1>4 DEF Begins, RenamesAlone, First
<1>6. ASSUME NEW q \in Proc PROVE pc[q] = "user" /\ loc[q] = NoCall /\ todo[q] = <<>>
  BY <1>1, <1>5, Types, JTypes DEF MayBegin, Running, PlaceOK, CallOK, Going
<1>7. \A q \in Proc \ {p} : Quiet(q)'
  BY <1>4, <1>6, RenShapes DEF Quiet
<1>8. ASSUME NEW i \in Inum PROVE lock[i] = NoProc
  <2>1. ASSUME NEW q \in Proc, lock[i] = q PROVE FALSE
    <3>1. HasLock(pc[q], loc[q], todo[q], i)
      BY <2>1 DEF JInv, LockInv
    <3> QED
      BY <1>6, <3>1, UnlocksIn, JTypes DEF HasLock, LockedAt
  <2> QED
    BY <2>1 DEF IInv, TypeOK
<1>9. Fits
  <2>1. ASSUME NEW i \in Inum PROVE Pending(i) = {}
    BY <1>6, JTypes DEF Pending, NoCall
  <2> QED
    BY <2>1, FitsDisk DEF JInv, DiskInv
<1>10. Meant("walk", l)'
  BY <1>1, <1>9, EarlyFits, SameMeant DEF Early, disk
<1>11. RenOK(type', dir', dotdot', "walk", l) /\ UpOK(type', dir', dotdot', "walk", l)
  BY <1>3, <1>5 DEF RenOK, UpOK, Found, RenPlaces, Walks
<1>12. RenLock("walk", l) = NoInum /\ RenLocks("walk", l, <<>>)
  BY RenShapes DEF RenLock
<1>13. \A i \in Inum : lock'[i] = IF i = RenLock("walk", l) THEN p ELSE NoProc
  BY <1>1, <1>8, <1>12, JTypes
<1>14. Meant("walk", l)' => Meant(pc[p], loc[p])'
  BY <1>4 DEF Meant
<1> QED
  BY <1>4, <1>7, <1>10, <1>11, <1>12, <1>13, <1>14 DEF RInv

-----------------------------------------------------------------------------
(* What goes on besides the rename() itself: iput()s, and others' close() *)

\* Nobody has what is freed in a local variable.
LEMMA FreedUnused ==
    ASSUME IInv, NEW r \in Proc, PutCheck(r), NEW j \in Inum, type[j] # "free", type'[j] = "free", NEW q \in Proc
    PROVE  Times(j, Locals(pc[q], loc[q])) = 0
<1>1. PICK s \in Proc : /\ Owed(j, todo[s]) = 1 /\ RefsOf(s, j) = 1
                        /\ \A t \in Proc \ {s} : RefsOf(t, j) = 0
  BY FreesAloneStep DEF Next
<1>2. /\ Is(fd[q], j) \in Nat /\ Is(cwd[q], j) \in Nat
      /\ RefsOf(q, j) = Is(fd[q], j) + (IF pc[q] = "chdir2" THEN 0 ELSE Is(cwd[q], j))
                        + Times(j, Locals(pc[q], loc[q])) + Owed(j, todo[q])
      /\ Times(j, Locals(pc[q], loc[q])) \in Nat /\ Owed(j, todo[q]) \in Nat
  BY Pieces, Types, RefsOfAt DEF Now
<1>3. RefsOf(q, j) <= Owed(j, todo[q])
  <2>1. CASE q = s
    BY <1>1, <2>1
  <2>2. CASE q # s
    BY <1>1, <2>2, <1>2
  <2> QED
    BY <2>1, <2>2
<1> QED
  BY <1>2, <1>3

\* A rename() is not touched by what is freed.
LEMMA RenUnused ==
    ASSUME NEW l, NEW place, NEW j, Times(j, Locals(place, l)) = 0,
           place \in RenPlaces \/ Walks(place, l, {"ren1", "ren2"})
    PROVE  /\ Found(place, l) => l.ip # j
           /\ Found(place, l) /\ place \notin {"ren7", "ren8"} => l.olddp # j
           /\ place \in {"ren4", "ren5"} => l.dp # j
<1>0. Is(j, j) = 1 /\ \A x : Is(x, j) \in Nat
  BY IsNat DEF Is
<1>1. place \in {"ren4", "ren5"} => l.dp # j
  BY NotAmong
<1>2. Found(place, l) /\ place \notin {"ren7", "ren8"} => l.olddp # j
  BY NotAmong DEF Found, OldPlaces, RenPlaces, Walks
<1>3. place = "ren2" => l.ip # j
  <2>1. Times(j, Locals("ren2", l)) = Is(l.olddp, j) + Is(l.at, j) + Is(l.ip, j)
    BY LocalTimes
  <2> QED
    BY <1>0, <2>1
<1>4. place = "cycle" => l.ip # j
  BY LocalTimes, <1>0
<1>5. place = "ren3" => l.ip # j
  <2>1. Times(j, Locals("ren3", l)) = Is(l.olddp, j) + Is(l.dp, j) + Is(l.ip, j)
    BY LocalTimes
  <2> QED
    BY <1>0, <2>1
<1>6. place = "ren4" => l.ip # j
  BY LocalTimes, <1>0
<1>7. place = "ren5" => l.ip # j
  <2>1. Times(j, Locals("ren5", l)) = Is(l.olddp, j) + Is(l.dp, j) + Is(l.ip, j)
    BY LocalTimes
  <2> QED
    BY <1>0, <2>1
<1>8. place = "ren6" => l.ip # j
  BY LocalTimes, <1>0
<1>9. place \in {"ren7", "ren8"} => l.ip # j
  BY NotAmong
<1>10. Walks(place, l, {"ren2"}) => l.ip # j
  <2>1. l.then = "ren2" => Times(j, Locals("walk", l)) = Is(l.at, j) + Is(l.olddp, j) + Is(l.ip, j)
    BY LocalTimes
  <2>2. place = "walk" /\ l.then = "ren2" => l.ip # j
    BY <1>0, <2>1
  <2> QED
    BY <2>2 DEF Walks
<1> QED
  BY <1>1, <1>2, <1>3, <1>4, <1>5, <1>6, <1>7, <1>8, <1>9, <1>10 DEF Found, RenPlaces

\* A step in which the rename() stays where it is.
LEMMA RStays ==
    ASSUME NEW p \in Proc, RInv(p), pc'[p] = pc[p], loc'[p] = loc[p], UNCHANGED lock,
           \A q \in Proc \ {p} : Quiet(q)', RenLocks(pc[p], loc[p], todo'[p]),
           RenOK(type', dir', dotdot', pc[p], loc[p]), UpOK(type', dir', dotdot', pc[p], loc[p]),
           Sound(type', LinksMeant(type', nlink', pc[p], loc[p]), DirsMeant(dir', pc[p], loc[p]),
                 UpMeant(type', dotdot', pc[p], loc[p]), gone')
    PROVE  RInv(p)'
<1>1. Meant(pc[p], loc[p])'
  BY DEF Meant
<1> QED
  BY <1>1 DEF RInv

\* The disk as meant has the types of the disk.
LEMMA MeantTyped ==
    ASSUME NEW t, NEW n, NEW d, NEW u, NEW g, Typed(t, n, d, u, g), NEW place, NEW l, l.dp \in Pointer,
           place = "ren5" => l.dp \in Inum, place = "ren6" => l.olddp \in Inum
    PROVE  Typed(t, LinksMeant(t, n, place, l), DirsMeant(d, place, l), UpMeant(t, u, place, l), g)
<1>2. LinksMeant(t, n, place, l) \in [Inum -> Int]
  BY DEF Typed, LinksMeant
<1>3. UpMeant(t, u, place, l) \in [Inum -> Inum \cup {NoInum}]
  BY DEF UpMeant, Typed, Pointer
<1>4. DirsMeant(d, place, l) \in Entries
  <2>1. PICK R : R = [Slot -> [name : Name \cup {"."}, inum : Inum \cup {NoInum}]]
    OBVIOUS
  <2>2. d \in [Inum -> R] /\ Entries = [Inum -> R]
    BY <2>1 DEF Typed, Entries
  <2>3. ASSUME NEW x \in Inum, NEW f, \A s \in Slot : f[s] \in {Empty, d[x][s]}, f = [s \in Slot |-> f[s]]
        PROVE  [d EXCEPT ![x] = f] \in Entries
    <3>1. Empty \in [name : Name \cup {"."}, inum : Inum \cup {NoInum}]
      BY DEF Empty
    <3>2. \A s \in Slot : d[x][s] \in [name : Name \cup {"."}, inum : Inum \cup {NoInum}]
      BY <2>1, <2>2
    <3>3. f \in R
      BY <2>1, <2>3, <3>1, <3>2
    <3> QED
      BY <2>2, <3>3
  <2>4. CASE place = "ren5" /\ l.xip # NoInum
    <3>1. PICK f : f = [s \in Slot |-> IF d[l.dp][s].name = l.name THEN Empty ELSE d[l.dp][s]]
      OBVIOUS
    <3>2. l.dp \in Inum
      BY <2>4
    <3>3. [d EXCEPT ![l.dp] = f] \in Entries
      BY <2>3, <3>1, <3>2
    <3> QED
      BY <2>4, <3>1, <3>3 DEF DirsMeant
  <2>5. CASE place = "ren6"
    <3>1. PICK f : f = [s \in Slot |-> IF s = l.slot THEN Empty ELSE d[l.olddp][s]]
      OBVIOUS
    <3>2. l.olddp \in Inum
      BY <2>5
    <3>3. [d EXCEPT ![l.olddp] = f] \in Entries
      BY <2>3, <3>1, <3>2
    <3> QED
      BY <2>5, <3>1, <3>3 DEF DirsMeant
  <2>6. CASE ~(place = "ren5" /\ l.xip # NoInum) /\ place # "ren6"
    BY <2>6 DEF DirsMeant, Typed
  <2> QED
    BY <2>4, <2>5, <2>6
<1> QED
  BY <1>2, <1>3, <1>4 DEF Typed

\* The disk as meant, at one inode.
LEMMA DirsAt ==
    ASSUME NEW d \in Entries, NEW place, NEW l, NEW e, e = DirsMeant(d, place, l), NEW y \in Inum
    PROVE  /\ ~(place = "ren5" /\ l.xip # NoInum /\ y = l.dp) /\ ~(place = "ren6" /\ y = l.olddp) => e[y] = d[y]
           /\ \A s \in Slot :
                 /\ place = "ren5" /\ l.xip # NoInum /\ y = l.dp =>
                        e[y][s] = IF d[y][s].name = l.name THEN Empty ELSE d[y][s]
                 /\ place = "ren6" /\ y = l.olddp => e[y][s] = IF s = l.slot THEN Empty ELSE d[y][s]
<1>3. DOMAIN d = Inum
  BY DEF Entries
<1>4. CASE place = "ren5" /\ l.xip # NoInum
  <2>1. PICK f : f = [s \in Slot |-> IF d[l.dp][s].name = l.name THEN Empty ELSE d[l.dp][s]]
    OBVIOUS
  <2>2. e = [d EXCEPT ![l.dp] = f]
    BY <1>4, <2>1 DEF DirsMeant
  <2>3. \A s \in Slot : f[s] = IF d[l.dp][s].name = l.name THEN Empty ELSE d[l.dp][s]
    BY <2>1
  <2> QED
    BY <1>3, <1>4, <2>2, <2>3
<1>5. CASE place = "ren6"
  <2>1. PICK f : f = [s \in Slot |-> IF s = l.slot THEN Empty ELSE d[l.olddp][s]]
    OBVIOUS
  <2>2. e = [d EXCEPT ![l.olddp] = f]
    BY <1>5, <2>1 DEF DirsMeant
  <2>3. \A s \in Slot : f[s] = IF s = l.slot THEN Empty ELSE d[l.olddp][s]
    BY <2>1
  <2> QED
    BY <1>3, <1>5, <2>2, <2>3
<1>6. CASE ~(place = "ren5" /\ l.xip # NoInum) /\ place # "ren6"
  BY <1>6 DEF DirsMeant
<1> QED
  BY <1>4, <1>5, <1>6

\* The disk as meant stays sound when an inode without links is freed.
LEMMA FreedAsMeant ==
    ASSUME NEW t, NEW n, NEW c, NEW a, NEW g, NEW place, NEW l, Typed(t, n, c, a, g), l.dp \in Pointer,
           place = "ren5" => l.dp \in Inum, place = "ren6" => l.olddp \in Inum,
           NEW j \in Inum, t[j] # "free", n[j] = 0,
           NEW v, NEW x, NEW b, NEW h, Typed(v, n, x, b, h), v[j] = "free", x[j] = NoEntries, h[j] = 0,
           \A k \in Inum : k # j => /\ v[k] = t[k] /\ x[k] = c[k] /\ b[k] = a[k]
                                    /\ h[k] = g[k] + Cardinality(SlotsOf(c, j, k)),
           place = "ren5" /\ l.xip # NoInum => l.dp # j, place = "ren6" => l.olddp # j,
           place \in {"ren6", "ren7", "ren8"} => (Moving(v, l) <=> Moving(t, l)),
           Sound(t, LinksMeant(t, n, place, l), DirsMeant(c, place, l), UpMeant(t, a, place, l), g)
    PROVE  Sound(v, LinksMeant(v, n, place, l), DirsMeant(x, place, l), UpMeant(v, b, place, l), h)
<1>1. PICK m, d, e, u, w :
          /\ m = LinksMeant(t, n, place, l) /\ d = DirsMeant(c, place, l) /\ e = DirsMeant(x, place, l)
          /\ u = UpMeant(t, a, place, l) /\ w = UpMeant(v, b, place, l)
  OBVIOUS
<1>2. m = LinksMeant(v, n, place, l)
  BY <1>1 DEF LinksMeant
<1>3. /\ n \in [Inum -> Int] /\ a \in [Inum -> Inum \cup {NoInum}] /\ b \in [Inum -> Inum \cup {NoInum}]
      /\ c \in Entries /\ x \in Entries
  BY DEF Typed
<1>4. Typed(t, m, d, u, g) /\ Sound(t, m, d, u, g)
  BY <1>1, MeantTyped
<1>5. e \in Entries
  BY MeantTyped, <1>1 DEF Typed
<1>6. m[j] = 0
  BY <1>1, <1>3 DEF LinksMeant
<1>7. e[j] = NoEntries /\ d[j] = c[j]
  <2>1. ~(place = "ren5" /\ l.xip # NoInum /\ j = l.dp) /\ ~(place = "ren6" /\ j = l.olddp)
    OBVIOUS
  <2>2. d[j] = c[j]
    BY <1>1, <1>3, <2>1, DirsAt
  <2>3. e[j] = x[j]
    BY <1>1, <1>3, <2>1, DirsAt
  <2> QED
    BY <2>2, <2>3
<1>8. ASSUME NEW k \in Inum, k # j
      PROVE  v[k] = t[k] /\ e[k] = d[k] /\ w[k] = u[k] /\ h[k] = g[k] + Cardinality(SlotsOf(d, j, k))
  <2>1. w[k] = u[k]
    BY <1>1, <1>3, <1>8 DEF UpMeant
  <2>2. \A s \in Slot : e[k][s] = d[k][s]
    <3>1. x[k] = c[k]
      BY <1>8
    <3>3. /\ ~(place = "ren5" /\ l.xip # NoInum /\ k = l.dp) /\ ~(place = "ren6" /\ k = l.olddp) => d[k] = c[k]
          /\ \A s \in Slot :
                 /\ place = "ren5" /\ l.xip # NoInum /\ k = l.dp =>
                        d[k][s] = IF c[k][s].name = l.name THEN Empty ELSE c[k][s]
                 /\ place = "ren6" /\ k = l.olddp => d[k][s] = IF s = l.slot THEN Empty ELSE c[k][s]
      BY <1>1, <1>3, DirsAt
    <3>4. /\ ~(place = "ren5" /\ l.xip # NoInum /\ k = l.dp) /\ ~(place = "ren6" /\ k = l.olddp) => e[k] = x[k]
          /\ \A s \in Slot :
                 /\ place = "ren5" /\ l.xip # NoInum /\ k = l.dp =>
                        e[k][s] = IF x[k][s].name = l.name THEN Empty ELSE x[k][s]
                 /\ place = "ren6" /\ k = l.olddp => e[k][s] = IF s = l.slot THEN Empty ELSE x[k][s]
      BY <1>1, <1>3, DirsAt
    <3>6. CASE place = "ren5" /\ l.xip # NoInum /\ k = l.dp
      BY <3>1, <3>3, <3>4, <3>6
    <3>7. CASE place = "ren6" /\ k = l.olddp
      BY <3>1, <3>3, <3>4, <3>7
    <3>8. CASE ~(place = "ren5" /\ l.xip # NoInum /\ k = l.dp) /\ ~(place = "ren6" /\ k = l.olddp)
      BY <3>1, <3>3, <3>4, <3>8
    <3> QED
      BY <3>6, <3>7, <3>8
  <2>3. e[k] = d[k]
    BY <1>4, <1>5, <2>2 DEF Typed, Entries
  <2>4. SlotsOf(d, j, k) = SlotsOf(c, j, k)
    BY <1>7 DEF SlotsOf
  <2> QED
    BY <1>8, <2>1, <2>3, <2>4
<1>9. Sound(v, m, e, w, h)
  BY <1>4, <1>5, <1>6, <1>7, <1>8, Freed
<1> QED
  BY <1>1, <1>2, <1>9

\* An inode is freed in the middle of a rename().
LEMMA RenameFrees ==
    ASSUME IInv, IInv', NEW p \in Proc, RInv(p), NEW r \in Proc, PutCheck(r), NEW place, NEW l,
           place = pc[p], l = loc[p], NEW j \in Inum, type[j] # "free", nlink[j] = 0, UNCHANGED nlink,
           type' = [type EXCEPT ![j] = "free"], dir' = [dir EXCEPT ![j] = NoEntries],
           dotdot' = [dotdot EXCEPT ![j] = NoInum],
           \A k \in Inum : gone'[k] = IF k = j THEN 0 ELSE gone[k] + Cardinality(SlotsOf(dir, j, k))
    PROVE  /\ RenOK(type', dir', dotdot', place, l) /\ UpOK(type', dir', dotdot', place, l)
           /\ Sound(type', LinksMeant(type', nlink', place, l), DirsMeant(dir', place, l),
                    UpMeant(type', dotdot', place, l), gone')
<1>0. /\ type \in [Inum -> {"free", "file", "dir"}] /\ nlink \in [Inum -> Int] /\ dir \in Entries
      /\ dotdot \in [Inum -> Inum \cup {NoInum}] /\ dir' \in Entries /\ dotdot' \in [Inum -> Inum \cup {NoInum}]
      /\ NoInum \notin Inum /\ l \in Local /\ PlaceOK(place, l, fd[p], todo[p])
  BY Types DEF IInv, TypeOK, Entries
<1>1. /\ type'[j] = "free" /\ dir'[j] = NoEntries
      /\ \A k \in Inum : k # j => type'[k] = type[k] /\ dir'[k] = dir[k] /\ dotdot'[k] = dotdot[k]
  BY <1>0 DEF Entries
<1>2. /\ RenOK(type, dir, dotdot, place, l) /\ UpOK(type, dir, dotdot, place, l) /\ Meant(place, l)
      /\ place \in RenPlaces \/ Walks(place, l, {"ren1", "ren2"})
  BY RTypes
<1>3. /\ Found(place, l) => l.ip # j
      /\ Found(place, l) /\ place \notin {"ren7", "ren8"} => l.olddp # j
      /\ place \in {"ren4", "ren5"} => l.dp # j
  BY <1>1, FreedUnused, <1>2, RenUnused
<1>4. /\ place \in IpPlaces \/ Walks(place, l, {"ren2"}) => l.ip \in Inum
      /\ place \in DpPlaces => l.dp \in Inum
      /\ place \in OldPlaces \/ Walks(place, l, {"ren2"}) => l.olddp \in Inum
  BY <1>0 DEF PlaceOK, Walks
<1>5. /\ Found(place, l) => type'[l.ip] = type[l.ip] /\ dotdot'[l.ip] = dotdot[l.ip] /\ l.ip \in Inum
      /\ Found(place, l) /\ place \notin {"ren7", "ren8"} => dir'[l.olddp] = dir[l.olddp]
      /\ place \in {"ren4", "ren5"} => dir'[l.dp] = dir[l.dp]
  BY <1>1, <1>3, <1>4 DEF Found, RenPlaces, IpPlaces, OldPlaces, DpPlaces, Walks
<1>6. place \in {"cycle", "ren3", "ren4", "ren5", "ren6", "ren7", "ren8"} => Found(place, l)
  BY DEF Found, RenPlaces
<1>7. RenOK(type', dir', dotdot', place, l)
  BY <1>2, <1>5, <1>6 DEF RenOK, Replaces, Moving
<1>8. ASSUME NEW i \in Inum, type'[i] = "dir" /\ NamesIn(dir', i) # {}
      PROVE  type[i] = "dir" /\ NamesIn(dir, i) # {} /\ dotdot'[i] = dotdot[i]
  <2>1. PICK e \in Inum \X Slot : dir'[e[1]][e[2]].inum = i
    BY <1>8 DEF NamesIn
  <2>2. e[1] # j
    BY <1>0, <1>1, <2>1 DEF NoEntries, Empty
  <2>3. dir[e[1]][e[2]].inum = i
    BY <1>1, <2>1, <2>2
  <2> QED
    BY <1>1, <1>8, <2>3 DEF NamesIn
<1>9. UpOK(type', dir', dotdot', place, l)
  <2>1. ASSUME place = "cycle" PROVE type'[l.ip] = "dir" /\ \E A \in SUBSET Inum : Seen(type', dir', dotdot', l, A)
    <3>1. PICK A \in SUBSET Inum : Seen(type, dir, dotdot, l, A)
      BY <1>2, <2>1 DEF UpOK
    <3>2. Seen(type', dir', dotdot', l, A)
      BY <1>8, <3>1 DEF Seen
    <3> QED
      BY <1>2, <1>5, <1>6, <2>1, <3>2 DEF UpOK
  <2>2. ASSUME place \in {"ren3", "ren4", "ren5"}, type'[l.ip] = "dir"
        PROVE  \E A \in SUBSET Inum : l.dp \in A /\ l.ip \notin A /\ Above(type', dir', dotdot', A)
    <3>1. PICK A \in SUBSET Inum : l.dp \in A /\ l.ip \notin A /\ Above(type, dir, dotdot, A)
      BY <1>2, <1>5, <1>6, <2>2 DEF UpOK
    <3>2. Above(type', dir', dotdot', A)
      BY <1>8, <3>1 DEF Above
    <3> QED
      BY <3>1, <3>2
  <2> QED
    BY <2>1, <2>2 DEF UpOK
<1>10. place \in {"ren6", "ren7", "ren8"} => (Moving(type', l) <=> Moving(type, l))
  BY <1>5, <1>6 DEF Moving
<1>11. l.dp \in Pointer /\ (place = "ren5" => l.dp \in Inum) /\ (place = "ren6" => l.olddp \in Inum)
  BY <1>0, <1>4 DEF Local, DpPlaces, OldPlaces
<1>12. PICK v, x, b, h : v = type' /\ x = dir' /\ b = dotdot' /\ h = gone'
  OBVIOUS
<1>13. Typed(type, nlink, dir, dotdot, gone) /\ Typed(v, nlink, x, b, h)
  BY <1>12 DEF IInv, TypeOK, Typed, Entries
<1>14. Sound(type, LinksMeant(type, nlink, place, l), DirsMeant(dir, place, l), UpMeant(type, dotdot, place, l), gone)
  BY <1>2 DEF Meant
<1>15. /\ v[j] = "free" /\ x[j] = NoEntries /\ h[j] = 0
       /\ \A k \in Inum : k # j => /\ v[k] = type[k] /\ x[k] = dir[k] /\ b[k] = dotdot[k]
                                   /\ h[k] = gone[k] + Cardinality(SlotsOf(dir, j, k))
  BY <1>1, <1>12
<1>16. /\ place = "ren5" => l.dp # j
       /\ place = "ren6" => l.olddp # j
       /\ place \in {"ren6", "ren7", "ren8"} => (Moving(v, l) <=> Moving(type, l))
  BY <1>3, <1>6, <1>10, <1>12
<1>17. Sound(v, LinksMeant(v, nlink, place, l), DirsMeant(x, place, l), UpMeant(v, b, place, l), h)
  BY <1>11, <1>13, <1>14, <1>15, <1>16, FreedAsMeant
<1> QED
  BY <1>7, <1>9, <1>12, <1>17

\* The head of what is left to release is put, dropped or done with.
LEMMA TodoMoves ==
    ASSUME NEW s \in Seq(Todo), s # <<>>, NEW z, z = <<Drop(Head(s).ino)>> \o Tail(s) \/ z = Tail(s), NoUnlock(s)
    PROVE  NoUnlock(z) /\ \A x : (\A k \in DOMAIN s : s[k].ino # x) => \A k \in DOMAIN z : z[k].ino # x
<1>1. Len(s) \in Nat /\ Len(s) # 0 /\ DOMAIN s = 1..Len(s) /\ s[1] \in Todo /\ Head(s) = s[1]
  OBVIOUS
<1>2. PICK n \in Nat : Len(s) = n + 1
  <2>1. Len(s) - 1 \in Nat /\ Len(s) = (Len(s) - 1) + 1
    BY <1>1
  <2> QED
    BY <2>1
<1>3. 1 \in 1..n + 1 /\ \A k \in 1..n : k + 1 \in 1..n + 1
  BY <1>2
<1>4. DOMAIN s = 1..n + 1
  BY <1>1, <1>2
<1>5. CASE z = Tail(s)
  <2>1. Len(s) - 1 = n
    BY <1>2
  <2>2. DOMAIN z = 1..n /\ \A k \in 1..n : z[k] = s[k + 1]
    BY <1>5, <2>1
  <2> QED
    BY <1>3, <1>4, <2>2 DEF NoUnlock
<1>6. CASE z = <<Drop(Head(s).ino)>> \o Tail(s)
  <2>1. Drop(Head(s).ino) \in Todo
    BY <1>1 DEF Drop, Todo
  <2>2. Len(z) = Len(s) /\ DOMAIN z = 1..Len(z)
    BY <1>6, <2>1
  <2>3. \A k \in 1..Len(s) : k # 1 => z[k] = s[k]
    BY <1>6, <2>1
  <2>4. z[1] = Drop(Head(s).ino)
    BY <1>6, <2>1
  <2>5. z[1].op = "drop" /\ z[1].ino = s[1].ino
    BY <1>1, <2>4 DEF Drop
  <2> QED
    BY <1>1, <2>2, <2>3, <2>5 DEF NoUnlock
<1> QED
  BY <1>5, <1>6

LEMMA RTodo ==
    ASSUME IInv, NEW p \in Proc, RInv(p), NEW r \in Proc, todo[r] # <<>>, NEW z,
           z = <<Drop(Head(todo[r]).ino)>> \o Tail(todo[r]) \/ z = Tail(todo[r]),
           todo' = [todo EXCEPT ![r] = z], loc' = loc,
           \A q \in Proc : pc'[q] = pc[q] \/ (pc[q] = "return" /\ pc'[q] = "user")
    PROVE  /\ pc'[p] = pc[p] /\ NoUnlock(todo[r])
           /\ \A q \in Proc \ {p} : Quiet(q)'
           /\ RenLocks(pc[p], loc[p], todo'[p])
<1>1. /\ todo \in [Proc -> Seq(Todo)]
      /\ \A q \in Proc : todo'[q] = IF q = r THEN z ELSE todo[q]
  BY Types DEF IInv, TypeOK, Todo
<1>2. \A q \in Proc \ {p} : Quiet(q)
  BY DEF RInv
<1>3. RenLocks(pc[p], loc[p], todo[p])
  BY DEF RInv
<1>4. NoUnlock(todo[r])
  BY <1>2, <1>3 DEF Quiet, RenLocks
<1>5. NoUnlock(z) /\ \A x : (\A k \in DOMAIN todo[r] : todo[r][k].ino # x) => \A k \in DOMAIN z : z[k].ino # x
  <2>1. PICK s \in Seq(Todo) : s = todo[r]
    BY <1>1
  <2>2. s # <<>> /\ (z = <<Drop(Head(s).ino)>> \o Tail(s) \/ z = Tail(s)) /\ NoUnlock(s)
    BY <1>4, <2>1
  <2>3. NoUnlock(z) /\ \A x : (\A k \in DOMAIN s : s[k].ino # x) => \A k \in DOMAIN z : z[k].ino # x
    BY <2>2, TodoMoves
  <2> QED
    BY <2>1, <2>3
<1>6. pc'[p] = pc[p]
  BY RTypes
<1>7. \A q \in Proc \ {p} : Quiet(q)'
  BY <1>1, <1>2, <1>5 DEF Quiet
<1>8. RenLocks(pc[p], loc[p], todo'[p])
  <2>1. CASE r = p
    BY <1>1, <2>1, <1>3, <1>5 DEF RenLocks
  <2>2. CASE r # p
    BY <1>1, <2>2, <1>3
  <2> QED
    BY <2>1, <2>2
<1> QED
  BY <1>4, <1>6, <1>7, <1>8

LEMMA RPut ==
    ASSUME IInv, IInv', NEW p \in Proc, RInv(p), NEW r \in Proc, PutCheck(r)
    PROVE  RInv(p)'
<1>1. PICK j : j = Head(todo[r]).ino
  OBVIOUS
<1>2. /\ todo[r] # <<>> /\ todo' = [todo EXCEPT ![r] = <<Drop(j)>> \o Tail(todo[r])]
      /\ UNCHANGED <<nlink, lock, pc, loc>>
  BY <1>1, Types DEF PutCheck, IInv, TypeOK
<1>3. j \in Inum
  <2>1. Head(todo[r]) \in Todo
    BY <1>2, Types
  <2> QED
    BY <1>1, <2>1 DEF Todo
<1>4. /\ pc'[p] = pc[p] /\ loc'[p] = loc[p] /\ UNCHANGED lock
      /\ \A q \in Proc \ {p} : Quiet(q)'
      /\ RenLocks(pc[p], loc[p], todo'[p])
  BY <1>1, <1>2, RTodo
<1>5. PICK place, l : place = pc[p] /\ l = loc[p]
  OBVIOUS
<1>6. /\ RenOK(type', dir', dotdot', place, l) /\ UpOK(type', dir', dotdot', place, l)
      /\ Sound(type', LinksMeant(type', nlink', place, l), DirsMeant(dir', place, l),
               UpMeant(type', dotdot', place, l), gone')
  <2>1. CASE UNCHANGED <<type, dir, dotdot, gone>>
    BY <1>2, <1>5, <2>1, RTypes DEF Meant
  <2>2. CASE ~UNCHANGED <<type, dir, dotdot, gone>>
    <3>1. /\ type[j] # "free" /\ nlink[j] = 0
          /\ type' = [type EXCEPT ![j] = "free"]
          /\ dir' = [dir EXCEPT ![j] = NoEntries]
          /\ dotdot' = [dotdot EXCEPT ![j] = NoInum]
          /\ gone' = [k \in Inum |-> IF k = j THEN 0 ELSE
                         gone[k] + Cardinality({s \in Slot : dir[j][s].inum = k})]
      BY <1>1, <2>2 DEF PutCheck
    <3>2. \A k \in Inum : gone'[k] = IF k = j THEN 0 ELSE gone[k] + Cardinality(SlotsOf(dir, j, k))
      BY <3>1 DEF SlotsOf
    <3> QED
      BY <1>2, <1>3, <1>5, <3>1, <3>2, RenameFrees
  <2> QED
    BY <2>1, <2>2
<1> QED
  BY <1>4, <1>5, <1>6, RStays

LEMMA RRelease ==
    ASSUME IInv, NEW p \in Proc, RInv(p), NEW r \in Proc, Release(r)
    PROVE  RInv(p)'
<1>1. PICK z : z = Tail(todo[r])
  OBVIOUS
<1>2. /\ todo[r] # <<>> /\ todo' = [todo EXCEPT ![r] = z] /\ UNCHANGED <<disk, loc>>
  BY <1>1, Types DEF Release, IInv, TypeOK
<1>3. \A q \in Proc : pc'[q] = pc[q] \/ (pc[q] = "return" /\ pc'[q] = "user")
  BY Types DEF Release, IInv, TypeOK
<1>4. /\ pc'[p] = pc[p] /\ loc'[p] = loc[p] /\ NoUnlock(todo[r])
      /\ \A q \in Proc \ {p} : Quiet(q)'
      /\ RenLocks(pc[p], loc[p], todo'[p])
  BY <1>1, <1>2, <1>3, RTodo
<1>5. UNCHANGED lock
  <2>1. PICK s \in Seq(Todo) : s = todo[r]
    BY Types DEF IInv, TypeOK, Todo
  <2>2. s # <<>> /\ NoUnlock(s) /\ Head(s).op # "put"
    BY <1>2, <1>4, <2>1 DEF Release
  <2>3. 1 \in DOMAIN s /\ Head(s) = s[1] /\ s[1] \in Todo
    BY <2>1, <2>2
  <2>4. Head(s).op = "drop"
    BY <2>2, <2>3 DEF NoUnlock, Todo
  <2> QED
    BY <2>1, <2>4 DEF Release
<1>6. UNCHANGED <<type, nlink, dir, dotdot, gone>>
  BY <1>2 DEF disk
<1>7. PICK place, l : place = pc[p] /\ l = loc[p]
  OBVIOUS
<1>8. /\ RenOK(type', dir', dotdot', place, l) /\ UpOK(type', dir', dotdot', place, l)
      /\ Sound(type', LinksMeant(type', nlink', place, l), DirsMeant(dir', place, l),
               UpMeant(type', dotdot', place, l), gone')
  BY <1>6, <1>7, RTypes DEF Meant
<1> QED
  BY <1>4, <1>5, <1>7, <1>8, RStays

LEMMA RClose ==
    ASSUME IInv, NEW p \in Proc, RInv(p), NEW r \in Proc, Close(r)
    PROVE  RInv(p)'
<1>1. pc[r] = "user" /\ Return(r, <<Put(fd[r])>>) /\ UNCHANGED <<disk, lock>>
  BY DEF Close
<1>2. r # p
  BY <1>1, RTypes
<1>3. PICK place \in {"user", "return"} : Goto(r, place, NoCall, <<Put(fd[r])>>)
  BY <1>1 DEF Return
<1>4. /\ pc'[p] = pc[p] /\ loc'[p] = loc[p] /\ todo'[p] = todo[p]
      /\ pc'[r] = place /\ loc'[r] = NoCall /\ todo'[r] = <<Put(fd[r])>>
      /\ \A q \in Proc \ {r} : pc'[q] = pc[q] /\ loc'[q] = loc[q] /\ todo'[q] = todo[q]
  BY <1>2, <1>3, Types DEF Goto, IInv, TypeOK
<1>5. \A q \in Proc \ {p} : Quiet(q)'
  <2>1. NoUnlock(<<Put(fd[r])>>)
    BY RenShapes
  <2>2. Quiet(r)'
    BY <1>4, <2>1 DEF Quiet
  <2>3. \A q \in Proc \ {p} : Quiet(q)
    BY DEF RInv
  <2>4. \A q \in Proc \ {p, r} : Quiet(q)'
    BY <1>4, <2>3 DEF Quiet
  <2> QED
    BY <2>2, <2>4
<1>6. UNCHANGED <<type, nlink, dir, dotdot, gone>>
  BY <1>1 DEF disk
<1>7. PICK l : l = loc[p]
  OBVIOUS
<1>8. PICK here : here = pc[p]
  OBVIOUS
<1>9. /\ RenOK(type', dir', dotdot', here, l) /\ UpOK(type', dir', dotdot', here, l)
      /\ Sound(type', LinksMeant(type', nlink', here, l), DirsMeant(dir', here, l),
               UpMeant(type', dotdot', here, l), gone')
  BY <1>6, <1>7, <1>8, RTypes DEF Meant
<1> QED
  BY <1>1, <1>4, <1>5, <1>7, <1>8, <1>9, RTypes, RStays

-----------------------------------------------------------------------------
(* The steps of a rename() *)

\* What is not yet entered anywhere is as on the disk, and no lock is held.
LEMMA EarlyPlaces ==
    /\ \A place \in {"walk", "ren1", "ren2", "cycle", "ren3", "ren4"} : Early(place)
    /\ \A place \in RenPlaces \cup {"walk"} : \A l : place \notin {"ren4", "ren5", "ren8"} => RenLock(place, l) = NoInum
  BY DEF Early, RenPlaces, RenLock

LEMMA RWalk ==
    ASSUME IInv, IInv', NEW p \in Proc, RInv(p), Walk(p)
    PROVE  KInv'
<1>1. PICK l : l = loc[p]
  OBVIOUS
<1>2. /\ pc[p] = "walk" /\ todo[p] = <<>> /\ UNCHANGED <<disk, lock>>
      /\ l \in Local /\ l.then \in {"ren1", "ren2"} /\ RenOK(type, dir, dotdot, "walk", l)
  <2>1. pc[p] = "walk" /\ todo[p] = <<>> /\ UNCHANGED <<disk, lock>>
    BY DEF Walk, Locks, At
  <2>2. "walk" \notin RenPlaces
    BY DEF RenPlaces
  <2>3. Walks("walk", l, {"ren1", "ren2"}) /\ RenOK(type, dir, dotdot, "walk", l) /\ l \in Local
    BY <1>1, <2>1, <2>2, RTypes
  <2> QED
    BY <2>1, <2>3 DEF Walks
<1>3. Early(pc[p]) /\ RenLock(pc[p], loc[p]) = NoInum
  BY <1>2, EarlyPlaces
<1>4. ASSUME WalkFails(p) PROVE JInv'
  <2>1. CASE l.then = "ren2"
    <3>1. Return(p, <<Put(l.at), Put(l.olddp), Put(l.ip)>>)
      BY <1>1, <1>4, <2>1 DEF WalkFails
    <3>2. NoUnlock(<<Put(l.at), Put(l.olddp), Put(l.ip)>>)
      BY RenShapes
    <3> QED
      BY <1>2, <1>3, <3>1, <3>2, RPlainReturn
  <2>2. CASE l.then = "ren1"
    BY <1>1, <1>4, <2>2, RenShapes, <1>2, <1>3, RPlainReturn DEF WalkFails
  <2> QED
    BY <1>2, <2>1, <2>2
<1>5. ASSUME NEW place \in {"walk", l.then}, NEW k, NEW what, Goto(p, place, k, what),
             k.call = l.call, k.ip = l.ip, k.then = l.then, k.olddp = l.olddp, k.slot = l.slot, k.xip = l.xip,
             what = <<>> \/ what = <<Put(l.at)>>
      PROVE  RInv(p)'
  <2>1. RenOK(type, dir, dotdot, place, k)
    <3>1. Found(place, k) <=> Found("walk", l)
      BY <1>2, <1>5 DEF Found, RenPlaces, Walks
    <3>2. place \in RenPlaces \/ Walks(place, k, {"ren1", "ren2"})
      BY <1>2, <1>5 DEF RenPlaces, Walks
    <3>3. place \notin {"cycle", "ren3", "ren4", "ren5", "ren6", "ren7", "ren8"}
      BY <1>2, <1>5
    <3>4. l.call = "rename_alone" /\ l.xip = NoInum
      BY <1>2 DEF RenOK, Found, RenPlaces, Walks
    <3>5. Found("walk", l) => type[l.ip] # "free" /\ l.slot \in Slot /\ dir[l.olddp][l.slot].inum = l.ip
      BY <1>2 DEF RenOK
    <3> QED
      BY <1>5, <3>1, <3>2, <3>3, <3>4, <3>5 DEF RenOK
  <2>2. UpOK(type, dir, dotdot, place, k)
    BY <1>2, <1>5 DEF UpOK
  <2>3. Early(place) /\ RenLock(place, k) = NoInum
    BY <1>2, <1>5, EarlyPlaces DEF RenPlaces
  <2>4. NoUnlock(what)
    BY <1>5, RenShapes
  <2> QED
    BY <1>2, <1>3, <1>5, <2>1, <2>2, <2>3, <2>4, RPlain
<1>6. \/ WalkFails(p)
      \/ \E k : Goto(p, l.then, [l EXCEPT !.name = k, !.path = <<>>], <<>>)
      \/ \E x, path, place : /\ place \in {"walk", l.then}
                             /\ Goto(p, place, [l EXCEPT !.at = x, !.path = path], <<Put(l.at)>>)
  BY <1>1 DEF Walk
<1>7. ASSUME NEW k, Goto(p, l.then, [l EXCEPT !.name = k, !.path = <<>>], <<>>)
      PROVE  RInv(p)'
  <2>1. PICK m : m = [l EXCEPT !.name = k, !.path = <<>>]
    OBVIOUS
  <2>2. m.call = l.call /\ m.ip = l.ip /\ m.then = l.then /\ m.olddp = l.olddp /\ m.slot = l.slot /\ m.xip = l.xip
    BY <1>2, <2>1 DEF Local
  <2> QED
    BY <1>5, <1>7, <2>1, <2>2
<1>8. ASSUME NEW x, NEW path, NEW place \in {"walk", l.then},
             Goto(p, place, [l EXCEPT !.at = x, !.path = path], <<Put(l.at)>>)
      PROVE  RInv(p)'
  <2>1. PICK m : m = [l EXCEPT !.at = x, !.path = path]
    OBVIOUS
  <2>2. m.call = l.call /\ m.ip = l.ip /\ m.then = l.then /\ m.olddp = l.olddp /\ m.slot = l.slot /\ m.xip = l.xip
    BY <1>2, <2>1 DEF Local
  <2> QED
    BY <1>5, <1>8, <2>1, <2>2
<1> QED
  BY <1>4, <1>6, <1>7, <1>8 DEF KInv

\* A place of a rename() that it is at, and what it knows there.
LEMMA RHere ==
    ASSUME IInv, NEW p \in Proc, RInv(p), NEW place \in RenPlaces, At(p, place), NEW l, l = loc[p]
    PROVE  /\ pc[p] = place /\ todo[p] = <<>> /\ l \in Local /\ l.call = "rename_alone"
           /\ RenOK(type, dir, dotdot, place, l) /\ UpOK(type, dir, dotdot, place, l) /\ Meant(place, l)
           /\ PlaceOK(place, l, fd[p], <<>>) /\ DirOK(type, place, l)
           /\ \A i \in Inum : lock[i] = IF i = RenLock(place, l) THEN p ELSE NoProc
           /\ place # "ren1" => Found(place, l) /\ type[l.ip] # "free"
           /\ place \notin {"ren1", "ren7", "ren8"} => l.slot \in Slot /\ dir[l.olddp][l.slot].inum = l.ip
           /\ NoInum \notin Inum
<1>1. pc[p] = place /\ todo[p] = <<>>
  BY DEF At
<1>2. /\ l \in Local /\ RenOK(type, dir, dotdot, place, l) /\ UpOK(type, dir, dotdot, place, l) /\ Meant(place, l)
      /\ \A i \in Inum : lock[i] = IF i = RenLock(place, l) THEN p ELSE NoProc
      /\ l.call = "rename_alone" /\ NoInum \notin Inum
  BY <1>1, RTypes
<1>3. PlaceOK(place, l, fd[p], <<>>) /\ DirOK(type, place, l)
  BY <1>1, Types
<1>4. place # "ren1" => Found(place, l) /\ type[l.ip] # "free"
  BY <1>2 DEF Found, RenOK
<1>5. place \notin {"ren1", "ren7", "ren8"} => l.slot \in Slot /\ dir[l.olddp][l.slot].inum = l.ip
  BY <1>2 DEF Found, RenOK
<1> QED
  BY <1>1, <1>2, <1>3, <1>4, <1>5

LEMMA LookupSlot ==
    ASSUME NEW d, NEW n, n \notin {".", ".."}, Lookup(d, n) # NoInum
    PROVE  Lookup(d, n) = dir[d][SlotOf(d, n)].inum
  BY DEF Lookup, SlotOf

\* What has a name on the disk.
LEMMA NamedHere ==
    ASSUME Typed(type, nlink, dir, dotdot, gone), Fits,
           NEW x \in Inum, NEW s \in Slot, NEW i, dir[x][s].inum = i, i # NoInum
    PROVE  /\ i \in Inum /\ type[i] # "free" /\ type[x] = "dir" /\ dir[x][s].name \in Name
           /\ type[i] = "dir" => i # Root /\ i # x /\ NamesIn(dir, i) = {<<x, s>>} /\ dotdot[i] = x
<1>1. PICK t, n, d, u, g : t = type /\ n = nlink /\ d = dir /\ u = dotdot /\ g = gone
  OBVIOUS
<1>2. Typed(t, n, d, u, g) /\ Sound(t, n, d, u, g) /\ d[x][s].inum = i /\ d[x][s].inum # NoInum
  BY <1>1 DEF Fits
<1>5. /\ d[x][s].inum \in Inum /\ t[d[x][s].inum] # "free" /\ d[x][s].name \in Name
      /\ <<x, s>> \in NamesIn(d, d[x][s].inum) /\ t[x] = "dir"
      /\ t[d[x][s].inum] = "dir" => d[x][s].inum # Root /\ d[x][s].inum # x
  BY <1>2, NamedLives
<1>3. /\ i \in Inum /\ t[i] # "free" /\ d[x][s].name \in Name /\ t[x] = "dir"
      /\ t[i] = "dir" => i # Root /\ i # x
  BY <1>2, <1>5
<1>4. t[i] = "dir" => NamesIn(d, i) = {<<x, s>>} /\ u[i] = x
  BY <1>2 DEF Sound, ParentsFit
<1> QED
  BY <1>1, <1>3, <1>4

LEMMA RRenameOld ==
    ASSUME IInv, IInv', NEW p \in Proc, RInv(p), RenameOld(p)
    PROVE  KInv'
<1>1. PICK l : l = loc[p]
  OBVIOUS
<1>2. PICK d, i, start, s : d = l.at /\ i = Lookup(d, l.name) /\ start = Start(p, l.path2) /\ s = SlotOf(d, l.name)
  OBVIOUS
<1>3. /\ At(p, "ren1") /\ UNCHANGED <<disk, lock>>
      /\ \/ Return(p, <<Put(d)>>)
         \/ /\ l.name \notin {".", ".."} /\ i # NoInum
            /\ Goto(p, "walk", [l EXCEPT !.olddp = d, !.ip = i, !.slot = s, !.at = start, !.path = l.path2.elems,
                                         !.path2 = NoPath, !.then = "ren2"], <<>>)
  BY <1>1, <1>2 DEF RenameOld, Locks
<1>4. /\ pc[p] = "ren1" /\ todo[p] = <<>> /\ l \in Local /\ l.call = "rename_alone"
      /\ RenOK(type, dir, dotdot, "ren1", l) /\ PlaceOK("ren1", l, fd[p], <<>>)
  BY <1>1, <1>3, RHere DEF RenPlaces
<1>5. Early(pc[p]) /\ RenLock(pc[p], loc[p]) = NoInum
  BY <1>4, EarlyPlaces DEF RenPlaces
<1>6. CASE Return(p, <<Put(d)>>)
  BY <1>3, <1>5, <1>6, RenShapes, RPlainReturn DEF KInv
<1>7. CASE /\ l.name \notin {".", ".."} /\ i # NoInum
           /\ Goto(p, "walk", [l EXCEPT !.olddp = d, !.ip = i, !.slot = s, !.at = start, !.path = l.path2.elems,
                                        !.path2 = NoPath, !.then = "ren2"], <<>>)
  <2>1. PICK m : m = [l EXCEPT !.olddp = d, !.ip = i, !.slot = s, !.at = start, !.path = l.path2.elems,
                               !.path2 = NoPath, !.then = "ren2"]
    OBVIOUS
  <2>2. m.olddp = d /\ m.ip = i /\ m.slot = s /\ m.then = "ren2" /\ m.call = l.call /\ m.xip = l.xip
    BY <1>4, <2>1 DEF Local
  <2>3. d \in Inum
    BY <1>2, <1>4 DEF PlaceOK, AtPlaces
  <2>4. s \in Slot /\ dir[d][s].inum = i
    <3>1. s \in Slot
      BY <1>2, <1>7, SlotType
    <3>2. PICK n : n = l.name
      OBVIOUS
    <3>3. i = Lookup(d, n) /\ s = SlotOf(d, n) /\ n \notin {".", ".."} /\ i # NoInum
      BY <1>2, <1>7, <3>2
    <3>4. dir[d][s].inum = i
      BY <3>3, LookupSlot
    <3> QED
      BY <3>1, <3>4
  <2>5. type[i] # "free"
    BY <1>5, RTypes, <1>7, <2>3, <2>4, NamedHere DEF Fits
  <2>6. l.xip = NoInum
    BY <1>4 DEF RenOK, Found, Walks
  <2>7. RenOK(type, dir, dotdot, "walk", m) /\ UpOK(type, dir, dotdot, "walk", m)
    BY <1>4, <2>2, <2>4, <2>5, <2>6 DEF RenOK, UpOK, Found, Walks, RenPlaces
  <2>8. Early("walk") /\ RenLock("walk", m) = NoInum
    BY EarlyPlaces
  <2>9. RInv(p)'
    BY <1>3, <1>5, <1>7, <2>1, <2>7, <2>8, RenShapes, RPlain
  <2> QED
    BY <2>9 DEF KInv
<1> QED
  BY <1>3, <1>6, <1>7

LEMMA RRenameType ==
    ASSUME IInv, IInv', NEW p \in Proc, RInv(p), RenameType(p)
    PROVE  KInv'
<1>1. PICK k : k = loc[p]
  OBVIOUS
<1>2. PICK l : l = [k EXCEPT !.dp = k.at]
  OBVIOUS
<1>3. /\ At(p, "ren2") /\ UNCHANGED <<disk, lock>>
      /\ \/ Return(p, <<Put(l.olddp), Put(l.dp), Put(l.ip)>>)
         \/ type[l.ip] = "dir" /\ Goto(p, "cycle", l, <<>>)
         \/ type[l.ip] # "dir" /\ Goto(p, "ren3", l, <<>>)
  BY <1>1, <1>2 DEF RenameType
<1>4. /\ pc[p] = "ren2" /\ todo[p] = <<>> /\ k \in Local /\ k.call = "rename_alone"
      /\ RenOK(type, dir, dotdot, "ren2", k) /\ PlaceOK("ren2", k, fd[p], <<>>) /\ DirOK(type, "ren2", k)
      /\ type[k.ip] # "free" /\ k.slot \in Slot /\ dir[k.olddp][k.slot].inum = k.ip
  BY <1>1, <1>3, RHere DEF RenPlaces
<1>5. Early(pc[p]) /\ RenLock(pc[p], loc[p]) = NoInum
  BY <1>4, EarlyPlaces DEF RenPlaces
<1>6. /\ l.dp = k.at /\ l.at = k.at /\ l.olddp = k.olddp /\ l.ip = k.ip /\ l.slot = k.slot /\ l.call = k.call
      /\ l.xip = k.xip /\ k.xip = NoInum /\ k.at \in Inum
  BY <1>4, <1>2 DEF PlaceOK, AtPlaces, RenOK, Local
<1>7. ASSUME NEW place \in {"cycle", "ren3"} PROVE RenOK(type, dir, dotdot, place, l)
  BY <1>4, <1>6 DEF RenOK, RenPlaces
<1>8. CASE Return(p, <<Put(l.olddp), Put(l.dp), Put(l.ip)>>)
  <2>1. NoUnlock(<<Put(l.olddp), Put(l.dp), Put(l.ip)>>)
    BY RenShapes
  <2>2. JInv'
    BY <1>3, <1>5, <1>8, <2>1, RPlainReturn
  <2> QED
    BY <2>2 DEF KInv
<1>9. CASE type[l.ip] = "dir" /\ Goto(p, "cycle", l, <<>>)
  <2>1. PICK A \in SUBSET Inum : A = {l.dp}
    BY <1>6
  <2>2. Seen(type, dir, dotdot, l, A)
    BY <1>6, <2>1 DEF Seen
  <2>3. UpOK(type, dir, dotdot, "cycle", l)
    BY <1>9, <2>2 DEF UpOK
  <2>4. RInv(p)'
    BY <1>3, <1>5, <1>7, <1>9, <2>3, EarlyPlaces, RenShapes, RPlain, ZenonT(30) DEF RenPlaces
  <2> QED
    BY <2>4 DEF KInv
<1>10. CASE type[l.ip] # "dir" /\ Goto(p, "ren3", l, <<>>)
  <2>1. UpOK(type, dir, dotdot, "ren3", l)
    BY <1>10 DEF UpOK
  <2>2. RInv(p)'
    BY <1>3, <1>5, <1>7, <1>10, <2>1, EarlyPlaces, RenShapes, RPlain DEF RenPlaces
  <2> QED
    BY <2>2 DEF KInv
<1> QED
  BY <1>3, <1>8, <1>9, <1>10

\* Nothing on the disk is called the root.
LEMMA RootUnnamed ==
    ASSUME Typed(type, nlink, dir, dotdot, gone), Fits
    PROVE  NamesIn(dir, Root) = {}
<1>1. Root \in Inum /\ NoInum \notin Inum /\ type[Root] = "dir"
  BY RootType, InodeAssumption DEF Fits, Sound
<1>2. ASSUME NEW e \in NamesIn(dir, Root) PROVE FALSE
  <2>1. PICK x \in Inum, s \in Slot : e = <<x, s>> /\ dir[x][s].inum = Root
    BY DEF NamesIn
  <2> QED
    BY <1>1, <2>1, NamedHere
<1> QED
  BY <1>2

LEMMA FourPuts ==
    ASSUME NEW x, NEW l
    PROVE  NoUnlock(<<Put(x)>> \o Held(l))
<1>1. PICK S : S = {Put(x), Put(l.olddp), Put(l.dp), Put(l.ip)}
  OBVIOUS
<1>2. PICK s, t : s = <<Put(x)>> /\ t = Held(l)
  OBVIOUS
<1>3. s \in Seq(S) /\ t \in Seq(S)
  BY <1>1, <1>2 DEF Held
<1>4. s \o t \in Seq(S)
  BY <1>3
<1>5. \A k \in DOMAIN (s \o t) : (s \o t)[k] \in S
  BY <1>4
<1>6. \A y \in S : y.op = "put"
  BY <1>1 DEF Put
<1> QED
  BY <1>2, <1>5, <1>6 DEF NoUnlock

LEMMA RRenameCycle ==
    ASSUME IInv, IInv', NEW p \in Proc, RInv(p), RenameCycle(p)
    PROVE  KInv'
<1>1. PICK l : l = loc[p]
  OBVIOUS
<1>2. PICK parent : parent = dotdot[l.at]
  OBVIOUS
<1>3. PICK m, up : m = [l EXCEPT !.at = l.dp] /\ up = [l EXCEPT !.at = parent]
  OBVIOUS
<1>4. /\ At(p, "cycle") /\ UNCHANGED <<disk, lock>>
      /\ \/ Return(p, <<Put(l.at)>> \o Held(l))
         \/ l.at # l.ip /\ l.at = Root /\ Goto(p, "ren3", m, <<Put(l.at)>>)
         \/ l.at # l.ip /\ type[l.at] = "dir" /\ Goto(p, "cycle", up, <<Put(l.at)>>)
  BY <1>1, <1>2, <1>3 DEF RenameCycle, CycleFound
<1>5. /\ pc[p] = "cycle" /\ todo[p] = <<>> /\ l \in Local /\ l.call = "rename_alone"
      /\ RenOK(type, dir, dotdot, "cycle", l) /\ UpOK(type, dir, dotdot, "cycle", l)
      /\ PlaceOK("cycle", l, fd[p], <<>>)
      /\ type[l.ip] # "free" /\ l.slot \in Slot /\ dir[l.olddp][l.slot].inum = l.ip
  BY <1>1, <1>4, RHere DEF RenPlaces
<1>6. Early(pc[p]) /\ RenLock(pc[p], loc[p]) = NoInum
  BY <1>5, EarlyPlaces DEF RenPlaces
<1>7. Typed(type, nlink, dir, dotdot, gone) /\ Fits /\ NamesIn(dir, Root) = {}
  BY <1>6, RTypes, RootUnnamed
<1>8. l.at \in Inum /\ l.dp \in Inum /\ l.xip = NoInum
  BY <1>5 DEF PlaceOK, AtPlaces, DpPlaces, RenOK
<1>9. PICK A \in SUBSET Inum : Seen(type, dir, dotdot, l, A)
  BY <1>5 DEF UpOK
<1>10. type[l.ip] = "dir"
  BY <1>5 DEF UpOK
<1>11. NoUnlock(<<Put(l.at)>>) /\ NoUnlock(<<Put(l.at)>> \o Held(l))
  BY FourPuts, RenShapes
<1>12. CASE Return(p, <<Put(l.at)>> \o Held(l))
  <2>1. PICK what : what = <<Put(l.at)>> \o Held(l)
    OBVIOUS
  <2>2. Return(p, what) /\ NoUnlock(what)
    BY <1>11, <1>12, <2>1
  <2>3. JInv'
    BY <1>4, <1>6, <2>2, RPlainReturn
  <2> QED
    BY <2>3 DEF KInv
<1>13. CASE l.at # l.ip /\ l.at = Root /\ Goto(p, "ren3", m, <<Put(l.at)>>)
  <2>1. /\ m.at = l.dp /\ m.dp = l.dp /\ m.olddp = l.olddp /\ m.ip = l.ip /\ m.slot = l.slot
        /\ m.call = l.call /\ m.xip = l.xip
    BY <1>3, <1>5 DEF Local
  <2>2. l.dp \in A /\ l.ip \notin A /\ Above(type, dir, dotdot, A)
    BY <1>7, <1>9, <1>13 DEF Seen, Above
  <2>3. RenOK(type, dir, dotdot, "ren3", m)
    BY <1>5, <1>8, <2>1 DEF RenOK, RenPlaces
  <2>4. UpOK(type, dir, dotdot, "ren3", m)
    BY <2>1, <2>2 DEF UpOK
  <2>5. Early("ren3") /\ RenLock("ren3", m) = NoInum
    BY DEF Early, RenLock
  <2>6. RInv(p)'
    BY <1>4, <1>6, <1>11, <1>13, <2>3, <2>4, <2>5, RPlain
  <2> QED
    BY <2>6 DEF KInv
<1>14. CASE l.at # l.ip /\ type[l.at] = "dir" /\ Goto(p, "cycle", up, <<Put(l.at)>>)
  <2>1. parent \in Inum
    BY <1>2, <1>8, <1>14 DEF IInv, DotDotInv
  <2>2. /\ up.at = parent /\ up.dp = l.dp /\ up.olddp = l.olddp /\ up.ip = l.ip /\ up.slot = l.slot
        /\ up.call = l.call /\ up.xip = l.xip
    BY <1>3, <1>5 DEF Local
  <2>3. PICK B \in SUBSET Inum : B = A \cup {parent}
    BY <2>1
  <2>4. Seen(type, dir, dotdot, up, B)
    <3>1. l.at \in A /\ l.dp \in A /\ l.ip \notin A \ {l.at}
      BY <1>9 DEF Seen
    <3>2. \A i \in A \ {l.at} : type[i] = "dir" /\ NamesIn(dir, i) # {} => dotdot[i] \in A
      BY <1>9 DEF Seen
    <3>3. l.ip \notin A
      BY <1>14, <3>1
    <3>4. ASSUME NEW i \in B \ {parent}, type[i] = "dir" /\ NamesIn(dir, i) # {} PROVE dotdot[i] \in B
      BY <1>2, <2>3, <3>2, <3>4
    <3>5. up.at \in B /\ up.dp \in B /\ up.ip \notin B \ {up.at}
      BY <2>2, <2>3, <3>1, <3>3
    <3> QED
      BY <2>2, <3>4, <3>5 DEF Seen
  <2>5. RenOK(type, dir, dotdot, "cycle", up)
    BY <1>5, <1>8, <2>2 DEF RenOK, RenPlaces
  <2>6. UpOK(type, dir, dotdot, "cycle", up)
    BY <1>10, <2>2, <2>4 DEF UpOK
  <2>7. Early("cycle") /\ RenLock("cycle", up) = NoInum
    BY DEF Early, RenLock
  <2>8. RInv(p)'
    BY <1>4, <1>6, <1>11, <1>14, <2>5, <2>6, <2>7, RPlain
  <2> QED
    BY <2>8 DEF KInv
<1> QED
  BY <1>4, <1>12, <1>13, <1>14

LEMMA RRenameNew ==
    ASSUME IInv, IInv', NEW p \in Proc, RInv(p), RenameNew(p)
    PROVE  KInv'
<1>1. PICK l : l = loc[p]
  OBVIOUS
<1>2. PICK d, x : d = l.dp /\ x = Lookup(d, l.name)
  OBVIOUS
<1>3. PICK m : m = [l EXCEPT !.at = x, !.xip = x]
  OBVIOUS
<1>4. PICK all : all = <<Put(x), Unlock(d), Put(d), Put(l.olddp), Put(l.ip)>>
  OBVIOUS
<1>5. /\ At(p, "ren3") /\ UNCHANGED disk
      /\ \/ Return(p, <<Put(d), Put(l.olddp), Put(l.ip)>>) /\ UNCHANGED lock
         \/ Return(p, all) /\ lock' = [lock EXCEPT ![d] = p]
         \/ x \notin {NoInum, l.ip} /\ Goto(p, "ren4", m, <<>>) /\ lock' = [lock EXCEPT ![d] = p]
         \/ x = NoInum /\ Goto(p, "ren5", l, <<>>) /\ lock' = [lock EXCEPT ![d] = p]
  BY <1>1, <1>2, <1>3, <1>4 DEF RenameNew, Locks
<1>6. /\ pc[p] = "ren3" /\ todo[p] = <<>> /\ l \in Local /\ l.call = "rename_alone"
      /\ RenOK(type, dir, dotdot, "ren3", l) /\ UpOK(type, dir, dotdot, "ren3", l)
      /\ PlaceOK("ren3", l, fd[p], <<>>) /\ DirOK(type, "ren3", l)
      /\ type[l.ip] # "free" /\ l.slot \in Slot /\ dir[l.olddp][l.slot].inum = l.ip
  BY <1>1, <1>5, RHere DEF RenPlaces
<1>7. Early(pc[p]) /\ RenLock(pc[p], loc[p]) = NoInum
  BY <1>6, EarlyPlaces DEF RenPlaces
<1>8. Typed(type, nlink, dir, dotdot, gone) /\ Fits /\ dir \in Entries /\ NoInum \notin Inum
  BY <1>7, RTypes
<1>9. d \in Inum /\ l.name \in Name /\ l.name \notin {".", ".."} /\ type[d] = "dir" /\ l.ip \in Inum
  BY <1>2, <1>6, InodeAssumption DEF PlaceOK, DpPlaces, IpPlaces, DirOK
<1>10. lock' = [lock EXCEPT ![d] = p] => \A i \in Inum : lock'[i] = IF i = d THEN p ELSE NoProc
  <2>1. lock \in [Inum -> Proc \cup {NoProc}] /\ \A i \in Inum : lock[i] = NoProc
    BY <1>7, <1>8, RTypes DEF IInv, TypeOK
  <2> QED
    BY <2>1
<1>11. UNCHANGED <<type, nlink, dir, dotdot, gone>>
  BY <1>5 DEF disk
<1>12. Fits'
  BY <1>8, <1>11 DEF Fits
<1>13. CASE Return(p, <<Put(d), Put(l.olddp), Put(l.ip)>>) /\ UNCHANGED lock
  <2>1. NoUnlock(<<Put(d), Put(l.olddp), Put(l.ip)>>)
    BY RenShapes
  <2>2. JInv'
    BY <1>5, <1>7, <1>13, <2>1, RPlainReturn
  <2> QED
    BY <2>2 DEF KInv
<1>14. CASE Return(p, all) /\ lock' = [lock EXCEPT ![d] = p]
  <2>1. \A place : TodoOK(place, NoCall, all)
    BY <1>4, RenShapes
  <2>2. \A i : Unlocks(i, all) <=> i = d
    <3>1. \A i : Unlocks(i, <<Put(x), Unlock(d), Put(d), Put(l.olddp), Put(l.ip)>>) <=> i = d
      BY RenShapes
    <3> QED
      BY <1>4, <3>1
  <2>3. \A i \in Inum : lock'[i] = IF Unlocks(i, all) THEN p ELSE NoProc
    BY <1>10, <1>14, <2>2
  <2>4. JInv'
    BY <1>12, <1>14, <2>1, <2>3, RReturn
  <2> QED
    BY <2>4 DEF KInv
<1>15. CASE x \notin {NoInum, l.ip} /\ Goto(p, "ren4", m, <<>>) /\ lock' = [lock EXCEPT ![d] = p]
  <2>1. /\ m.at = x /\ m.xip = x /\ m.dp = d /\ m.olddp = l.olddp /\ m.ip = l.ip /\ m.slot = l.slot
        /\ m.call = l.call /\ m.name = l.name
    BY <1>2, <1>3, <1>6 DEF Local
  <2>2. PICK n, s : n = l.name /\ s = SlotOf(d, n)
    OBVIOUS
  <2>3. s \in Slot /\ dir[d][s].name = n /\ dir[d][s].inum = x
    <3>1. Lookup(d, n) = x /\ x # NoInum /\ n \notin {".", ".."}
      BY <1>2, <1>9, <1>15, <2>2
    <3>2. SlotOf(d, n) \in Slot /\ dir[d][SlotOf(d, n)].name = n
      BY <3>1, SlotType
    <3>3. Lookup(d, n) = dir[d][SlotOf(d, n)].inum
      BY <3>1, LookupSlot
    <3> QED
      BY <2>2, <3>1, <3>2, <3>3
  <2>4. x \in Inum /\ x # d
    BY <1>8, <1>9, <1>15, <2>3, NamedHere
  <2>5. dir[d][s] = [name |-> l.name, inum |-> x]
    BY <1>8, <1>9, <2>2, <2>3 DEF Entries
  <2>6. Replaces(dir, m)
    <3>1. dir[d][s].inum # NoInum
      BY <1>15, <2>3
    <3>2. \A z \in Slot : dir[d][z].name = dir[d][s].name => z = s
      BY <1>8, <1>9, <2>3, <3>1 DEF Fits, Sound, NamesFit
    <3>3. \A z \in Slot : dir[d][z].name = m.name => z = s
      BY <2>1, <2>2, <2>3, <3>2
    <3> QED
      BY <1>15, <2>1, <2>3, <2>4, <2>5, <3>3 DEF Replaces
  <2>7. RenOK(type, dir, dotdot, "ren4", m)
    <3>1. "ren4" \in RenPlaces /\ Found("ren4", m)
      BY DEF RenPlaces, Found
    <3>2. m.call = "rename_alone" /\ type[m.ip] # "free" /\ m.slot \in Slot /\ dir[m.olddp][m.slot].inum = m.ip
      BY <1>6, <2>1
    <3>3. m.name \in Name /\ m.at = m.xip /\ ~Walks("ren4", m, {"ren2"})
      BY <1>9, <2>1 DEF Walks
    <3> QED
      BY <2>6, <3>1, <3>2, <3>3 DEF RenOK
  <2>8. UpOK(type, dir, dotdot, "ren4", m)
    BY <1>2, <2>1, <1>6 DEF UpOK
  <2>9. Meant("ren4", m)'
    BY EarlyPlaces, <1>8, <1>11, EarlyFits, SameMeant
  <2>10. RenLocks("ren4", m, <<>>) /\ \A i \in Inum : lock'[i] = IF i = RenLock("ren4", m) THEN p ELSE NoProc
    BY <1>10, <1>15, <2>1, RenShapes DEF RenLock
  <2>11. RInv(p)'
    BY <1>11, <1>15, <2>7, <2>8, <2>9, <2>10, RStep DEF RMove
  <2> QED
    BY <2>11 DEF KInv
<1>16. CASE x = NoInum /\ Goto(p, "ren5", l, <<>>) /\ lock' = [lock EXCEPT ![d] = p]
  <2>1. l.xip = NoInum
    BY <1>6 DEF RenOK
  <2>2. \A s \in Slot : dir[d][s].name # l.name
    <3>1. NamesInv
      BY <1>8 DEF Fits, Sound, NamesFit, NamesInv
    <3> QED
      BY <1>2, <1>9, <1>16, <3>1, NoSuchName
  <2>3. RenOK(type, dir, dotdot, "ren5", l)
    BY <1>2, <1>6, <1>9, <2>1, <2>2 DEF RenOK, RenPlaces
  <2>4. UpOK(type, dir, dotdot, "ren5", l)
    BY <1>6 DEF UpOK
  <2>5. Meant("ren5", l)'
    BY <2>1, <1>8, <1>11, SameMeant DEF DirsMeant, LinksMeant, UpMeant, Meant, Fits
  <2>6. RenLocks("ren5", l, <<>>) /\ \A i \in Inum : lock'[i] = IF i = RenLock("ren5", l) THEN p ELSE NoProc
    BY <1>2, <1>10, <1>16, RenShapes DEF RenLock
  <2>7. RInv(p)'
    BY <1>11, <1>16, <2>3, <2>4, <2>5, <2>6, RStep DEF RMove
  <2> QED
    BY <2>7 DEF KInv
<1> QED
  BY <1>5, <1>13, <1>14, <1>15, <1>16

\* What counts it, leads to it and leads up from it follows.
LEMMA EntryMoved ==
    ASSUME NEW t, NEW n, NEW e, NEW u, NEW g, Typed(t, n, e, u, g), Sound(t, n, e, u, g),
           NEW o, NEW r, NEW i, NEW x, NEW s, NEW a, NEW A, NEW w, NEW m, NEW f,
           MovesEntry(t, n, e, u, o, r, i, x, s, a, A, w, m, f)
    PROVE  Sound(t, m, f, w, g)
<1> USE DEF MovesEntry
<1>0. /\ e \in Entries /\ NoInum \notin Inum /\ Empty.inum = NoInum /\ Empty.name = "." /\ a # "."
      /\ n \in [Inum -> Int] /\ IsDir(t, i) \in Nat
  BY InodeAssumption DEF Empty, IsDir, Typed
<1>1. /\ e[o][r].inum # NoInum /\ e[o][r].inum \in Inum /\ t[e[o][r].inum] # "free" /\ e[o][r].name \in Name
      /\ <<o, r>> \in NamesIn(e, e[o][r].inum) /\ t[o] = "dir"
      /\ t[e[o][r].inum] = "dir" => e[o][r].inum # Root /\ e[o][r].inum # o
  BY NamedLives
<1>2. i \in Inum /\ t[i] # "free" /\ (t[i] = "dir" => i # Root /\ NamesIn(e, i) = {<<o, r>>})
  BY <1>1 DEF Sound, ParentsFit
<1>3. ~(o = x /\ r = s)
  BY <1>0
<1>4. PICK h \in Entries : h[o][r] = Empty /\ \A y \in Inum, z \in Slot : y # o \/ z # r => h[y][z] = e[y][z]
  <2>1. PICK h : h = [y \in Inum |-> [z \in Slot |-> IF y = o /\ z = r THEN Empty ELSE e[y][z]]]
    OBVIOUS
  <2>2. \A y \in Inum, z \in Slot : h[y][z] = IF y = o /\ z = r THEN Empty ELSE e[y][z]
    BY <2>1
  <2>3. Empty \in [name : Name \cup {"."}, inum : Inum \cup {NoInum}]
    BY DEF Empty
  <2>4. h \in Entries
    BY <1>0, <2>1, <2>3 DEF Entries
  <2> QED
    BY <2>2, <2>4
<1>5. PICK v \in [Inum -> Int] : \A k \in Inum : v[k] = n[k] - Is(i, k) - (IF k = o THEN IsDir(t, i) ELSE 0)
  <2>1. PICK v : v = [k \in Inum |-> n[k] - Is(i, k) - (IF k = o THEN IsDir(t, i) ELSE 0)]
    OBVIOUS
  <2>2. \A k \in Inum : n[k] - Is(i, k) - (IF k = o THEN IsDir(t, i) ELSE 0) \in Int
    BY <1>0 DEF Is
  <2> QED
    BY <2>1, <2>2
<1>6. Typed(t, v, h, u, g)
  BY <1>5 DEF Typed
<1>7. Sound(t, v, h, u, g)
  BY <1>2, <1>4, <1>5, Unnamed
<1>8. h[x][s] = Empty /\ \A z \in Slot : h[x][z].name # a
  BY <1>0, <1>3, <1>4
<1>9. t[i] = "dir" => /\ NamesIn(h, i) = {} /\ i # Root /\ w[i] = x
                      /\ x \in A /\ i \notin A /\ Above(t, h, u, A)
  <2>1. ASSUME NEW y \in Inum, NEW z \in Slot, h[y][z].inum # NoInum
        PROVE  ~(y = o /\ z = r) /\ e[y][z].inum = h[y][z].inum
    BY <1>0, <1>4, <2>1
  <2>2. \A k \in Inum : NamesIn(h, k) \subseteq NamesIn(e, k) \ {<<o, r>>}
    <3>1. ASSUME NEW k \in Inum, NEW b \in NamesIn(h, k) PROVE b \in NamesIn(e, k) \ {<<o, r>>}
      <4>1. PICK y \in Inum, z \in Slot : b = <<y, z>> /\ h[y][z].inum = k
        BY DEF NamesIn
      <4>2. ~(y = o /\ z = r) /\ e[y][z].inum = k
        BY <1>0, <2>1, <4>1
      <4> QED
        BY <4>1, <4>2 DEF NamesIn
    <3> QED
      BY <3>1
  <2>3. Above(t, e, u, A) => Above(t, h, u, A)
    BY <2>2 DEF Above
  <2> QED
    BY <1>2, <2>2, <2>3
<1>10. \A y \in Inum, z \in Slot : y # x \/ z # s => f[y][z] = h[y][z]
  BY <1>4
<1>11. \A k \in Inum : m[k] = v[k] + Is(i, k) + (IF k = x THEN IsDir(t, i) ELSE 0)
  <2>1. ASSUME NEW k \in Inum PROVE m[k] = v[k] + Is(i, k) + (IF k = x THEN IsDir(t, i) ELSE 0)
    BY <1>0, <1>5 DEF Is
  <2> QED
    BY <2>1
<1> QED
  BY <1>2, <1>6, <1>7, <1>8, <1>9, <1>10, <1>11, NewlyNamed

\* The entry of the new name is the only one that a replacement touches.
LEMMA ReplacedSlot ==
    ASSUME NEW d \in Entries, NEW l, l.dp \in Inum, l.name \in Name, Replaces(d, l)
    PROVE  \E s \in Slot :
              /\ d[l.dp][s] = [name |-> l.name, inum |-> l.xip] /\ l.xip # NoInum /\ l.xip # l.ip /\ l.xip # l.dp
              /\ \A z \in Slot : d[l.dp][z].name = l.name <=> z = s
              /\ (CHOOSE z \in Slot : d[l.dp][z].name = l.name) = s
<1>1. l.xip \in Inum \ {l.ip, l.dp} /\ NoInum \notin Inum
  BY InodeAssumption DEF Replaces
<1>2. PICK s \in Slot : /\ d[l.dp][s] = [name |-> l.name, inum |-> l.xip]
                        /\ \A z \in Slot : d[l.dp][z].name = l.name => z = s
  BY DEF Replaces
<1>3. \A z \in Slot : d[l.dp][z].name = l.name <=> z = s
  BY <1>2
<1>4. (CHOOSE z \in Slot : d[l.dp][z].name = l.name) = s
  BY <1>3
<1> QED
  BY <1>1, <1>2, <1>3, <1>4

LEMMA RRenameReplace ==
    ASSUME IInv, IInv', NEW p \in Proc, RInv(p), RenameReplace(p)
    PROVE  KInv'
<1>1. PICK l : l = loc[p]
  OBVIOUS
<1>2. PICK d, x : d = l.dp /\ x = l.xip
  OBVIOUS
<1>3. PICK all : all = <<Put(x), Unlock(d), Put(d), Put(l.olddp), Put(l.ip)>>
  OBVIOUS
<1>4. PICK less : less = IsDir(type, x)
  OBVIOUS
<1>5. /\ pc[p] = "ren4" /\ todo[p] = <<>> /\ l \in Local /\ l.call = "rename_alone"
      /\ RenOK(type, dir, dotdot, "ren4", l) /\ UpOK(type, dir, dotdot, "ren4", l)
      /\ PlaceOK("ren4", l, fd[p], <<>>) /\ DirOK(type, "ren4", l)
      /\ type[l.ip] # "free" /\ l.slot \in Slot /\ dir[l.olddp][l.slot].inum = l.ip
      /\ \A i \in Inum : lock[i] = IF i = RenLock("ren4", l) THEN p ELSE NoProc
  BY <1>1, RHere DEF RenameReplace, Locks, RenPlaces
<1>6. /\ d \in Inum /\ x \in Inum /\ l.name \in Name /\ NoInum \notin Inum /\ RenLock("ren4", l) = d
      /\ RenLock("ren5", l) = d /\ Replaces(dir, l)
  BY <1>2, <1>5, InodeAssumption DEF PlaceOK, DpPlaces, RenOK, RenLock
<1>7. Typed(type, nlink, dir, dotdot, gone) /\ Fits /\ dir \in Entries
  BY <1>5, EarlyPlaces, RTypes
<1>8. UNCHANGED <<type, dir, dotdot, gone, lock>>
  BY DEF RenameReplace
<1>9. \/ Return(p, all) /\ UNCHANGED nlink
      \/ /\ nlink' = [nlink EXCEPT ![x] = @ - 1, ![d] = @ - less]
         /\ Goto(p, "ren5", l, <<Put(x)>>)
  BY <1>1, <1>2, <1>3, <1>4, <1>6 DEF RenameReplace, IsDir
<1>10. CASE Return(p, all) /\ UNCHANGED nlink
  <2>1. Fits'
    BY <1>7, <1>8, <1>10 DEF Fits
  <2>2. \A i : Unlocks(i, all) <=> i = d
    <3>1. \A i : Unlocks(i, <<Put(x), Unlock(d), Put(d), Put(l.olddp), Put(l.ip)>>) <=> i = d
      BY RenShapes
    <3> QED
      BY <1>3, <3>1
  <2>3. \A place : TodoOK(place, NoCall, all)
    BY <1>3, RenShapes
  <2>4. \A i \in Inum : lock'[i] = IF Unlocks(i, all) THEN p ELSE NoProc
    BY <1>5, <1>6, <1>8, <2>2
  <2>5. JInv'
    BY <1>10, <2>1, <2>3, <2>4, RReturn
  <2> QED
    BY <2>5 DEF KInv
<1>11. CASE /\ nlink' = [nlink EXCEPT ![x] = @ - 1, ![d] = @ - less]
            /\ Goto(p, "ren5", l, <<Put(x)>>)
  <2>1. PICK s \in Slot :
              /\ dir[d][s] = [name |-> l.name, inum |-> x] /\ x # NoInum /\ x # l.ip /\ x # d
              /\ \A z \in Slot : dir[d][z].name = l.name <=> z = s
    BY <1>2, <1>6, <1>7, ReplacedSlot
  <2>2. PICK t, n, c, u, g : t = type /\ n = nlink /\ c = dir /\ u = dotdot /\ g = gone
    OBVIOUS
  <2>3. PICK m : m = nlink'
    OBVIOUS
  <2>4. PICK e : e = DirsMeant(c, "ren5", l)
    OBVIOUS
  <2>5. Typed(t, n, c, u, g) /\ Sound(t, n, c, u, g) /\ c \in Entries
    BY <1>7, <2>2 DEF Fits
  <2>6. e \in Entries
    BY <1>2, <1>6, <2>5, MeantTyped, <2>4 DEF Pointer, Typed
  <2>7. /\ \A y \in Inum : y # d => e[y] = c[y]
        /\ \A z \in Slot : e[d][z] = IF c[d][z].name = l.name THEN Empty ELSE c[d][z]
    <3>1. l.xip # NoInum /\ l.dp = d
      BY <1>2, <2>1
    <3>2. ASSUME NEW y \in Inum, y # d PROVE e[y] = c[y]
      BY <2>4, <2>5, <3>1, <3>2, DirsAt
    <3>3. \A z \in Slot : e[d][z] = IF c[d][z].name = l.name THEN Empty ELSE c[d][z]
      BY <1>6, <2>4, <2>5, <3>1, DirsAt
    <3> QED
      BY <3>2, <3>3
  <2>8. e[d][s] = Empty /\ \A y \in Inum, z \in Slot : y # d \/ z # s => e[y][z] = c[y][z]
    BY <1>6, <2>1, <2>2, <2>7
  <2>9. \A k \in Inum : m[k] = n[k] - Is(x, k) - (IF k = d THEN IsDir(t, x) ELSE 0)
    <3>1. less = IsDir(t, x) /\ less \in Int /\ nlink \in [Inum -> Int]
      BY <1>4, <1>7, <2>2 DEF IsDir, Typed
    <3>2. ASSUME NEW k \in Inum PROVE nlink'[k] = nlink[k] - Is(x, k) - (IF k = d THEN less ELSE 0)
      BY <3>1, <1>6, <1>11, <2>1 DEF Is
    <3> QED
      BY <2>2, <2>3, <3>1, <3>2
  <2>10. Sound(t, m, e, u, g)
    BY <2>1, <2>2, <1>6, <2>5, <2>6, <2>8, <2>9, Unnamed
  <2>11. Meant("ren5", l)'
    BY <1>8, <2>2, <2>3, <2>4, <2>10 DEF LinksMeant, UpMeant, Meant
  <2>12. RenOK(type, dir, dotdot, "ren5", l)
    BY <1>2, <2>1, <1>5, <1>6 DEF RenPlaces, Found, Walks, RenOK
  <2>13. UpOK(type, dir, dotdot, "ren5", l)
    BY <1>5 DEF UpOK
  <2>14. RenLocks("ren5", l, <<Put(x)>>)
    <3>1. DOMAIN <<Put(x)>> = {1} /\ <<Put(x)>>[1] = Put(x)
      OBVIOUS
    <3>2. Put(x).ino = x
      BY DEF Put
    <3> QED
      BY <1>6, <2>1, <3>1, <3>2, RenShapes DEF RenLocks
  <2>15. \A i \in Inum : lock'[i] = IF i = RenLock("ren5", l) THEN p ELSE NoProc
    BY <1>5, <1>6, <1>8
  <2>16. RInv(p)'
    BY <1>8, <1>11, <2>11, <2>12, <2>13, <2>14, <2>15, RStep DEF RMove
  <2> QED
    BY <2>16 DEF KInv
<1> QED
  BY <1>9, <1>10, <1>11

LEMMA EnterSlot ==
    ASSUME IInv, NEW p \in Proc, RInv(p), At(p, "ren5"), NEW l, l = loc[p]
    PROVE  \E s \in Slot : NewSlot(dir, l, s) /\ Entered(l) = [dir EXCEPT ![l.dp][s] = [name |-> l.name, inum |-> l.ip]]
<1>1. /\ l \in Local /\ RenOK(type, dir, dotdot, "ren5", l) /\ Meant("ren5", l)
      /\ PlaceOK("ren5", l, fd[p], <<>>)
  BY RHere DEF RenPlaces
<1>2. l.dp \in Inum /\ l.name \in Name /\ dir \in Entries
  BY <1>1, RTypes DEF PlaceOK, DpPlaces
<1>3. CASE l.xip = NoInum
  <2>1. \A s \in Slot : dir[l.dp][s].name # l.name
    BY <1>1, <1>3 DEF RenOK
  <2>2. NamesInv
    BY <1>3, <1>1 DEF DirsMeant, Meant, Sound, NamesFit, NamesInv
  <2>3. PICK s : s = EmptySlot(l.dp)
    OBVIOUS
  <2>4. s \in Slot /\ dir[l.dp][s] = Empty
    <3>1. PICK d, n : d = l.dp /\ n = l.name
      OBVIOUS
    <3>2. EmptySlot(d) \in Slot /\ dir[d][EmptySlot(d)] = Empty
      BY <1>2, <2>1, <2>2, <3>1, RoomLeft
    <3> QED
      BY <2>3, <3>1, <3>2
  <2>5. Entered(l) = [dir EXCEPT ![l.dp][s] = [name |-> l.name, inum |-> l.ip]]
    BY <1>3, <2>3 DEF Entered, DirLink
  <2> QED
    BY <1>3, <2>1, <2>4, <2>5 DEF NewSlot
<1>4. CASE l.xip # NoInum
  <2>1. Replaces(dir, l)
    BY <1>1, <1>4 DEF RenOK
  <2>2. PICK s \in Slot :
            /\ dir[l.dp][s] = [name |-> l.name, inum |-> l.xip] /\ l.xip # NoInum /\ l.xip # l.ip /\ l.xip # l.dp
            /\ \A z \in Slot : dir[l.dp][z].name = l.name <=> z = s
            /\ (CHOOSE z \in Slot : dir[l.dp][z].name = l.name) = s
    BY <1>2, <2>1, ReplacedSlot
  <2>3. Entered(l) = [dir EXCEPT ![l.dp][s] = [name |-> l.name, inum |-> l.ip]]
    BY <1>4, <2>2 DEF Entered, SlotOf
  <2> QED
    BY <1>4, <2>2, <2>3 DEF NewSlot
<1> QED
  BY <1>3, <1>4

LEMMA EnterMeant ==
    ASSUME NEW t, NEW n, NEW c, NEW u, NEW g, Typed(t, n, c, u, g),
           NEW l, NEW s, NEW k, NEW x, NEW m, Enters(t, n, c, u, g, l, s, k, x, m)
    PROVE  /\ Sound(t, LinksMeant(t, m, "ren6", k), DirsMeant(x, "ren6", k), UpMeant(t, u, "ren6", k), g)
           /\ x[l.olddp][l.slot].inum = l.ip
           /\ t[l.ip] = "dir" => u[l.ip] = l.olddp
           /\ Moving(t, l) => u[l.ip] # l.ip
<1> USE DEF Enters
<1>0. /\ c \in Entries /\ n \in [Inum -> Int] /\ u \in [Inum -> Inum \cup {NoInum}] /\ NoInum \notin Inum
      /\ Empty.inum = NoInum /\ Empty.name = "." /\ l.name # "." /\ l.dp \in Pointer
  BY InodeAssumption DEF Empty, Typed, Pointer
<1>1. PICK o, r, i, d, a : o = l.olddp /\ r = l.slot /\ i = l.ip /\ d = l.dp /\ a = l.name
  OBVIOUS
<1>2. PICK e : e = DirsMeant(c, "ren5", l)
  OBVIOUS
<1>3. Typed(t, n, e, u, g) /\ Sound(t, n, e, u, g) /\ e \in Entries
  BY <1>0, MeantTyped, <1>2 DEF LinksMeant, UpMeant, Typed
<1>4. ~(o = d /\ r = s)
  BY <1>0, <1>1 DEF NewSlot
<1>5. /\ e[d][s] = Empty /\ \A z \in Slot : e[d][z].name # a
      /\ \A y \in Inum, z \in Slot : ~(y = d /\ z = s) => e[y][z] = c[y][z]
  <2>1. CASE l.xip = NoInum
    BY <1>2, <2>1, <1>1 DEF DirsMeant, NewSlot
  <2>2. CASE l.xip # NoInum
    <3>1. \A y \in Inum : y # d => e[y] = c[y]
      BY <1>0, <1>1, <1>2, <2>2, DirsAt
    <3>2. \A z \in Slot : e[d][z] = IF c[d][z].name = a THEN Empty ELSE c[d][z]
      BY <1>0, <1>1, <1>2, <2>2, DirsAt
    <3>3. \A z \in Slot : c[d][z].name = a <=> z = s
      BY <1>1, <2>2 DEF NewSlot
    <3> QED
      BY <1>0, <1>1, <3>1, <3>2, <3>3
  <2> QED
    BY <2>1, <2>2
<1>6. e[o][r].inum = i /\ i # NoInum /\ i \in Inum
  BY <1>0, <1>1, <1>4, <1>5
<1>7. t[i] = "dir" => u[i] = o /\ i # o
  <2>1. t[i] = "dir" => u[i] = o
    BY <1>1, <1>3, <1>6 DEF Sound, ParentsFit
  <2>2. e[o][r].inum # NoInum
    BY <1>6
  <2>3. /\ e[o][r].inum \in Inum /\ t[e[o][r].inum] # "free" /\ e[o][r].name \in Name
        /\ <<o, r>> \in NamesIn(e, e[o][r].inum) /\ t[o] = "dir"
        /\ t[e[o][r].inum] = "dir" => e[o][r].inum # Root /\ e[o][r].inum # o
    BY <1>1, <1>3, <2>2, NamedLives
  <2> QED
    BY <1>6, <2>1, <2>3
<1>8. PICK A \in SUBSET Inum : t[i] = "dir" => d \in A /\ i \notin A /\ Above(t, e, u, A)
  <2>1. CASE t[i] = "dir"
    <3>1. PICK A \in SUBSET Inum : l.dp \in A /\ l.ip \notin A /\ Above(t, c, u, A)
      BY <1>1, <2>1 DEF UpOK
    <3>2. ASSUME NEW j \in Inum, NamesIn(e, j) # {} PROVE NamesIn(c, j) # {}
      <4>1. PICK b \in NamesIn(e, j) : TRUE
        BY <3>2
      <4>2. PICK y \in Inum, z \in Slot : b = <<y, z>> /\ e[y][z].inum = j
        BY DEF NamesIn
      <4>3. c[y][z].inum = j
        BY <1>0, <1>5, <4>2
      <4> QED
        BY <4>2, <4>3 DEF NamesIn
    <3>3. Above(t, e, u, A)
      BY <3>1, <3>2 DEF Above
    <3> QED
      BY <1>1, <3>1, <3>3
  <2> QED
    BY <2>1
<1>9. PICK w, f, v : w = UpMeant(t, u, "ren6", k) /\ f = DirsMeant(x, "ren6", k) /\ v = LinksMeant(t, m, "ren6", k)
  OBVIOUS
<1>10. Moving(t, k) <=> t[i] = "dir" /\ o # d
  BY <1>1 DEF Moving
<1>11. (t[i] = "dir" => w[i] = d) /\ \A j \in Inum : j # i => w[j] = u[j]
  BY <1>1, <1>9, <1>0, <1>6, <1>7, <1>10 DEF UpMeant
<1>12. f \in Entries
  <2>1. Typed(t, m, x, u, g) /\ k.dp \in Pointer /\ k.olddp \in Inum
    BY <1>0 DEF Typed
  <2>2. Typed(t, LinksMeant(t, m, "ren6", k), DirsMeant(x, "ren6", k), UpMeant(t, u, "ren6", k), g)
    BY <2>1, MeantTyped
  <2> QED
    BY <1>9, <2>2 DEF Typed
<1>13. x[d][s] = [name |-> a, inum |-> i] /\ \A y \in Inum, z \in Slot : ~(y = d /\ z = s) => x[y][z] = c[y][z]
  BY <1>0, <1>1 DEF Entries
<1>14. /\ \A y \in Inum : y # o => f[y] = x[y]
       /\ \A z \in Slot : f[o][z] = IF z = r THEN Empty ELSE x[o][z]
  <2>1. k.olddp = o /\ k.slot = r /\ o \in Inum
    BY <1>1
  <2>2. PICK h : h = [z \in Slot |-> IF z = k.slot THEN Empty ELSE x[k.olddp][z]]
    OBVIOUS
  <2>3. f = [x EXCEPT ![k.olddp] = h]
    BY <1>9, <2>2 DEF DirsMeant
  <2>4. DOMAIN x = Inum /\ \A z \in Slot : h[z] = IF z = k.slot THEN Empty ELSE x[k.olddp][z]
    BY <2>2 DEF Entries
  <2> QED
    BY <2>1, <2>3, <2>4
<1>15. /\ f[o][r] = Empty /\ f[d][s] = [name |-> a, inum |-> i]
       /\ \A y \in Inum, z \in Slot : ~(y = o /\ z = r) /\ ~(y = d /\ z = s) => f[y][z] = e[y][z]
  <2>1. f[o][r] = Empty
    BY <1>1, <1>14
  <2>2. f[d][s] = x[d][s]
    BY <1>1, <1>4, <1>14
  <2>3. ASSUME NEW y \in Inum, NEW z \in Slot, ~(y = o /\ z = r), ~(y = d /\ z = s) PROVE f[y][z] = e[y][z]
    <3>1. f[y][z] = x[y][z]
      BY <1>14, <2>3
    <3>2. x[y][z] = c[y][z] /\ e[y][z] = c[y][z]
      BY <1>5, <1>13, <2>3
    <3> QED
      BY <3>1, <3>2
  <2> QED
    BY <1>13, <2>1, <2>2, <2>3
<1>16. \A j \in Inum : v[j] = n[j] - (IF j = o THEN IsDir(t, i) ELSE 0) + (IF j = d THEN IsDir(t, i) ELSE 0)
  <2>1. v = IF Moving(t, k) THEN [m EXCEPT ![o] = m[o] - 1] ELSE m
    BY <1>1, <1>9 DEF LinksMeant
  <2>2. Moving(t, l) <=> Moving(t, k)
    BY DEF Moving
  <2>3. IsDir(t, i) = IF t[i] = "dir" THEN 1 ELSE 0
    BY <1>6 DEF IsDir
  <2>4. ASSUME NEW j \in Inum
        PROVE  v[j] = n[j] - (IF j = o THEN IsDir(t, i) ELSE 0) + (IF j = d THEN IsDir(t, i) ELSE 0)
    <3>1. n[j] \in Int /\ m[j] \in Int
      BY <1>0
    <3>2. v[j] = IF Moving(t, k) /\ j = o THEN m[j] - 1 ELSE m[j]
      BY <2>1
    <3>3. m[j] = n[j] + (IF j = d /\ Moving(t, k) THEN 1 ELSE 0)
      BY <1>1, <2>2
    <3> QED
      BY <1>10, <2>3, <3>1, <3>2, <3>3
  <2> QED
    BY <2>4
<1>17. Sound(t, v, f, w, g)
  <2>1. o \in Inum /\ r \in Slot /\ d \in Inum /\ t[d] = "dir" /\ a \in Name
    BY <1>1
  <2>2. MovesEntry(t, n, e, u, o, r, i, d, s, a, A, w, v, f)
    BY <1>5, <1>6, <1>8, <1>11, <1>12, <1>15, <1>16, <2>1 DEF MovesEntry
  <2> QED
    BY <1>3, <2>2, EntryMoved
<1>18. x[l.olddp][l.slot].inum = l.ip
  BY <1>1, <1>4, <1>13
<1>19. t[l.ip] = "dir" => u[l.ip] = l.olddp /\ l.ip # l.olddp
  BY <1>1, <1>7
<1> QED
  BY <1>9, <1>17, <1>18, <1>19 DEF Moving

LEMMA RRenameEnter ==
    ASSUME IInv, IInv', NEW p \in Proc, RInv(p), RenameEnter(p)
    PROVE  RInv(p)'
<1>1. PICK l : l = loc[p]
  OBVIOUS
<1>2. PICK k : k = [l EXCEPT !.at = l.olddp]
  OBVIOUS
<1>3. PICK x : x = dir'
  OBVIOUS
<1>4. /\ At(p, "ren5") /\ UNCHANGED <<type, dotdot, gone>>
      /\ x = Entered(l)
      /\ nlink' = [nlink EXCEPT ![l.dp] = @ + IF Moved(l) THEN 1 ELSE 0]
      /\ lock' = [lock EXCEPT ![l.dp] = NoProc]
      /\ Goto(p, "ren6", k, <<Put(l.dp)>>)
  BY <1>1, <1>2, <1>3 DEF RenameEnter, Entered
<1>5. /\ pc[p] = "ren5" /\ todo[p] = <<>> /\ l \in Local /\ l.call = "rename_alone"
      /\ RenOK(type, dir, dotdot, "ren5", l) /\ UpOK(type, dir, dotdot, "ren5", l) /\ Meant("ren5", l)
      /\ PlaceOK("ren5", l, fd[p], <<>>) /\ DirOK(type, "ren5", l)
      /\ type[l.ip] # "free" /\ l.slot \in Slot /\ dir[l.olddp][l.slot].inum = l.ip
      /\ \A i \in Inum : lock[i] = IF i = RenLock("ren5", l) THEN p ELSE NoProc
  BY <1>1, <1>4, RHere DEF RenPlaces
<1>6. /\ l.dp \in Inum /\ l.name \in Name /\ l.olddp \in Inum /\ l.ip \in Inum /\ type[l.dp] = "dir"
      /\ RenLock("ren5", l) = l.dp
  BY <1>5 DEF PlaceOK, DirOK, DpPlaces, OldPlaces, IpPlaces, RenLock
<1>7. PICK s \in Slot : NewSlot(dir, l, s) /\ x = [dir EXCEPT ![l.dp][s] = [name |-> l.name, inum |-> l.ip]]
  BY <1>1, <1>4, EnterSlot
<1>8. /\ k.ip = l.ip /\ k.dp = l.dp /\ k.olddp = l.olddp /\ k.slot = l.slot /\ k.call = l.call
  BY <1>2, <1>5 DEF Local
<1>9. PICK t, n, c, u, g : t = type /\ n = nlink /\ c = dir /\ u = dotdot /\ g = gone
  OBVIOUS
<1>10. PICK m : m = nlink'
  OBVIOUS
<1>11. /\ Typed(t, n, c, u, g) /\ NewSlot(c, l, s) /\ x \in Entries /\ m \in [Inum -> Int]
       /\ n \in [Inum -> Int] /\ UpOK(t, c, u, "ren5", l)
       /\ Sound(t, LinksMeant(t, n, "ren5", l), DirsMeant(c, "ren5", l), UpMeant(t, u, "ren5", l), g)
       /\ x = [c EXCEPT ![l.dp][s] = [name |-> l.name, inum |-> l.ip]]
       /\ t[l.dp] = "dir" /\ c[l.olddp][l.slot].inum = l.ip
  <2>1. Typed(t, n, c, u, g) /\ n \in [Inum -> Int]
    BY <1>9, DiskTypes DEF Typed
  <2>2. x \in Entries /\ m \in [Inum -> Int]
    BY <1>3, <1>10 DEF IInv, TypeOK, Entries
  <2>3. Sound(t, LinksMeant(t, n, "ren5", l), DirsMeant(c, "ren5", l), UpMeant(t, u, "ren5", l), g)
    BY <1>5, <1>9 DEF Meant
  <2> QED
    BY <1>5, <1>6, <1>7, <1>9, <2>1, <2>2, <2>3
<1>12. \A i \in Inum : m[i] = n[i] + (IF i = l.dp /\ Moving(t, l) THEN 1 ELSE 0)
  <2>1. Moved(l) <=> Moving(t, l)
    BY <1>9 DEF Moved, Moving
  <2>2. m = [n EXCEPT ![l.dp] = n[l.dp] + (IF Moving(t, l) THEN 1 ELSE 0)]
    BY <1>4, <1>9, <1>10, <2>1
  <2>3. ASSUME NEW i \in Inum PROVE m[i] = n[i] + (IF i = l.dp /\ Moving(t, l) THEN 1 ELSE 0)
    BY <1>11, <1>6, <2>2
  <2> QED
    BY <2>3
<1>13. /\ Sound(t, LinksMeant(t, m, "ren6", k), DirsMeant(x, "ren6", k), UpMeant(t, u, "ren6", k), g)
       /\ x[l.olddp][l.slot].inum = l.ip
       /\ Moving(t, l) => u[l.ip] # l.ip
  <2>1. Enters(t, n, c, u, g, l, s, k, x, m)
    BY <1>5, <1>6, <1>8, <1>11, <1>12 DEF Enters
  <2> QED
    BY <1>11, <2>1, EnterMeant
<1>14. Meant("ren6", k)'
  BY <1>3, <1>4, <1>9, <1>10, <1>13 DEF Meant
<1>15. RenOK(type', dir', dotdot', "ren6", k)
  <2>1. /\ "ren6" \in RenPlaces /\ k.call = "rename_alone" /\ type'[k.ip] # "free"
        /\ k.slot \in Slot /\ dir'[k.olddp][k.slot].inum = k.ip
    BY <1>3, <1>4, <1>5, <1>8, <1>13 DEF RenPlaces
  <2>2. Moving(type', k) => dotdot'[k.ip] # k.ip
    BY <1>4, <1>8, <1>9, <1>13 DEF Moving
  <2>3. ~Walks("ren6", k, {"ren2"}) /\ Found("ren6", k)
    BY DEF Walks, Found, RenPlaces
  <2> QED
    BY <2>1, <2>2, <2>3 DEF RenOK
<1>16. UpOK(type', dir', dotdot', "ren6", k)
  BY DEF UpOK
<1>17. RenLocks("ren6", k, <<Put(l.dp)>>)
  BY RenShapes DEF RenLocks, RenLock
<1>18. \A i \in Inum : lock'[i] = IF i = RenLock("ren6", k) THEN p ELSE NoProc
  BY InodeAssumption, <1>4, <1>5, <1>6 DEF IInv, TypeOK, RenLock
<1> QED
  BY <1>4, <1>14, <1>15, <1>16, <1>17, <1>18, RStep DEF RMove

LEMMA RRenameClear ==
    ASSUME IInv, IInv', NEW p \in Proc, RInv(p), RenameClear(p)
    PROVE  KInv'
<1>1. PICK l : l = loc[p]
  OBVIOUS
<1>2. PICK k : k = [l EXCEPT !.at = l.ip]
  OBVIOUS
<1>3. PICK d : d = l.olddp
  OBVIOUS
<1>4. /\ At(p, "ren6") /\ UNCHANGED <<type, dotdot, gone, lock>>
      /\ dir' = [dir EXCEPT ![d][l.slot] = Empty]
      /\ nlink' = [nlink EXCEPT ![d] = @ - IF Moved(l) THEN 1 ELSE 0]
      /\ IF Moved(l) THEN Goto(p, "ren7", k, <<Put(d)>>) ELSE Return(p, <<Put(d), Put(l.ip)>>)
  BY <1>1, <1>2, <1>3 DEF RenameClear, Locks
<1>5. /\ pc[p] = "ren6" /\ todo[p] = <<>> /\ l \in Local /\ l.call = "rename_alone"
      /\ RenOK(type, dir, dotdot, "ren6", l) /\ Meant("ren6", l)
      /\ PlaceOK("ren6", l, fd[p], <<>>)
      /\ type[l.ip] # "free" /\ l.slot \in Slot
      /\ \A i \in Inum : lock[i] = IF i = RenLock("ren6", l) THEN p ELSE NoProc
  BY <1>1, <1>4, RHere DEF RenPlaces
<1>6. /\ d \in Inum /\ RenLock("ren6", l) = NoInum /\ NoInum \notin Inum /\ dir \in Entries
      /\ nlink \in [Inum -> Int] /\ dir' \in Entries /\ nlink' \in [Inum -> Int]
  BY <1>3, <1>5, InodeAssumption DEF PlaceOK, OldPlaces, RenLock, IInv, TypeOK, Entries
<1>7. Moved(l) <=> Moving(type, l)
  BY DEF Moved, Moving
<1>8. dir' = DirsMeant(dir, "ren6", l)
  <2>1. PICK h : h = [s \in Slot |-> IF s = l.slot THEN Empty ELSE dir[d][s]]
    OBVIOUS
  <2>2. DirsMeant(dir, "ren6", l) = [dir EXCEPT ![d] = h]
    BY <1>3, <2>1 DEF DirsMeant
  <2>3. [dir[d] EXCEPT ![l.slot] = Empty] = h
    BY <1>5, <1>6, <2>1 DEF Entries
  <2> QED
    BY <1>4, <2>2, <2>3
<1>9. nlink' = LinksMeant(type, nlink, "ren6", l)
  <2>1. CASE Moving(type, l)
    BY <1>3, <1>4, <1>7, <2>1 DEF LinksMeant
  <2>2. CASE ~Moving(type, l)
    <3>1. LinksMeant(type, nlink, "ren6", l) = nlink
      BY <2>2 DEF LinksMeant
    <3>2. nlink[d] - 0 = nlink[d]
      BY <1>6
    <3>3. nlink' = [nlink EXCEPT ![d] = nlink[d]]
      BY <1>4, <1>7, <2>2, <3>2
    <3> QED
      BY <1>6, <3>1, <3>3
  <2> QED
    BY <2>1, <2>2
<1>10. Sound(type', nlink', dir', UpMeant(type, dotdot, "ren6", l), gone')
  BY <1>4, <1>5, <1>8, <1>9 DEF Meant
<1>11. CASE Moved(l)
  <2>1. k.at = l.ip /\ k.ip = l.ip /\ k.dp = l.dp /\ k.olddp = l.olddp /\ k.call = l.call
    BY <1>2, <1>5 DEF Local
  <2>2. Moving(type, k) /\ Moving(type, l)
    BY <1>7, <1>11, <2>1 DEF Moving
  <2>3. Meant("ren7", k)'
    BY <1>4, <2>1, <2>2, <1>10 DEF DirsMeant, LinksMeant, UpMeant, Meant
  <2>4. RenOK(type', dir', dotdot', "ren7", k)
    <3>1. dotdot[l.ip] # l.ip
      BY <1>5, <2>2 DEF RenOK
    <3>2. Moving(type', k) /\ dotdot'[k.ip] # k.ip /\ type'[k.ip] # "free"
      BY <1>4, <1>5, <2>1, <2>2, <3>1
    <3>3. "ren7" \in RenPlaces /\ k.call = "rename_alone" /\ ~Walks("ren7", k, {"ren2"}) /\ Found("ren7", k)
      BY <1>5, <2>1 DEF RenPlaces, Walks, Found
    <3> QED
      BY <3>2, <3>3 DEF RenOK
  <2>5. UpOK(type', dir', dotdot', "ren7", k)
    BY DEF UpOK
  <2>6. RenLocks("ren7", k, <<Put(d)>>) /\ \A i \in Inum : lock'[i] = IF i = RenLock("ren7", k) THEN p ELSE NoProc
    BY <1>4, <1>5, <1>6, RenShapes DEF RenLocks, RenLock
  <2>7. Goto(p, "ren7", k, <<Put(d)>>)
    BY <1>4, <1>11
  <2>8. RInv(p)'
    BY <2>3, <2>4, <2>5, <2>6, <2>7, RStep DEF RMove
  <2> QED
    BY <2>8 DEF KInv
<1>12. CASE ~Moved(l)
  <2>1. UpMeant(type, dotdot, "ren6", l) = dotdot
    BY <1>7, <1>12 DEF UpMeant
  <2>2. Fits'
    BY <1>4, <1>10, <2>1 DEF Fits
  <2>3. PICK what : what = <<Put(d), Put(l.ip)>>
    OBVIOUS
  <2>4. NoUnlock(what)
    BY <2>3, RenShapes
  <2>5. (\A place : TodoOK(place, NoCall, what)) /\ \A i : ~Unlocks(i, what)
    BY <2>4, RenShapes
  <2>6. \A i \in Inum : lock'[i] = IF Unlocks(i, what) THEN p ELSE NoProc
    BY <1>4, <1>5, <1>6, <2>5
  <2>7. Return(p, what)
    BY <1>4, <1>12, <2>3
  <2>8. JInv'
    BY <2>2, <2>5, <2>6, <2>7, RReturn
  <2> QED
    BY <2>8 DEF KInv
<1> QED
  BY <1>11, <1>12

LEMMA RRenameDotDot ==
    ASSUME IInv, IInv', NEW p \in Proc, RInv(p), RenameDotDot(p)
    PROVE  KInv'
<1>1. PICK l : l = loc[p]
  OBVIOUS
<1>2. \/ /\ At(p, "ren7") /\ UNCHANGED disk
         /\ lock' = [lock EXCEPT ![l.ip] = p]
         /\ Goto(p, "ren8", l, <<Put(dotdot[l.ip])>>)
      \/ /\ At(p, "ren8") /\ UNCHANGED <<type, nlink, dir, gone>>
         /\ dotdot' = [dotdot EXCEPT ![l.ip] = l.dp]
         /\ lock' = [lock EXCEPT ![l.ip] = NoProc]
         /\ Return(p, <<Put(l.ip)>>)
  BY <1>1 DEF RenameDotDot, Locks
<1>3. lock \in [Inum -> Proc \cup {NoProc}] /\ NoInum \notin Inum /\ dotdot \in [Inum -> Inum \cup {NoInum}]
  BY InodeAssumption DEF IInv, TypeOK
<1>4. CASE /\ At(p, "ren7") /\ UNCHANGED disk
           /\ lock' = [lock EXCEPT ![l.ip] = p]
           /\ Goto(p, "ren8", l, <<Put(dotdot[l.ip])>>)
  <2>1. /\ l \in Local /\ l.call = "rename_alone" /\ RenOK(type, dir, dotdot, "ren7", l) /\ Meant("ren7", l)
        /\ PlaceOK("ren7", l, fd[p], <<>>) /\ type[l.ip] # "free"
        /\ \A i \in Inum : lock[i] = IF i = RenLock("ren7", l) THEN p ELSE NoProc
    BY <1>1, <1>4, RHere DEF RenPlaces
  <2>2. UNCHANGED <<type, nlink, dir, dotdot, gone>>
    BY <1>4 DEF disk
  <2>3. Meant("ren8", l)'
    BY <2>1, <2>2, SameMeant DEF DirsMeant, LinksMeant, UpMeant, Meant
  <2>4. Moving(type, l) /\ dotdot[l.ip] # l.ip
    BY <2>1 DEF RenOK
  <2>5. RenOK(type, dir, dotdot, "ren8", l)
    BY <2>1, <2>4 DEF RenPlaces, Walks, Found, RenOK
  <2>6. UpOK(type, dir, dotdot, "ren8", l)
    BY DEF UpOK
  <2>7. RenLocks("ren8", l, <<Put(dotdot[l.ip])>>)
    <3>1. PICK b : b = dotdot[l.ip]
      OBVIOUS
    <3>2. DOMAIN <<Put(b)>> = {1} /\ <<Put(b)>>[1] = Put(b)
      OBVIOUS
    <3>3. Put(b).ino = b
      BY DEF Put
    <3>4. NoUnlock(<<Put(b)>>)
      BY RenShapes
    <3> QED
      BY <2>4, <3>1, <3>2, <3>3, <3>4 DEF RenLocks, RenLock
  <2>8. l.ip \in Inum /\ RenLock("ren7", l) = NoInum /\ RenLock("ren8", l) = l.ip
    BY <2>1 DEF PlaceOK, IpPlaces, RenLock
  <2>9. \A i \in Inum : lock'[i] = IF i = RenLock("ren8", l) THEN p ELSE NoProc
    BY <1>3, <1>4, <2>1, <2>8
  <2>10. PICK what : what = <<Put(dotdot[l.ip])>>
    OBVIOUS
  <2>11. Goto(p, "ren8", l, what) /\ RenLocks("ren8", l, what)
    BY <1>4, <2>7, <2>10
  <2>12. RInv(p)'
    BY <2>2, <2>3, <2>5, <2>6, <2>9, <2>11, RStep DEF RMove
  <2> QED
    BY <2>12 DEF KInv
<1>5. CASE /\ At(p, "ren8") /\ UNCHANGED <<type, nlink, dir, gone>>
           /\ dotdot' = [dotdot EXCEPT ![l.ip] = l.dp]
           /\ lock' = [lock EXCEPT ![l.ip] = NoProc]
           /\ Return(p, <<Put(l.ip)>>)
  <2>1. /\ l \in Local /\ RenOK(type, dir, dotdot, "ren8", l) /\ Meant("ren8", l)
        /\ PlaceOK("ren8", l, fd[p], <<>>)
        /\ \A i \in Inum : lock[i] = IF i = RenLock("ren8", l) THEN p ELSE NoProc
    BY <1>1, <1>5, RHere DEF RenPlaces
  <2>2. Moving(type, l)
    BY <2>1 DEF RenOK
  <2>3. Fits'
    BY <1>5, <2>2, <2>1 DEF DirsMeant, LinksMeant, UpMeant, Meant, Fits
  <2>4. NoUnlock(<<Put(l.ip)>>) /\ RenLock("ren8", l) = l.ip
    BY RenShapes DEF RenLock
  <2>5. (\A place : TodoOK(place, NoCall, <<Put(l.ip)>>)) /\ \A i : ~Unlocks(i, <<Put(l.ip)>>)
    BY <2>4, RenShapes
  <2>6. \A i \in Inum : lock'[i] = IF Unlocks(i, <<Put(l.ip)>>) THEN p ELSE NoProc
    BY <1>3, <1>5, <2>1, <2>4, <2>5
  <2>7. JInv'
    BY <1>5, <2>3, <2>5, <2>6, RReturn
  <2> QED
    BY <2>7 DEF KInv
<1> QED
  BY <1>2, <1>4, <1>5

-----------------------------------------------------------------------------
(* Links: the invariant of programs whose rename()s run alone *)

\* While a rename() runs no call begins, and the others can only give back.
LEMMA RenamingSteps ==
    ASSUME IInv, NEW p \in Proc, RInv(p), Next
    PROVE  Walk(p) \/ Renames(p) \/ \E r \in Proc : Close(r) \/ PutCheck(r) \/ Release(r)
<1>1. PICK r \in Proc : Plain(r) \/ Renames(r)
  BY DEF Next, Plain, Renames
<1>2. ~Call(r)
  BY RTypes DEF Renaming, MayBegin, Call
<1>3. IF r = p THEN pc[r] \in RenPlaces \cup {"walk"} ELSE pc[r] \in {"user", "return"}
  BY RTypes DEF RInv, Quiet, Walks
<1>4. pc[r] \notin {"create", "created", "createold", "open", "chdir", "chdir2", "link1", "link2", "linkbad",
                    "unlink", "unlink2", "unlink3"}
  BY <1>3 DEF RenPlaces
<1>5. Plain(r) => Close(r) \/ Walk(r) \/ PutCheck(r) \/ Release(r)
  BY <1>2, <1>4 DEF Plain, Create, Created, Open, Chdir, ChdirDone, LinkOld, LinkNew, LinkBad, Unlink,
     UnlinkEntry, UnlinkInode, Locks, At
<1>6. r # p => ~Walk(r) /\ ~Renames(r)
  BY <1>3 DEF Walk, Renames, RenameOld, RenameType, RenameCycle, RenameNew, RenameReplace, RenameEnter,
     RenameClear, RenameDotDot, Locks, At
<1> QED
  BY <1>1, <1>5, <1>6

LEMMA RenameNext ==
    ASSUME IInv, IInv', NEW p \in Proc, RInv(p), [Next]_vars
    PROVE  KInv'
<1>1. CASE UNCHANGED vars
  <2>1. UNCHANGED <<type, nlink, dir, dotdot, gone>> /\ UNCHANGED <<pc, loc, todo, lock>>
    BY <1>1 DEF vars, disk
  <2>2. Meant(pc[p], loc[p])'
    BY <2>1 DEF RInv, Meant
  <2>3. RInv(p)'
    BY <2>1, <2>2 DEF RInv, Quiet
  <2> QED
    BY <2>3 DEF KInv
<1>2. CASE \E r \in Proc : Close(r) \/ PutCheck(r) \/ Release(r)
  BY <1>2, RClose, RPut, RRelease DEF KInv
<1>3. CASE RenameEnter(p)
  BY <1>3, RRenameEnter DEF KInv
<1>4. CASE Walk(p) \/ (Renames(p) /\ ~RenameEnter(p))
  BY <1>4, RWalk, RRenameOld, RRenameType, RRenameCycle, RRenameNew, RRenameReplace, RRenameClear,
     RRenameDotDot DEF Renames
<1> QED
  BY <1>1, <1>2, <1>3, <1>4, RenamingSteps

LEMMA LinksNext ==
    ASSUME RenamesAlone, IInv, IInv', KInv, LiveLocks, [Next]_vars
    PROVE  KInv' /\ LiveLocks'
<1>1. LiveLocks'
  <2>1. CASE UNCHANGED vars
    BY <2>1 DEF vars, disk, LiveLocks
  <2> QED
    BY <2>1, LiveStep
<1>2. CASE \E p \in Proc : RInv(p)
  BY <1>1, <1>2, RenameNext
<1>3. CASE JInv /\ \E p \in Proc : Begins(p)
  BY <1>1, <1>3, RenameBegins DEF KInv
<1>4. CASE JInv /\ \A p \in Proc : ~Begins(p)
  BY <1>1, <1>4, NextLinks DEF KInv
<1> QED
  BY <1>2, <1>3, <1>4 DEF KInv

-----------------------------------------------------------------------------
(* Order of locks while a rename() runs *)

LEMMA QuietPuts ==
    ASSUME NEW s, NoUnlock(s)
    PROVE  PutsBefore(s)
  BY DEF NoUnlock, PutsBefore

\* A step of rename() that gives no lock back on its way.
LEMMA ROrder ==
    ASSUME IInv, OrderInv, NEW p \in Proc, NEW what, NoUnlock(what),
           \/ Return(p, what)
           \/ \E place, l : /\ Goto(p, place, l, what)
                            /\ place \in RenPlaces \/ (place = "walk" /\ l.then \in {"ren1", "ren2"})
    PROVE  OrderInv'
<1>1. PutsBefore(what)
  BY QuietPuts
<1>2. CASE Return(p, what)
  BY <1>1, <1>2, OrderReturn
<1>3. ASSUME NEW place, NEW l, Goto(p, place, l, what),
             place \in RenPlaces \/ (place = "walk" /\ l.then \in {"ren1", "ren2"})
      PROVE  OrderInv'
  BY <1>3, <1>1, OrderGoto DEF NamedOK, Walks, LockedAt, RenPlaces
<1> QED
  BY <1>2, <1>3

\* A step of rename() that returns with the new directory still locked.
LEMMA ROrderLocked ==
    ASSUME IInv, OrderInv, NEW p \in Proc, NEW x, NEW y, NEW z, NEW w, x # y,
           Return(p, <<Put(x), Unlock(y), Put(y), Put(z), Put(w)>>)
    PROVE  OrderInv'
<1>1. DOMAIN <<Put(x), Unlock(y), Put(y), Put(z), Put(w)>> = {1, 2, 3, 4, 5}
  OBVIOUS
<1>2. Put(x).ino = x /\ Unlock(y).ino = y /\ \A a : Put(a).op = "put"
  BY DEF Put, Unlock
<1>3. PutsBefore(<<Put(x), Unlock(y), Put(y), Put(z), Put(w)>>)
  BY <1>1, <1>2 DEF PutsBefore
<1> QED
  BY <1>3, OrderReturn

LEMMA RWalkOrder ==
    ASSUME IInv, OrderInv, NEW p \in Proc, RInv(p), Walk(p)
    PROVE  OrderInv'
<1>1. PICK l : l = loc[p]
  OBVIOUS
<1>2. l \in Local /\ l.then \in {"ren1", "ren2"}
  BY <1>1, RTypes, Types DEF Walk, Locks, At, RenPlaces, Walks
<1>3. \/ Return(p, <<Put(l.at)>>)
      \/ Return(p, <<Put(l.at), Put(l.olddp), Put(l.ip)>>)
      \/ Goto(p, l.then, [l EXCEPT !.name = Head(l.path), !.path = <<>>], <<>>)
      \/ \E x : Goto(p, l.then, [l EXCEPT !.at = x, !.path = Tail(l.path)], <<Put(l.at)>>)
      \/ \E x : Goto(p, "walk", [l EXCEPT !.at = x, !.path = Tail(l.path)], <<Put(l.at)>>)
  BY <1>1, <1>2 DEF Walk, WalkFails
<1>4. l.then \in RenPlaces /\ \A x : [l EXCEPT !.at = x, !.path = Tail(l.path)].then = l.then
  BY <1>2 DEF RenPlaces, Local
<1>5. NoUnlock(<<>>) /\ NoUnlock(<<Put(l.at)>>) /\ NoUnlock(<<Put(l.at), Put(l.olddp), Put(l.ip)>>)
  BY RenShapes
<1>6. CASE Return(p, <<Put(l.at)>>) \/ Return(p, <<Put(l.at), Put(l.olddp), Put(l.ip)>>)
  BY <1>5, <1>6, ROrder
<1>7. CASE Goto(p, l.then, [l EXCEPT !.name = Head(l.path), !.path = <<>>], <<>>)
  BY <1>4, <1>5, <1>7, ROrder
<1>8. ASSUME NEW x, NEW place, place \in {l.then, "walk"},
             Goto(p, place, [l EXCEPT !.at = x, !.path = Tail(l.path)], <<Put(l.at)>>)
      PROVE  OrderInv'
  <2>1. PICK k : k = [l EXCEPT !.at = x, !.path = Tail(l.path)]
    OBVIOUS
  <2>2. k.then \in {"ren1", "ren2"}
    BY <1>2, <1>4, <2>1
  <2> QED
    BY <1>4, <1>5, <1>8, <2>1, <2>2, ROrder
<1> QED
  BY <1>3, <1>6, <1>7, <1>8

LEMMA RNewOrder ==
    ASSUME IInv, OrderInv, NEW p \in Proc, RInv(p), RenameNew(p)
    PROVE  OrderInv'
<1>1. PICK l : l = loc[p]
  OBVIOUS
<1>2. PICK d, x : d = l.dp /\ x = Lookup(d, l.name)
  OBVIOUS
<1>3. \/ Return(p, <<Put(d), Put(l.olddp), Put(l.ip)>>)
      \/ x = l.ip /\ Return(p, <<Put(x), Unlock(d), Put(d), Put(l.olddp), Put(l.ip)>>)
      \/ \E m : Goto(p, "ren4", m, <<>>)
      \/ Goto(p, "ren5", l, <<>>)
  BY <1>1, <1>2 DEF RenameNew
<1>4. /\ pc[p] = "ren3" /\ l \in Local /\ PlaceOK("ren3", l, fd[p], <<>>) /\ DirOK(type, "ren3", l)
  BY <1>1, RHere DEF RenameNew, Locks, RenPlaces
<1>5. Typed(type, nlink, dir, dotdot, gone) /\ Fits
  BY <1>4, EarlyPlaces, RTypes
<1>6. d \in Inum /\ l.name \notin {".", ".."} /\ type[d] = "dir" /\ l.ip \in Inum /\ l.ip # NoInum
  BY <1>2, <1>4, InodeAssumption DEF PlaceOK, DpPlaces, IpPlaces, DirOK
<1>7. x = l.ip => x # d
  <2>1. SUFFICES ASSUME x = l.ip, x = d PROVE FALSE
    OBVIOUS
  <2>2. PICK s \in Slot : dir[d][s].inum = x
    BY <1>2, <1>6, <2>1 DEF Lookup
  <2>3. x # NoInum /\ type[x] = "dir"
    BY <1>6, <2>1
  <2>4. x # d
    BY <1>5, <1>6, <2>2, <2>3, NamedHere
  <2> QED
    BY <2>1, <2>4
<1>8. NoUnlock(<<>>) /\ NoUnlock(<<Put(d), Put(l.olddp), Put(l.ip)>>)
  BY RenShapes
<1>9. CASE x = l.ip /\ Return(p, <<Put(x), Unlock(d), Put(d), Put(l.olddp), Put(l.ip)>>)
  BY <1>7, <1>9, ROrderLocked
<1>10. CASE Return(p, <<Put(d), Put(l.olddp), Put(l.ip)>>)
  BY <1>8, <1>10, ROrder
<1>11. CASE (\E m : Goto(p, "ren4", m, <<>>)) \/ Goto(p, "ren5", l, <<>>)
  BY <1>8, <1>11, ROrder DEF RenPlaces
<1> QED
  BY <1>3, <1>9, <1>10, <1>11

LEMMA RReplaceOrder ==
    ASSUME IInv, OrderInv, NEW p \in Proc, RInv(p), RenameReplace(p)
    PROVE  OrderInv'
<1>1. PICK l : l = loc[p]
  OBVIOUS
<1>2. \/ Return(p, <<Put(l.xip), Unlock(l.dp), Put(l.dp), Put(l.olddp), Put(l.ip)>>)
      \/ Goto(p, "ren5", l, <<Put(l.xip)>>)
  BY <1>1 DEF RenameReplace
<1>3. l.xip # l.dp
  BY <1>1, RTypes DEF RenameReplace, Locks, At, RenOK, Replaces
<1>4. NoUnlock(<<Put(l.xip)>>)
  BY RenShapes
<1>5. CASE Goto(p, "ren5", l, <<Put(l.xip)>>)
  BY <1>4, <1>5, ROrder DEF RenPlaces
<1> QED
  BY <1>2, <1>3, <1>5, ROrderLocked

LEMMA ROtherOrder ==
    ASSUME IInv, OrderInv, NEW p \in Proc,
           \/ RenameOld(p) \/ RenameType(p) \/ RenameCycle(p) \/ RenameEnter(p) \/ RenameClear(p)
           \/ RenameDotDot(p)
    PROVE  OrderInv'
<1>1. /\ \A x : NoUnlock(<<Put(x)>>)
      /\ \A x, y, z : NoUnlock(<<Put(x), Put(y)>>) /\ NoUnlock(<<Put(x), Put(y), Put(z)>>)
      /\ NoUnlock(<<>>)
  BY RenShapes
<1>2. PICK l : l = loc[p] /\ l \in Local
  BY Types
<1>3. CASE RenameOld(p)
  <2>1. PICK d, i, start, s : d = l.at /\ i = Lookup(d, l.name) /\ start = Start(p, l.path2) /\ s = SlotOf(d, l.name)
    OBVIOUS
  <2>2. PICK k : k = [l EXCEPT !.olddp = d, !.ip = i, !.slot = s, !.at = start, !.path = l.path2.elems,
                               !.path2 = NoPath, !.then = "ren2"]
    OBVIOUS
  <2>3. k.then = "ren2"
    BY <1>2, <2>2 DEF Local
  <2>4. Return(p, <<Put(d)>>) \/ Goto(p, "walk", k, <<>>)
    BY <1>2, <1>3, <2>1, <2>2 DEF RenameOld
  <2> QED
    BY <1>1, <2>3, <2>4, ROrder
<1>4. CASE RenameType(p)
  BY <1>4, <1>1, ROrder DEF RenameType, RenPlaces
<1>5. CASE RenameCycle(p)
  BY FourPuts, <1>2, <1>5, <1>1, ROrder DEF RenameCycle, RenPlaces
<1>6. CASE RenameEnter(p)
  BY <1>6, <1>1, ROrder DEF RenameEnter, RenPlaces
<1>7. CASE RenameClear(p)
  BY <1>7, <1>1, ROrder DEF RenameClear, RenPlaces
<1>8. CASE RenameDotDot(p)
  BY <1>8, <1>1, ROrder DEF RenameDotDot, RenPlaces
<1> QED
  BY <1>3, <1>4, <1>5, <1>6, <1>7, <1>8

LEMMA OrderNext ==
    ASSUME LinksNamed, IInv, KInv, OrderInv, [Next]_vars
    PROVE  OrderInv'
<1>1. CASE JInv
  BY <1>1, NextOrder
<1>2. CASE UNCHANGED vars
  BY <1>2 DEF vars, OrderInv
<1>3. ASSUME Next, NEW p \in Proc, RInv(p) PROVE OrderInv'
  <2>1. CASE \E r \in Proc : Close(r) \/ PutCheck(r) \/ Release(r)
    BY <2>1, OpenOrder, PutCheckOrder, ReleaseOrder
  <2>2. CASE Walk(p) \/ Renames(p)
    BY <1>3, <2>2, RWalkOrder, RNewOrder, RReplaceOrder, ROtherOrder DEF Renames
  <2> QED
    BY <1>3, <2>1, <2>2, RenamingSteps
<1> QED
  BY <1>1, <1>2, <1>3 DEF KInv

\* Only a rename() waits for a lock that a rename() has, and never for its own.
LEMMA RenamesWait ==
    ASSUME IInv, NEW p \in Proc, RInv(p)
    PROVE  DeadlockOnlyInPut
<1>1. ASSUME NEW r \in Proc, NEW q \in Proc, WaitsFor(r, q), Needs(r) \in Inum
      PROVE  q = p /\ Needs(r) = RenLock(pc[p], loc[p])
  <2>1. lock[Needs(r)] = q /\ q # NoProc
    BY <1>1, InodeAssumption DEF WaitsFor
  <2>2. lock[Needs(r)] = IF Needs(r) = RenLock(pc[p], loc[p]) THEN p ELSE NoProc
    BY <1>1, RTypes
  <2> QED
    BY <2>1, <2>2
<1>2. ASSUME NEW r \in Proc PROVE Needs(r) \in Pointer
  <2>1. CASE todo[r] # <<>>
    <3>1. Head(todo[r]) \in Todo
      BY <2>1, Types
    <3> QED
      BY <2>1, <3>1 DEF Needs, Todo, Pointer
  <2>2. CASE todo[r] = <<>>
    BY Types, <2>2 DEF Local, Needs, Pointer
  <2> QED
    BY <2>1, <2>2
<1>3. ASSUME Needs(p) # NoInum, Needs(p) = RenLock(pc[p], loc[p]) PROVE FALSE
  <2>1. CASE todo[p] # <<>>
    <3>1. PICK s \in Seq(Todo) : s = todo[p]
      BY Types
    <3>2. 1 \in DOMAIN s /\ s[1] = Head(s)
      BY <2>1, <3>1
    <3>3. Needs(p) = Head(s).ino
      BY <1>3, <2>1, <3>1 DEF Needs
    <3>4. \A k \in DOMAIN s : s[k].ino # RenLock(pc[p], loc[p])
      BY <1>3, <3>1, RTypes DEF RenLocks
    <3> QED
      BY <1>3, <3>2, <3>3, <3>4
  <2>2. CASE todo[p] = <<>>
    <3>1. pc[p] = "ren4" /\ RenLock(pc[p], loc[p]) = loc[p].dp
      BY <1>3, <2>2 DEF Needs, RenLock
    <3>2. loc[p].at = loc[p].xip /\ Replaces(dir, loc[p])
      BY <3>1, RTypes DEF RenOK
    <3>3. Needs(p) = loc[p].at
      BY <2>2, <3>1 DEF Needs
    <3> QED
      BY <1>3, <3>1, <3>2, <3>3 DEF Replaces
  <2> QED
    BY <2>1, <2>2
<1>4. SUFFICES ASSUME NEW S \in (SUBSET Proc) \ {{}}, \A r \in S : \E q \in S : WaitsFor(r, q)
               PROVE  FALSE
  BY DEF DeadlockOnlyInPut
<1>5. \A r \in S : p \in S /\ Needs(r) # NoInum /\ Needs(r) = RenLock(pc[p], loc[p])
  <2>1. SUFFICES ASSUME NEW r \in S PROVE p \in S /\ Needs(r) # NoInum /\ Needs(r) = RenLock(pc[p], loc[p])
    OBVIOUS
  <2>2. PICK q \in S : WaitsFor(r, q)
    BY <1>4, <2>1
  <2>3. r \in Proc /\ q \in Proc /\ Needs(r) # NoInum
    BY <1>4, <2>1, <2>2 DEF WaitsFor
  <2>4. Needs(r) \in Inum
    BY <1>2, <2>3 DEF Pointer
  <2> QED
    BY <1>1, <2>2, <2>3, <2>4
<1> QED
  BY <1>3, <1>4, <1>5

-----------------------------------------------------------------------------
(* Links and locks: the invariants, and what follows from them *)

\* The links, entries and locks of programs whose rename()s run alone: at every
\* step of a rename() (sysfile.c:504-673) the steps that are left to do make the
\* directories a tree and the counts what they should be.
THEOREM LinksInvariance ==
    ASSUME RenamesAlone
    PROVE  Spec => [](IInv /\ KInv /\ LiveLocks)
<1>1. Init => KInv /\ LiveLocks
  BY InitLinks DEF KInv
<1>2. IInv /\ IInv' /\ (KInv /\ LiveLocks) /\ [Next]_vars => (KInv /\ LiveLocks)'
  BY LinksNext
<1>3. Spec => []IInv
  BY Invariance
<1> QED
  BY <1>1, <1>2, <1>3, PTL DEF Spec

\* Who renames is at a rename().
LEMMA RenamerSeen ==
    ASSUME IInv, NEW p \in Proc, RInv(p)
    PROVE  Renaming # {}
<1>1. loc[p].call = "rename_alone"
  BY RTypes
<1> QED
  BY <1>1 DEF Renaming

\* nlink is the number of names of an inode, of the ".." of its children and of
\* the calls between a count and a name, whenever no rename() runs
\* (sysfile.c:335-459, :504-673, :685): create(), link(), unlink() and iput() in
\* any order and each of them failing anywhere, and rename()s that run alone.
THEOREM LinksAccounted ==
    ASSUME RenamesAlone
    PROVE  Spec => []LinksCounted
<1>1. IInv /\ KInv /\ LiveLocks => LinksCounted
  BY LinksCountedFrom, RenamerSeen DEF KInv, LinksCounted
<1>2. Spec => [](IInv /\ KInv /\ LiveLocks)
  BY LinksInvariance
<1> QED
  BY <1>1, <1>2, PTL

\* The directories form a tree whenever no rename() runs, for programs whose
\* rename()s run alone (sysfile.c:472-474, :549-574).
THEOREM TreeKept ==
    ASSUME RenamesAlone
    PROVE  Spec => []TreeStaysTree
<1>1. IInv /\ KInv /\ LiveLocks => TreeStaysTree
  BY TreeFrom, RenamerSeen DEF KInv, TreeStaysTree
<1>2. Spec => [](IInv /\ KInv /\ LiveLocks)
  BY LinksInvariance
<1> QED
  BY <1>1, <1>2, PTL

\* Locks are taken from a directory down (fs.c:148-149, sysfile.c:476-481): in a
\* circle of processes that wait for each other's inodes, one is in an iput() of
\* an inode while it has another locked.  This is for programs whose rename()s run
\* alone, and whose link()s are to a name: dirlink() of "." puts the directory
\* that link() has locked (fs.c:1011-1014, sysfile.c:367), and waits for itself.
THEOREM LocksGoDown ==
    ASSUME RenamesAlone, LinksNamed
    PROVE  Spec => []DeadlockOnlyInPut
<1>1. Init => OrderInv
  BY InitOrder
<1>2. (IInv /\ KInv /\ LiveLocks) /\ OrderInv /\ [Next]_vars => OrderInv'
  BY OrderNext
<1>3. IInv /\ KInv /\ OrderInv => DeadlockOnlyInPut
  BY DeadlocksInPuts, RenamesWait DEF KInv
<1>4. Spec => [](IInv /\ KInv /\ LiveLocks)
  BY LinksInvariance
<1> QED
  BY <1>1, <1>2, <1>3, <1>4, PTL DEF Spec
=============================================================================
