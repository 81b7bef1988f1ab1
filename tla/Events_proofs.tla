--------------------------- MODULE Events_proofs ----------------------------
(***************************************************************************)
(* Proofs about Events and Console, for every set of processes and of      *)
(* keys, every size of the two rings and every width of the indices that   *)
(* the input ring divides; also when event loops close and open files.     *)
(***************************************************************************)
EXTENDS Events, Counters, FiniteSetTheorems, WellFoundedInduction,
        SequenceTheorems, TLAPS

-----------------------------------------------------------------------------
(* The inductive invariant *)

Position == 0..UintMod - 1
PcValue == {"user", "console", "console again", "console sleep", "mouse lock", "mouse",
            "mouse again lock", "mouse again", "mouse sleep", "scan", "ticks sleep"}
InConsole == {"console", "console again", "console sleep"}
InMouse == {"mouse", "mouse again", "mouse sleep"}

Ring == [0..INPUT_BUF - 1 -> Key \cup {NEWLINE}]

Item == [fd : {0} \cup Fd, file : File \cup {NoFile}]

TypeOK ==
    /\ buf \in Ring
    /\ r \in Position /\ w \in Position /\ e \in Position
    /\ rawmode \in BOOLEAN /\ vmin \in 0..1
    /\ pc \in [Proc -> PcValue]
    /\ left \in [Proc -> Nat] /\ target \in [Proc -> Nat] /\ killed \in [Proc -> BOOLEAN]
    /\ packets \in 0..MOUSEBUFSIZE /\ mouselock \in Proc \cup {NoProc}
    /\ ofile \in [Proc -> [Fd -> File \cup {NoFile}]]
    /\ item \in [Slot -> Item]
    /\ timeleft \in [Proc -> Nat \cup {Forever}] /\ room \in [Proc -> Nat]
    /\ next \in [Proc -> 1..EPOLL_MAXFDS + 1] /\ out \in [Proc -> SUBSET Slot]
    /\ promised \in [Proc -> SUBSET File]

\* What is entered, and what is being edited, share the ring; a line that is
\* being edited has not ended.
RingInv ==
    /\ Minus(w, r) + Minus(e, w) <= INPUT_BUF
    /\ \A i \in 1..Minus(e, w) : At(w + i - 1) \notin {NEWLINE, EOF}

\* A read() of the console wants something, and no more than it did first.
ReadInv == \A p \in Proc : pc[p] \in InConsole => left[p] > 0 /\ left[p] <= target[p]

\* mouseread() runs and sleeps with the inode's lock.
MouseInv == \A p \in Proc : mouselock = p <=> pc[p] \in InMouse

\* What was promised is there, or its reader has begun with it.
PromiseInv == \A p \in Proc :
    /\ "console" \in promised[p] =>
          r # w \/ (pc[p] \in InConsole /\ Some(p))
    /\ "mouse" \in promised[p] => packets > 0

IInv ==
    /\ TypeOK
    /\ RingInv
    /\ ReadInv
    /\ MouseInv
    /\ SleepersJustified
    /\ PromiseInv

-----------------------------------------------------------------------------
(* Indices that wrap *)

LEMMA Sizes ==
    /\ INPUT_BUF \in Nat \ {0} /\ UintMod \in Nat \ {0}
    /\ INPUT_BUF < UintMod /\ UintMod % INPUT_BUF = 0
    /\ MOUSEBUFSIZE \in Nat \ {0}
    /\ Size \subseteq Nat \ {0} /\ RawKey \subseteq Key /\ Killable \subseteq Proc
    /\ NoProc \notin Proc
    /\ EPOLL_MAXFDS \in Nat \ {0} /\ Room \subseteq Nat /\ Timeout \subseteq Nat \cup {Forever}
  BY ConsoleAssumption, EventsAssumption

LEMMA MinusIs ==
    ASSUME NEW x \in Position, NEW y \in Position
    PROVE  /\ Minus(y, x) \in Position
           /\ Minus(y, x) = IF x <= y THEN y - x ELSE y - x + UintMod
<1>1. UintMod \in Nat \ {0} /\ x \in 0..(UintMod - 1) /\ y \in 0..(UintMod - 1)
  BY Sizes DEF Position
<1>2. Minus(y, x) = IF x <= y THEN y - x ELSE y - x + UintMod
  BY <1>1, Difference DEF Minus
<1> QED
  BY <1>1, <1>2 DEF Position

LEMMA PlusIs ==
    ASSUME NEW x \in Position, NEW k \in Position
    PROVE  /\ Plus(x, k) \in Position
           /\ Plus(x, k) = IF x + k < UintMod THEN x + k ELSE x + k - UintMod
<1>1. UintMod \in Nat \ {0} /\ x \in 0..(UintMod - 1) /\ k \in 0..(UintMod - 1)
  BY Sizes DEF Position
<1>2. Plus(x, k) = IF x + k < UintMod THEN x + k ELSE x + k - UintMod
  BY <1>1, Sum DEF Plus
<1> QED
  BY <1>1, <1>2 DEF Position

\* Both in the order of the indices: from x to y, and from y to z.
LEMMA Rejoin ==
    ASSUME NEW x \in Position, NEW y \in Position, NEW z \in Position,
           Minus(y, x) + Minus(z, y) <= INPUT_BUF
    PROVE  Minus(z, x) = Minus(y, x) + Minus(z, y)
<1>1. /\ Minus(y, x) = IF x <= y THEN y - x ELSE y - x + UintMod
      /\ Minus(z, y) = IF y <= z THEN z - y ELSE z - y + UintMod
      /\ Minus(z, x) = IF x <= z THEN z - x ELSE z - x + UintMod
  BY MinusIs
<1> QED
  BY <1>1, Sizes DEF Position

\* One character more.
LEMMA OneMore ==
    ASSUME NEW x \in Position, NEW y \in Position, Minus(y, x) < INPUT_BUF
    PROVE  /\ Plus(y, 1) \in Position /\ Plus(y, 1) # x
           /\ Minus(Plus(y, 1), x) = Minus(y, x) + 1
<1>1. 1 \in Position
  BY Sizes DEF Position
<1>2. /\ Plus(y, 1) \in Position
      /\ Plus(y, 1) = IF y + 1 < UintMod THEN y + 1 ELSE y + 1 - UintMod
  BY <1>1, PlusIs
<1>3. Minus(y, x) = IF x <= y THEN y - x ELSE y - x + UintMod
  BY MinusIs
<1>4. Minus(Plus(y, 1), x) =
         IF x <= Plus(y, 1) THEN Plus(y, 1) - x ELSE Plus(y, 1) - x + UintMod
  BY <1>2, MinusIs
<1> QED
  BY <1>2, <1>3, <1>4, Sizes DEF Position

\* One character less.
LEMMA OneLess ==
    ASSUME NEW x \in Position, NEW y \in Position, x # y
    PROVE  Minus(y, 1) \in Position /\ Minus(Minus(y, 1), x) = Minus(y, x) - 1
<1>1. 1 \in Position
  BY Sizes DEF Position
<1>2. /\ Minus(y, 1) \in Position
      /\ Minus(y, 1) = IF 1 <= y THEN y - 1 ELSE y - 1 + UintMod
  BY <1>1, MinusIs
<1>3. Minus(y, x) = IF x <= y THEN y - x ELSE y - x + UintMod
  BY MinusIs
<1>4. Minus(Minus(y, 1), x) =
         IF x <= Minus(y, 1) THEN Minus(y, 1) - x ELSE Minus(y, 1) - x + UintMod
  BY <1>2, MinusIs
<1>5. CASE y = 0
  BY <1>2, <1>3, <1>4, <1>5, Sizes DEF Position
<1>6. CASE y > 0
  BY <1>2, <1>3, <1>4, <1>6, Sizes DEF Position
<1> QED
  BY <1>2, <1>5, <1>6, Sizes DEF Position

\* k characters leave at the front; all of them when k is all there are.
LEMMA LessInFront ==
    ASSUME NEW x \in Position, NEW y \in Position, NEW k \in 0..Minus(y, x)
    PROVE  /\ k \in Position /\ Plus(x, k) \in Position
           /\ Minus(y, Plus(x, k)) = Minus(y, x) - k
           /\ Plus(x, k) = y <=> k = Minus(y, x)
<1>1. /\ Minus(y, x) \in Position
      /\ Minus(y, x) = IF x <= y THEN y - x ELSE y - x + UintMod
  BY MinusIs
<1>2. k \in Position
  BY <1>1, Sizes DEF Position
<1>3. /\ Plus(x, k) \in Position
      /\ Plus(x, k) = IF x + k < UintMod THEN x + k ELSE x + k - UintMod
  BY <1>2, PlusIs
<1>4. Minus(y, Plus(x, k)) =
         IF Plus(x, k) <= y THEN y - Plus(x, k) ELSE y - Plus(x, k) + UintMod
  BY <1>3, MinusIs
<1> QED
  BY <1>1, <1>2, <1>3, <1>4, Sizes DEF Position

\* No characters from x to y: they are the same.
LEMMA NoneBetween ==
    ASSUME NEW x \in Position, NEW y \in Position
    PROVE  Minus(y, x) \in Nat /\ (Minus(y, x) = 0 <=> x = y)
<1>1. Minus(y, x) = IF x <= y THEN y - x ELSE y - x + UintMod
  BY MinusIs
<1> QED
  BY <1>1, Sizes DEF Position

\* The slot of the character k after x.
LEMMA SlotAfter ==
    ASSUME NEW x \in Position, NEW k \in Position, NEW j \in Int
    PROVE  (Plus(x, k) + j) % INPUT_BUF = (x + k + j) % INPUT_BUF
<1>1. Plus(x, k) = x + k \/ Plus(x, k) = x + k - UintMod
  BY PlusIs
<1>2. x + k + j \in Int /\ x + k + j - UintMod \in Int /\ x \in Int /\ k \in Int /\ UintMod \in Int
  BY Sizes DEF Position
<1>3. CASE Plus(x, k) = x + k
  BY <1>3
<1>4. CASE Plus(x, k) = x + k - UintMod
  <2>1. PICK t \in Int : UintMod = INPUT_BUF * t
    <3>1. 0 % INPUT_BUF = UintMod % INPUT_BUF
      BY Sizes, SMT
    <3>2. INPUT_BUF \in Nat \ {0} /\ 0 \in Int /\ UintMod \in Int
      BY Sizes
    <3>3. PICK t \in Int : UintMod - 0 = INPUT_BUF * t
      BY <3>1, <3>2, SameRemainder, Zenon
    <3> QED
      BY <3>2, <3>3
  <2>2. (x + k + j) - (x + k + j - UintMod) = INPUT_BUF * t
    BY <1>2, <2>1
  <2>3. (x + k + j - UintMod) % INPUT_BUF = (x + k + j) % INPUT_BUF
    BY <1>2, <2>2, Sizes, FarSlots
  <2>4. Plus(x, k) + j = x + k + j - UintMod
    BY <1>2, <1>4
  <2> QED
    BY <2>3, <2>4
<1> QED
  BY <1>1, <1>3, <1>4

LEMMA SlotType ==
    ASSUME NEW x \in Int
    PROVE  x % INPUT_BUF \in 0..(INPUT_BUF - 1)
  BY Sizes, ModRange

Stored(b, z, k) == [b EXCEPT ![z % INPUT_BUF] = k]

\* What is stored at z leaves the characters from x to z alone.
LEMMA StoreApart ==
    ASSUME NEW b \in Ring, NEW x \in Position, NEW z \in Position, Minus(z, x) < INPUT_BUF,
           NEW k
    PROVE  /\ \A i \in 1..Minus(z, x) : Stored(b, z, k)[(x + i - 1) % INPUT_BUF]
                                      = b[(x + i - 1) % INPUT_BUF]
           /\ Stored(b, z, k)[(x + Minus(z, x)) % INPUT_BUF] = k
<1> PICK m : m = Minus(z, x)
  OBVIOUS
<1> PICK c : c = Stored(b, z, k)
  OBVIOUS
<1>0. c = [b EXCEPT ![z % INPUT_BUF] = k]
  BY DEF Stored
<1>1. z \in Position /\ m \in Position /\ m < INPUT_BUF
  BY MinusIs
<1>2. z % INPUT_BUF = (x + m) % INPUT_BUF
  <2>1. z = Plus(x, m)
    BY <1>1, LessInFront, NoneBetween
  <2>2. (Plus(x, m) + 0) % INPUT_BUF = (x + m + 0) % INPUT_BUF
    BY <1>1, SlotAfter
  <2>3. z + 0 = z /\ x + m + 0 = x + m
    BY <1>1, Sizes DEF Position
  <2> QED
    BY <2>1, <2>2, <2>3
<1>3. ASSUME NEW i \in 1..m PROVE (x + i - 1) % INPUT_BUF # (x + m) % INPUT_BUF
  <2>1. /\ x + i - 1 \in Int /\ x + m \in Int /\ x + i - 1 < x + m
        /\ (x + m) - (x + i - 1) < INPUT_BUF
    BY <1>1, Sizes DEF Position
  <2> QED
    BY <2>1, Sizes, NearSlots
<1>4. (x + m) % INPUT_BUF \in 0..INPUT_BUF - 1
  <2>1. x + m \in Int
    BY <1>1, Sizes DEF Position
  <2> QED
    BY <2>1, SlotType
<1>6. \A i \in 1..m : c[(x + i - 1) % INPUT_BUF] = b[(x + i - 1) % INPUT_BUF]
  <2> SUFFICES ASSUME NEW i \in 1..m
               PROVE  c[(x + i - 1) % INPUT_BUF] = b[(x + i - 1) % INPUT_BUF]
    OBVIOUS
  <2>1. x + i - 1 \in Int
    BY <1>1, Sizes DEF Position
  <2>2. (x + i - 1) % INPUT_BUF \in 0..INPUT_BUF - 1
    BY <2>1, SlotType
  <2>3. (x + i - 1) % INPUT_BUF # z % INPUT_BUF
    BY <1>2, <1>3
  <2> QED
    BY <1>0, <2>2, <2>3 DEF Ring
<1>7. c[(x + m) % INPUT_BUF] = k
  BY <1>0, <1>2, <1>4 DEF Ring
<1> QED
  BY <1>6, <1>7

-----------------------------------------------------------------------------
(* Least and greatest elements; what a reader takes *)

LEMMA MinOfTwo ==
    ASSUME NEW a \in Int, NEW b \in Int
    PROVE  Min({a, b}) = IF a <= b THEN a ELSE b
  BY DEF Min

LEMMA MaxOfOne == ASSUME NEW a \in Int PROVE Max({a}) = a
  BY DEF Max

\* A set of natural numbers that is not empty has a least one.
LEMMA MinExists ==
    ASSUME NEW S \in SUBSET Nat, S # {}
    PROVE  Min(S) \in S /\ \A j \in S : Min(S) <= j
<1>0. PICK R : R = {ss \in Nat \X Nat : ss[1] < ss[2]}
  OBVIOUS
<1>1. IsWellFoundedOn(R, Nat)
  BY <1>0, NatLessThanWellFounded DEF OpToRel
<1>2. PICK i \in S : \A j \in S : ~(<<j, i>> \in R)
  BY <1>1, WFMin
<1>3. ASSUME NEW j \in S PROVE i <= j
  <2>1. i \in Nat /\ j \in Nat
    OBVIOUS
  <2>2. CASE j < i
    <3>1. <<j, i>> \in R
      BY <1>0, <2>1, <2>2
    <3> QED
      BY <1>2, <3>1
  <2> QED
    BY <2>1, <2>2
<1> QED
  BY <1>3 DEF Min

\* consoleread() takes what it wants or what there is, and no more than a line.
LEMMA TakenIs ==
    ASSUME TypeOK, NEW p \in Proc
    PROVE  /\ Taken(p) \in 0..Minus(w, r)
           /\ rawmode \/ LineEnds(p) = {} =>
                 Taken(p) = IF left[p] <= Minus(w, r) THEN left[p] ELSE Minus(w, r)
           /\ ~rawmode => \A i \in 1..Taken(p) - 1 : At(r + i - 1) \notin {NEWLINE, EOF}
<1>1. Minus(w, r) \in Nat /\ left[p] \in Nat /\ rawmode \in BOOLEAN
  BY NoneBetween DEF TypeOK
<1>2. PICK m : m = IF left[p] <= Minus(w, r) THEN left[p] ELSE Minus(w, r)
  OBVIOUS
<1>3. m \in 0..Minus(w, r) /\ InReach(p) = 1..m
  BY <1>1, <1>2, MinOfTwo DEF InReach, Available
<1>4. Cardinality(InReach(p)) = m
  <2>1. Cardinality(1..m) = IF 1 > m THEN 0 ELSE m - 1 + 1
    BY <1>1, <1>3, FS_Interval
  <2> QED
    BY <1>1, <1>3, <2>1
<1>5. CASE rawmode \/ LineEnds(p) = {}
  <2>1. Taken(p) = m
    BY <1>4, <1>5 DEF Taken
  <2>2. ~rawmode => \A i \in 1..m : At(r + i - 1) \notin {NEWLINE, EOF}
    BY <1>3, <1>5 DEF LineEnds
  <2> QED
    BY <1>1, <1>2, <1>3, <2>1, <2>2
<1>6. CASE ~(rawmode \/ LineEnds(p) = {})
  <2> DEFINE i == Min(LineEnds(p))
  <2>1. LineEnds(p) \in SUBSET Nat /\ LineEnds(p) \in SUBSET (1..m)
    BY <1>1, <1>3 DEF LineEnds
  <2>2. i \in LineEnds(p) /\ \A j \in LineEnds(p) : i <= j
    BY <1>6, <2>1, MinExists
  <2> HIDE DEF i
  <2>3. i \in 1..m
    BY <2>1, <2>2
  <2>4. \A j \in 1..i - 1 : At(r + j - 1) \notin {NEWLINE, EOF}
    BY <1>1, <1>3, <2>2, <2>3 DEF LineEnds
  <2>5. Taken(p) = i - 1 \/ Taken(p) = i
    BY <1>6 DEF Taken, i
  <2> QED
    BY <1>1, <1>3, <1>6, <2>3, <2>4, <2>5
<1> QED
  BY <1>5, <1>6

\* A reader that goes on waiting has emptied the ring, and had nothing to take
\* only if it was empty.
LEMMA WaitsForMore ==
    ASSUME TypeOK, ReadInv, NEW p \in Proc, pc[p] \in InConsole, ~Satisfied(p)
    PROVE  Taken(p) = Minus(w, r) /\ Taken(p) < left[p]
<1>1. Minus(w, r) \in Nat /\ left[p] \in Nat /\ rawmode \in BOOLEAN
  BY NoneBetween DEF TypeOK
<1>0. left[p] > 0
  BY DEF ReadInv
<1>2. Taken(p) # left[p] /\ (rawmode => ~(Taken(p) > 0)) /\ (rawmode \/ LineEnds(p) = {})
  BY <1>1 DEF Satisfied
<1>3. Taken(p) = IF left[p] <= Minus(w, r) THEN left[p] ELSE Minus(w, r)
  BY <1>2, TakenIs
<1> QED
  BY <1>0, <1>1, <1>2, <1>3

-----------------------------------------------------------------------------
(* The ring *)

LEMMA RingKept ==
    ASSUME RingInv, UNCHANGED input
    PROVE  RingInv'
  BY DEF RingInv, input, Minus, At

\* How many characters are entered and edited, and what a store does to them.
LEMMA StoreStep ==
    ASSUME TypeOK, RingInv, NEW k \in Key, Store(k),
           NEW u, NEW v, u = Minus(w, r), v = Minus(e, w)
    PROVE  /\ u \in Nat /\ v \in Nat /\ u + v < INPUT_BUF
           /\ buf' \in Ring /\ e' \in Position
           /\ e' = Plus(e, 1) /\ r' = r /\ r # e'
           /\ Minus(e', r) = u + v + 1 /\ Minus(e', w) = v + 1
           /\ \A i \in 1..u + v : At(r + i - 1)' = At(r + i - 1)
           /\ At(r + u + v)' = k
           /\ \A i \in 1..v : buf'[(w + i - 1) % INPUT_BUF] = buf[(w + i - 1) % INPUT_BUF]
           /\ buf'[(w + v) % INPUT_BUF] = k
<1>1. r \in Position /\ w \in Position /\ e \in Position
  BY DEF TypeOK
<1>2. u \in Nat /\ v \in Nat /\ Minus(e, r) = u + v /\ u + v < INPUT_BUF
  BY <1>1, NoneBetween, Rejoin DEF RingInv, Store
<1>3. Plus(e, 1) \in Position /\ Plus(e, 1) # r /\ Minus(Plus(e, 1), r) = u + v + 1
  BY <1>1, <1>2, OneMore
<1>4. Minus(Plus(e, 1), w) = v + 1
  <2>1. v < INPUT_BUF
    BY <1>2, Sizes
  <2> QED
    BY <1>1, <2>1, OneMore
<1>5. buf' = [buf EXCEPT ![e % INPUT_BUF] = k] /\ e' = Plus(e, 1) /\ r' = r
  BY DEF Store
<1>6. buf' \in Ring
  BY <1>5 DEF TypeOK, Ring
<1>7. /\ \A i \in 1..u + v : buf'[(r + i - 1) % INPUT_BUF] = buf[(r + i - 1) % INPUT_BUF]
      /\ buf'[(r + (u + v)) % INPUT_BUF] = k
  <2>1. PICK x, b, z : x = r /\ b = buf /\ z = e
    OBVIOUS
  <2>2. b \in Ring /\ x \in Position /\ z \in Position /\ Minus(z, x) < INPUT_BUF
    BY <1>1, <1>2, <2>1, Sizes DEF TypeOK
  <2>3. /\ \A i \in 1..Minus(z, x) : Stored(b, z, k)[(x + i - 1) % INPUT_BUF]
                                      = b[(x + i - 1) % INPUT_BUF]
        /\ Stored(b, z, k)[(x + Minus(z, x)) % INPUT_BUF] = k
    BY <2>2, StoreApart
  <2> QED
    BY <1>2, <1>5, <2>1, <2>3 DEF Stored
<1>8. r + (u + v) = r + u + v
  BY <1>1, <1>2, Sizes DEF Position
<1>9. /\ \A i \in 1..v : buf'[(w + i - 1) % INPUT_BUF] = buf[(w + i - 1) % INPUT_BUF]
      /\ buf'[(w + v) % INPUT_BUF] = k
  <2>1. PICK x, b, z : x = w /\ b = buf /\ z = e
    OBVIOUS
  <2>2. b \in Ring /\ x \in Position /\ z \in Position /\ Minus(z, x) < INPUT_BUF
    BY <1>1, <1>2, <2>1, Sizes DEF TypeOK
  <2>3. /\ \A i \in 1..Minus(z, x) : Stored(b, z, k)[(x + i - 1) % INPUT_BUF]
                                      = b[(x + i - 1) % INPUT_BUF]
        /\ Stored(b, z, k)[(x + Minus(z, x)) % INPUT_BUF] = k
    BY <2>2, StoreApart
  <2> QED
    BY <1>2, <1>5, <2>1, <2>3 DEF Stored
<1> QED
  BY <1>2, <1>3, <1>4, <1>5, <1>6, <1>7, <1>8, <1>9 DEF At

\* A line that is being edited has no newline in it for ^U to stop at.
LEMMA KillLineStep ==
    ASSUME TypeOK, RingInv, NEW k \in Key, KillLine(k)
    PROVE  e' = w
<1>1. \A i \in 1..Minus(e, w) : At(w + i - 1) # NEWLINE
  BY DEF RingInv
<1>2. {0} \cup {n \in 1..Minus(e, w) : At(w + n - 1) = NEWLINE} = {0}
  BY <1>1
<1>3. e' = Plus(w, Max({0} \cup {n \in 1..Minus(e, w) : At(w + n - 1) = NEWLINE}))
  BY DEF KillLine
<1>4. e' = Plus(w, 0)
  BY <1>2, <1>3, MaxOfOne
<1>5. 0 \in Position /\ w \in Position
  BY Sizes DEF Position, TypeOK
<1>6. Plus(w, 0) = IF w + 0 < UintMod THEN w + 0 ELSE w + 0 - UintMod
  BY <1>5, PlusIs
<1> QED
  BY <1>4, <1>5, <1>6, Sizes DEF Position

LEMMA KeystrokeRing ==
    ASSUME TypeOK, RingInv, Keystroke
    PROVE  /\ RingInv'
           /\ buf' \in Ring
           /\ r' = r /\ w' \in Position /\ e' \in Position
           /\ \/ w' = w /\ pc' = pc
              \/ r' # w' /\ pc' = Awake
<1> PICK k \in Key : TypeRaw(k) \/ TypeCooked(k) \/ Erase(k) \/ KillLine(k)
  BY DEF Keystroke
<1>0. /\ r \in Position /\ w \in Position /\ e \in Position
      /\ buf \in Ring
  BY DEF TypeOK
<1>1. PICK u, v : u = Minus(w, r) /\ v = Minus(e, w)
  OBVIOUS
<1>2. ASSUME Store(k), w' = Plus(e, 1) PROVE RingInv' /\ r' # w' /\ w' \in Position
  <2>1. /\ u \in Nat /\ v \in Nat /\ u + v < INPUT_BUF
        /\ e' \in Position /\ e' = Plus(e, 1) /\ r' = r /\ r # e' /\ Minus(e', r) = u + v + 1
    BY <1>1, <1>2, StoreStep
  <2>2. Minus(e', e') = 0
    BY <2>1, NoneBetween
  <2>3. Minus(w', r') = u + v + 1 /\ Minus(e', w') = 0
    BY <1>2, <2>1, <2>2
  <2>4. Minus(w, r)' = u + v + 1 /\ Minus(e, w)' = 0
    BY <2>3 DEF Minus
  <2>5. RingInv'
    BY <2>1, <2>4, Sizes DEF RingInv
  <2> QED
    BY <1>2, <2>1, <2>5
<1>3. ASSUME Store(k), w' = w, k \notin {NEWLINE, EOF} PROVE RingInv'
  <2>1. /\ u \in Nat /\ v \in Nat /\ u + v < INPUT_BUF
        /\ r' = r /\ Minus(e', w) = v + 1
        /\ \A i \in 1..v : buf'[(w + i - 1) % INPUT_BUF] = buf[(w + i - 1) % INPUT_BUF]
        /\ buf'[(w + v) % INPUT_BUF] = k
    BY <1>1, <1>3, StoreStep
  <2>2. \A i \in 1..v : buf[(w + i - 1) % INPUT_BUF] \notin {NEWLINE, EOF}
    BY <1>1 DEF RingInv, At
  <2>3. ASSUME NEW i \in 1..v + 1 PROVE buf'[(w + i - 1) % INPUT_BUF] \notin {NEWLINE, EOF}
    <3>1. CASE i \in 1..v
      BY <2>1, <2>2, <3>1
    <3>2. CASE i = v + 1
      <4>1. w + i - 1 = w + v
        BY <1>0, <2>1, <3>2, Sizes DEF Position
      <4> QED
        BY <1>3, <2>1, <4>1
    <3> QED
      BY <2>1, <3>1, <3>2
  <2>4. Minus(w, r)' = u /\ Minus(e, w)' = v + 1
    BY <1>1, <1>3, <2>1 DEF Minus
  <2>5. u + (v + 1) <= INPUT_BUF
    BY <2>1, Sizes
  <2> QED
    BY <1>3, <2>3, <2>4, <2>5 DEF RingInv, At
<1>4. CASE TypeRaw(k)
  <2>1. Store(k) /\ w' = Plus(e, 1) /\ pc' = Awake
    BY <1>4 DEF TypeRaw
  <2>2. buf' \in Ring /\ e' \in Position /\ r' = r
    BY <1>1, <2>1, StoreStep
  <2> QED
    BY <1>2, <2>1, <2>2
<1>5. CASE TypeCooked(k)
  <2>1. /\ Store(k)
        /\ IF EndsLine(k) THEN w' = Plus(e, 1) /\ pc' = Awake ELSE w' = w /\ pc' = pc
    BY <1>5 DEF TypeCooked
  <2>2. buf' \in Ring /\ e' \in Position /\ r' = r
    BY <1>1, <2>1, StoreStep
  <2>3. ~EndsLine(k) => k \notin {NEWLINE, EOF}
    BY DEF EndsLine
  <2> QED
    BY <1>0, <1>2, <1>3, <2>1, <2>2, <2>3
<1>6. CASE Erase(k)
  <2>1. e # w /\ e' = Minus(e, 1) /\ buf' = buf /\ r' = r /\ w' = w /\ pc' = pc
    BY <1>6 DEF Erase
  <2>2. e' \in Position /\ Minus(e', w) = v - 1
    BY <1>0, <1>1, <2>1, OneLess
  <2>3. u \in Nat /\ v \in Nat
    BY <1>0, <1>1, NoneBetween
  <2>4. Minus(w, r)' = u /\ Minus(e, w)' = v - 1
    BY <1>1, <2>1, <2>2 DEF Minus
  <2>5. u + v <= INPUT_BUF /\ \A i \in 1..v : buf[(w + i - 1) % INPUT_BUF] \notin {NEWLINE, EOF}
    BY <1>1 DEF RingInv, At
  <2>6. RingInv'
    BY <2>1, <2>3, <2>4, <2>5, Sizes DEF RingInv, At
  <2> QED
    BY <1>0, <2>1, <2>2, <2>6
<1>7. CASE KillLine(k)
  <2>1. e' = w /\ buf' = buf /\ r' = r /\ w' = w /\ pc' = pc
    BY <1>7, KillLineStep DEF KillLine
  <2>2. u \in Nat /\ v \in Nat /\ Minus(w, w) = 0
    BY <1>0, <1>1, NoneBetween
  <2>3. Minus(w, r)' = u /\ Minus(e, w)' = 0
    BY <1>1, <2>1, <2>2 DEF Minus
  <2>4. u + v <= INPUT_BUF
    BY <1>1 DEF RingInv
  <2>5. RingInv'
    BY <2>2, <2>3, <2>4, Sizes DEF RingInv
  <2> QED
    BY <1>0, <2>1, <2>5
<1> QED
  BY <1>4, <1>5, <1>6, <1>7

-----------------------------------------------------------------------------
(* Steps *)

\* Calls that have nothing to do with a device, or not yet.
Away == {"user", "mouse lock", "mouse again lock", "scan", "ticks sleep"}

\* A step that moves processes there, or wakes sleepers, or promises what is
\* ready; what it adds to a device, it tells its sleepers.
LEMMA Calm ==
    ASSUME IInv, mouselock' = mouselock,
           \A q \in Proc :
              /\ \/ pc'[q] = pc[q]
                 \/ pc[q] \in Away /\ pc'[q] \in Away
                 \/ pc[q] = "console sleep" /\ pc'[q] = "console"
                 \/ pc[q] = "mouse sleep" /\ pc'[q] = "mouse"
              /\ pc'[q] \in InConsole => left'[q] = left[q] /\ target'[q] = target[q],
           \/ r' = r /\ w' = w
           \/ r' # w' /\ \A q \in Proc : pc'[q] # "console sleep",
           \/ packets' = packets
           \/ packets' > 0 /\ \A q \in Proc : pc'[q] # "mouse sleep",
           \A q \in Proc :
              /\ "console" \in promised'[q] => "console" \in promised[q] \/ r # w
              /\ "mouse" \in promised'[q] => "mouse" \in promised[q] \/ packets > 0
    PROVE  ReadInv' /\ MouseInv' /\ SleepersJustified' /\ PromiseInv'
<1> USE DEF IInv, InConsole, InMouse
<1>1. ReadInv'
  BY DEF ReadInv, Away
<1>2. MouseInv'
  BY DEF MouseInv, Away
<1>3. SleepersJustified'
  BY DEF SleepersJustified, Away
<1>4. ASSUME NEW q \in Proc, "console" \in promised'[q]
      PROVE  r' # w' \/ (pc'[q] \in InConsole /\ Some(q)')
  <2>1. CASE r # w
    BY <2>1, <1>4
  <2>2. CASE pc[q] \in InConsole /\ Some(q)
    <3>1. pc'[q] \in InConsole
      BY <2>2 DEF Away
    <3> QED
      BY <2>2, <3>1 DEF Some
  <2> QED
    BY <1>4, <2>1, <2>2 DEF PromiseInv
<1>5. ASSUME NEW q \in Proc, "mouse" \in promised'[q] PROVE packets' > 0
  BY <1>5 DEF PromiseInv
<1>6. PromiseInv'
  BY <1>4, <1>5 DEF PromiseInv
<1> QED
  BY <1>1, <1>2, <1>3, <1>6

\* Nothing but the place of one process changes, and what goes with it.
LEMMA CalmPlace ==
    ASSUME IInv, TypeOK', NEW p \in Proc, pc[p] \in Away,
           \E c \in Away : pc' = [pc EXCEPT ![p] = c],
           \A q \in Proc \ {p} : left'[q] = left[q] /\ target'[q] = target[q],
           UNCHANGED <<input, packets, mouselock, promised>>
    PROVE  IInv'
<1>1. \A q \in Proc \ {p} : pc'[q] = pc[q]
  BY DEF IInv, TypeOK
<1>2. pc'[p] \in Away
  BY DEF IInv, TypeOK
<1>3. RingInv'
  BY RingKept DEF IInv
<1>4. ReadInv' /\ MouseInv' /\ SleepersJustified' /\ PromiseInv'
  BY <1>1, <1>2, Calm DEF input, Away, InConsole
<1> QED
  BY <1>3, <1>4 DEF IInv

LEMMA ConsoleInputStep == ASSUME IInv, ConsoleInput PROVE IInv'
<1> USE DEF IInv
<1>0. /\ Keystroke /\ UNCHANGED eventVars /\ UNCHANGED <<mode, left, target, killed>>
  BY DEF ConsoleInput, Keystroke
<1>1. /\ RingInv'
      /\ buf' \in Ring
      /\ r' = r /\ w' \in Position /\ e' \in Position
      /\ \/ w' = w /\ pc' = pc
         \/ r' # w' /\ pc' = Awake
  BY <1>0, KeystrokeRing
<1>2. \A q \in Proc : /\ Awake[q] \in PcValue /\ Awake[q] # "console sleep"
                      /\ Awake[q] = pc[q] \/ (pc[q] = "console sleep" /\ Awake[q] = "console")
  BY DEF Awake, TypeOK, PcValue
<1>3. Awake \in [Proc -> PcValue]
  BY <1>2 DEF Awake
<1>4. TypeOK'
  BY <1>0, <1>1, <1>3 DEF TypeOK, mode, eventVars
<1>5. ReadInv' /\ MouseInv' /\ SleepersJustified' /\ PromiseInv'
  <2>1. /\ UNCHANGED <<left, target, packets, mouselock, promised>>
        /\ \A q \in Proc : pc'[q] = pc[q] \/ (pc[q] = "console sleep" /\ pc'[q] = "console")
        /\ w' = w \/ (r' # w' /\ \A q \in Proc : pc'[q] # "console sleep")
    BY <1>0, <1>1, <1>2 DEF eventVars
  <2> HIDE DEF IInv
  <2> QED
    BY <1>1, <2>1, Calm
<1> QED
  BY <1>1, <1>4, <1>5

LEMMA TermiosStep == ASSUME IInv, Termios PROVE IInv'
<1> USE DEF IInv, Termios, SetMode, eventVars, input
<1>1. TypeOK'
  BY DEF TypeOK
<1>2. RingInv'
  BY RingKept
<1>3. ReadInv' /\ MouseInv' /\ SleepersJustified' /\ PromiseInv'
  BY Calm
<1> QED
  BY <1>1, <1>2, <1>3

LEMMA KilledStep == ASSUME IInv, NEW p \in Proc, Killed(p) PROVE IInv'
<1> USE DEF IInv, Killed, Kill, eventVars, input, mode
<1>1. /\ \A q \in Proc \ {p} : pc'[q] = pc[q]
      /\ \/ pc'[p] = pc[p]
         \/ pc[p] = "console sleep" /\ pc'[p] = "console"
         \/ pc[p] = "mouse sleep" /\ pc'[p] = "mouse"
         \/ pc[p] = "ticks sleep" /\ pc'[p] = "scan"
  BY DEF TypeOK
<1>2. pc' \in [Proc -> PcValue]
  BY DEF TypeOK, PcValue
<1>3. TypeOK'
  BY <1>2 DEF TypeOK
<1>4. RingInv'
  BY RingKept
<1>5. ReadInv' /\ MouseInv' /\ SleepersJustified' /\ PromiseInv'
  <2>1. \A q \in Proc :
           \/ pc'[q] = pc[q]
           \/ pc[q] \in Away /\ pc'[q] \in Away
           \/ pc[q] = "console sleep" /\ pc'[q] = "console"
           \/ pc[q] = "mouse sleep" /\ pc'[q] = "mouse"
    BY <1>1 DEF Away
  <2>2. UNCHANGED <<r, w, left, target, packets, mouselock, promised>>
    OBVIOUS
  <2> HIDE DEF IInv, Killed
  <2> QED
    BY <2>1, <2>2, Calm
<1> QED
  BY <1>3, <1>4, <1>5

LEMMA MousePacketStep == ASSUME IInv, MousePacket PROVE IInv'
<1>0. packets' = Min({packets + 1, MOUSEBUFSIZE}) /\ packets \in 0..MOUSEBUFSIZE
  BY DEF MousePacket, IInv, TypeOK
<1>1. packets' \in 0..MOUSEBUFSIZE /\ packets' > 0
  <2>1. packets + 1 \in Int /\ MOUSEBUFSIZE \in Int
    BY <1>0, Sizes
  <2>2. packets' = IF packets + 1 <= MOUSEBUFSIZE THEN packets + 1 ELSE MOUSEBUFSIZE
    BY <1>0, <2>1, MinOfTwo
  <2> QED
    BY <1>0, <2>1, <2>2, Sizes
<1> USE DEF IInv, MousePacket, input, mode, processVars
<1>2. pc' \in [Proc -> PcValue]
  BY DEF TypeOK, PcValue
<1>3. TypeOK'
  BY <1>1, <1>2 DEF TypeOK
<1>4. RingInv'
  BY RingKept
<1>5. ReadInv' /\ MouseInv' /\ SleepersJustified' /\ PromiseInv'
  <2>1. /\ \A q \in Proc : pc'[q] = pc[q] \/ (pc[q] = "mouse sleep" /\ pc'[q] = "mouse")
        /\ \A q \in Proc : pc'[q] # "mouse sleep"
        /\ UNCHANGED <<r, w, left, target, mouselock, promised>>
    OBVIOUS
  <2> HIDE DEF IInv, MousePacket
  <2> QED
    BY <1>1, <2>1, Calm
<1> QED
  BY <1>3, <1>4, <1>5

LEMMA TickStep == ASSUME IInv, Tick PROVE IInv'
<1>0. timeleft \in [Proc -> Nat \cup {Forever}]
  BY DEF IInv, TypeOK
<1>2. timeleft' \in [Proc -> Nat \cup {Forever}]
  <2>1. ASSUME NEW q \in Proc
        PROVE  (IF timeleft[q] > 0 THEN timeleft[q] - 1 ELSE timeleft[q]) \in Nat \cup {Forever}
    BY <1>0 DEF Forever
  <2> QED
    BY <2>1 DEF Tick
<1> USE DEF IInv, Tick, input, mode, processVars
<1>1. pc' \in [Proc -> PcValue]
  BY DEF TypeOK, PcValue
<1>3. TypeOK'
  BY <1>1, <1>2 DEF TypeOK
<1>4. RingInv'
  BY RingKept
<1>5. ReadInv' /\ MouseInv' /\ SleepersJustified' /\ PromiseInv'
  <2>1. /\ \A q \in Proc : pc'[q] = pc[q] \/ (pc[q] \in Away /\ pc'[q] \in Away)
        /\ UNCHANGED <<r, w, left, target, packets, mouselock, promised>>
    BY DEF Away
  <2> HIDE DEF IInv, Tick
  <2> QED
    BY <2>1, Calm
<1> QED
  BY <1>3, <1>4, <1>5

-----------------------------------------------------------------------------
(* epoll_pwait(), epoll_ctl(), open() and close() *)

LEMMA WaitStep == ASSUME IInv, NEW p \in Proc, Wait(p) PROVE IInv'
<1>0. PICK t \in Timeout, n \in Room :
         timeleft' = [timeleft EXCEPT ![p] = t] /\ room' = [room EXCEPT ![p] = n]
  BY DEF Wait
<1>1. /\ pc[p] \in Away /\ pc' = [pc EXCEPT ![p] = "scan"]
      /\ next' = [next EXCEPT ![p] = 1] /\ out' = [out EXCEPT ![p] = {}]
      /\ UNCHANGED <<buf, r, w, e, rawmode, vmin, left, target, killed>>
      /\ UNCHANGED <<packets, mouselock, ofile, item, promised>>
  BY DEF Wait, Free, Away, input, mode, processVars
<1>2. t \in Nat \cup {Forever} /\ n \in Nat /\ 1 \in 1..EPOLL_MAXFDS + 1
  BY Sizes
<1>3. TypeOK'
  BY <1>0, <1>1, <1>2 DEF IInv, TypeOK, PcValue
<1> QED
  BY <1>1, <1>3, CalmPlace DEF Away, input

LEMMA ReportStep == ASSUME IInv, NEW p \in Proc, Report(p) PROVE IInv'
<1>1. /\ pc[p] \in Away /\ pc' = [pc EXCEPT ![p] = "user"]
      /\ next' = [next EXCEPT ![p] = 1] /\ out' = [out EXCEPT ![p] = {}]
      /\ timeleft' = [timeleft EXCEPT ![p] = 0] /\ room' = [room EXCEPT ![p] = 0]
      /\ UNCHANGED <<buf, r, w, e, rawmode, vmin, left, target, killed>>
      /\ UNCHANGED <<packets, mouselock, ofile, item, promised>>
  BY DEF Report, Away, input, mode, processVars
<1>2. 1 \in 1..EPOLL_MAXFDS + 1
  BY Sizes
<1>3. TypeOK'
  BY <1>1, <1>2 DEF IInv, TypeOK, PcValue
<1> QED
  BY <1>1, <1>3, CalmPlace DEF Away, input

LEMMA KillBeforeSleepType ==
    ASSUME TypeOK, NEW p \in Proc, KillBeforeSleep(p)
    PROVE  killed' \in [Proc -> BOOLEAN]
  BY DEF TypeOK, KillBeforeSleep

LEMMA SleepStep == ASSUME IInv, NEW p \in Proc, Sleep(p) PROVE IInv'
<1>1. /\ pc[p] \in Away
      /\ \E c \in Away : pc' = [pc EXCEPT ![p] = c]
      /\ killed' = killed \/ KillBeforeSleep(p)
      /\ room' = room \/ room' = [room EXCEPT ![p] = 0]
      /\ next' = [next EXCEPT ![p] = 1]
      /\ UNCHANGED <<buf, r, w, e, rawmode, vmin, left, target>>
      /\ UNCHANGED <<packets, mouselock, ofile, item, timeleft, out, promised>>
  BY DEF Sleep, Away, input, mode
<1>2. 1 \in 1..EPOLL_MAXFDS + 1
  BY Sizes
<1>3. killed' \in [Proc -> BOOLEAN]
  BY <1>1, KillBeforeSleepType DEF IInv, TypeOK
<1>4. pc' \in [Proc -> PcValue]
  BY <1>1 DEF IInv, TypeOK, PcValue, Away
<1>5. room' \in [Proc -> Nat]
  <2>1. room \in [Proc -> Nat]
    BY DEF IInv, TypeOK
  <2>2. room' = room \/ room' = [room EXCEPT ![p] = 0]
    BY <1>1
  <2> QED
    BY <2>1, <2>2
<1>6. TypeOK'
  BY <1>1, <1>2, <1>3, <1>4, <1>5 DEF IInv, TypeOK
<1> QED
  BY <1>1, <1>6, CalmPlace DEF input

LEMMA ScanStep == ASSUME IInv, NEW p \in Proc, Scan(p) PROVE IInv'
<1>0. PICK s, f : s = next[p] /\ f = FileAt(p, s)
  OBVIOUS
<1>1. /\ s \in Slot
      /\ ScanReady(p, f) \/ ScanBreak(p, f) \/ ScanPast(p, f)
      /\ UNCHANGED <<consoleVars, packets, mouselock, ofile, item, timeleft, room>>
  BY <1>0 DEF Scan
<1>2. /\ \/ next' = [next EXCEPT ![p] = s + 1]
         \/ next' = [next EXCEPT ![p] = EPOLL_MAXFDS + 1]
      /\ \/ /\ out' = [out EXCEPT ![p] = @ \cup {s}]
            /\ Ready(f)
            /\ promised' = [promised EXCEPT ![p] = @ \cup {f}]
         \/ out' = out /\ promised' = promised
  BY <1>0, <1>1 DEF ScanReady, ScanBreak, ScanPast
<1>3. /\ out' \in [Proc -> SUBSET Slot] /\ promised' \in [Proc -> SUBSET File]
      /\ \A q \in Proc :
           /\ "console" \in promised'[q] => "console" \in promised[q] \/ r # w
           /\ "mouse" \in promised'[q] => "mouse" \in promised[q] \/ packets > 0
  <2>0. out \in [Proc -> SUBSET Slot] /\ promised \in [Proc -> SUBSET File]
    BY DEF IInv, TypeOK
  <2>1. CASE out' = out /\ promised' = promised
    BY <2>0, <2>1
  <2>2. CASE /\ out' = [out EXCEPT ![p] = @ \cup {s}]
             /\ Ready(f)
             /\ promised' = [promised EXCEPT ![p] = @ \cup {f}]
    <3>1. (f = "console" /\ r # w) \/ (f = "mouse" /\ packets > 0)
      BY <2>2 DEF Ready, ConsoleReadable
    <3>2. f \in File
      BY <3>1 DEF File
    <3>3. out' \in [Proc -> SUBSET Slot] /\ promised' \in [Proc -> SUBSET File]
      BY <1>1, <2>0, <2>2, <3>2
    <3>4. \A q \in Proc : promised'[q] = promised[q] \/ promised'[q] = promised[q] \cup {f}
      BY <2>0, <2>2
    <3> QED
      BY <3>1, <3>3, <3>4
  <2> QED
    BY <1>2, <2>1, <2>2
<1>4. next' \in [Proc -> 1..EPOLL_MAXFDS + 1]
  <2>1. s + 1 \in 1..EPOLL_MAXFDS + 1 /\ EPOLL_MAXFDS + 1 \in 1..EPOLL_MAXFDS + 1
    BY <1>1, Sizes DEF Slot
  <2>2. next \in [Proc -> 1..EPOLL_MAXFDS + 1]
    BY DEF IInv, TypeOK
  <2> QED
    BY <1>2, <2>1, <2>2
<1>5. TypeOK'
  BY <1>1, <1>3, <1>4 DEF IInv, TypeOK, consoleVars
<1>6. RingInv'
  BY <1>1, RingKept DEF IInv, consoleVars, input
<1>7. ReadInv' /\ MouseInv' /\ SleepersJustified' /\ PromiseInv'
  <2>1. UNCHANGED <<r, w, pc, left, target, packets, mouselock>>
    BY <1>1 DEF consoleVars
  <2> QED
    BY <1>3, <2>1, Calm
<1> QED
  BY <1>5, <1>6, <1>7 DEF IInv

\* Steps that change descriptors and items only.
LEMMA DescriptorStep ==
    ASSUME IInv, UNCHANGED <<consoleVars, packets, mouselock, timeleft, room, next, out, promised>>,
           ofile' \in [Proc -> [Fd -> File \cup {NoFile}]],
           item' \in [Slot -> Item]
    PROVE  IInv'
<1> USE DEF IInv, consoleVars, input
<1>1. TypeOK'
  BY DEF TypeOK
<1>2. RingInv'
  BY RingKept
<1>3. ReadInv' /\ MouseInv' /\ SleepersJustified' /\ PromiseInv'
  BY Calm
<1> QED
  BY <1>1, <1>2, <1>3

LEMMA AddStep == ASSUME IInv, NEW p \in Proc, NEW d \in Fd, Add(p, d) PROVE IInv'
<1>1. item' \in [Slot -> Item] /\ ofile' \in [Proc -> [Fd -> File \cup {NoFile}]]
  <2>1. PICK s \in Slot : item' = [item EXCEPT ![s] = [fd |-> d, file |-> ofile[p][d]]]
    BY DEF Add, Registered
  <2>2. [fd |-> d, file |-> ofile[p][d]] \in Item /\ item \in [Slot -> Item]
    BY DEF IInv, TypeOK, Item
  <2>3. item' \in [Slot -> Item]
    BY <2>1, <2>2
  <2> QED
    BY <2>3 DEF Add, IInv, TypeOK
<1> QED
  BY <1>1, DescriptorStep DEF Add

LEMMA DelStep == ASSUME IInv, NEW p \in Proc, NEW d \in Fd, Del(p, d) PROVE IInv'
<1>1. item' \in [Slot -> Item] /\ ofile' \in [Proc -> [Fd -> File \cup {NoFile}]]
  <2>1. item \in [Slot -> Item] /\ Unused \in Item
    BY DEF IInv, TypeOK, Item, Unused
  <2>2. item' = [s \in Slot |-> IF s \in Registered(d) THEN Unused ELSE item[s]]
    BY DEF Del
  <2>3. item' \in [Slot -> Item]
    BY <2>1, <2>2
  <2> QED
    BY <2>3 DEF Del, IInv, TypeOK
<1> QED
  BY <1>1, DescriptorStep DEF Del

LEMMA CloseStep == ASSUME IInv, NEW p \in Proc, NEW d \in Fd, Close(p, d) PROVE IInv'
<1>1. item' \in [Slot -> Item] /\ ofile' \in [Proc -> [Fd -> File \cup {NoFile}]]
  BY DEF Close, IInv, TypeOK
<1> QED
  BY <1>1, DescriptorStep DEF Close

LEMMA OpenStep == ASSUME IInv, NEW p \in Proc, NEW d \in Fd, Open(p, d) PROVE IInv'
<1>1. item' \in [Slot -> Item] /\ ofile' \in [Proc -> [Fd -> File \cup {NoFile}]]
  BY DEF Open, IInv, TypeOK
<1> QED
  BY <1>1, DescriptorStep DEF Open

-----------------------------------------------------------------------------
(* Reading the console *)

LEMMA ConsoleReadStep == ASSUME IInv, NEW p \in Proc, ConsoleRead(p) PROVE IInv'
<1>0. PICK n \in Size : ReadConsole(p, n)
  BY DEF ConsoleRead
<1>1. /\ pc[p] = "user" /\ pc' = [pc EXCEPT ![p] = "console"]
      /\ left' = [left EXCEPT ![p] = n] /\ target' = [target EXCEPT ![p] = n]
      /\ UNCHANGED <<buf, r, w, e, rawmode, vmin, killed>> /\ UNCHANGED eventVars
  BY <1>0 DEF ConsoleRead, ReadConsole, input, mode
<1>2. n \in Nat /\ n > 0
  BY Sizes
<1>3. TypeOK'
  BY <1>1, <1>2 DEF IInv, TypeOK, PcValue, eventVars
<1>4. RingInv'
  BY <1>1, RingKept DEF IInv, input
<1>5. /\ pc'[p] = "console" /\ left'[p] = n /\ target'[p] = n
      /\ \A q \in Proc \ {p} : pc'[q] = pc[q] /\ left'[q] = left[q] /\ target'[q] = target[q]
      /\ UNCHANGED <<packets, mouselock, promised>>
  BY <1>1 DEF IInv, TypeOK, eventVars
<1>6. ReadInv'
  BY <1>2, <1>5 DEF IInv, ReadInv
<1>7. MouseInv' /\ SleepersJustified'
  BY <1>1, <1>5 DEF IInv, MouseInv, SleepersJustified, InMouse
<1>8. PromiseInv'
  BY <1>1, <1>5 DEF IInv, PromiseInv, InConsole, Some
<1> QED
  BY <1>3, <1>4, <1>6, <1>7, <1>8 DEF IInv

\* What a reader leaves in the ring.
LEMMA TakeRing ==
    ASSUME TypeOK, RingInv, NEW k \in 0..Minus(w, r), r' = Plus(r, k), UNCHANGED <<buf, w, e>>
    PROVE  /\ RingInv' /\ r' \in Position
           /\ Minus(w, r)' = Minus(w, r) - k
           /\ r' = w <=> k = Minus(w, r)
<1>1. r \in Position /\ w \in Position /\ e \in Position
  BY DEF TypeOK
<1>2. r' \in Position /\ Minus(w, r') = Minus(w, r) - k /\ (r' = w <=> k = Minus(w, r))
  BY <1>1, LessInFront
<1>3. Minus(w, r) \in Nat /\ Minus(e, w) \in Nat
  BY <1>1, NoneBetween
<1>4. Minus(w, r)' = Minus(w, r) - k /\ Minus(e, w)' = Minus(e, w)
  BY <1>2 DEF Minus
<1>5. Minus(w, r) + Minus(e, w) <= INPUT_BUF
  BY DEF RingInv
<1>6. Minus(w, r)' + Minus(e, w)' <= INPUT_BUF
  BY <1>3, <1>4, <1>5, Sizes
<1>7. RingInv'
  BY <1>4, <1>6 DEF RingInv, At
<1> QED
  BY <1>2, <1>4, <1>7

\* Where a step leads a reader that has taken k characters: back, or once more,
\* or on waiting.
GoesTo(p, k) ==
    \/ pc'[p] = "user"
    \/ pc'[p] = "console again" /\ left'[p] = target'[p] /\ left'[p] > 0
    \/ /\ pc'[p] = "console sleep" /\ k = Minus(w, r)
       /\ left'[p] = left[p] - k /\ left'[p] > 0 /\ target'[p] = target[p]

\* There is no other way for it to go, and nobody else moves.
LEMMA ReaderGoes ==
    ASSUME IInv, NEW p \in Proc, ConsoleStep(p), NEW k, k = Taken(p)
    PROVE  /\ \A q \in Proc \ {p} : pc'[q] = pc[q] /\ left'[q] = left[q] /\ target'[q] = target[q]
           /\ pc' \in [Proc -> PcValue]
           /\ left' \in [Proc -> Nat] /\ target' \in [Proc -> Nat] /\ killed' \in [Proc -> BOOLEAN]
           /\ GoesTo(p, k)
<1>1. pc[p] \in InConsole
  BY DEF ConsoleStep, InConsole
<1>2. /\ pc \in [Proc -> PcValue] /\ left \in [Proc -> Nat] /\ target \in [Proc -> Nat]
      /\ killed \in [Proc -> BOOLEAN] /\ TypeOK /\ ReadInv
  BY DEF IInv, TypeOK
<1>3. left[p] > 0 /\ left[p] <= target[p] /\ left[p] \in Nat /\ target[p] \in Nat
  BY <1>1, <1>2 DEF ReadInv
<1>4. CASE /\ pc' = [pc EXCEPT ![p] = "console again"]
           /\ left' = [left EXCEPT ![p] = target[p]]
           /\ UNCHANGED <<target, killed>>
  <2>1. target[p] > 0
    BY <1>3
  <2> QED
    BY <1>2, <1>4, <2>1 DEF PcValue, GoesTo
<1>5. CASE /\ pc' = [pc EXCEPT ![p] = "user"]
           /\ left' = [left EXCEPT ![p] = 0] /\ target' = [target EXCEPT ![p] = 0]
           /\ UNCHANGED killed
  BY <1>2, <1>5 DEF PcValue, GoesTo
<1>6. CASE /\ ~Satisfied(p)
           /\ pc' = [pc EXCEPT ![p] = "console sleep"]
           /\ left' = [left EXCEPT ![p] = @ - k]
           /\ KillBeforeSleep(p) /\ UNCHANGED target
  <2>1. k = Minus(w, r) /\ k < left[p]
    BY <1>1, <1>2, <1>6, WaitsForMore
  <2>2. k \in Nat
    BY <1>2, <2>1, NoneBetween DEF TypeOK
  <2>3. left[p] - k > 0 /\ left[p] - k \in Nat
    BY <1>3, <2>1, <2>2
  <2>4. killed' \in [Proc -> BOOLEAN]
    BY <1>2, <1>6, KillBeforeSleepType
  <2> QED
    BY <1>2, <1>6, <2>1, <2>3, <2>4 DEF PcValue, GoesTo
<1> QED
  BY <1>4, <1>5, <1>6 DEF ConsoleStep

LEMMA ConsoleReaderStep == ASSUME IInv, NEW p \in Proc, ConsoleReader(p) PROVE IInv'
<1>0. PICK k : k = Taken(p)
  OBVIOUS
<1>1. /\ r' = Plus(r, k)
      /\ UNCHANGED <<buf, w, e, rawmode, vmin>>
      /\ UNCHANGED <<packets, mouselock, ofile, item, timeleft, room, next, out>>
  BY <1>0 DEF ConsoleReader, ConsoleStep, mode
<1>15. ConsoleStep(p) /\ pc[p] \in InConsole /\ pc[p] \notin InMouse
  BY DEF ConsoleReader, ConsoleStep, InConsole, InMouse
<1>2. promised' = [q \in Proc |-> IF Breaks(p, q) THEN promised[q] \ {"console"} ELSE promised[q]]
  BY DEF ConsoleReader
<1>3. TypeOK /\ RingInv /\ ReadInv /\ MouseInv /\ SleepersJustified /\ PromiseInv
  BY DEF IInv
<1>4. k \in 0..Minus(w, r)
  BY <1>0, <1>3, TakenIs
<1>5. /\ RingInv' /\ r' \in Position /\ (r' = w <=> k = Minus(w, r))
  BY <1>1, <1>3, <1>4, TakeRing
<1>6. /\ r = w => k = 0 /\ r' = r
      /\ Minus(w, r) \in Nat /\ (Minus(w, r) = 0 <=> r = w)
  <2>1. r \in Position /\ w \in Position
    BY <1>3 DEF TypeOK
  <2>2. Minus(w, r) \in Nat /\ (Minus(w, r) = 0 <=> r = w)
    BY <2>1, NoneBetween
  <2> QED
    BY <1>4, <1>5, <2>2
<1>7. /\ \A q \in Proc \ {p} : pc'[q] = pc[q] /\ left'[q] = left[q] /\ target'[q] = target[q]
      /\ pc' \in [Proc -> PcValue]
      /\ left' \in [Proc -> Nat] /\ target' \in [Proc -> Nat] /\ killed' \in [Proc -> BOOLEAN]
  BY <1>0, <1>15, ReaderGoes
<1>8. \/ pc'[p] = "user"
      \/ pc'[p] = "console again" /\ left'[p] = target'[p] /\ left'[p] > 0
      \/ /\ pc'[p] = "console sleep" /\ k = Minus(w, r)
         /\ left'[p] = left[p] - k /\ left'[p] > 0 /\ target'[p] = target[p]
  <2>1. GoesTo(p, k)
    BY <1>0, <1>15, ReaderGoes
  <2> QED
    BY <2>1 DEF GoesTo
<1>9. left[p] \in Nat /\ target[p] \in Nat /\ left[p] <= target[p] /\ k \in Nat
  <2>1. left[p] \in Nat /\ target[p] \in Nat
    BY <1>3 DEF TypeOK
  <2>2. left[p] <= target[p]
    BY <1>3, <1>15 DEF ReadInv
  <2> QED
    BY <1>4, <1>6, <2>1, <2>2
<1>10. TypeOK'
  <2>1. promised' \in [Proc -> SUBSET File]
    BY <1>2, <1>3 DEF TypeOK
  <2> QED
    BY <1>1, <1>3, <1>5, <1>7, <2>1 DEF TypeOK
<1>11. ReadInv'
  <2>1. pc'[p] \in InConsole => left'[p] > 0 /\ left'[p] <= target'[p]
    <3>1. \/ pc'[p] \notin InConsole
          \/ left'[p] > 0 /\ left'[p] = target'[p]
          \/ left'[p] > 0 /\ left'[p] = left[p] - k /\ target'[p] = target[p]
      BY <1>8 DEF InConsole
    <3>2. left'[p] \in Nat /\ target'[p] \in Nat
      BY <1>7
    <3>3. left'[p] > 0 /\ left'[p] = left[p] - k /\ target'[p] = target[p] => left'[p] <= target'[p]
      BY <1>9
    <3>4. left'[p] = target'[p] => left'[p] <= target'[p]
      BY <3>2
    <3> QED
      BY <3>1, <3>3, <3>4
  <2>2. \A q \in Proc \ {p} : pc'[q] \in InConsole => left'[q] > 0 /\ left'[q] <= target'[q]
    BY <1>3, <1>7 DEF ReadInv
  <2> QED
    BY <2>1, <2>2 DEF ReadInv
<1>12. MouseInv'
  BY <1>1, <1>3, <1>7, <1>8, <1>15 DEF MouseInv, InMouse
<1>13. SleepersJustified'
  BY <1>1, <1>3, <1>5, <1>6, <1>7, <1>8 DEF SleepersJustified
<1>14. PromiseInv'
  <2>1. ASSUME NEW q \in Proc, "mouse" \in promised'[q] PROVE packets' > 0
    BY <1>1, <1>2, <1>3, <2>1 DEF PromiseInv
  <2>2. ASSUME NEW q \in Proc, "console" \in promised'[q]
        PROVE  r' # w' \/ (pc'[q] \in InConsole /\ Some(q)')
    <3>1. "console" \in promised[q] /\ ~Breaks(p, q)
      BY <1>2, <2>2
    <3>2. r # w \/ (pc[q] \in InConsole /\ Some(q))
      BY <1>3, <3>1 DEF PromiseInv
    <3>3. CASE q # p
      <4>1. r' = r /\ w' = w
        BY <1>1, <3>1, <3>3 DEF Breaks
      <4>2. pc'[q] = pc[q] /\ (Some(q)' <=> Some(q))
        BY <1>7, <3>3 DEF Some
      <4> QED
        BY <3>2, <4>1, <4>2
    <3>4. CASE q = p /\ pc'[p] # "console sleep"
      BY <1>1, <3>1, <3>2, <3>4 DEF Breaks
    <3>5. CASE q = p /\ pc'[p] = "console sleep"
      <4>1. k = Minus(w, r) /\ left'[p] = left[p] - k /\ target'[p] = target[p]
        BY <1>8, <3>5
      <4>2. left[p] < target[p] \/ k > 0
        <5>1. r # w \/ left[p] < target[p]
          BY <3>2, <3>5 DEF Some
        <5> QED
          BY <1>6, <4>1, <5>1
      <4>3. left'[p] < target'[p]
        BY <1>9, <4>1, <4>2
      <4> QED
        BY <3>5, <4>3 DEF Some, InConsole
    <3> QED
      BY <3>3, <3>4, <3>5
  <2> QED
    BY <2>1, <2>2 DEF PromiseInv
<1> QED
  BY <1>5, <1>10, <1>11, <1>12, <1>13, <1>14 DEF IInv

-----------------------------------------------------------------------------
(* Reading the mouse *)

LEMMA ReadMouseStep == ASSUME IInv, NEW p \in Proc, ReadMouse(p) PROVE IInv'
<1>0. PICK n \in Size : left' = [left EXCEPT ![p] = n]
  BY DEF ReadMouse
<1>1. /\ pc[p] = "user" /\ pc' = [pc EXCEPT ![p] = "mouse lock"]
      /\ UNCHANGED <<buf, r, w, e, rawmode, vmin, target, killed>> /\ UNCHANGED eventVars
  BY DEF ReadMouse, Free, input, mode
<1>2. n \in Nat
  BY Sizes
<1>3. TypeOK'
  BY <1>0, <1>1, <1>2 DEF IInv, TypeOK, PcValue, eventVars
<1>4. /\ \A q \in Proc \ {p} : left'[q] = left[q] /\ target'[q] = target[q]
      /\ UNCHANGED <<input, packets, mouselock, promised>>
  BY <1>0, <1>1 DEF IInv, TypeOK, input, eventVars
<1> QED
  BY <1>1, <1>3, <1>4, CalmPlace DEF Away

LEMMA MouseLockStep == ASSUME IInv, NEW p \in Proc, MouseLock(p) PROVE IInv'
<1>1. /\ \E c \in {"mouse", "mouse again"} : pc' = [pc EXCEPT ![p] = c]
      /\ pc[p] \in {"mouse lock", "mouse again lock"}
      /\ mouselock = NoProc /\ mouselock' = p
      /\ UNCHANGED <<buf, r, w, e, rawmode, vmin, left, target, killed>>
      /\ UNCHANGED <<packets, ofile, item, timeleft, room, next, out, promised>>
  BY DEF MouseLock, input, mode, processVars
<1>2. TypeOK'
  BY <1>1 DEF IInv, TypeOK, PcValue
<1>3. RingInv'
  BY <1>1, RingKept DEF IInv, input
<1>4. pc'[p] \in {"mouse", "mouse again"} /\ \A q \in Proc \ {p} : pc'[q] = pc[q]
  BY <1>1 DEF IInv, TypeOK
<1>5. \A q \in Proc : pc[q] \notin InMouse
  BY <1>1, Sizes DEF IInv, MouseInv
<1>6. ReadInv'
  BY <1>1, <1>4 DEF IInv, ReadInv, InConsole
<1>7. MouseInv' /\ SleepersJustified'
  BY <1>1, <1>4, <1>5 DEF IInv, MouseInv, InMouse, SleepersJustified
<1>8. PromiseInv'
  BY <1>1, <1>4 DEF IInv, PromiseInv, InConsole, Some
<1> QED
  BY <1>2, <1>3, <1>6, <1>7, <1>8 DEF IInv

LEMMA MouseStepStep == ASSUME IInv, NEW p \in Proc, MouseStep(p) PROVE IInv'
<1>1. /\ pc[p] \in {"mouse", "mouse again"}
      /\ UNCHANGED <<buf, r, w, e, rawmode, vmin, target>>
      /\ UNCHANGED <<ofile, item, timeleft, room, next, out>>
  BY DEF MouseStep, input, mode
<1>2. TypeOK /\ ReadInv /\ MouseInv /\ SleepersJustified /\ PromiseInv
  BY DEF IInv
<1>3. RingInv'
  BY <1>1, RingKept DEF IInv, input
<1>4. mouselock = p /\ \A q \in Proc \ {p} : pc[q] \notin InMouse
  BY <1>1, <1>2 DEF MouseInv, InMouse
\* Whatever becomes of p, the readers of the console go on as before.
<1>5. ASSUME pc'[p] \in {"user", "mouse again lock", "mouse sleep"},
             \A q \in Proc \ {p} : pc'[q] = pc[q] /\ left'[q] = left[q],
             \A q \in Proc : promised'[q] \subseteq promised[q]
      PROVE  /\ ReadInv'
             /\ \A q \in Proc : "console" \in promised'[q] => r' # w' \/ (pc'[q] \in InConsole /\ Some(q)')
  <2>1. ReadInv'
    BY <1>1, <1>2, <1>5 DEF ReadInv, InConsole
  <2>2. ASSUME NEW q \in Proc, "console" \in promised'[q]
        PROVE  r' # w' \/ (pc'[q] \in InConsole /\ Some(q)')
    <3>1. r # w \/ (pc[q] \in InConsole /\ Some(q))
      BY <1>2, <1>5, <2>2 DEF PromiseInv
    <3>2. CASE q = p
      BY <1>1, <3>1, <3>2 DEF InConsole
    <3>3. CASE q # p
      BY <1>1, <1>5, <3>1, <3>3 DEF Some
    <3> QED
      BY <3>2, <3>3
  <2> QED
    BY <2>1, <2>2
<1>6. CASE MouseSleep(p)
  <2>1. /\ packets = 0 /\ pc' = [pc EXCEPT ![p] = "mouse sleep"]
        /\ KillBeforeSleep(p)
        /\ UNCHANGED <<packets, mouselock, left, promised>>
    BY <1>6 DEF MouseSleep
  <2>2. killed' \in [Proc -> BOOLEAN]
    BY <1>2, <2>1, KillBeforeSleepType
  <2>3. TypeOK'
    BY <1>1, <1>2, <2>1, <2>2 DEF TypeOK, PcValue
  <2>4. pc'[p] = "mouse sleep" /\ \A q \in Proc \ {p} : pc'[q] = pc[q]
    BY <1>2, <2>1 DEF TypeOK
  <2>5. MouseInv' /\ SleepersJustified'
    BY <1>1, <1>2, <1>4, <2>1, <2>4 DEF MouseInv, InMouse, SleepersJustified
  <2>6. ReadInv' /\ PromiseInv'
    BY <1>2, <1>5, <2>1, <2>4 DEF PromiseInv
  <2> QED
    BY <1>3, <2>3, <2>5, <2>6 DEF IInv
<1>7. CASE MouseTake(p)
  <2>1. /\ packets' = packets - Min({left[p], packets})
        /\ mouselock' = NoProc
        /\ pc' = [pc EXCEPT ![p] = "user"]
        /\ left' = [left EXCEPT ![p] = 0]
        /\ promised' = [q \in Proc |-> promised[q] \ {"mouse"}]
        /\ killed' = killed
    BY <1>7 DEF MouseTake
  <2>2. packets' \in 0..MOUSEBUFSIZE
    <3>1. left[p] \in Nat /\ packets \in 0..MOUSEBUFSIZE
      BY <1>2 DEF TypeOK
    <3>2. Min({left[p], packets}) = IF left[p] <= packets THEN left[p] ELSE packets
      BY <3>1, Sizes, MinOfTwo
    <3> QED
      BY <2>1, <3>1, <3>2, Sizes
  <2>3. TypeOK'
    BY <1>1, <1>2, <2>1, <2>2 DEF TypeOK, PcValue
  <2>4. pc'[p] = "user" /\ \A q \in Proc \ {p} : pc'[q] = pc[q] /\ left'[q] = left[q]
    BY <1>2, <2>1 DEF TypeOK
  <2>5. MouseInv' /\ SleepersJustified'
    BY <1>1, <1>2, <1>4, <2>1, <2>4, Sizes DEF MouseInv, InMouse, SleepersJustified
  <2>6. ReadInv' /\ PromiseInv'
    BY <1>2, <1>5, <2>1, <2>4 DEF PromiseInv
  <2> QED
    BY <1>3, <2>3, <2>5, <2>6 DEF IInv
<1>8. CASE MouseFail(p)
  <2>1. /\ packets = 0 /\ mouselock' = NoProc
        /\ \E c \in {"user", "mouse again lock"} : pc' = [pc EXCEPT ![p] = c]
        /\ left' = left \/ left' = [left EXCEPT ![p] = 0]
        /\ UNCHANGED <<packets, killed, promised>>
    BY <1>8 DEF MouseFail
  <2>2. left' \in [Proc -> Nat] /\ pc' \in [Proc -> PcValue]
    <3>1. pc \in [Proc -> PcValue] /\ left \in [Proc -> Nat]
      BY <1>2 DEF TypeOK
    <3>2. left' = left \/ left' = [left EXCEPT ![p] = 0]
      BY <2>1
    <3>3. left' \in [Proc -> Nat]
      BY <3>1, <3>2
    <3>4. PICK c \in PcValue : pc' = [pc EXCEPT ![p] = c]
      BY <2>1 DEF PcValue
    <3> QED
      BY <3>1, <3>3, <3>4
  <2>3. TypeOK'
    BY <1>1, <1>2, <2>1, <2>2 DEF TypeOK
  <2>4. /\ pc'[p] \in {"user", "mouse again lock"}
        /\ \A q \in Proc \ {p} : pc'[q] = pc[q] /\ left'[q] = left[q]
    BY <1>2, <2>1 DEF TypeOK
  <2>5. MouseInv' /\ SleepersJustified'
    BY <1>1, <1>2, <1>4, <2>1, <2>4, Sizes DEF MouseInv, InMouse, SleepersJustified
  <2>6. ReadInv' /\ PromiseInv'
    BY <1>2, <1>5, <2>1, <2>4 DEF PromiseInv
  <2> QED
    BY <1>3, <2>3, <2>5, <2>6 DEF IInv
<1> QED
  BY <1>6, <1>7, <1>8 DEF MouseStep

-----------------------------------------------------------------------------
(* The theorems *)

LEMMA Initially == Init => IInv
<1> SUFFICES ASSUME Init PROVE IInv
  OBVIOUS
<1>1. /\ buf = [i \in 0..INPUT_BUF - 1 |-> NEWLINE]
      /\ r = 0 /\ w = 0 /\ e = 0 /\ rawmode = FALSE /\ vmin = 1
      /\ pc = [p \in Proc |-> "user"] /\ left = [p \in Proc |-> 0]
      /\ target = [p \in Proc |-> 0] /\ killed = [p \in Proc |-> FALSE]
      /\ packets = 0 /\ mouselock = NoProc
      /\ ofile = [p \in Proc |-> [d \in Fd |-> IF d = 1 THEN "console" ELSE "mouse"]]
      /\ item = [s \in Slot |-> Unused] /\ timeleft = [p \in Proc |-> 0]
      /\ room = [p \in Proc |-> 0]
      /\ next = [p \in Proc |-> 1] /\ out = [p \in Proc |-> {}]
      /\ promised = [p \in Proc |-> {}]
  BY DEF Init, ConsoleInit
<1>2. 0 \in Position
  BY Sizes DEF Position
<1>3. 1 \in 1..EPOLL_MAXFDS + 1
  BY Sizes
<1>4. TypeOK
  <2>1. buf \in [0..INPUT_BUF - 1 -> Key \cup {NEWLINE}]
    BY <1>1
  <2>2. packets \in 0..MOUSEBUFSIZE
    BY <1>1, Sizes
  <2>3. /\ ofile \in [Proc -> [Fd -> File \cup {NoFile}]]
        /\ item \in [Slot -> Item]
    BY <1>1 DEF File, Item, Unused
  <2>4. /\ timeleft \in [Proc -> Nat \cup {Forever}] /\ next \in [Proc -> 1..EPOLL_MAXFDS + 1]
        /\ room \in [Proc -> Nat]
        /\ left \in [Proc -> Nat] /\ target \in [Proc -> Nat] /\ killed \in [Proc -> BOOLEAN]
        /\ pc \in [Proc -> PcValue] /\ vmin \in 0..1
    BY <1>1, <1>3 DEF PcValue
  <2>5. out \in [Proc -> SUBSET Slot] /\ promised \in [Proc -> SUBSET File]
    BY <1>1
  <2> QED
    BY <1>1, <1>2, <2>1, <2>2, <2>3, <2>4, <2>5 DEF TypeOK, Ring
<1>5. Minus(w, r) = 0 /\ Minus(e, w) = 0
  BY <1>1, <1>2, NoneBetween
<1>6. RingInv
  BY <1>5, Sizes DEF RingInv
<1>7. ReadInv /\ MouseInv /\ SleepersJustified /\ PromiseInv
  BY <1>1, Sizes DEF ReadInv, MouseInv, SleepersJustified, PromiseInv, InConsole, InMouse
<1> QED
  BY <1>4, <1>6, <1>7 DEF IInv

LEMMA Inductive == IInv /\ [ReopenNext]_vars => IInv'
<1> SUFFICES ASSUME IInv, [ReopenNext]_vars PROVE IInv'
  OBVIOUS
<1>1. CASE ConsoleInput
  BY <1>1, ConsoleInputStep
<1>2. CASE Termios
  BY <1>2, TermiosStep
<1>3. CASE MousePacket
  BY <1>3, MousePacketStep
<1>4. CASE Tick
  BY <1>4, TickStep
<1>5. ASSUME NEW p \in Proc, Step(p) PROVE IInv'
  BY <1>5, ConsoleReaderStep, MouseLockStep, MouseStepStep, ScanStep, ReportStep, SleepStep DEF Step, Poll
<1>6. ASSUME NEW p \in Proc, ConsoleRead(p) \/ ReadMouse(p) \/ Wait(p) \/ Killed(p) PROVE IInv'
  BY <1>6, ConsoleReadStep, ReadMouseStep, WaitStep, KilledStep
<1>7. ASSUME NEW p \in Proc, NEW d \in Fd, Add(p, d) \/ Del(p, d) \/ Close(p, d) \/ Open(p, d)
      PROVE  IInv'
  BY <1>7, AddStep, DelStep, CloseStep, OpenStep
<1>8. CASE UNCHANGED vars
  <2>1. UNCHANGED <<consoleVars, packets, mouselock, timeleft, room, next, out, promised, ofile, item>>
    BY <1>8 DEF vars, eventVars
  <2> QED
    BY <2>1, DescriptorStep DEF IInv, TypeOK
<1> QED
  BY <1>1, <1>2, <1>3, <1>4, <1>5, <1>6, <1>7, <1>8 DEF ReopenNext, Next

\* The invariant, also when event loops close files and open others.
THEOREM Invariance == ReopenSpec => []IInv
<1>1. Init => IInv
  BY Initially
<1>2. IInv /\ [ReopenNext]_vars => IInv'
  BY Inductive
<1> QED
  BY <1>1, <1>2, PTL DEF ReopenSpec

LEMMA SpecReopens == Spec => ReopenSpec
<1>1. [Next]_vars => [ReopenNext]_vars
  BY DEF ReopenNext
<1> QED
  BY <1>1, PTL DEF Spec, ReopenSpec

\* Every variable keeps its type.
THEOREM TypeCorrect == Spec => []TypeOK
<1>1. IInv => TypeOK
  BY DEF IInv
<1> QED
  BY <1>1, Invariance, SpecReopens, PTL

\* consoleread() and mouseread() sleep only while there is nothing to read
\* (console.c, mouse.c), however keys, mode changes and readers interleave.
THEOREM SleepersHaveReason == Spec => []SleepersJustified
<1>1. IInv => SleepersJustified
  BY DEF IInv
<1> QED
  BY <1>1, Invariance, SpecReopens, PTL

\* A read of a device that epoll_pwait() has reported gets something at once,
\* unless somebody else has read it (epoll.c).
THEOREM ReportedIsReadable == Spec => []ReadAfterPoll
<1>1. ASSUME IInv, NEW p \in Proc, pc[p] = "console sleep", "console" \in promised[p]
      PROVE  Some(p)
  BY <1>1 DEF IInv, SleepersJustified, PromiseInv
<1>2. ASSUME IInv, NEW p \in Proc, pc[p] = "mouse sleep", "mouse" \in promised[p]
      PROVE  FALSE
  <2>1. packets = 0
    BY <1>2 DEF IInv, SleepersJustified
  <2>2. packets > 0
    BY <1>2 DEF IInv, PromiseInv
  <2> QED
    BY <2>1, <2>2
<1>3. IInv => ReadAfterPoll
  BY <1>1, <1>2 DEF ReadAfterPoll
<1> QED
  BY <1>3, Invariance, SpecReopens, PTL

-----------------------------------------------------------------------------
(* Events implements Terminal *)

\* The characters from one index to another.
Between(b, x, y) == [i \in 1..Minus(y, x) |-> b[(x + i - 1) % INPUT_BUF]]

LEMMA BetweenIs ==
    ASSUME NEW b \in Ring, NEW x \in Position, NEW y \in Position
    PROVE  /\ Between(b, x, y) \in Seq(Key \cup {NEWLINE})
           /\ Len(Between(b, x, y)) = Minus(y, x) /\ Minus(y, x) \in Nat
           /\ \A i \in 1..Minus(y, x) : Between(b, x, y)[i] = b[(x + i - 1) % INPUT_BUF]
<1>1. Minus(y, x) \in Nat
  BY NoneBetween
<1>2. ASSUME NEW i \in 1..Minus(y, x) PROVE b[(x + i - 1) % INPUT_BUF] \in Key \cup {NEWLINE}
  <2>1. x + i - 1 \in Int
    BY <1>1, Sizes DEF Position
  <2>2. (x + i - 1) % INPUT_BUF \in 0..INPUT_BUF - 1
    BY <2>1, SlotType
  <2> QED
    BY <2>2 DEF Ring
<1> QED
  BY <1>1, <1>2 DEF Between

LEMMA BetweenNone ==
    ASSUME NEW b, NEW x \in Position PROVE Between(b, x, x) = <<>>
<1>1. Minus(x, x) = 0
  BY NoneBetween
<1> QED
  BY <1>1 DEF Between

\* The character that is typed comes after those that are being edited.
LEMMA StoreAppends ==
    ASSUME NEW b \in Ring, NEW y \in Position, NEW z \in Position, Minus(z, y) < INPUT_BUF,
           NEW k \in Key, NEW c, c = Stored(b, z, k)
    PROVE  Between(c, y, Plus(z, 1)) = Append(Between(b, y, z), k)
<1>1. PICK v : v = Minus(z, y)
  OBVIOUS
<1>2. v \in Nat /\ Plus(z, 1) \in Position /\ Minus(Plus(z, 1), y) = v + 1
  BY <1>1, NoneBetween, OneMore
<1>3. c \in Ring
  BY DEF Ring, Stored
<1>4. /\ \A i \in 1..v : c[(y + i - 1) % INPUT_BUF] = b[(y + i - 1) % INPUT_BUF]
      /\ c[(y + v) % INPUT_BUF] = k
  <2>1. /\ \A i \in 1..Minus(z, y) : Stored(b, z, k)[(y + i - 1) % INPUT_BUF]
                                      = b[(y + i - 1) % INPUT_BUF]
        /\ Stored(b, z, k)[(y + Minus(z, y)) % INPUT_BUF] = k
    BY StoreApart
  <2> QED
    BY <1>1, <2>1
<1>5. PICK s : s = Between(b, y, z)
  OBVIOUS
<1>6. /\ s \in Seq(Key \cup {NEWLINE}) /\ Len(s) = v
      /\ \A i \in 1..v : s[i] = b[(y + i - 1) % INPUT_BUF]
  BY <1>1, <1>5, BetweenIs
<1>7. /\ Append(s, k) \in Seq(Key \cup {NEWLINE}) /\ Len(Append(s, k)) = v + 1
      /\ \A i \in 1..v : Append(s, k)[i] = s[i]
      /\ Append(s, k)[v + 1] = k
  BY <1>6
<1>8. PICK t : t = Between(c, y, Plus(z, 1))
  OBVIOUS
<1>9. /\ t \in Seq(Key \cup {NEWLINE}) /\ Len(t) = v + 1
      /\ \A i \in 1..v + 1 : t[i] = c[(y + i - 1) % INPUT_BUF]
  <2>1. PICK q : q = Plus(z, 1)
    OBVIOUS
  <2>2. /\ Between(c, y, q) \in Seq(Key \cup {NEWLINE})
        /\ Len(Between(c, y, q)) = Minus(q, y)
        /\ \A i \in 1..Minus(q, y) : Between(c, y, q)[i] = c[(y + i - 1) % INPUT_BUF]
    BY <1>2, <1>3, <2>1, BetweenIs
  <2> QED
    BY <1>2, <1>8, <2>1, <2>2
<1>10. ASSUME NEW i \in 1..v + 1 PROVE t[i] = Append(s, k)[i]
  <2>1. CASE i \in 1..v
    BY <1>4, <1>6, <1>7, <1>9, <2>1
  <2>2. CASE i = v + 1
    <3>1. y + i - 1 = y + v
      BY <1>2, <2>2, Sizes DEF Position
    <3> QED
      BY <1>4, <1>7, <1>9, <2>2, <3>1
  <2>3. i \in 1..v \/ i = v + 1
    BY <1>2
  <2> QED
    BY <2>1, <2>2, <2>3
<1>11. t = Append(s, k)
  BY <1>7, <1>9, <1>10, SeqEqual
<1> QED
  BY <1>5, <1>8, <1>11

\* The characters from x to z are those from x to y and those from y to z.
LEMMA BetweenJoins ==
    ASSUME NEW b \in Ring, NEW x \in Position, NEW y \in Position, NEW z \in Position,
           Minus(y, x) + Minus(z, y) <= INPUT_BUF
    PROVE  Between(b, x, z) = Between(b, x, y) \o Between(b, y, z)
<1>1. PICK s, t, j : s = Between(b, x, y) /\ t = Between(b, y, z) /\ j = Between(b, x, z)
  OBVIOUS
<1>2. PICK u, v : u = Minus(y, x) /\ v = Minus(z, y)
  OBVIOUS
<1>3. u \in Nat /\ v \in Nat /\ u \in Position /\ Minus(z, x) = u + v
  BY <1>2, NoneBetween, MinusIs, Rejoin
<1>4. /\ s \in Seq(Key \cup {NEWLINE}) /\ Len(s) = u
      /\ \A i \in 1..u : s[i] = b[(x + i - 1) % INPUT_BUF]
  BY <1>1, <1>2, BetweenIs
<1>5. /\ t \in Seq(Key \cup {NEWLINE}) /\ Len(t) = v
      /\ \A i \in 1..v : t[i] = b[(y + i - 1) % INPUT_BUF]
  <2>1. /\ Between(b, y, z) \in Seq(Key \cup {NEWLINE})
        /\ Len(Between(b, y, z)) = Minus(z, y)
        /\ \A i \in 1..Minus(z, y) : Between(b, y, z)[i] = b[(y + i - 1) % INPUT_BUF]
    BY BetweenIs
  <2> QED
    BY <1>1, <1>2, <2>1
<1>6. /\ j \in Seq(Key \cup {NEWLINE}) /\ Len(j) = u + v
      /\ \A i \in 1..u + v : j[i] = b[(x + i - 1) % INPUT_BUF]
  <2>1. /\ Between(b, x, z) \in Seq(Key \cup {NEWLINE})
        /\ Len(Between(b, x, z)) = Minus(z, x)
        /\ \A i \in 1..Minus(z, x) : Between(b, x, z)[i] = b[(x + i - 1) % INPUT_BUF]
    BY BetweenIs
  <2> QED
    BY <1>1, <1>3, <2>1
<1>7. /\ s \o t \in Seq(Key \cup {NEWLINE}) /\ Len(s \o t) = u + v
      /\ \A i \in 1..u : (s \o t)[i] = s[i]
      /\ \A i \in u + 1..u + v : (s \o t)[i] = t[i - u]
  <2>1. /\ s \o t \in Seq(Key \cup {NEWLINE}) /\ Len(s \o t) = Len(s) + Len(t)
        /\ \A i \in 1..Len(s) + Len(t) :
              (s \o t)[i] = IF i <= Len(s) THEN s[i] ELSE t[i - Len(s)]
    BY <1>4, <1>5, ConcatProperties
  <2>2. Len(s) = u /\ Len(t) = v
    BY <1>4, <1>5
  <2>3. ASSUME NEW i \in 1..u PROVE (s \o t)[i] = s[i]
    <3>1. i \in 1..u + v /\ i <= u
      BY <1>3
    <3> QED
      BY <2>1, <2>2, <3>1
  <2>4. ASSUME NEW i \in u + 1..u + v PROVE (s \o t)[i] = t[i - u]
    <3>1. i \in 1..u + v /\ ~(i <= u)
      BY <1>3
    <3> QED
      BY <2>1, <2>2, <3>1
  <2> QED
    BY <2>1, <2>2, <2>3, <2>4
<1>8. y = Plus(x, u)
  BY <1>2, <1>3, LessInFront
<1>9. ASSUME NEW i \in 1..u + v PROVE j[i] = (s \o t)[i]
  <2>1. CASE i \in 1..u
    BY <1>4, <1>6, <1>7, <2>1
  <2>2. CASE i \in u + 1..u + v
    <3>1. i - u \in 1..v /\ i - u - 1 \in Int /\ i \in u + 1..u + v
      BY <1>3, <2>2
    <3>2. (Plus(x, u) + (i - u - 1)) % INPUT_BUF = (x + u + (i - u - 1)) % INPUT_BUF
      BY <1>3, <3>1, SlotAfter
    <3>3. x + u + (i - u - 1) = x + i - 1 /\ y + (i - u) - 1 = y + (i - u - 1)
      BY <1>3, Sizes DEF Position
    <3>4. t[i - u] = b[(y + (i - u) - 1) % INPUT_BUF]
      BY <1>5, <3>1
    <3>5. t[i - u] = b[(x + i - 1) % INPUT_BUF]
      BY <1>8, <3>2, <3>3, <3>4
    <3> QED
      BY <1>6, <1>7, <3>1, <3>5
  <2>3. i \in 1..u \/ i \in u + 1..u + v
    BY <1>3
  <2> QED
    BY <2>1, <2>2, <2>3
<1>10. j = s \o t
  BY <1>6, <1>7, <1>9, SeqEqual
<1> QED
  BY <1>1, <1>10

\* Without the last one.
LEMMA BetweenFront ==
    ASSUME NEW b \in Ring, NEW y \in Position, NEW z \in Position, y # z
    PROVE  /\ Between(b, y, z) # <<>>
           /\ Between(b, y, Minus(z, 1)) = SubSeq(Between(b, y, z), 1, Len(Between(b, y, z)) - 1)
<1>1. PICK s, t : s = Between(b, y, z) /\ t = Between(b, y, Minus(z, 1))
  OBVIOUS
<1>2. PICK v : v = Minus(z, y)
  OBVIOUS
<1>3. v \in Nat /\ v # 0 /\ Minus(z, 1) \in Position /\ Minus(Minus(z, 1), y) = v - 1
  BY <1>2, NoneBetween, OneLess
<1>4. /\ s \in Seq(Key \cup {NEWLINE}) /\ Len(s) = v
      /\ \A i \in 1..v : s[i] = b[(y + i - 1) % INPUT_BUF]
  BY <1>1, <1>2, BetweenIs
<1>5. /\ t \in Seq(Key \cup {NEWLINE}) /\ Len(t) = v - 1
      /\ \A i \in 1..v - 1 : t[i] = b[(y + i - 1) % INPUT_BUF]
  <2>1. PICK q : q = Minus(z, 1)
    OBVIOUS
  <2>2. /\ Between(b, y, q) \in Seq(Key \cup {NEWLINE})
        /\ Len(Between(b, y, q)) = Minus(q, y)
        /\ \A i \in 1..Minus(q, y) : Between(b, y, q)[i] = b[(y + i - 1) % INPUT_BUF]
    BY <1>3, <2>1, BetweenIs
  <2> QED
    BY <1>1, <1>3, <2>1, <2>2
<1>6. /\ SubSeq(s, 1, v - 1) \in Seq(Key \cup {NEWLINE}) /\ Len(SubSeq(s, 1, v - 1)) = v - 1
      /\ \A i \in 1..v - 1 : SubSeq(s, 1, v - 1)[i] = s[i]
  <2>1. 1 \in Int /\ v - 1 \in Int /\ \A i \in 1..v - 1 : s[i] \in Key \cup {NEWLINE}
    BY <1>3, <1>4
  <2> QED
    BY <1>3, <2>1, SubSeqProperties
<1>7. ASSUME NEW i \in 1..v - 1 PROVE t[i] = SubSeq(s, 1, v - 1)[i]
  <2>1. i \in 1..v
    BY <1>3
  <2> QED
    BY <1>4, <1>5, <1>6, <2>1
<1>8. t = SubSeq(s, 1, v - 1)
  BY <1>5, <1>6, <1>7, SeqEqual
<1> QED
  BY <1>1, <1>3, <1>4, <1>8

\* Without the first n.
LEMMA BetweenTail ==
    ASSUME NEW b \in Ring, NEW x \in Position, NEW y \in Position, NEW n \in 0..Minus(y, x)
    PROVE  Between(b, Plus(x, n), y)
              = SubSeq(Between(b, x, y), n + 1, Len(Between(b, x, y)))
<1>1. PICK s, t : s = Between(b, x, y) /\ t = Between(b, Plus(x, n), y)
  OBVIOUS
<1>2. PICK u : u = Minus(y, x)
  OBVIOUS
<1>3. /\ u \in Nat /\ n \in 0..u /\ n \in Position
      /\ Plus(x, n) \in Position /\ Minus(y, Plus(x, n)) = u - n
  BY <1>2, NoneBetween, LessInFront
<1>4. /\ s \in Seq(Key \cup {NEWLINE}) /\ Len(s) = u
      /\ \A i \in 1..u : s[i] = b[(x + i - 1) % INPUT_BUF]
  BY <1>1, <1>2, BetweenIs
<1>5. /\ t \in Seq(Key \cup {NEWLINE}) /\ Len(t) = u - n
      /\ \A i \in 1..u - n : t[i] = b[(Plus(x, n) + i - 1) % INPUT_BUF]
  <2>1. PICK q : q = Plus(x, n)
    OBVIOUS
  <2>2. /\ Between(b, q, y) \in Seq(Key \cup {NEWLINE})
        /\ Len(Between(b, q, y)) = Minus(y, q)
        /\ \A i \in 1..Minus(y, q) : Between(b, q, y)[i] = b[(q + i - 1) % INPUT_BUF]
    BY <1>3, <2>1, BetweenIs
  <2> QED
    BY <1>1, <1>3, <2>1, <2>2
<1>6. /\ SubSeq(s, n + 1, u) \in Seq(Key \cup {NEWLINE}) /\ Len(SubSeq(s, n + 1, u)) = u - n
      /\ \A i \in 1..u - n : SubSeq(s, n + 1, u)[i] = s[n + i]
  <2>1. PICK S, m : S = Key \cup {NEWLINE} /\ m = n + 1
    OBVIOUS
  <2>2. m \in Int /\ u \in Int /\ \A i \in m..u : s[i] \in S
    BY <1>3, <1>4, <2>1
  <2>3. /\ SubSeq(s, m, u) \in Seq(S)
        /\ Len(SubSeq(s, m, u)) = IF m <= u THEN u - m + 1 ELSE 0
        /\ \A i \in 1..u - m + 1 : SubSeq(s, m, u)[i] = s[m + i - 1]
    BY <2>2, SubSeqProperties
  <2>4. u - m + 1 = u - n /\ (IF m <= u THEN u - m + 1 ELSE 0) = u - n
    BY <1>3, <2>1
  <2>5. ASSUME NEW i \in 1..u - n PROVE m + i - 1 = n + i
    BY <1>3, <2>1
  <2> QED
    BY <2>1, <2>3, <2>4, <2>5
<1>7. ASSUME NEW i \in 1..u - n PROVE t[i] = SubSeq(s, n + 1, u)[i]
  <2>1. n + i \in 1..u /\ i - 1 \in Int
    BY <1>3
  <2>2. (Plus(x, n) + (i - 1)) % INPUT_BUF = (x + n + (i - 1)) % INPUT_BUF
    BY <1>3, <2>1, SlotAfter
  <2>3. Plus(x, n) + (i - 1) = Plus(x, n) + i - 1 /\ x + n + (i - 1) = x + (n + i) - 1
    BY <1>3, Sizes DEF Position
  <2>4. s[n + i] = b[(x + (n + i) - 1) % INPUT_BUF]
    BY <1>4, <2>1
  <2> QED
    BY <1>5, <1>6, <2>2, <2>3, <2>4
<1>8. t = SubSeq(s, n + 1, u)
  BY <1>5, <1>6, <1>7, SeqEqual
<1> QED
  BY <1>1, <1>4, <1>8

\* A character that is stored behind leaves them alone.
LEMMA StoreKeeps ==
    ASSUME NEW b \in Ring, NEW x \in Position, NEW y \in Position, NEW z \in Position,
           Minus(z, x) < INPUT_BUF, Minus(y, x) <= Minus(z, x), NEW k \in Key
    PROVE  Between(Stored(b, z, k), x, y) = Between(b, x, y)
<1>1. Minus(y, x) \in Nat /\ Minus(z, x) \in Nat
  BY NoneBetween
<1>2. \A i \in 1..Minus(z, x) : Stored(b, z, k)[(x + i - 1) % INPUT_BUF]
                                   = b[(x + i - 1) % INPUT_BUF]
  BY StoreApart
<1>3. \A i \in 1..Minus(y, x) : Stored(b, z, k)[(x + i - 1) % INPUT_BUF]
                                   = b[(x + i - 1) % INPUT_BUF]
  <2>1. 1..Minus(y, x) \subseteq 1..Minus(z, x)
    BY <1>1
  <2> QED
    BY <1>2, <2>1
<1> QED
  BY <1>3 DEF Between

LEMMA Indices ==
    /\ Index(r, w) = Between(buf, r, w)
    /\ Index(w, e) = Between(buf, w, e)
    /\ Index(r, w)' = Between(buf', r', w')
    /\ Index(w, e)' = Between(buf', w', e')
  BY DEF Index, Between, At, Minus

LEMMA TypeRefines ==
    ASSUME TypeOK, RingInv, NEW k \in Key, TypeRaw(k) \/ TypeCooked(k), rawmode' = rawmode
    PROVE  Lines!Type(k)
<1>1. PICK b, c, x, y, z, q : /\ b = buf /\ c = Stored(b, z, k) /\ x = r /\ y = w /\ z = e
                              /\ q = Plus(z, 1)
  OBVIOUS
<1>2. PICK u, v : u = Minus(y, x) /\ v = Minus(z, y)
  OBVIOUS
<1>3. PICK s, t : s = Between(b, x, y) /\ t = Between(b, y, z)
  OBVIOUS
<1>4. Store(k)
  BY DEF TypeRaw, TypeCooked
<1>5. b \in Ring /\ x \in Position /\ y \in Position /\ z \in Position
  BY <1>1 DEF TypeOK
<1>6. /\ u \in Nat /\ v \in Nat /\ u + v < INPUT_BUF /\ Minus(z, x) = u + v
      /\ q \in Position /\ Minus(q, x) = u + v + 1 /\ INPUT_BUF \in Nat
  <2>1. /\ u \in Nat /\ v \in Nat /\ u + v < INPUT_BUF /\ e' \in Position
        /\ e' = Plus(e, 1) /\ Minus(e', r) = u + v + 1
    BY <1>1, <1>2, <1>4, StoreStep
  <2>2. Minus(z, x) = u + v
    BY <1>2, <1>5, <2>1, Rejoin, Sizes
  <2> QED
    BY <1>1, <2>1, <2>2, Sizes
<1>7. buf' = c /\ r' = x /\ e' = q
  BY <1>1, <1>4 DEF Store, Stored
<1>8. /\ s \in Seq(Key \cup {NEWLINE}) /\ Len(s) = u
      /\ t \in Seq(Key \cup {NEWLINE}) /\ Len(t) = v
  BY <1>2, <1>3, <1>5, BetweenIs
<1>9. Len(Append(t, k)) = v + 1
  BY <1>8
<1>10. ~rawmode => k \notin {ERASE, KILL}
  BY DEF TypeRaw, TypeCooked
<1>11. ASSUME w' = q PROVE Index(r, w)' = s \o Append(t, k) /\ Index(w, e)' = <<>>
  <2>1. Between(c, x, q) = Append(Between(b, x, z), k)
    <3>1. Minus(z, x) < INPUT_BUF
      BY <1>6
    <3>2. Between(c, x, Plus(z, 1)) = Append(Between(b, x, z), k)
      BY <1>1, <1>5, <3>1, StoreAppends
    <3> QED
      BY <1>1, <3>2
  <2>2. Between(b, x, z) = s \o t
    <3>1. Minus(y, x) + Minus(z, y) <= INPUT_BUF
      BY <1>2, <1>6
    <3> QED
      BY <1>3, <1>5, <3>1, BetweenJoins
  <2>3. Append(s \o t, k) = s \o Append(t, k)
    <3>1. PICK S : S = Key \cup {NEWLINE}
      OBVIOUS
    <3>2. s \in Seq(S) /\ t \in Seq(S) /\ k \in S
      BY <1>8, <3>1
    <3>3. s \o t \in Seq(S) /\ <<k>> \in Seq(S)
      BY <3>2, ConcatProperties
    <3>4. Append(s \o t, k) = (s \o t) \o <<k>> /\ Append(t, k) = t \o <<k>>
      BY <3>2, <3>3, AppendIsConcat
    <3>5. (s \o t) \o <<k>> = s \o (t \o <<k>>)
      BY <3>2, <3>3, ConcatAssociative
    <3> QED
      BY <3>4, <3>5
  <2>4. Between(c, q, q) = <<>>
    BY <1>6, BetweenNone
  <2> QED
    BY <1>7, <1>11, <2>1, <2>2, <2>3, <2>4, Indices
<1>12. ASSUME w' = w PROVE Index(r, w)' = s /\ Index(w, e)' = Append(t, k)
  <2>1. Between(c, x, y) = s
    <3>1. Minus(z, x) < INPUT_BUF /\ Minus(y, x) <= Minus(z, x)
      BY <1>2, <1>6
    <3>2. Between(Stored(b, z, k), x, y) = Between(b, x, y)
      BY <1>5, <3>1, StoreKeeps
    <3> QED
      BY <1>1, <1>3, <3>2
  <2>2. Between(c, y, q) = Append(t, k)
    <3>1. Minus(z, y) < INPUT_BUF
      BY <1>2, <1>6
    <3>2. Between(c, y, Plus(z, 1)) = Append(Between(b, y, z), k)
      BY <1>1, <1>5, <3>1, StoreAppends
    <3> QED
      BY <1>1, <1>3, <3>2
  <2> QED
    BY <1>1, <1>7, <1>12, <2>1, <2>2, Indices
<1>13. s = Index(r, w) /\ t = Index(w, e)
  BY <1>1, <1>3, Indices
<1>14. Len(Index(r, w)) + Len(Append(Index(w, e), k)) = u + v + 1
  <2>1. Len(s) + Len(Append(t, k)) = u + v + 1
    BY <1>6, <1>8, <1>9
  <2> QED
    BY <1>13, <2>1
<1>15. Lines!HasRoom
  <2>1. Len(s) + Len(t) < INPUT_BUF
    BY <1>6, <1>8
  <2> QED
    BY <1>13, <2>1 DEF Lines!HasRoom
<1>16. EndsLine(k) <=> k \in {NEWLINE, EOF} \/ u + v + 1 = INPUT_BUF
  BY <1>1, <1>6 DEF EndsLine
<1>17. IF rawmode \/ k \in {NEWLINE, EOF} \/ u + v + 1 = INPUT_BUF
       THEN Index(r, w)' = s \o Append(t, k) /\ Index(w, e)' = <<>>
       ELSE Index(r, w)' = s /\ Index(w, e)' = Append(t, k)
  <2>1. CASE TypeRaw(k)
    <3>1. w' = q /\ rawmode
      BY <1>1, <2>1 DEF TypeRaw
    <3> QED
      BY <1>11, <3>1
  <2>2. CASE TypeCooked(k)
    <3>1. /\ ~rawmode
          /\ IF EndsLine(k) THEN w' = q ELSE w' = w
      BY <1>1, <2>2 DEF TypeCooked
    <3> QED
      BY <1>11, <1>12, <1>16, <3>1
  <2> QED
    BY <2>1, <2>2
<1> QED
  BY <1>10, <1>13, <1>14, <1>15, <1>17 DEF Lines!Type

LEMMA EraseRefines ==
    ASSUME TypeOK, NEW k \in Key, Erase(k), rawmode' = rawmode PROVE Lines!Erase
<1>1. PICK b, y, z : b = buf /\ y = w /\ z = e
  OBVIOUS
<1>2. b \in Ring /\ y \in Position /\ z \in Position /\ y # z
  BY <1>1 DEF TypeOK, Erase
<1>3. /\ Between(b, y, z) # <<>>
      /\ Between(b, y, Minus(z, 1)) = SubSeq(Between(b, y, z), 1, Len(Between(b, y, z)) - 1)
  BY <1>2, BetweenFront
<1>4. ~rawmode /\ buf' = b /\ r' = r /\ w' = y /\ e' = Minus(z, 1)
  BY <1>1 DEF Erase
<1>5. Index(r, w)' = Index(r, w) /\ Index(w, e)' = Between(b, y, Minus(z, 1))
  BY <1>1, <1>4, Indices
<1>6. Index(w, e) = Between(b, y, z)
  BY <1>1, Indices
<1> QED
  BY <1>3, <1>4, <1>5, <1>6 DEF Lines!Erase, Lines!Front

LEMMA KillRefines ==
    ASSUME TypeOK, RingInv, NEW k \in Key, KillLine(k), rawmode' = rawmode PROVE Lines!Kill
<1>1. ~rawmode /\ buf' = buf /\ r' = r /\ w' = w /\ e' = w
  BY KillLineStep DEF KillLine
<1>2. Between(buf, w, w) = <<>>
  BY BetweenNone DEF TypeOK
<1>3. Index(r, w)' = Index(r, w) /\ Index(w, e)' = <<>>
  BY <1>1, <1>2, Indices
<1> QED
  BY <1>1, <1>3 DEF Lines!Kill

\* A reader takes what it finds, or nothing.
LEMMA TakeRefines ==
    ASSUME TypeOK, RingInv, NEW p \in Proc, ConsoleStep(p) PROVE [Lines!Next]_Lines!vars
<1>1. PICK b, x, y, n : b = buf /\ x = r /\ y = w /\ n = Taken(p)
  OBVIOUS
<1>2. PICK u, s : u = Minus(y, x) /\ s = Between(b, x, y)
  OBVIOUS
<1>3. b \in Ring /\ x \in Position /\ y \in Position
  BY <1>1 DEF TypeOK
<1>4. /\ n \in 0..u /\ u \in Nat
      /\ ~rawmode => \A i \in 1..n - 1 : b[(x + i - 1) % INPUT_BUF] \notin {NEWLINE, EOF}
  BY <1>1, <1>2, <1>3, TakenIs, NoneBetween DEF At
<1>5. /\ Len(s) = u /\ \A i \in 1..u : s[i] = b[(x + i - 1) % INPUT_BUF]
  BY <1>2, <1>3, BetweenIs
<1>6. u <= INPUT_BUF /\ INPUT_BUF \in Nat
  <2>1. Minus(e, w) \in Nat /\ u + Minus(e, w) <= INPUT_BUF
    BY <1>1, <1>2, NoneBetween DEF TypeOK, RingInv
  <2> QED
    BY <1>4, <2>1, Sizes
<1>7. buf' = b /\ r' = Plus(x, n) /\ w' = y /\ e' = e /\ rawmode' = rawmode
  BY <1>1 DEF ConsoleStep, mode
<1>8. Between(b, Plus(x, n), y) = SubSeq(s, n + 1, Len(s))
  <2>1. n \in 0..Minus(y, x)
    BY <1>2, <1>4
  <2>2. Between(b, Plus(x, n), y) = SubSeq(Between(b, x, y), n + 1, Len(Between(b, x, y)))
    BY <1>3, <2>1, BetweenTail
  <2> QED
    BY <1>2, <2>2
<1>9. s = Index(r, w) /\ Index(w, e)' = Index(w, e)
  BY <1>1, <1>2, <1>7, Indices
<1>10. Index(r, w)' = SubSeq(Index(r, w), n + 1, Len(Index(r, w)))
  BY <1>7, <1>8, <1>9, Indices
<1>11. CASE n = 0
  <2>1. r' = r
    <3>1. Plus(x, 0) = IF x + 0 < UintMod THEN x + 0 ELSE x + 0 - UintMod
      BY <1>3, PlusIs, Sizes DEF Position
    <3> QED
      BY <1>1, <1>3, <1>7, <1>11, <3>1, Sizes DEF Position
  <2>2. Index(r, w)' = Index(r, w)
    BY <1>1, <1>7, <2>1, Indices
  <2> QED
    BY <1>7, <1>9, <2>2 DEF Lines!vars
<1>12. CASE n # 0
  <2>1. n \in 1..u /\ n \in 1..INPUT_BUF
    BY <1>4, <1>6, <1>12
  <2>2. ~rawmode => \A i \in 1..n - 1 : s[i] \notin {NEWLINE, EOF}
    <3> SUFFICES ASSUME ~rawmode, NEW i \in 1..n - 1 PROVE s[i] \notin {NEWLINE, EOF}
      OBVIOUS
    <3>1. i \in 1..u
      BY <1>4, <2>1
    <3> QED
      BY <1>4, <1>5, <3>1
  <2>3. Lines!Take(n)
    BY <1>5, <1>7, <1>9, <1>10, <2>1, <2>2 DEF Lines!Take
  <2> QED
    BY <2>1, <2>3 DEF Lines!Next
<1> QED
  BY <1>11, <1>12

LEMMA Idle == ASSUME UNCHANGED <<input, rawmode>> PROVE UNCHANGED Lines!vars
<1>1. UNCHANGED <<buf, r, w, e, rawmode>>
  BY DEF input
<1>2. Index(r, w)' = Index(r, w) /\ Index(w, e)' = Index(w, e)
  BY <1>1, Indices
<1> QED
  BY <1>1, <1>2 DEF Lines!vars

LEMMA StepRefines == IInv /\ [Next]_vars => [Lines!Next]_Lines!vars
<1> SUFFICES ASSUME IInv, [Next]_vars PROVE [Lines!Next]_Lines!vars
  OBVIOUS
<1>0. TypeOK /\ RingInv
  BY DEF IInv
<1>1. CASE ConsoleInput
  <2>1. PICK k \in Key : /\ TypeRaw(k) \/ TypeCooked(k) \/ Erase(k) \/ KillLine(k)
                         /\ rawmode' = rawmode
    BY <1>1 DEF ConsoleInput, Keystroke, mode
  <2>2. Lines!Type(k) \/ Lines!Erase \/ Lines!Kill
    BY <1>0, <2>1, TypeRefines, EraseRefines, KillRefines
  <2> QED
    BY <2>2 DEF Lines!Next
<1>2. CASE Termios
  <2>1. UNCHANGED <<buf, r, w, e>> /\ rawmode' \in BOOLEAN
    BY <1>2 DEF Termios, SetMode, input
  <2>2. Index(r, w)' = Index(r, w) /\ Index(w, e)' = Index(w, e)
    BY <2>1, Indices
  <2> QED
    BY <2>1, <2>2 DEF Lines!Next, Lines!SetMode
<1>3. ASSUME NEW p \in Proc, ConsoleReader(p) PROVE [Lines!Next]_Lines!vars
  BY <1>0, <1>3, TakeRefines DEF ConsoleReader
<1>4. CASE \/ MousePacket \/ Tick
           \/ \E p \in Proc :
                 \/ MouseLock(p) \/ MouseStep(p) \/ Scan(p) \/ Report(p) \/ Sleep(p)
                 \/ ConsoleRead(p) \/ ReadMouse(p) \/ Wait(p) \/ Killed(p)
                 \/ \E d \in Fd : Add(p, d) \/ Del(p, d)
  <2>1. UNCHANGED <<input, rawmode>>
    BY <1>4 DEF MousePacket, Tick, MouseLock, MouseStep, Scan, Report, Sleep, ConsoleRead,
                ReadConsole, ReadMouse, Wait, Killed, Kill, Add, Del, mode, consoleVars, input
  <2> QED
    BY <2>1, Idle
<1>5. CASE UNCHANGED vars
  <2>1. UNCHANGED <<input, rawmode>>
    BY <1>5 DEF vars, consoleVars, input
  <2> QED
    BY <2>1, Idle
<1> QED
  BY <1>1, <1>2, <1>3, <1>4, <1>5 DEF Next, Step, Poll

\* The ring of console.c, with its three indices, its editing keys and its
\* readers, is a terminal with lines: what is typed is read once and in order,
\* a line at a time, and what is entered is not edited any more.
THEOREM ConsoleImplementsTerminal == Spec => RefinesTerminal
<1>1. Init => Lines!Init
  <2> SUFFICES ASSUME Init PROVE Lines!Init
    OBVIOUS
  <2>1. r = 0 /\ w = 0 /\ e = 0 /\ rawmode = FALSE
    BY DEF Init, ConsoleInit
  <2>2. 0 \in Position
    BY Sizes DEF Position
  <2>3. Between(buf, 0, 0) = <<>>
    BY <2>2, BetweenNone
  <2> QED
    BY <2>1, <2>3, Indices DEF Lines!Init
<1>2. IInv /\ [Next]_vars => [Lines!Next]_Lines!vars
  BY StepRefines
<1>3. Spec => []IInv
  BY Invariance, SpecReopens, PTL
<1> QED
  BY <1>1, <1>2, <1>3, PTL DEF Spec, RefinesTerminal, Lines!Spec
=============================================================================
