------------------------------ MODULE Counters ------------------------------
(***************************************************************************)
(* Lemmas about counters that are never reduced, wrap at a power of two,   *)
(* and index a ring: those of kernel/pipe.c and of kernel/console.c.  And  *)
(* about what several counters add up to, such as the references to one    *)
(* file that kernel/file.c counts.                                         *)
(***************************************************************************)
EXTENDS Integers, FiniteSets, Functions, FiniteSetTheorems,
        WellFoundedInduction, TLAPS

\* A remainder is in the range of the counter.
LEMMA ModRange ==
    ASSUME NEW m \in Nat \ {0}, NEW x \in Int
    PROVE  x % m \in 0..(m - 1)
  BY SMT

\* The difference of two counters: no wrap, or one.
LEMMA Difference ==
    ASSUME NEW m \in Nat \ {0}, NEW x \in 0..(m - 1), NEW y \in 0..(m - 1)
    PROVE  (y - x) % m = IF x <= y THEN y - x ELSE y - x + m
<1>1. ASSUME NEW z \in 0..(m - 1) PROVE z % m = z
  BY <1>1, SMT
<1>2. ASSUME NEW z \in Int, -m <= z, z < 0 PROVE z % m = z + m
  BY <1>2, SMT
<1>3. CASE x <= y
  BY <1>1, <1>3
<1>4. CASE x > y
  BY <1>2, <1>4
<1> QED
  BY <1>3, <1>4

\* Adding less than the modulus to a counter: no wrap, or one.
LEMMA Sum ==
    ASSUME NEW m \in Nat \ {0}, NEW x \in 0..(m - 1), NEW k \in 0..(m - 1)
    PROVE  (x + k) % m = IF x + k < m THEN x + k ELSE x + k - m
<1>1. ASSUME NEW z \in 0..(m - 1) PROVE z % m = z
  BY <1>1, SMT
<1>2. ASSUME NEW z \in m..(2 * m - 1) PROVE z % m = z - m
  BY <1>2, SMT
<1>3. CASE x + k < m
  BY <1>1, <1>3
<1>4. CASE x + k >= m
  BY <1>2, <1>4
<1> QED
  BY <1>3, <1>4

\* There is no multiple of a number between 0 and it.
LEMMA NoMultiple ==
    ASSUME NEW n \in Nat \ {0}, NEW t \in Int, 0 < n * t, n * t < n
    PROVE  FALSE
<1>1. CASE t <= 0
  BY <1>1, SMT
<1>2. CASE t >= 1
  BY <1>2, SMT
<1> QED
  BY <1>1, <1>2

\* Numbers with the same remainder differ by a multiple.
LEMMA SameRemainder ==
    ASSUME NEW n \in Nat \ {0}, NEW x \in Int, NEW y \in Int, x % n = y % n
    PROVE  \E t \in Int : y - x = n * t
<1> DEFINE t == (y \div n) - (x \div n)
<1>1. x = n * (x \div n) + (x % n) /\ y = n * (y \div n) + (y % n)
  BY SMT
<1>2. (x \div n) \in Int /\ (y \div n) \in Int
  BY SMT
<1>3. y - x = n * (y \div n) - n * (x \div n)
  BY <1>1, <1>2, ModRange
<1>4. n * t = n * (y \div n) - n * (x \div n)
  BY <1>2, SMT
<1>5. t \in Int
  BY <1>2
<1> HIDE DEF t
<1> QED
  BY <1>3, <1>4, <1>5

\* Numbers that differ by less than the ring have different slots.
LEMMA NearSlots ==
    ASSUME NEW n \in Nat \ {0}, NEW x \in Int, NEW y \in Int, x < y, y - x < n
    PROVE  x % n # y % n
<1> SUFFICES ASSUME x % n = y % n PROVE FALSE
  OBVIOUS
<1>1. PICK t \in Int : y - x = n * t
  BY SameRemainder
<1>2. 0 < n * t /\ n * t < n
  BY <1>1
<1> QED
  BY <1>2, NoMultiple

\* Numbers that differ by laps of the ring have the same slot.
LEMMA FarSlots ==
    ASSUME NEW n \in Nat \ {0}, NEW x \in Int, NEW y \in Int, NEW t \in Int, y - x = n * t
    PROVE  x % n = y % n
<1>1. x % n \in 0..(n - 1) /\ y % n \in 0..(n - 1)
  BY ModRange
<1>2. PICK a \in Int : x - (x % n) = n * a
  <2>1. x = n * (x \div n) + (x % n) /\ (x \div n) \in Int
    BY SMT
  <2>2. x - (x % n) = n * (x \div n)
    BY <2>1, <1>1
  <2> QED
    BY <2>1, <2>2
<1>3. PICK b \in Int : y - (y % n) = n * b
  <2>1. y = n * (y \div n) + (y % n) /\ (y \div n) \in Int
    BY SMT
  <2>2. y - (y % n) = n * (y \div n)
    BY <2>1, <1>1
  <2> QED
    BY <2>1, <2>2
<1>4. (x % n) - (y % n) = n * (b - a - t)
  <2>1. n * (b - a - t) = n * b - n * a - n * t
    BY SMT
  <2> QED
    BY <1>1, <1>2, <1>3, <2>1
<1>5. n * (a + t - b) = -(n * (b - a - t))
  BY SMT
<1>6. CASE x % n > y % n
  <2>1. 0 < n * (b - a - t) /\ n * (b - a - t) < n
    BY <1>1, <1>4, <1>6
  <2> QED
    BY <2>1, NoMultiple
<1>7. CASE y % n > x % n
  <2>1. 0 < n * (a + t - b) /\ n * (a + t - b) < n
    BY <1>1, <1>4, <1>5, <1>7
  <2> QED
    BY <2>1, NoMultiple
<1> QED
  BY <1>1, <1>6, <1>7

\* The slot of a counter does not change when the counter wraps.
LEMMA SlotWraps ==
    ASSUME NEW n \in Nat \ {0}, NEW m \in Nat \ {0}, m % n = 0, NEW x \in Int
    PROVE  (x % m) % n = x % n
<1>1. PICK k \in Int : m = n * k
  <2>1. 0 % n = m % n
    BY SMT
  <2>2. n \in Nat \ {0} /\ 0 \in Int /\ m \in Int
    OBVIOUS
  <2>3. PICK t \in Int : m - 0 = n * t
    BY <2>1, <2>2, SameRemainder, Zenon
  <2> QED
    BY <2>3
<1>2. x = m * (x \div m) + (x % m) /\ (x \div m) \in Int
  BY SMT
<1>3. x % m \in Int
  BY ModRange
<1> DEFINE d == x \div m
<1>4. x - (x % m) = n * (k * d)
  <2>1. d \in Int
    BY <1>2
  <2> HIDE DEF d
  <2>2. m * d = n * (k * d)
    BY <1>1, <2>1, SMT
  <2>3. x = m * d + (x % m)
    BY <1>2 DEF d
  <2>4. ASSUME NEW y \in Int, NEW z \in Int, x = y + z PROVE x - z = y
    BY <2>4
  <2>5. m * d \in Int
    BY <2>1
  <2>6. x - (x % m) = m * d
    BY <1>3, <2>3, <2>4, <2>5, Zenon
  <2> QED
    BY <2>2, <2>6, Zenon
<1>5. k * d \in Int
  BY <1>2
<1> HIDE DEF d
<1> QED
  BY <1>3, <1>4, <1>5, FarSlots

-----------------------------------------------------------------------------
(* Sums: SumFunctionOnSet(), of the community modules *)

\* The sum of g over a set is the number of its units.
Units(g, s) == {u \in s \X Nat : u[2] \in 1..g[u[1]]}
Counts(g, S) == IsFiniteSet(S) /\ \A x \in S : g[x] \in Nat

LEMMA UnitsSplit ==
    ASSUME NEW g, NEW s, NEW x \in s, g[x] \in Nat, IsFiniteSet(Units(g, s \ {x}))
    PROVE  /\ IsFiniteSet(Units(g, s))
           /\ Cardinality(Units(g, s)) = g[x] + Cardinality(Units(g, s \ {x}))
           /\ Cardinality(Units(g, s \ {x})) \in Nat
<1> DEFINE U == {x} \X (1..g[x])
<1>1. IsFiniteSet({x}) /\ Cardinality({x}) = 1
  BY FS_Singleton
<1>2. IsFiniteSet(1..g[x]) /\ Cardinality(1..g[x]) = g[x]
  BY FS_Interval
<1>3. IsFiniteSet(U) /\ Cardinality(U) = g[x]
  <2>1. IsFiniteSet(U) /\ Cardinality(U) = 1 * g[x]
    BY <1>1, <1>2, FS_Product
  <2> QED
    BY <2>1
<1>4. Units(g, s) = Units(g, s \ {x}) \cup U
  <2>1. ASSUME NEW u \in Units(g, s) PROVE u \in Units(g, s \ {x}) \cup U
    BY <2>1 DEF Units
  <2>2. ASSUME NEW u \in U PROVE u \in Units(g, s)
    BY <2>2 DEF Units
  <2>3. Units(g, s \ {x}) \subseteq Units(g, s)
    BY DEF Units
  <2> QED
    BY <2>1, <2>2, <2>3
<1>5. Units(g, s \ {x}) \cap U = {}
  BY DEF Units
<1>6. Cardinality({}) = 0 /\ Cardinality(Units(g, s \ {x})) \in Nat
  BY FS_EmptySet, FS_CardinalityType
<1> HIDE DEF U
<1>7. /\ IsFiniteSet(Units(g, s))
      /\ Cardinality(Units(g, s)) = Cardinality(Units(g, s \ {x})) + g[x] - 0
  BY <1>3, <1>4, <1>5, <1>6, FS_Union
<1> QED
  BY <1>6, <1>7

\* Whatever fails for a subset of a finite set fails for a least one.
LEMMA LeastSubset ==
    ASSUME NEW S, IsFiniteSet(S), NEW T \in SUBSET (SUBSET S), T # {}
    PROVE  \E s \in T : \A t \in T : t \subseteq s => t = s
<1>1. IsWellFoundedOn(StrictSubsetOrdering(S), SUBSET S)
  BY FS_StrictSubsetOrderingWellFounded, FS_FiniteSubsetsOfFinite
<1>2. PICK s \in T : \A t \in T : ~(<<t, s>> \in StrictSubsetOrdering(S))
  BY <1>1, WFMin
<1> QED
  BY <1>2 DEF StrictSubsetOrdering

LEMMA UnitsFinite ==
    ASSUME NEW g, NEW S, Counts(g, S)
    PROVE  \A s \in SUBSET S : IsFiniteSet(Units(g, s)) /\ Cardinality(Units(g, s)) \in Nat
<1> DEFINE T == {s \in SUBSET S : ~IsFiniteSet(Units(g, s))}
<1>1. ASSUME T # {} PROVE FALSE
  <2>0. T \in SUBSET (SUBSET S)
    OBVIOUS
  <2>1. PICK s \in T : \A t \in T : t \subseteq s => t = s
    <3> HIDE DEF T
    <3> QED
      BY <1>1, <2>0, LeastSubset DEF Counts
  <2>2. CASE s = {}
    <3>1. Units(g, s) = {}
      BY <2>2 DEF Units
    <3> QED
      BY <3>1, FS_EmptySet
  <2>3. CASE s # {}
    <3>1. PICK x \in s : TRUE
      BY <2>3
    <3>2. s \ {x} \in SUBSET S /\ s \ {x} # s /\ g[x] \in Nat
      BY <3>1 DEF Counts
    <3>3. IsFiniteSet(Units(g, s \ {x}))
      BY <2>1, <3>2
    <3> QED
      BY <3>2, <3>3, UnitsSplit
  <2> QED
    BY <2>2, <2>3
<1> QED
  BY <1>1, FS_CardinalityType

\* The equations of SumFunctionOnSet(), and that there is only one solution.
Solves(h, g, S) == h = [s \in SUBSET S |->
    IF s = {} THEN 0 ELSE g[CHOOSE x \in s : TRUE] + h[s \ {CHOOSE x \in s : TRUE}]]

LEMMA SumSolves ==
    ASSUME NEW g, NEW S, NEW k, Solves(k, g, S)
    PROVE  \E h : Solves(h, g, S) /\ SumFunctionOnSet(g, S) = h[S]
<1> DEFINE h == CHOOSE h : h = [s \in SUBSET S |->
    IF s = {} THEN 0 ELSE g[CHOOSE x \in s : TRUE] + h[s \ {CHOOSE x \in s : TRUE}]]
<1>1. SumFunctionOnSet(g, S) = h[S]
  BY DEF SumFunctionOnSet, FoldFunctionOnSet, MapThenFoldSet
<1>2. h = [s \in SUBSET S |->
    IF s = {} THEN 0 ELSE g[CHOOSE x \in s : TRUE] + h[s \ {CHOOSE x \in s : TRUE}]]
  BY DEF Solves
<1> QED
  BY <1>1, <1>2 DEF Solves

LEMMA UnitsSolve ==
    ASSUME NEW g, NEW S, Counts(g, S)
    PROVE  Solves([s \in SUBSET S |-> Cardinality(Units(g, s))], g, S)
<1> DEFINE k == [s \in SUBSET S |-> Cardinality(Units(g, s))]
<1>1. ASSUME NEW s \in SUBSET S
      PROVE  k[s] = IF s = {} THEN 0
                    ELSE g[CHOOSE x \in s : TRUE] + k[s \ {CHOOSE x \in s : TRUE}]
  <2>1. CASE s = {}
    <3>1. Units(g, s) = {}
      BY <2>1 DEF Units
    <3> QED
      BY <2>1, <3>1, FS_EmptySet
  <2>2. CASE s # {}
    <3>1. PICK x \in s : x = CHOOSE y \in s : TRUE
      BY <2>2
    <3>2. s \ {x} \in SUBSET S /\ g[x] \in Nat
      BY DEF Counts
    <3>3. k[s] = g[x] + k[s \ {x}]
      BY <3>2, UnitsFinite, UnitsSplit
    <3> QED
      BY <2>2, <3>1, <3>3
  <2> QED
    BY <2>1, <2>2
<1> QED
  BY <1>1 DEF Solves

LEMMA OneSolution ==
    ASSUME NEW g, NEW S, IsFiniteSet(S), NEW h, NEW k, Solves(h, g, S), Solves(k, g, S)
    PROVE  h[S] = k[S]
<1> DEFINE T == {s \in SUBSET S : h[s] # k[s]}
<1>1. ASSUME T # {} PROVE FALSE
  <2>0. T \in SUBSET (SUBSET S)
    OBVIOUS
  <2>1. PICK s \in T : \A t \in T : t \subseteq s => t = s
    <3> HIDE DEF T
    <3> QED
      BY <1>1, <2>0, LeastSubset
  <2>2. CASE s = {}
    BY <2>2 DEF Solves
  <2>3. CASE s # {}
    <3>1. PICK x \in s : x = CHOOSE y \in s : TRUE
      BY <2>3
    <3>2. h[s \ {x}] = k[s \ {x}]
      BY <2>1
    <3>3. h[s] = g[x] + h[s \ {x}] /\ k[s] = g[x] + k[s \ {x}]
      BY <2>3, <3>1 DEF Solves
    <3> QED
      BY <3>2, <3>3
  <2> QED
    BY <2>2, <2>3
<1> QED
  BY <1>1

LEMMA SumIsUnits ==
    ASSUME NEW g, NEW S, Counts(g, S)
    PROVE  SumFunctionOnSet(g, S) = Cardinality(Units(g, S))
<1> DEFINE k == [s \in SUBSET S |-> Cardinality(Units(g, s))]
<1>1. Solves(k, g, S)
  BY UnitsSolve
<1>2. k[S] = Cardinality(Units(g, S))
  OBVIOUS
<1> HIDE DEF k
<1>3. PICK h : Solves(h, g, S) /\ SumFunctionOnSet(g, S) = h[S]
  BY <1>1, SumSolves
<1> QED
  BY <1>1, <1>2, <1>3, OneSolution DEF Counts

LEMMA SumType ==
    ASSUME NEW g, NEW S, Counts(g, S)
    PROVE  SumFunctionOnSet(g, S) \in Nat
  BY SumIsUnits, UnitsFinite

\* What a sum is does not depend on the order.
LEMMA SumSplit ==
    ASSUME NEW g, NEW S, Counts(g, S), NEW x \in S
    PROVE  /\ SumFunctionOnSet(g, S) = g[x] + SumFunctionOnSet(g, S \ {x})
           /\ Counts(g, S \ {x})
<1>1. Counts(g, S \ {x}) /\ g[x] \in Nat
  BY FS_RemoveElement DEF Counts
<1>2. IsFiniteSet(Units(g, S \ {x}))
  BY UnitsFinite
<1>3. Cardinality(Units(g, S)) = g[x] + Cardinality(Units(g, S \ {x}))
  BY <1>1, <1>2, UnitsSplit
<1>4. SumFunctionOnSet(g, S) = Cardinality(Units(g, S))
  BY SumIsUnits
<1>5. SumFunctionOnSet(g, S \ {x}) = Cardinality(Units(g, S \ {x}))
  BY <1>1, SumIsUnits
<1> QED
  BY <1>1, <1>3, <1>4, <1>5

LEMMA SumEmpty ==
    ASSUME NEW g
    PROVE  SumFunctionOnSet(g, {}) = 0
<1>1. Counts(g, {}) /\ Units(g, {}) = {}
  BY FS_EmptySet DEF Counts, Units
<1> QED
  BY <1>1, SumIsUnits, FS_EmptySet

LEMMA SumSame ==
    ASSUME NEW g, NEW h, NEW S, Counts(g, S), \A x \in S : h[x] = g[x]
    PROVE  SumFunctionOnSet(h, S) = SumFunctionOnSet(g, S) /\ Counts(h, S)
<1>1. Counts(h, S)
  BY DEF Counts
<1>2. Units(h, S) = Units(g, S)
  BY DEF Units
<1> QED
  BY <1>1, <1>2, SumIsUnits

\* One of the numbers changes.
Changes(g, h, S, x) ==
    Counts(g, S) /\ x \in S /\ h[x] \in Nat /\ \A y \in S \ {x} : h[y] = g[y]

LEMMA SumChange ==
    ASSUME NEW g, NEW h, NEW S, NEW x, Changes(g, h, S, x)
    PROVE  /\ SumFunctionOnSet(h, S) = SumFunctionOnSet(g, S) - g[x] + h[x]
           /\ Counts(h, S)
           /\ SumFunctionOnSet(g, S) \in Nat /\ SumFunctionOnSet(h, S) \in Nat
           /\ g[x] \in Nat /\ g[x] <= SumFunctionOnSet(g, S)
<1> DEFINE rest == SumFunctionOnSet(g, S \ {x})
<1> USE DEF Changes
<1>1. Counts(h, S) /\ g[x] \in Nat
  BY DEF Counts
<1>2. SumFunctionOnSet(g, S) = g[x] + rest /\ Counts(g, S \ {x})
  BY SumSplit
<1>3. SumFunctionOnSet(h, S) = h[x] + SumFunctionOnSet(h, S \ {x})
  BY <1>1, SumSplit
<1>4. SumFunctionOnSet(h, S \ {x}) = rest
  BY <1>2, SumSame
<1>5. rest \in Nat
  BY <1>2, SumType
<1> QED
  BY <1>1, <1>2, <1>3, <1>4, <1>5

\* Nothing, and one each.
LEMMA SumZero ==
    ASSUME NEW g, NEW S, IsFiniteSet(S), \A x \in S : g[x] = 0
    PROVE  SumFunctionOnSet(g, S) = 0
<1>1. Counts(g, S) /\ Units(g, S) = {}
  BY DEF Counts, Units
<1> QED
  BY <1>1, SumIsUnits, FS_EmptySet

LEMMA SumOnes ==
    ASSUME NEW g, NEW S, IsFiniteSet(S), \A x \in S : g[x] = 1
    PROVE  SumFunctionOnSet(g, S) = Cardinality(S)
<1>1. Counts(g, S) /\ Units(g, S) = S \X (1..1)
  BY DEF Counts, Units
<1>2. IsFiniteSet({1}) /\ Cardinality({1}) = 1
  BY FS_Singleton
<1>3. Cardinality(S) \in Nat
  BY FS_CardinalityType
<1>4. Cardinality(S \X {1}) = Cardinality(S) * 1
  BY <1>2, FS_Product
<1>5. SumFunctionOnSet(g, S) = Cardinality(Units(g, S)) /\ 1..1 = {1}
  BY <1>1, SumIsUnits
<1> QED
  BY <1>1, <1>3, <1>4, <1>5

\* Pointwise sums.
LEMMA SumAdds ==
    ASSUME NEW f, NEW g, NEW h, NEW S, Counts(g, S), Counts(h, S),
           \A x \in S : f[x] = g[x] + h[x]
    PROVE  /\ SumFunctionOnSet(f, S) = SumFunctionOnSet(g, S) + SumFunctionOnSet(h, S)
           /\ Counts(f, S)
<1> DEFINE T == {s \in SUBSET S :
                   SumFunctionOnSet(f, s) # SumFunctionOnSet(g, s) + SumFunctionOnSet(h, s)}
<1>1. Counts(f, S)
  BY DEF Counts
<1>2. ASSUME NEW s \in SUBSET S PROVE Counts(f, s) /\ Counts(g, s) /\ Counts(h, s)
  BY <1>1, FS_Subset DEF Counts
<1>3. T \in SUBSET (SUBSET S)
  OBVIOUS
<1>4. ASSUME T # {} PROVE FALSE
  <2>1. PICK s \in T : \A t \in T : t \subseteq s => t = s
    <3> HIDE DEF T
    <3> QED
      BY <1>3, <1>4, LeastSubset DEF Counts
  <2>2. CASE s = {}
    BY <2>2, SumEmpty
  <2>3. CASE s # {}
    <3>1. PICK x \in s : TRUE
      BY <2>3
    <3>2. SumFunctionOnSet(f, s \ {x}) = SumFunctionOnSet(g, s \ {x}) + SumFunctionOnSet(h, s \ {x})
      BY <2>1
    <3>3. /\ SumFunctionOnSet(f, s) = f[x] + SumFunctionOnSet(f, s \ {x})
          /\ SumFunctionOnSet(g, s) = g[x] + SumFunctionOnSet(g, s \ {x})
          /\ SumFunctionOnSet(h, s) = h[x] + SumFunctionOnSet(h, s \ {x})
      BY <1>2, SumSplit
    <3>4. SumFunctionOnSet(g, s \ {x}) \in Nat /\ SumFunctionOnSet(h, s \ {x}) \in Nat
      BY <1>2, SumType
    <3>5. f[x] = g[x] + h[x] /\ g[x] \in Nat /\ h[x] \in Nat
      BY DEF Counts
    <3>6. SumFunctionOnSet(f, s) # SumFunctionOnSet(g, s) + SumFunctionOnSet(h, s)
      OBVIOUS
    <3> HIDE DEF T
    <3> QED
      BY <3>2, <3>3, <3>4, <3>5, <3>6
  <2> QED
    BY <2>2, <2>3
<1> QED
  BY <1>1, <1>4

\* Nothing but the numbers of a subset count.
LEMMA SumWithin ==
    ASSUME NEW g, NEW h, NEW S, NEW T \in SUBSET S, Counts(h, S),
           \A x \in T : h[x] = g[x], \A x \in S \ T : h[x] = 0
    PROVE  SumFunctionOnSet(h, S) = SumFunctionOnSet(g, T) /\ Counts(g, T)
<1>1. Counts(g, T)
  BY FS_Subset DEF Counts
<1>2. Units(h, S) = Units(g, T)
  <2>1. Units(g, T) \subseteq Units(h, S)
    BY DEF Units
  <2>2. ASSUME NEW u \in Units(h, S) PROVE u \in Units(g, T)
    <3>1. u \in S \X Nat /\ u[2] \in 1..h[u[1]] /\ u[1] \in S
      BY DEF Units
    <3>2. u[1] \in T
      BY <3>1
    <3> QED
      BY <3>1, <3>2 DEF Units
  <2> QED
    BY <2>1, <2>2
<1> QED
  BY <1>1, <1>2, SumIsUnits

\* The numbers under other names.
LEMMA SumRenamed ==
    ASSUME NEW g, NEW h, NEW S, NEW T, Counts(g, S), NEW b \in Bijection(S, T),
           \A x \in S : h[b[x]] = g[x]
    PROVE  SumFunctionOnSet(h, T) = SumFunctionOnSet(g, S) /\ Counts(h, T)
<1>1. b \in [S -> T] /\ (\A x, y \in S : b[x] = b[y] => x = y) /\ \A t \in T : \E x \in S : b[x] = t
  BY DEF Bijection, Injection, Surjection, IsInjective
<1>2. IsFiniteSet(T)
  BY FS_Bijection DEF Counts, ExistsBijection
<1>3. Counts(h, T)
  BY <1>1, <1>2 DEF Counts
<1> DEFINE B == [u \in Units(g, S) |-> <<b[u[1]], u[2]>>]
<1>4. B \in [Units(g, S) -> Units(h, T)]
  <2>1. ASSUME NEW u \in Units(g, S) PROVE <<b[u[1]], u[2]>> \in Units(h, T)
    BY <1>1 DEF Units
  <2> QED
    BY <2>1
<1>5. ASSUME NEW u \in Units(g, S), NEW v \in Units(g, S), B[u] = B[v] PROVE u = v
  <2>1. b[u[1]] = b[v[1]] /\ u[2] = v[2]
    BY <1>5
  <2>2. u[1] \in S /\ v[1] \in S /\ u = <<u[1], u[2]>> /\ v = <<v[1], v[2]>>
    BY DEF Units
  <2> QED
    BY <1>1, <2>1, <2>2
<1>6. ASSUME NEW v \in Units(h, T) PROVE \E u \in Units(g, S) : B[u] = v
  <2>1. v[1] \in T /\ v[2] \in Nat /\ v = <<v[1], v[2]>> /\ v[2] \in 1..h[v[1]]
    BY DEF Units
  <2>2. PICK x \in S : b[x] = v[1]
    BY <1>1, <2>1
  <2>3. <<x, v[2]>> \in Units(g, S)
    BY <2>1, <2>2 DEF Units
  <2>4. B[<<x, v[2]>>] = v
    BY <2>1, <2>2, <2>3
  <2> QED
    BY <2>3, <2>4
<1>7. ExistsBijection(Units(g, S), Units(h, T))
  <2> HIDE DEF B
  <2>1. B \in Bijection(Units(g, S), Units(h, T))
    BY <1>4, <1>5, <1>6 DEF Bijection, Injection, Surjection, IsInjective
  <2> QED
    BY <2>1 DEF ExistsBijection
<1>8. IsFiniteSet(Units(g, S))
  BY UnitsFinite
<1> QED
  BY <1>3, <1>7, <1>8, FS_Bijection, SumIsUnits

\* The first of a row of numbers, and the rest.
LEMMA SumShift ==
    ASSUME NEW g, NEW h, NEW n \in Nat, \A i \in 1..n + 1 : g[i] \in Nat,
           \A i \in 1..n : h[i] = g[i + 1]
    PROVE  /\ SumFunctionOnSet(g, 1..n + 1) = g[1] + SumFunctionOnSet(h, 1..n)
           /\ Counts(g, 1..n + 1) /\ Counts(h, 1..n)
<1>1. IsFiniteSet(1..n) /\ IsFiniteSet(1..n + 1)
  BY FS_Interval
<1>2. Counts(g, 1..n + 1) /\ Counts(h, 1..n)
  BY <1>1 DEF Counts
<1>3. SumFunctionOnSet(g, 1..n + 1) = g[1] + SumFunctionOnSet(g, (1..n + 1) \ {1})
  <2>1. 1 \in 1..n + 1
    OBVIOUS
  <2> QED
    BY <1>2, <2>1, SumSplit
<1> DEFINE b == [i \in 1..n |-> i + 1]
<1>4. b \in Bijection(1..n, (1..n + 1) \ {1})
  <2>1. b \in [1..n -> (1..n + 1) \ {1}] /\ \A i, j \in 1..n : b[i] = b[j] => i = j
    OBVIOUS
  <2>2. ASSUME NEW t \in (1..n + 1) \ {1} PROVE \E i \in 1..n : b[i] = t
    <3>1. t - 1 \in 1..n /\ b[t - 1] = t
      OBVIOUS
    <3> QED
      BY <3>1
  <2> HIDE DEF b
  <2> QED
    BY <2>1, <2>2 DEF Bijection, Injection, Surjection, IsInjective
<1>5. \A i \in 1..n : g[b[i]] = h[i]
  OBVIOUS
<1> HIDE DEF b
<1>6. SumFunctionOnSet(g, (1..n + 1) \ {1}) = SumFunctionOnSet(h, 1..n)
  <2>1. PICK T : T = (1..n + 1) \ {1}
    OBVIOUS
  <2>2. PICK S : S = 1..n
    OBVIOUS
  <2>3. PICK c \in Bijection(S, T) : \A i \in S : g[c[i]] = h[i]
    BY <1>4, <1>5, <2>1, <2>2
  <2>4. Counts(h, S)
    BY <1>2, <2>2
  <2>5. SumFunctionOnSet(g, T) = SumFunctionOnSet(h, S)
    BY <2>3, <2>4, SumRenamed
  <2> QED
    BY <2>1, <2>2, <2>5
<1> QED
  BY <1>2, <1>3, <1>6
=============================================================================
