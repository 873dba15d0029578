----------------------------- MODULE SumLemmas -----------------------------
(***************************************************************************)
(* Facts about SumFunction (the sum of the values of a function with a     *)
(* finite domain), for the proofs that add up money and sizes.             *)
(*                                                                         *)
(* SumFunction is a recursive function on the subsets of the domain.  The  *)
(* sum of natural numbers is shown to count something, the cells of a      *)
(* diagram with w[x] cells in column x: the count solves the recursion     *)
(* equation, and it is its only solution, since a smallest subset on which *)
(* another solution differs does not exist.                                *)
(***************************************************************************)
EXTENDS Functions, FiniteSets, FiniteSetTheorems, TLAPS

(* Induction over finite sets: a family of subsets has a smallest member.  *)
LEMMA SmallestSubset ==
  ASSUME NEW S, IsFiniteSet(S), NEW B \in SUBSET (SUBSET S), B # {}
  PROVE  \E T \in B : \A U \in B : U \subseteq T => U = T
<1>1. FiniteSubsetsOf(S) = SUBSET S
  BY FS_FiniteSubsetsOfFinite
<1>2. IsWellFoundedOn(StrictSubsetOrdering(S), SUBSET S)
  BY <1>1, FS_StrictSubsetOrderingWellFounded
<1>3. PICK T \in B : \A U \in B : ~(<<U, T>> \in StrictSubsetOrdering(S))
  BY <1>2, WFMin
<1>4. ASSUME NEW U \in B, U \subseteq T, U # T PROVE FALSE
  BY <1>3, <1>4 DEF StrictSubsetOrdering
<1> QED
  BY <1>4

-----------------------------------------------------------------------------
(* The cells of the columns in T. *)
Cells(w, T) == {p \in T \X Nat : p[2] \in 1..w[p[1]]}
Column(w, x) == {x} \X (1..w[x])

LEMMA ColumnCount ==
  ASSUME NEW w, NEW x, w[x] \in Nat
  PROVE  IsFiniteSet(Column(w, x)) /\ Cardinality(Column(w, x)) = w[x]
<1>1. IsFiniteSet(1..w[x]) /\ Cardinality(1..w[x]) = w[x]
  <2> DEFINE m == w[x]
  <2>1. m \in Nat
    OBVIOUS
  <2> HIDE DEF m
  <2>2. IsFiniteSet(1..m) /\ Cardinality(1..m) = m
    BY <2>1, FS_Interval
  <2> QED
    BY <2>2 DEF m
<1>2. IsFiniteSet({x}) /\ Cardinality({x}) = 1
  BY FS_Singleton
<1>3. /\ IsFiniteSet(Column(w, x))
      /\ Cardinality(Column(w, x)) = Cardinality({x}) * Cardinality(1..w[x])
  BY <1>1, <1>2, FS_Product DEF Column
<1> QED
  BY <1>1, <1>2, <1>3

LEMMA CellsSplit ==
  ASSUME NEW w, NEW T, NEW x \in T, w[x] \in Nat
  PROVE  /\ Cells(w, T) = Cells(w, T \ {x}) \cup Column(w, x)
         /\ Cells(w, T \ {x}) \cap Column(w, x) = {}
  BY DEF Cells, Column

LEMMA CellsFinite ==
  ASSUME NEW S, IsFiniteSet(S), NEW w \in [S -> Nat], NEW T \in SUBSET S
  PROVE  IsFiniteSet(Cells(w, T))
<1> DEFINE B == {U \in SUBSET S : ~IsFiniteSet(Cells(w, U))}
<1>1. ASSUME B # {} PROVE FALSE
  <2>1. PICK U \in B : \A V \in B : V \subseteq U => V = U
    <3>1. B \in SUBSET (SUBSET S)
      OBVIOUS
    <3> HIDE DEF B
    <3> QED
      BY <1>1, <3>1, SmallestSubset
  <2>2. CASE U = {}
    <3>1. Cells(w, U) = {}
      BY <2>2 DEF Cells
    <3> QED
      BY <2>1, <3>1, FS_EmptySet
  <2>3. CASE U # {}
    <3>1. PICK x \in U : TRUE
      BY <2>3
    <3>2. IsFiniteSet(Cells(w, U \ {x}))
      BY <2>1, <3>1
    <3>3. IsFiniteSet(Column(w, x))
      BY <3>1, ColumnCount
    <3>4. Cells(w, U) = Cells(w, U \ {x}) \cup Column(w, x)
      BY <3>1, CellsSplit
    <3>5. IsFiniteSet(Cells(w, U \ {x}) \cup Column(w, x))
      BY <3>2, <3>3, FS_Union
    <3> QED
      BY <2>1, <3>4, <3>5
  <2> QED
    BY <2>2, <2>3
<1> QED
  BY <1>1

LEMMA CellsCount ==
  ASSUME NEW S, IsFiniteSet(S), NEW w \in [S -> Nat], NEW T \in SUBSET S, NEW x \in T
  PROVE  Cardinality(Cells(w, T)) = w[x] + Cardinality(Cells(w, T \ {x}))
<1>1. IsFiniteSet(Cells(w, T \ {x})) /\ Cardinality(Cells(w, T \ {x})) \in Nat
  BY CellsFinite, FS_CardinalityType
<1>2. IsFiniteSet(Column(w, x)) /\ Cardinality(Column(w, x)) = w[x] /\ w[x] \in Nat
  BY ColumnCount
<1>3. Cardinality(Cells(w, T \ {x}) \cap Column(w, x)) = 0
  BY <1>2, CellsSplit, FS_EmptySet
<1>4. Cardinality(Cells(w, T \ {x}) \cup Column(w, x))
        = Cardinality(Cells(w, T \ {x})) + Cardinality(Column(w, x)) - 0
  BY <1>1, <1>2, <1>3, FS_Union
<1>5. Cells(w, T) = Cells(w, T \ {x}) \cup Column(w, x)
  BY <1>2, CellsSplit
<1> QED
  BY <1>1, <1>2, <1>4, <1>5

-----------------------------------------------------------------------------
(* The recursion equation of SumFunctionOnSet. *)
Pick(T) == CHOOSE x \in T : TRUE
Adds(f, w, S) == f = [T \in SUBSET S |-> IF T = {} THEN 0 ELSE w[Pick(T)] + f[T \ {Pick(T)}]]

LEMMA CountAdds ==
  ASSUME NEW S, IsFiniteSet(S), NEW w \in [S -> Nat]
  PROVE  Adds([T \in SUBSET S |-> Cardinality(Cells(w, T))], w, S)
<1> DEFINE f == [T \in SUBSET S |-> Cardinality(Cells(w, T))]
<1>1. ASSUME NEW T \in SUBSET S, T = {} PROVE f[T] = 0
  <2>1. Cells(w, T) = {}
    BY <1>1 DEF Cells
  <2> QED
    BY <2>1, FS_EmptySet
<1>2. ASSUME NEW T \in SUBSET S, T # {} PROVE f[T] = w[Pick(T)] + f[T \ {Pick(T)}]
  <2>1. Pick(T) \in T
    BY <1>2 DEF Pick
  <2>2. Cardinality(Cells(w, T)) = w[Pick(T)] + Cardinality(Cells(w, T \ {Pick(T)}))
    BY <2>1, CellsCount
  <2> QED
    BY <2>1, <2>2
<1>3. f = [T \in SUBSET S |-> IF T = {} THEN 0 ELSE w[Pick(T)] + f[T \ {Pick(T)}]]
  BY <1>1, <1>2
<1> QED
  BY <1>3 DEF Adds

LEMMA OnlyCountAdds ==
  ASSUME NEW S, IsFiniteSet(S), NEW w \in [S -> Nat], NEW f, Adds(f, w, S),
         NEW T \in SUBSET S
  PROVE  f[T] = Cardinality(Cells(w, T))
<1> DEFINE B == {U \in SUBSET S : f[U] # Cardinality(Cells(w, U))}
<1>1. ASSUME NEW U \in SUBSET S
      PROVE  f[U] = IF U = {} THEN 0 ELSE w[Pick(U)] + f[U \ {Pick(U)}]
  BY DEF Adds
<1>2. ASSUME B # {} PROVE FALSE
  <2>1. PICK U \in B : \A V \in B : V \subseteq U => V = U
    <3>1. B \in SUBSET (SUBSET S)
      OBVIOUS
    <3> HIDE DEF B
    <3> QED
      BY <1>2, <3>1, SmallestSubset
  <2>2. CASE U = {}
    <3>1. Cells(w, U) = {}
      BY <2>2 DEF Cells
    <3> QED
      BY <1>1, <2>1, <2>2, <3>1, FS_EmptySet
  <2>3. CASE U # {}
    <3>1. Pick(U) \in U
      BY <2>3 DEF Pick
    <3>2. f[U \ {Pick(U)}] = Cardinality(Cells(w, U \ {Pick(U)}))
      BY <2>1, <3>1
    <3>3. Cardinality(Cells(w, U)) = w[Pick(U)] + Cardinality(Cells(w, U \ {Pick(U)}))
      BY <3>1, CellsCount
    <3> QED
      BY <1>1, <2>1, <2>3, <3>2, <3>3
  <2> QED
    BY <2>2, <2>3
<1> QED
  BY <1>2

(* The sum of the values of w over S counts the cells. *)
LEMMA SumCounts ==
  ASSUME NEW S, IsFiniteSet(S), NEW w \in [S -> Nat]
  PROVE  SumFunction(w) = Cardinality(Cells(w, S))
<1> DEFINE sum == CHOOSE f : Adds(f, w, S)
<1>1. Adds(sum, w, S)
  <2>1. \E f : Adds(f, w, S)
    BY CountAdds
  <2> QED
    BY <2>1
<1>2. SumFunction(w) = sum[S]
  <2>1. DOMAIN w = S
    OBVIOUS
  <2> QED
    BY <2>1 DEF SumFunction, SumFunctionOnSet, FoldFunctionOnSet, MapThenFoldSet, Adds, Pick
<1> HIDE DEF sum
<1> QED
  BY <1>1, <1>2, OnlyCountAdds

-----------------------------------------------------------------------------
(* What the proofs use of it. *)
LEMMA SumType ==
  ASSUME NEW S, IsFiniteSet(S), NEW w \in [S -> Nat]
  PROVE  SumFunction(w) \in Nat
BY SumCounts, CellsFinite, FS_CardinalityType

(* One value taken out of the sum; x need not be the chosen element. *)
LEMMA SumWithout ==
  ASSUME NEW S, IsFiniteSet(S), NEW w \in [S -> Nat], NEW x \in S
  PROVE  SumFunction(w) = w[x] + SumFunction([y \in S \ {x} |-> w[y]])
<1> DEFINE v == [y \in S \ {x} |-> w[y]]
<1>1. v \in [S \ {x} -> Nat] /\ IsFiniteSet(S \ {x})
  BY FS_RemoveElement
<1>2. Cells(v, S \ {x}) = Cells(w, S \ {x})
  BY DEF Cells
<1>3. SumFunction(v) = Cardinality(Cells(w, S \ {x}))
  <2> HIDE DEF v
  <2> QED
    BY <1>1, <1>2, SumCounts
<1>4. SumFunction(w) = w[x] + Cardinality(Cells(w, S \ {x}))
  BY SumCounts, CellsCount
<1> QED
  BY <1>3, <1>4

LEMMA SumOfNothing ==
  ASSUME NEW w \in [{} -> Nat]
  PROVE  SumFunction(w) = 0
<1>1. Cells(w, {}) = {}
  BY DEF Cells
<1>2. SumFunction(w) = Cardinality(Cells(w, {}))
  BY FS_EmptySet, SumCounts
<1> QED
  BY <1>1, <1>2, FS_EmptySet

(* A sum of zeros. *)
LEMMA SumOfZeros ==
  ASSUME NEW S, IsFiniteSet(S), NEW w \in [S -> Nat], \A x \in S : w[x] = 0
  PROVE  SumFunction(w) = 0
<1>1. Cells(w, S) = {}
  BY DEF Cells
<1> QED
  BY <1>1, SumCounts, FS_EmptySet

(* One value changed. *)
LEMMA SumWithChange ==
  ASSUME NEW S, IsFiniteSet(S), NEW w \in [S -> Nat], NEW v \in [S -> Nat],
         NEW x \in S, \A y \in S \ {x} : v[y] = w[y]
  PROVE  SumFunction(v) + w[x] = SumFunction(w) + v[x]
<1> DEFINE u == [y \in S \ {x} |-> w[y]]
<1>1. [y \in S \ {x} |-> v[y]] = u
  OBVIOUS
<1>2. SumFunction(u) \in Nat
  <2>1. u \in [S \ {x} -> Nat] /\ IsFiniteSet(S \ {x})
    BY FS_RemoveElement
  <2> HIDE DEF u
  <2> QED
    BY <2>1, SumType
<1>3. SumFunction(w) = w[x] + SumFunction(u)
  BY SumWithout
<1>4. SumFunction(v) = v[x] + SumFunction(u)
  BY <1>1, SumWithout
<1> HIDE DEF u
<1> QED
  BY <1>2, <1>3, <1>4

(* No value is larger than the sum. *)
LEMMA SumBounds ==
  ASSUME NEW S, IsFiniteSet(S), NEW w \in [S -> Nat], NEW x \in S
  PROVE  w[x] <= SumFunction(w)
<1> DEFINE rest == [y \in S \ {x} |-> w[y]]
<1>1. rest \in [S \ {x} -> Nat] /\ IsFiniteSet(S \ {x})
  BY FS_RemoveElement
<1>2. SumFunction(w) = w[x] + SumFunction(rest)
  BY SumWithout
<1>3. SumFunction(rest) \in Nat
  <2> HIDE DEF rest
  <2> QED
    BY <1>1, SumType
<1> HIDE DEF rest
<1> QED
  BY <1>2, <1>3
=============================================================================
