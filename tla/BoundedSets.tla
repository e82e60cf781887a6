------------------------------ MODULE BoundedSets ------------------------------
(***************************************************************************)
(* Sets of which the size is bounded, for invariants that count: what one  *)
(* step may add to a set, or map into it, moves the bound by that much.    *)
(***************************************************************************)
EXTENDS Integers, FiniteSetTheorems, TLAPS

AtMost(S, n) == IsFiniteSet(S) /\ Cardinality(S) <= n

LEMMA NothingIsBounded == ASSUME NEW n \in Nat PROVE AtMost({}, n)
  BY FS_EmptySet DEF AtMost

LEMMA PartIsBounded ==
  ASSUME NEW S, NEW n \in Nat, AtMost(S, n), NEW m \in Nat, n <= m, NEW T \in SUBSET S
  PROVE  AtMost(T, m)
<1>1. IsFiniteSet(T) /\ Cardinality(T) <= Cardinality(S)
  BY FS_Subset DEF AtMost
<1>2. Cardinality(T) \in Nat /\ Cardinality(S) \in Nat
  BY <1>1, FS_CardinalityType DEF AtMost
<1> QED
  BY <1>1, <1>2 DEF AtMost

LEMMA OneMoreIsBounded ==
  ASSUME NEW S, NEW n \in Nat, AtMost(S, n), NEW x, NEW T \in SUBSET (S \cup {x})
  PROVE  AtMost(T, n + 1)
<1>1. /\ IsFiniteSet(S \cup {x})
      /\ Cardinality(S \cup {x}) \in {Cardinality(S), Cardinality(S) + 1}
  BY FS_AddElement DEF AtMost
<1>2. Cardinality(S) \in Nat
  BY FS_CardinalityType DEF AtMost
<1>3. AtMost(S \cup {x}, n + 1)
  BY <1>1, <1>2 DEF AtMost
<1> QED
  BY <1>3, PartIsBounded

LEMMA UnionIsBounded ==
  ASSUME NEW S, NEW n \in Nat, AtMost(S, n), NEW U, NEW m \in Nat, AtMost(U, m),
         NEW T \in SUBSET (S \cup U)
  PROVE  AtMost(T, n + m)
<1>1. /\ IsFiniteSet(S \cup U)
      /\ Cardinality(S \cup U) = Cardinality(S) + Cardinality(U) - Cardinality(S \cap U)
  BY FS_Union DEF AtMost
<1>2. IsFiniteSet(S \cap U)
  BY FS_Intersection DEF AtMost
<1>3. /\ Cardinality(S) \in Nat /\ Cardinality(U) \in Nat /\ Cardinality(S \cap U) \in Nat
  BY <1>2, FS_CardinalityType DEF AtMost
<1>4. AtMost(S \cup U, n + m)
  BY <1>1, <1>3 DEF AtMost
<1> QED
  BY <1>4, PartIsBounded

\* A set has no more values under a function than it has elements.
LEMMA ImageIsBounded ==
  ASSUME NEW D, NEW R, NEW f \in [D -> R], NEW S \in SUBSET D, IsFiniteSet(S)
  PROVE  AtMost({f[x] : x \in S}, Cardinality(S))
<1> DEFINE T == {f[x] : x \in S}
           g == [x \in S |-> f[x]]
<1>1. g \in Surjection(S, T)
  BY DEF Surjection
<1> QED
  BY <1>1, FS_Surjection DEF AtMost

\* Two sets of which the first has an element of its own for each of the second.
LEMMA InjectionIsBounded ==
  ASSUME NEW S, NEW T, NEW n \in Nat, AtMost(T, n), NEW f \in [S -> T],
         \A x, y \in S : f[x] = f[y] => x = y
  PROVE  AtMost(S, n)
<1>1. f \in Injection(S, T)
  BY DEF Injection, IsInjective
<1>2. IsFiniteSet(S) /\ Cardinality(S) <= Cardinality(T)
  BY <1>1, FS_Injection DEF AtMost
<1>3. Cardinality(S) \in Nat /\ Cardinality(T) \in Nat
  BY <1>2, FS_CardinalityType DEF AtMost
<1> QED
  BY <1>2, <1>3 DEF AtMost

\* Some numbers have a least one.  The initial segments of the numbers are finite sets,
\* which are well-founded under inclusion.
LEMMA SomeIsLeast ==
  ASSUME NEW I \in SUBSET Nat, I # {}
  PROVE  \E i \in I : \A j \in I : i <= j
<1> DEFINE R == StrictSubsetOrdering(Nat)
           Segments == {1 .. i : i \in I}
<1>1. Segments \subseteq FiniteSubsetsOf(Nat) /\ Segments # {}
  <2>1. \A i \in I : 1 .. i \subseteq Nat /\ IsFiniteSet(1 .. i)
    BY FS_Interval
  <2> QED
    BY <2>1 DEF FiniteSubsetsOf
<1>2. \E x \in Segments : \A y \in Segments : ~(<<y, x>> \in R)
  <2> HIDE DEF R, Segments
  <2>1. IsWellFoundedOn(R, FiniteSubsetsOf(Nat))
    BY FS_StrictSubsetOrderingWellFounded DEF R
  <2> QED
    BY <1>1, <2>1, WFMin
<1>3. PICK i \in I : \A j \in I : ~(<<1 .. j, 1 .. i>> \in R)
  BY <1>2
<1>4. \A j \in I : i <= j
  <2> SUFFICES ASSUME NEW j \in I, j < i
               PROVE  FALSE
    OBVIOUS
  <2>1. i \in Nat /\ j \in Nat
    OBVIOUS
  <2>2. 1 .. j \in SUBSET Nat /\ 1 .. i \in SUBSET Nat /\ 1 .. j \subseteq 1 .. i
    BY <2>1
  <2>3. CASE i = 0
    BY <2>1, <2>3
  <2>4. CASE i # 0
    <3>1. i \in 1 .. i /\ i \notin 1 .. j
      BY <2>1, <2>4
    <3>2. <<1 .. j, 1 .. i>> \in R
      BY <2>2, <3>1 DEF StrictSubsetOrdering
    <3> QED
      BY <1>3, <3>2
  <2> QED
    BY <2>3, <2>4
<1> QED
  BY <1>4

===============================================================================
