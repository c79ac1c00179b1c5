------------------------------ MODULE SumProofs ------------------------------
(***************************************************************************)
(* What a sum over a finite set computes: the recursive function under the *)
(* fold is well defined, the order in which it takes the elements does not *)
(* matter, and the sum follows its terms.  Induction is over a set of      *)
(* numbers or of sets, by the least element of its complement.             *)
(***************************************************************************)
EXTENDS Sums, FiniteSetTheorems, WellFoundedInduction, TLAPS

-----------------------------------------------------------------------------
(* Induction. *)

\* Every set of naturals has a least element.
LEMMA LeastElement ==
    ASSUME NEW N \in SUBSET Nat, N # {}
    PROVE  \E m \in N : \A n \in N : m <= n
<1>1. PICK m \in N : \A n \in N : <<n, m>> \notin OpToRel(<, Nat)
  BY NatLessThanWellFounded, WFMin
<1>2. \A n \in N : ~(n < m)
  BY <1>1, Zenon DEF OpToRel
<1> QED
  BY <1>2

\* Zero and the successor of each of its members make a set all of the naturals.
LEMMA NaturalsReached ==
    ASSUME NEW N \in SUBSET Nat, 0 \in N, \A n \in N : n + 1 \in N
    PROVE  N = Nat
<1> SUFFICES ASSUME N # Nat
             PROVE  FALSE
  OBVIOUS
<1>1. PICK m \in Nat \ N : \A n \in Nat \ N : m <= n
  BY LeastElement
<1>2. m # 0 /\ m - 1 \in Nat /\ m - 1 \notin Nat \ N
  BY <1>1
<1> QED
  BY <1>1, <1>2

\* A collection closed under adding one element of a finite set contains that set.
LEMMA FiniteSetReached ==
    ASSUME NEW S, IsFiniteSet(S), NEW Q, {} \in Q,
           \A T \in SUBSET S : \A x \in S \ T : T \in Q => T \union {x} \in Q
    PROVE  S \in Q
<1> SUFFICES ASSUME S \notin Q
             PROVE  FALSE
  OBVIOUS
<1> DEFINE Missing == {n \in Nat : \E T \in SUBSET S : T \notin Q /\ Cardinality(T) = n}
<1>1. \A T \in SUBSET S : IsFiniteSet(T) /\ Cardinality(T) \in Nat
  BY FS_Subset, FS_CardinalityType
<1>2. Cardinality(S) \in Missing
  BY <1>1
<1>3. PICK m \in Missing : \A n \in Missing : m <= n
  <2> HIDE DEF Missing
  <2>1. Missing \in SUBSET Nat /\ Missing # {}
    BY <1>2 DEF Missing
  <2> QED
    BY <2>1, LeastElement
<1>4. PICK T \in SUBSET S : T \notin Q /\ Cardinality(T) = m
  OBVIOUS
<1>5. PICK x \in T : TRUE
  BY <1>4
<1>6. Cardinality(T \ {x}) = m - 1
  BY <1>1, <1>4, FS_RemoveElement
<1>7. T \ {x} \notin Q
  <2>1. (T \ {x}) \union {x} = T /\ T \ {x} \in SUBSET S /\ x \in S \ (T \ {x})
    OBVIOUS
  <2> QED
    BY <1>4, <2>1
<1>8. m - 1 \in Missing
  BY <1>1, <1>6, <1>7
<1> QED
  BY <1>3, <1>8

-----------------------------------------------------------------------------
(* The recursive function of the fold. *)

Picked(s) == CHOOSE x \in s : TRUE

FoldStep(f, g, s) == IF s = {} THEN 0 ELSE f[Picked(s)] + g[s \ {Picked(s)}]

\* g computes the fold on the subsets in D.
Computes(f, g, D) == g = [s \in D |-> FoldStep(f, g, s)]

Totals(f, S) == CHOOSE g : Computes(f, g, SUBSET S)

LEMMA SumIsTotal ==
    ASSUME NEW f, NEW S
    PROVE  SumOver(f, S) = Totals(f, S)[S]
BY DEF SumOver, MapThenSumSet, MapThenFoldSet, Totals, Computes, FoldStep, Picked

LEMMA PickedIsMember == \A s : s # {} => Picked(s) \in s
BY DEF Picked

LEMMA ComputedValue ==
    ASSUME NEW f, NEW D, NEW g, Computes(f, g, D), NEW s \in D
    PROVE  g[s] = FoldStep(f, g, s)
<1> DEFINE h == [t \in D |-> FoldStep(f, g, t)]
<1>1. h[s] = FoldStep(f, g, s)
  OBVIOUS
<1>2. g = h
  BY DEF Computes
<1> QED
  BY <1>1, <1>2, Zenon

\* The subsets of S of at most n elements.
UpTo(S, n) == {s \in SUBSET S : Cardinality(s) <= n}

\* A table for the small subsets extends to those one larger.
LEMMA TableGrows ==
    ASSUME NEW f, NEW S, IsFiniteSet(S), NEW n \in Nat,
           NEW g, Computes(f, g, UpTo(S, n))
    PROVE  \E h : Computes(f, h, UpTo(S, n + 1))
<1> DEFINE h == [s \in UpTo(S, n + 1) |-> FoldStep(f, g, s)]
<1>1. ASSUME NEW s \in UpTo(S, n + 1)
      PROVE  FoldStep(f, g, s) = FoldStep(f, h, s)
  <2>1. CASE s = {}
    BY <2>1 DEF FoldStep
  <2>2. CASE s # {}
    <3> DEFINE t == s \ {Picked(s)}
    <3>1. Picked(s) \in s
      BY <2>2, PickedIsMember
    <3>2. /\ s \in SUBSET S /\ IsFiniteSet(s) /\ Cardinality(s) \in Nat
          /\ Cardinality(s) <= n + 1
      BY FS_Subset, FS_CardinalityType DEF UpTo
    <3>3. Cardinality(t) = Cardinality(s) - 1
      BY <3>1, <3>2, FS_RemoveElement
    <3>4. t \in UpTo(S, n) /\ t \in UpTo(S, n + 1)
      BY <3>2, <3>3 DEF UpTo
    <3>5. g[t] = FoldStep(f, g, t)
      BY <3>4, ComputedValue
    <3>6. h[t] = FoldStep(f, g, t)
      BY <3>4
    <3> HIDE DEF h
    <3> QED
      BY <2>2, <3>5, <3>6 DEF FoldStep
  <2> QED
    BY <2>1, <2>2
<1>2. h = [s \in UpTo(S, n + 1) |-> FoldStep(f, h, s)]
  <2> DEFINE hh == [s \in UpTo(S, n + 1) |-> FoldStep(f, h, s)]
  <2>1. \A s \in UpTo(S, n + 1) : h[s] = hh[s]
    BY <1>1
  <2> QED
    BY <2>1
<1> HIDE DEF h
<1> QED
  BY <1>2 DEF Computes

LEMMA TableExists ==
    ASSUME NEW f, NEW S, IsFiniteSet(S)
    PROVE  Computes(f, Totals(f, S), SUBSET S)
<1> DEFINE N == {n \in Nat : \E g : Computes(f, g, UpTo(S, n))}
<1>1. 0 \in N
  <2> DEFINE g == [s \in UpTo(S, 0) |-> 0]
  <2>1. \A s \in UpTo(S, 0) : s = {}
    BY FS_Subset, FS_CardinalityType, FS_EmptySet DEF UpTo
  <2>2. g = [s \in UpTo(S, 0) |-> FoldStep(f, g, s)]
    BY <2>1 DEF FoldStep
  <2> HIDE DEF g
  <2> QED
    BY <2>2 DEF Computes
<1>2. \A n \in N : n + 1 \in N
  BY TableGrows
<1>3. N = Nat
  <2> HIDE DEF N
  <2>1. N \in SUBSET Nat
    BY DEF N
  <2> QED
    BY <1>1, <1>2, <2>1, NaturalsReached
<1>4. Cardinality(S) \in Nat /\ UpTo(S, Cardinality(S)) = SUBSET S
  BY FS_Subset, FS_CardinalityType DEF UpTo
<1>5. \E g : Computes(f, g, SUBSET S)
  <2>1. Cardinality(S) \in N
    BY <1>3, <1>4
  <2>2. \E g : Computes(f, g, UpTo(S, Cardinality(S)))
    BY <2>1
  <2> QED
    BY <1>4, <2>2
<1> QED
  BY <1>5, Zenon DEF Totals

LEMMA TotalsValue ==
    ASSUME NEW f, NEW S, IsFiniteSet(S), NEW s \in SUBSET S
    PROVE  Totals(f, S)[s] = FoldStep(f, Totals(f, S), s)
<1>1. Computes(f, Totals(f, S), SUBSET S)
  BY TableExists
<1> HIDE DEF Totals
<1> QED
  BY <1>1, ComputedValue, Zenon

LEMMA SmallerSubset ==
    ASSUME NEW S, IsFiniteSet(S), NEW n \in Nat, NEW T \in UpTo(S, n + 1), NEW x \in T
    PROVE  T \ {x} \in UpTo(S, n)
<1>1. /\ T \in SUBSET S /\ IsFiniteSet(T) /\ Cardinality(T) \in Nat
      /\ Cardinality(T) <= n + 1
  BY FS_Subset, FS_CardinalityType DEF UpTo
<1>2. Cardinality(T \ {x}) = Cardinality(T) - 1
  BY <1>1, FS_RemoveElement
<1> QED
  BY <1>1, <1>2 DEF UpTo

\* What the fold says of a subset does not depend on the set it started from.
LEMMA TablesAgree ==
    ASSUME NEW f, NEW S, IsFiniteSet(S), NEW T \in SUBSET S
    PROVE  Totals(f, S)[T] = SumOver(f, T)
<1> DEFINE Agree(V) == Totals(f, S)[V] = Totals(f, T)[V]
           N == {n \in Nat : \A V \in UpTo(T, n) : Agree(V)}
<1>1. IsFiniteSet(T) /\ \A V \in SUBSET T : IsFiniteSet(V) /\ Cardinality(V) \in Nat
  BY FS_Subset, FS_CardinalityType
<1>2. ASSUME NEW V \in SUBSET T
      PROVE  /\ Totals(f, S)[V] = FoldStep(f, Totals(f, S), V)
             /\ Totals(f, T)[V] = FoldStep(f, Totals(f, T), V)
  BY <1>1, TotalsValue
<1>3. Agree({})
  BY <1>2 DEF FoldStep
<1>4. 0 \in N
  <2>1. \A V \in UpTo(T, 0) : V = {}
    BY <1>1, FS_EmptySet DEF UpTo
  <2> QED
    BY <1>3, <2>1
<1>5. ASSUME NEW n \in N
      PROVE  n + 1 \in N
  <2> SUFFICES ASSUME NEW V \in UpTo(T, n + 1)
               PROVE  Agree(V)
    OBVIOUS
  <2> SUFFICES ASSUME V # {}
               PROVE  Agree(V)
    BY <1>3
  <2>1. V \in SUBSET T /\ Picked(V) \in V
    BY PickedIsMember DEF UpTo
  <2>2. V \ {Picked(V)} \in UpTo(T, n)
    BY <1>1, <2>1, SmallerSubset
  <2>3. Agree(V \ {Picked(V)})
    BY <2>2
  <2> QED
    BY <1>2, <2>1, <2>3 DEF FoldStep
<1>6. N = Nat
  <2> HIDE DEF N
  <2>1. N \in SUBSET Nat
    BY DEF N
  <2> QED
    BY <1>4, <1>5, <2>1, NaturalsReached
<1>7. Cardinality(T) \in N /\ T \in UpTo(T, Cardinality(T))
  BY <1>1, <1>6 DEF UpTo
<1>8. Agree(T)
  BY <1>7
<1> QED
  BY <1>8, SumIsTotal

-----------------------------------------------------------------------------
(* The sum. *)

LEMMA SumEmpty == ASSUME NEW f PROVE SumOver(f, {}) = 0
<1>1. Totals(f, {})[{}] = FoldStep(f, Totals(f, {}), {})
  BY FS_EmptySet, TotalsValue
<1> QED
  BY <1>1, SumIsTotal DEF FoldStep

LEMMA SumPicked ==
    ASSUME NEW f, NEW S, IsFiniteSet(S), S # {}
    PROVE  SumOver(f, S) = f[Picked(S)] + SumOver(f, S \ {Picked(S)})
<1>1. Totals(f, S)[S] = FoldStep(f, Totals(f, S), S)
  BY TotalsValue
<1>2. Totals(f, S)[S \ {Picked(S)}] = SumOver(f, S \ {Picked(S)})
  BY TablesAgree
<1> QED
  BY <1>1, <1>2, SumIsTotal DEF FoldStep

\* Whichever element is taken first, the sum is the same, and a whole number.
LEMMA SumAny ==
    ASSUME NEW f, NEW S, IsFiniteSet(S), \A x \in S : f[x] \in Int
    PROVE  /\ SumOver(f, S) \in Int
           /\ \A x \in S : SumOver(f, S) = f[x] + SumOver(f, S \ {x})
<1> DEFINE Fine(T) == /\ SumOver(f, T) \in Int
                      /\ \A x \in T : SumOver(f, T) = f[x] + SumOver(f, T \ {x})
           N == {n \in Nat : \A T \in UpTo(S, n) : Fine(T)}
<1>1. \A T \in SUBSET S : IsFiniteSet(T) /\ Cardinality(T) \in Nat
  BY FS_Subset, FS_CardinalityType
<1>2. Fine({})
  BY SumEmpty
<1>3. 0 \in N
  <2>1. \A T \in UpTo(S, 0) : T = {}
    BY <1>1, FS_EmptySet DEF UpTo
  <2> QED
    BY <1>2, <2>1
<1>4. ASSUME NEW n \in N
      PROVE  n + 1 \in N
  <2> SUFFICES ASSUME NEW T \in UpTo(S, n + 1)
               PROVE  Fine(T)
    OBVIOUS
  <2> SUFFICES ASSUME T # {}
               PROVE  Fine(T)
    BY <1>2
  <2> DEFINE p == Picked(T)
  <2>1. T \in SUBSET S /\ p \in T
    BY PickedIsMember DEF UpTo
  <2>2. \A x \in T : T \ {x} \in UpTo(S, n)
    BY SmallerSubset
  <2>3. \A x \in T : Fine(T \ {x})
    BY <2>2
  <2>4. SumOver(f, T) = f[p] + SumOver(f, T \ {p})
    BY <1>1, <2>1, SumPicked
  <2> HIDE DEF p
  <2>5. SumOver(f, T) \in Int
    BY <2>1, <2>3, <2>4
  <2>6. ASSUME NEW x \in T, x # p
        PROVE  SumOver(f, T) = f[x] + SumOver(f, T \ {x})
    <3>1. SumOver(f, T \ {p}) = f[x] + SumOver(f, (T \ {p}) \ {x})
      BY <2>1, <2>3, <2>6
    <3>2. SumOver(f, T \ {x}) = f[p] + SumOver(f, (T \ {x}) \ {p})
      BY <2>1, <2>3, <2>6
    <3>3. SumOver(f, (T \ {p}) \ {x}) = SumOver(f, (T \ {x}) \ {p})
      <4>1. (T \ {p}) \ {x} = (T \ {x}) \ {p}
        OBVIOUS
      <4> QED
        BY <4>1, Zenon
    <3>4. SumOver(f, (T \ {p}) \ {x}) \in Int
      <4>1. T \ {p} \in UpTo(S, n) /\ (T \ {p}) \ {x} \in SUBSET (T \ {p})
        BY <2>1, <2>2
      <4>2. Cardinality((T \ {p}) \ {x}) <= Cardinality(T \ {p})
        BY <1>1, <4>1, FS_Subset DEF UpTo
      <4>3. (T \ {p}) \ {x} \in UpTo(S, n)
        BY <1>1, <4>1, <4>2 DEF UpTo
      <4> QED
        BY <4>3
    <3> QED
      BY <2>1, <2>4, <3>1, <3>2, <3>3, <3>4
  <2> QED
    BY <2>4, <2>5, <2>6
<1>5. N = Nat
  <2> HIDE DEF N
  <2>1. N \in SUBSET Nat
    BY DEF N
  <2> QED
    BY <1>3, <1>4, <2>1, NaturalsReached
<1>6. Cardinality(S) \in N /\ S \in UpTo(S, Cardinality(S))
  BY <1>1, <1>5 DEF UpTo
<1> QED
  BY <1>6

LEMMA SumWithElement ==
    ASSUME NEW f, NEW S, IsFiniteSet(S), NEW x, x \notin S,
           \A y \in S \union {x} : f[y] \in Int
    PROVE  SumOver(f, S \union {x}) = SumOver(f, S) + f[x]
<1>1. IsFiniteSet(S \union {x}) /\ (S \union {x}) \ {x} = S
  BY FS_AddElement
<1>2. SumOver(f, S) \in Int
  BY SumAny
<1>3. SumOver(f, S \union {x}) = f[x] + SumOver(f, (S \union {x}) \ {x})
  BY <1>1, SumAny
<1>4. SumOver(f, (S \union {x}) \ {x}) = SumOver(f, S)
  BY <1>1, Zenon
<1> QED
  BY <1>2, <1>3, <1>4

\* Terms that agree have the same sum.
LEMMA SumsAgree ==
    ASSUME NEW f, NEW g, NEW S, IsFiniteSet(S),
           \A x \in S : f[x] \in Int /\ g[x] = f[x]
    PROVE  SumOver(f, S) = SumOver(g, S)
<1> DEFINE Q == {T \in SUBSET S : SumOver(f, T) = SumOver(g, T)}
<1>1. {} \in Q
  BY SumEmpty
<1>2. ASSUME NEW T \in SUBSET S, NEW x \in S \ T, T \in Q
      PROVE  T \union {x} \in Q
  <2>1. /\ SumOver(f, T \union {x}) = SumOver(f, T) + f[x]
        /\ SumOver(g, T \union {x}) = SumOver(g, T) + g[x]
    BY FS_Subset, SumWithElement
  <2> QED
    BY <1>2, <2>1
<1> HIDE DEF Q
<1>3. S \in Q
  BY <1>1, <1>2, FiniteSetReached
<1> QED
  BY <1>3 DEF Q

\* Terms that are all zero sum to zero.
LEMMA SumOfZeros ==
    ASSUME NEW f, NEW S, IsFiniteSet(S), \A x \in S : f[x] = 0
    PROVE  SumOver(f, S) = 0
<1> DEFINE Q == {T \in SUBSET S : SumOver(f, T) = 0}
<1>1. {} \in Q
  BY SumEmpty
<1>2. ASSUME NEW T \in SUBSET S, NEW x \in S \ T, T \in Q
      PROVE  T \union {x} \in Q
  BY <1>2, FS_Subset, SumWithElement
<1> HIDE DEF Q
<1>3. S \in Q
  BY <1>1, <1>2, FiniteSetReached
<1> QED
  BY <1>3 DEF Q
===============================================================================
