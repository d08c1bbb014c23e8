------------------------------ MODULE Extrema ------------------------------
(***************************************************************************)
(* Largest and smallest elements, and induction over the naturals, as      *)
(* facts about sets: the prover cannot instantiate the induction theorems  *)
(* of the library, whose parameter is an operator, but it can use that     *)
(* strict inclusion is well founded on the finite sets.                    *)
(***************************************************************************)
EXTENDS Integers, FiniteSets, FiniteSetTheorems, TLAPS

\* A finite non-empty set of integers has a largest element: the smallest
\* counterexample would lose its hold with any one of its elements removed.
LEMMA FiniteMax ==
  ASSUME NEW S \in SUBSET Int, IsFiniteSet(S), S # {}
  PROVE  \E x \in S : \A y \in S : x >= y
<1> DEFINE HasMax(T) == \E x \in T : \A y \in T : x >= y
           Bad == {T \in SUBSET S : T # {} /\ ~HasMax(T)}
<1>1. SUFFICES ASSUME Bad # {} PROVE FALSE
  OBVIOUS
<1>2. IsWellFoundedOn(StrictSubsetOrdering(S), FiniteSubsetsOf(S))
  BY FS_StrictSubsetOrderingWellFounded
<1>3. Bad \subseteq FiniteSubsetsOf(S)
  BY FS_FiniteSubsetsOfFinite
<1>4. PICK T \in Bad : \A U \in Bad : <<U, T>> \notin StrictSubsetOrdering(S)
  <2> HIDE DEF Bad
  <2> QED  BY <1>1, <1>2, <1>3, WFMin
<1>5. PICK x \in T : TRUE
  BY <1>4
<1>6. T \ {x} \notin Bad
  BY <1>4, <1>5 DEF StrictSubsetOrdering
<1>7. CASE T \ {x} = {}
  <2>1. \A y \in T : x >= y
    BY <1>5, <1>7, <1>4
  <2> QED  BY <2>1, <1>4, <1>5
<1>8. CASE HasMax(T \ {x})
  <2>1. PICK y \in T \ {x} : \A z \in T \ {x} : y >= z
    BY <1>8
  <2>2. x \in Int /\ y \in Int /\ T \subseteq Int
    BY <2>1, <1>4, <1>5
  <2>3. CASE x >= y
    <3>1. \A z \in T : x >= z
      BY <2>1, <2>2, <2>3
    <3> QED  BY <3>1, <1>4, <1>5
  <2>4. CASE ~(x >= y)
    <3>1. \A z \in T : y >= z
      BY <2>1, <2>2, <2>4
    <3> QED  BY <3>1, <1>4, <2>1
  <2> QED  BY <2>3, <2>4
<1> QED
  BY <1>4, <1>6, <1>7, <1>8

\* A non-empty set of naturals has a smallest element.
LEMMA NatMin ==
  ASSUME NEW S \in SUBSET Nat, S # {}
  PROVE  \E x \in S : \A y \in S : x <= y
<1>1. PICK n \in S : TRUE
  OBVIOUS
<1> DEFINE T == {-x : x \in {y \in S : y <= n}}
<1>2. T \in SUBSET Int /\ T # {}
  BY <1>1
<1>3. IsFiniteSet(T)
  <2>1. IsFiniteSet((-n) .. 0)
    BY <1>1, FS_Interval
  <2>2. T \subseteq (-n) .. 0
    BY <1>1
  <2> HIDE DEF T
  <2> QED  BY <2>1, <2>2, FS_Subset
<1>4. PICK t \in T : \A u \in T : t >= u
  <2> HIDE DEF T
  <2> QED  BY <1>2, <1>3, FiniteMax
<1>5. PICK x \in S : x <= n /\ t = -x
  BY <1>4
<1>6. \A y \in S : x <= y
  <2> SUFFICES ASSUME NEW y \in S PROVE x <= y
    OBVIOUS
  <2>1. CASE y <= n
    <3>1. -y \in T
      BY <2>1
    <3> QED  BY <3>1, <1>4, <1>5
  <2> QED  BY <2>1, <1>1, <1>5
<1> QED
  BY <1>5, <1>6

\* Induction, for a property given as the set of the naturals that have it.
LEMMA NatInductionOnSets ==
  ASSUME NEW S, 0 \in S, \A n \in Nat : n \in S => n + 1 \in S
  PROVE  Nat \subseteq S
<1> SUFFICES ASSUME Nat \ S # {} PROVE FALSE
  OBVIOUS
<1>1. PICK x \in Nat \ S : \A y \in Nat \ S : x <= y
  BY NatMin
<1>2. x # 0 /\ x - 1 \in Nat
  BY <1>1
<1>3. x - 1 \in S
  BY <1>1, <1>2
<1> QED
  BY <1>1, <1>2, <1>3

\* The same up to a bound.
LEMMA BoundedInductionOnSets ==
  ASSUME NEW n \in Nat, NEW S, 0 \in S, \A i \in 1 .. n : i - 1 \in S => i \in S
  PROVE  0 .. n \subseteq S
<1> DEFINE T == {i \in Nat : i <= n => i \in S}
<1>1. 0 \in T
  OBVIOUS
<1>2. ASSUME NEW i \in Nat, i \in T PROVE i + 1 \in T
  <2>1. i + 1 <= n => i + 1 \in 1 .. n /\ (i + 1) - 1 = i
    OBVIOUS
  <2> QED  BY <1>2, <2>1
<1>3. Nat \subseteq T
  <2> HIDE DEF T
  <2> QED  BY <1>1, <1>2, NatInductionOnSets
<1> QED
  BY <1>3

\* F takes the index and the value before it to the next value, all of them in V.
StepsWithin(F, n, V) == \A i \in 1 .. n, v \in V : F[<<i, v>>] \in V

\* f starts at base and follows F.
Follows(f, n, V, base, F) ==
  f \in [0 .. n -> V] /\ f[0] = base /\ \A i \in 1 .. n : f[i] = F[<<i, f[i - 1]>>]

\* A function defined by recursion on 0 .. n exists, its step given as a function.
LEMMA RecursionExists ==
  ASSUME NEW n \in Nat, NEW V, NEW base \in V, NEW F, StepsWithin(F, n, V)
  PROVE  \E f : Follows(f, n, V, base, F)
<1> DEFINE Good(m, g) == g[0] = base /\ \A i \in 1 .. m : g[i] = F[<<i, g[i - 1]>>]
           S == {m \in 0 .. n : \E g \in [0 .. m -> V] : Good(m, g)}
<1>1. 0 \in S
  <2> DEFINE g == [i \in 0 .. 0 |-> base]
  <2>1. g \in [0 .. 0 -> V] /\ g[0] = base
    OBVIOUS
  <2> HIDE DEF g
  <2>2. Good(0, g)
    BY <2>1
  <2>3. 0 \in 0 .. n
    OBVIOUS
  <2> QED  BY <2>1, <2>2, <2>3
<1>2. ASSUME NEW m \in 1 .. n, m - 1 \in S PROVE m \in S
  <2>1. PICK g \in [0 .. m - 1 -> V] : Good(m - 1, g)
    BY <1>2
  <2> DEFINE h == [i \in 0 .. m |-> IF i = m THEN F[<<m, g[m - 1]>>] ELSE g[i]]
  <2>2. g[m - 1] \in V /\ F[<<m, g[m - 1]>>] \in V
    BY <2>1 DEF StepsWithin
  <2>3. h \in [0 .. m -> V]
    BY <2>1, <2>2
  <2>4. h[0] = base
    BY <2>1
  <2>5. ASSUME NEW i \in 1 .. m PROVE h[i] = F[<<i, h[i - 1]>>]
    <3>1. h[i - 1] = g[i - 1]
      <4>1. i - 1 \in 0 .. m /\ i - 1 # m
        OBVIOUS
      <4> QED  BY <4>1
    <3>2. CASE i = m
      <4>1. h[i] = F[<<m, g[m - 1]>>]
        BY <3>2
      <4> HIDE DEF h
      <4> QED  BY <3>1, <3>2, <4>1
    <3>3. CASE i # m
      BY <2>1, <3>1, <3>3
    <3> QED  BY <3>2, <3>3
  <2> HIDE DEF h
  <2>6. Good(m, h)
    BY <2>4, <2>5
  <2> QED  BY <2>3, <2>6
<1>3. 0 .. n \subseteq S
  <2> HIDE DEF S
  <2> QED  BY <1>1, <1>2, BoundedInductionOnSets
<1>4. n \in S
  <2> HIDE DEF S
  <2> QED  BY <1>3
<1> QED
  BY <1>4 DEF Follows
=============================================================================
