---------------------------- MODULE SumTheorems ----------------------------
(***************************************************************************)
(* Sums of functions over finite sets, and the largest and the smallest    *)
(* element of one: what the modules take from Functions and FiniteSetsExt  *)
(* when they count what is claimed, shipped, refunded or held.             *)
(*                                                                         *)
(* SumFunctionOnSet is a fold, that is a function defined by recursion on  *)
(* subsets.  The library's induction theorems take an operator; here the   *)
(* induction is over a set of subsets, from the well-foundedness of strict *)
(* inclusion: first that the recursion has a solution and just one, then   *)
(* what the modules need of sums, of counts, and of the first so many of a *)
(* finite set under an order.                                              *)
(***************************************************************************)
EXTENDS Integers, FiniteSetsExt, FiniteSetTheorems, WellFoundedInduction, TLAPS

-----------------------------------------------------------------------------
(* Induction over the subsets of a finite set *)

\* Among some subsets of a finite set there is one that contains no other.
LEMMA SmallestSubset ==
    ASSUME NEW S, IsFiniteSet(S), NEW T \in SUBSET SUBSET S, T # {}
    PROVE  \E U \in T : \A V \in T : V \subseteq U => V = U
<1>1. T \subseteq FiniteSubsetsOf(S)
  BY FS_FiniteSubsetsOfFinite
<1>2. PICK U \in T : \A V \in T : ~(<<V, U>> \in StrictSubsetOrdering(S))
  BY <1>1, WFMin, FS_StrictSubsetOrderingWellFounded
<1>3. ASSUME NEW V \in T, V \subseteq U, V # U
      PROVE  FALSE
  <2>1. <<V, U>> \in StrictSubsetOrdering(S)
    BY <1>3 DEF StrictSubsetOrdering
  <2> QED BY <2>1, <1>2
<1> QED BY <1>3

\* A set of subsets of a finite set that has {}, and every other one that it has
\* less any of its elements, has them all.
LEMMA SubsetInduction ==
    ASSUME NEW S, IsFiniteSet(S), NEW T \in SUBSET SUBSET S, {} \in T,
           \A V \in SUBSET S : V # {} /\ (\A x \in V : V \ {x} \in T) => V \in T
    PROVE  T = SUBSET S
<1> DEFINE C == (SUBSET S) \ T
<1>1. SUFFICES ASSUME C # {} PROVE FALSE
  OBVIOUS
<1>2. PICK U \in C : \A V \in C : V \subseteq U => V = U
  <2>1. C \in SUBSET SUBSET S
    OBVIOUS
  <2> HIDE DEF C
  <2> QED BY <2>1, <1>1, SmallestSubset
<1>3. ASSUME NEW x \in U
      PROVE  U \ {x} \in T
  BY <1>2, <1>3
<1> QED BY <1>3

\* The values of a function on a finite set are finitely many.
LEMMA ValuesAreFinite ==
    ASSUME NEW S, IsFiniteSet(S), NEW f
    PROVE  IsFiniteSet({f[x] : x \in S})
<1> DEFINE T == {V \in SUBSET S : IsFiniteSet({f[x] : x \in V})}
<1>1. {} \in T
  <2>1. {f[x] : x \in {}} = {}
    OBVIOUS
  <2> QED BY <2>1, FS_EmptySet
<1>2. ASSUME NEW V \in SUBSET S, V # {}, \A x \in V : V \ {x} \in T
      PROVE  V \in T
  <2>1. PICK x \in V : TRUE
    BY <1>2
  <2>2. IsFiniteSet({f[y] : y \in V \ {x}})
    BY <1>2
  <2>3. {f[y] : y \in V} = {f[y] : y \in V \ {x}} \cup {f[x]}
    OBVIOUS
  <2>4. IsFiniteSet({f[y] : y \in V})
    <3> DEFINE W == {f[y] : y \in V \ {x}}
    <3>1. IsFiniteSet(W)
      BY <2>2
    <3> HIDE DEF W
    <3>2. IsFiniteSet(W \cup {f[x]})
      BY <3>1, FS_AddElement
    <3> QED BY <3>2, <2>3 DEF W
  <2> QED BY <2>4
<1>3. T \in SUBSET SUBSET S
  OBVIOUS
<1> HIDE DEF T
<1>4. T = SUBSET S
  BY <1>1, <1>2, <1>3, SubsetInduction
<1> QED BY <1>4 DEF T

\* A finite set of integers that has one has a largest.
LEMMA MaxOfFinite ==
    ASSUME NEW S, IsFiniteSet(S), S # {}, S \subseteq Int
    PROVE  Max(S) \in S /\ \A y \in S : y <= Max(S)
<1> DEFINE T == {V \in SUBSET S : V # {} => \E m \in V : \A y \in V : m >= y}
<1>1. {} \in T
  OBVIOUS
<1>2. ASSUME NEW V \in SUBSET S, V # {}, \A x \in V : V \ {x} \in T
      PROVE  V \in T
  <2>1. PICK x \in V : TRUE
    BY <1>2
  <2>2. CASE V \ {x} = {}
    <3>1. \A y \in V : y = x /\ x >= y
      BY <2>1, <2>2
    <3> QED BY <3>1
  <2>3. CASE V \ {x} # {}
    <3>1. PICK m \in V \ {x} : \A y \in V \ {x} : m >= y
      BY <1>2, <2>3
    <3>2. \E n \in V : n >= m /\ n >= x
      <4>1. CASE m >= x
        BY <3>1, <4>1
      <4>2. CASE x >= m
        BY <2>1, <4>2
      <4> QED BY <4>1, <4>2
    <3>3. PICK n \in V : n >= m /\ n >= x
      BY <3>2
    <3>4. \A y \in V : n >= y
      BY <3>1, <3>3
    <3> QED BY <3>4
  <2> QED BY <2>2, <2>3
<1>3. T \in SUBSET SUBSET S
  OBVIOUS
<1> HIDE DEF T
<1>4. T = SUBSET S
  BY <1>1, <1>2, <1>3, SubsetInduction
<1>5. \E m \in S : \A y \in S : m >= y
  BY <1>4 DEF T
<1> QED BY <1>5 DEF Max

\* And a smallest.
LEMMA MinOfFinite ==
    ASSUME NEW S, IsFiniteSet(S), S # {}, S \subseteq Int
    PROVE  Min(S) \in S /\ \A y \in S : Min(S) <= y
<1>1. PICK N : N = {0 - x : x \in S}
  OBVIOUS
<1>2. IsFiniteSet(N)
  <2>1. PICK f : f = [x \in S |-> 0 - x]
    OBVIOUS
  <2>2. N = {f[x] : x \in S}
    BY <1>1, <2>1
  <2> QED BY <2>2, ValuesAreFinite
<1>3. N # {} /\ N \subseteq Int
  <2>1. PICK x \in S : TRUE
    OBVIOUS
  <2>2. 0 - x \in N
    BY <1>1
  <2>3. \A y \in S : 0 - y \in Int
    OBVIOUS
  <2>4. \A y \in N : \E z \in S : y = 0 - z
    BY <1>1
  <2> QED BY <2>2, <2>3, <2>4
<1>4. PICK m \in N : \A y \in N : y <= m
  BY <1>2, <1>3, MaxOfFinite
<1>5. PICK x \in S : m = 0 - x
  BY <1>1, <1>4
<1>6. \A y \in S : x <= y
  <2>1. ASSUME NEW y \in S
        PROVE  x <= y
    <3>1. 0 - y <= 0 - x
      BY <1>1, <1>4, <1>5
    <3>2. x \in Int /\ y \in Int
      OBVIOUS
    <3> QED BY <3>1, <3>2
  <2> QED BY <2>1
<1>7. \E z \in S : \A y \in S : z <= y
  BY <1>6
<1> QED BY <1>7 DEF Min

LEMMA MaxOfTwo ==
    ASSUME NEW a \in Int, NEW b \in Int
    PROVE  Max({a, b}) \in {a, b} /\ Max({a, b}) >= a /\ Max({a, b}) >= b
<1>1. IsFiniteSet({a, b})
  <2>1. {a, b} = {a} \cup {b} /\ IsFiniteSet({a})
    BY FS_Singleton
  <2> QED BY <2>1, FS_AddElement
<1> QED BY <1>1, MaxOfFinite

LEMMA MinOfTwo ==
    ASSUME NEW a \in Int, NEW b \in Int
    PROVE  Min({a, b}) \in {a, b} /\ Min({a, b}) <= a /\ Min({a, b}) <= b
<1>1. \E x \in {a, b} : \A y \in {a, b} : x <= y
  <2>1. CASE a <= b
    BY <2>1
  <2>2. CASE b <= a
    BY <2>2
  <2> QED BY <2>1, <2>2
<1> QED BY <1>1 DEF Min

-----------------------------------------------------------------------------
(* The recursion has one solution *)

\* The element a fold takes next.
Pick(s) == CHOOSE x \in s : TRUE

\* g has the sum of f over every subset of S.
Adds(f, S, g) ==
    g = [s \in SUBSET S |-> IF s = {} THEN 0 ELSE f[Pick(s)] + g[s \ {Pick(s)}]]

LEMMA PickIn == \A s : s # {} => Pick(s) \in s
  BY DEF Pick

\* Two solutions agree where both are defined.
LEMMA AddsOnce ==
    ASSUME NEW S, IsFiniteSet(S), NEW f, NEW V \in SUBSET S, NEW W \in SUBSET S,
           NEW g, NEW h, Adds(f, V, g), Adds(f, W, h), NEW s \in SUBSET V, s \subseteq W
    PROVE  g[s] = h[s]
<1> DEFINE T == {t \in SUBSET V : t \subseteq W /\ g[t] # h[t]}
<1>1. SUFFICES ASSUME T # {} PROVE FALSE
  OBVIOUS
<1>2. PICK U \in T : \A t \in T : t \subseteq U => t = U
  <2>1. T \in SUBSET SUBSET S
    OBVIOUS
  <2> HIDE DEF T
  <2> QED BY <2>1, <1>1, SmallestSubset
<1>3. U # {}
  BY DEF Adds
<1>4. Pick(U) \in U
  BY <1>3, PickIn
<1>5. g[U \ {Pick(U)}] = h[U \ {Pick(U)}]
  BY <1>2, <1>4
<1>6. g[U] = f[Pick(U)] + g[U \ {Pick(U)}]
  BY <1>3 DEF Adds
<1>7. h[U] = f[Pick(U)] + h[U \ {Pick(U)}]
  <2>1. U \in SUBSET W
    OBVIOUS
  <2> HIDE DEF T
  <2> QED BY <1>3, <2>1 DEF Adds
<1> QED BY <1>5, <1>6, <1>7

\* Every function can be summed over every subset of a finite set.
LEMMA SomeAdds ==
    ASSUME NEW S, IsFiniteSet(S), NEW f
    PROVE  \E g : Adds(f, S, g)
<1> DEFINE T == {V \in SUBSET S : ~\E g : Adds(f, V, g)}
<1>1. SUFFICES ASSUME T # {} PROVE FALSE
  OBVIOUS
<1>2. PICK U \in T : \A t \in T : t \subseteq U => t = U
  <2>1. T \in SUBSET SUBSET S
    OBVIOUS
  <2> HIDE DEF T
  <2> QED BY <2>1, <1>1, SmallestSubset
<1> DEFINE G(V) == CHOOSE g : Adds(f, V, g)
           h == [s \in SUBSET U |-> IF s = {} THEN 0
                                    ELSE f[Pick(s)] + G(s \ {Pick(s)})[s \ {Pick(s)}]]
<1>3. ASSUME NEW V \in SUBSET U, V # U
      PROVE  Adds(f, V, G(V))
  BY <1>2, <1>3
<1>4. ASSUME NEW V \in SUBSET U, V # U
      PROVE  h[V] = G(V)[V]
  <2>1. CASE V = {}
    <3>1. Adds(f, V, G(V))
      BY <1>3, <1>4
    <3>2. V \in SUBSET V
      OBVIOUS
    <3> HIDE DEF G
    <3>3. G(V)[V] = 0
      BY <2>1, <3>1, <3>2 DEF Adds
    <3> QED BY <2>1, <3>3
  <2>2. CASE V # {}
    <3> DEFINE W == V \ {Pick(V)}
    <3>1. Pick(V) \in V /\ W \in SUBSET V /\ W # U
      BY <2>2, PickIn
    <3>2. Adds(f, V, G(V)) /\ Adds(f, W, G(W))
      BY <3>1, <1>3, <1>4
    <3>3. G(V)[W] = G(W)[W]
      <4> HIDE DEF G, W
      <4> QED BY <3>1, <3>2, AddsOnce
    <3>4. G(V)[V] = f[Pick(V)] + G(V)[W]
      <4> HIDE DEF G
      <4> QED BY <3>2, <2>2 DEF Adds
    <3>5. h[V] = f[Pick(V)] + G(W)[W]
      <4> HIDE DEF G
      <4> QED BY <2>2
    <3> QED BY <3>3, <3>4, <3>5
  <2> QED BY <2>1, <2>2
<1>5. ASSUME NEW s \in SUBSET U
      PROVE  h[s] = IF s = {} THEN 0 ELSE f[Pick(s)] + h[s \ {Pick(s)}]
  <2>1. CASE s = {}
    BY <2>1
  <2>2. CASE s # {}
    <3>1. Pick(s) \in s
      BY <2>2, PickIn
    <3>2. h[s \ {Pick(s)}] = G(s \ {Pick(s)})[s \ {Pick(s)}]
      <4> HIDE DEF h, G
      <4> QED BY <3>1, <1>4
    <3> HIDE DEF G
    <3> QED BY <2>2, <3>2
  <2> QED BY <2>1, <2>2
<1>6. Adds(f, U, h)
  <2>1. h = [s \in SUBSET U |-> h[s]]
    OBVIOUS
  <2> HIDE DEF h
  <2>2. h = [s \in SUBSET U |-> IF s = {} THEN 0 ELSE f[Pick(s)] + h[s \ {Pick(s)}]]
    BY <2>1, <1>5
  <2> QED BY <2>2 DEF Adds
<1> QED BY <1>2, <1>6

\* What the fold computes is the solution's value for the whole set.
LEMMA SumAdds ==
    ASSUME NEW S, IsFiniteSet(S), NEW f
    PROVE  \E g : Adds(f, S, g) /\ SumFunctionOnSet(f, S) = g[S]
<1> DEFINE g == CHOOSE g : Adds(f, S, g)
<1>1. Adds(f, S, g)
  BY SomeAdds
<1>2. SumFunctionOnSet(f, S) = g[S]
  BY DEF SumFunctionOnSet, FoldFunctionOnSet, MapThenFoldSet, Adds, Pick
<1> QED BY <1>1, <1>2

-----------------------------------------------------------------------------
(* What sums do *)

LEMMA SumUnfolds ==
    ASSUME NEW f
    PROVE  /\ SumFunctionOnSet(f, {}) = 0
           /\ \A V : IsFiniteSet(V) /\ V # {} =>
                SumFunctionOnSet(f, V) = f[Pick(V)] + SumFunctionOnSet(f, V \ {Pick(V)})
<1>1. SumFunctionOnSet(f, {}) = 0
  <2>1. PICK g : Adds(f, {}, g) /\ SumFunctionOnSet(f, {}) = g[{}]
    BY SumAdds, FS_EmptySet
  <2> QED BY <2>1 DEF Adds
<1>2. ASSUME NEW V, IsFiniteSet(V), V # {}
      PROVE  SumFunctionOnSet(f, V) = f[Pick(V)] + SumFunctionOnSet(f, V \ {Pick(V)})
  <2>1. IsFiniteSet(V) /\ IsFiniteSet(V \ {Pick(V)})
    BY <1>2, FS_Subset
  <2>2. PICK g : Adds(f, V, g) /\ SumFunctionOnSet(f, V) = g[V]
    BY <2>1, SumAdds
  <2>3. PICK h : Adds(f, V \ {Pick(V)}, h) /\ SumFunctionOnSet(f, V \ {Pick(V)}) = h[V \ {Pick(V)}]
    BY <2>1, SumAdds
  <2>4. g[V \ {Pick(V)}] = h[V \ {Pick(V)}]
    <3> DEFINE W == V \ {Pick(V)}
    <3>1. W \in SUBSET V /\ W \in SUBSET W
      OBVIOUS
    <3>2. V \in SUBSET V /\ Adds(f, V, g) /\ Adds(f, W, h)
      BY <2>2, <2>3
    <3> HIDE DEF W
    <3>3. g[W] = h[W]
      BY <3>1, <3>2, <2>1, AddsOnce
    <3> QED BY <3>3 DEF W
  <2>5. g[V] = f[Pick(V)] + g[V \ {Pick(V)}]
    BY <2>2, <1>2 DEF Adds
  <2> QED BY <2>2, <2>3, <2>4, <2>5
<1> QED BY <1>1, <1>2

\* The sum of integers is an integer, and that of naturals a natural.
LEMMA SumType ==
    ASSUME NEW S, IsFiniteSet(S), NEW f, NEW N \in {Int, Nat}, \A x \in S : f[x] \in N
    PROVE  SumFunctionOnSet(f, S) \in N
<1> DEFINE T == {V \in SUBSET S : SumFunctionOnSet(f, V) \in N}
<1>1. {} \in T
  BY SumUnfolds
<1>2. ASSUME NEW V \in SUBSET S, V # {}, \A x \in V : V \ {x} \in T
      PROVE  V \in T
  <2>1. Pick(V) \in V /\ IsFiniteSet(V)
    BY <1>2, PickIn, FS_Subset
  <2>2. f[Pick(V)] \in N /\ SumFunctionOnSet(f, V \ {Pick(V)}) \in N
    BY <2>1, <1>2
  <2>3. SumFunctionOnSet(f, V) = f[Pick(V)] + SumFunctionOnSet(f, V \ {Pick(V)})
    BY <2>1, <1>2, SumUnfolds
  <2> QED BY <2>2, <2>3
<1>3. T \in SUBSET SUBSET S
  OBVIOUS
<1> HIDE DEF T
<1>4. T = SUBSET S
  BY <1>1, <1>2, <1>3, SubsetInduction
<1> QED BY <1>4 DEF T

\* A sum is any one of its terms and the sum of the others.
LEMMA SumSplits ==
    ASSUME NEW S, IsFiniteSet(S), NEW f, \A x \in S : f[x] \in Int
    PROVE  \A x \in S : SumFunctionOnSet(f, S) = f[x] + SumFunctionOnSet(f, S \ {x})
<1> DEFINE T == {V \in SUBSET S :
                    \A x \in V : SumFunctionOnSet(f, V) = f[x] + SumFunctionOnSet(f, V \ {x})}
<1>1. {} \in T
  OBVIOUS
<1>2. ASSUME NEW V \in SUBSET S, V # {}, \A x \in V : V \ {x} \in T
      PROVE  V \in T
  <2>1. Pick(V) \in V /\ IsFiniteSet(V) /\ \A W \in SUBSET V : IsFiniteSet(W)
    BY <1>2, PickIn, FS_Subset
  <2>2. SumFunctionOnSet(f, V) = f[Pick(V)] + SumFunctionOnSet(f, V \ {Pick(V)})
    BY <2>1, <1>2, SumUnfolds
  <2>3. ASSUME NEW x \in V
        PROVE  SumFunctionOnSet(f, V) = f[x] + SumFunctionOnSet(f, V \ {x})
    <3>1. CASE x = Pick(V)
      BY <3>1, <2>2
    <3>2. CASE x # Pick(V)
      <4> DEFINE W == (V \ {x}) \ {Pick(V)}
      <4>1. W = (V \ {Pick(V)}) \ {x}
        OBVIOUS
      <4>2. SumFunctionOnSet(f, V \ {Pick(V)}) = f[x] + SumFunctionOnSet(f, W)
        BY <1>2, <2>1, <3>2, <4>1
      <4>3. SumFunctionOnSet(f, V \ {x}) = f[Pick(V)] + SumFunctionOnSet(f, W)
        BY <1>2, <2>1, <3>2
      <4>4. SumFunctionOnSet(f, W) \in Int /\ f[x] \in Int /\ f[Pick(V)] \in Int
        <5>1. IsFiniteSet(W) /\ \A y \in W : f[y] \in Int
          BY <2>1
        <5> HIDE DEF W
        <5> QED BY <5>1, <2>1, SumType
      <4> HIDE DEF W
      <4> QED BY <2>2, <4>2, <4>3, <4>4
    <3> QED BY <3>1, <3>2
  <2> QED BY <2>3
<1>3. T \in SUBSET SUBSET S
  OBVIOUS
<1> HIDE DEF T
<1>4. T = SUBSET S
  BY <1>1, <1>2, <1>3, SubsetInduction
<1> QED BY <1>4 DEF T

\* Terms that are no greater make a sum that is no greater.
LEMMA SumMonotone ==
    ASSUME NEW S, IsFiniteSet(S), NEW f, NEW g,
           \A x \in S : f[x] \in Int /\ g[x] \in Int /\ f[x] <= g[x]
    PROVE  SumFunctionOnSet(f, S) <= SumFunctionOnSet(g, S)
<1> DEFINE T == {V \in SUBSET S : SumFunctionOnSet(f, V) <= SumFunctionOnSet(g, V)}
<1>1. {} \in T
  BY SumUnfolds
<1>2. ASSUME NEW V \in SUBSET S, V # {}, \A x \in V : V \ {x} \in T
      PROVE  V \in T
  <2>1. PICK x \in V : TRUE
    BY <1>2
  <2>2. IsFiniteSet(V) /\ IsFiniteSet(V \ {x})
    BY FS_Subset
  <2>3. /\ SumFunctionOnSet(f, V) = f[x] + SumFunctionOnSet(f, V \ {x})
        /\ SumFunctionOnSet(g, V) = g[x] + SumFunctionOnSet(g, V \ {x})
    BY <2>2, SumSplits
  <2>4. SumFunctionOnSet(f, V \ {x}) \in Int /\ SumFunctionOnSet(g, V \ {x}) \in Int
    BY <2>2, SumType
  <2>5. SumFunctionOnSet(f, V \ {x}) <= SumFunctionOnSet(g, V \ {x})
    BY <1>2
  <2>6. f[x] \in Int /\ g[x] \in Int /\ f[x] <= g[x]
    OBVIOUS
  <2> QED BY <2>3, <2>4, <2>5, <2>6
<1>3. T \in SUBSET SUBSET S
  OBVIOUS
<1> HIDE DEF T
<1>4. T = SUBSET S
  BY <1>1, <1>2, <1>3, SubsetInduction
<1> QED BY <1>4 DEF T

\* Equal terms make equal sums.
LEMMA SumSame ==
    ASSUME NEW S, IsFiniteSet(S), NEW f, NEW g, \A x \in S : f[x] = g[x]
    PROVE  SumFunctionOnSet(f, S) = SumFunctionOnSet(g, S)
<1> DEFINE T == {V \in SUBSET S : SumFunctionOnSet(f, V) = SumFunctionOnSet(g, V)}
<1>1. {} \in T
  BY SumUnfolds
<1>2. ASSUME NEW V \in SUBSET S, V # {}, \A x \in V : V \ {x} \in T
      PROVE  V \in T
  <2>1. Pick(V) \in V /\ IsFiniteSet(V)
    BY <1>2, PickIn, FS_Subset
  <2>2. /\ SumFunctionOnSet(f, V) = f[Pick(V)] + SumFunctionOnSet(f, V \ {Pick(V)})
        /\ SumFunctionOnSet(g, V) = g[Pick(V)] + SumFunctionOnSet(g, V \ {Pick(V)})
    BY <2>1, <1>2, SumUnfolds
  <2>3. f[Pick(V)] = g[Pick(V)] /\ V \ {Pick(V)} \in T
    BY <2>1, <1>2
  <2> QED BY <2>2, <2>3
<1>3. T \in SUBSET SUBSET S
  OBVIOUS
<1> HIDE DEF T
<1>4. T = SUBSET S
  BY <1>1, <1>2, <1>3, SubsetInduction
<1> QED BY <1>4 DEF T

\* Terms of zero add nothing.
LEMMA SumDropsZeros ==
    ASSUME NEW S, IsFiniteSet(S), NEW f, NEW V \in SUBSET S,
           \A x \in S : f[x] \in Int, \A x \in S \ V : f[x] = 0
    PROVE  SumFunctionOnSet(f, S) = SumFunctionOnSet(f, V)
<1> DEFINE T == {W \in SUBSET S : SumFunctionOnSet(f, W) = SumFunctionOnSet(f, W \cap V)}
<1>1. {} \in T
  BY SumUnfolds
<1>2. ASSUME NEW W \in SUBSET S, W # {}, \A x \in W : W \ {x} \in T
      PROVE  W \in T
  <2>1. CASE W \subseteq V
    <3>1. W \cap V = W
      BY <2>1
    <3> QED BY <3>1
  <2>2. ASSUME NEW x \in W, x \notin V
        PROVE  W \in T
    <3>1. IsFiniteSet(W) /\ IsFiniteSet(W \ {x})
      BY FS_Subset
    <3>2. SumFunctionOnSet(f, W) = f[x] + SumFunctionOnSet(f, W \ {x})
      BY <3>1, SumSplits
    <3>3. SumFunctionOnSet(f, W \ {x}) \in Int /\ f[x] = 0
      BY <2>2, <3>1, SumType
    <3>4. SumFunctionOnSet(f, W) = SumFunctionOnSet(f, W \ {x})
      BY <3>2, <3>3
    <3>5. W \cap V = (W \ {x}) \cap V
      BY <2>2
    <3>6. SumFunctionOnSet(f, W \ {x}) = SumFunctionOnSet(f, (W \ {x}) \cap V)
      BY <1>2
    <3>7. SumFunctionOnSet(f, W) = SumFunctionOnSet(f, W \cap V)
      BY <3>4, <3>5, <3>6
    <3> QED BY <3>7
  <2> QED BY <2>1, <2>2
<1>3. T \in SUBSET SUBSET S
  OBVIOUS
<1>4. S \cap V = V
  OBVIOUS
<1> HIDE DEF T
<1>5. T = SUBSET S
  BY <1>1, <1>2, <1>3, SubsetInduction
<1> QED BY <1>4, <1>5 DEF T

\* A term written anew changes the sum by as much.
LEMMA SumWritten ==
    ASSUME NEW S, IsFiniteSet(S), NEW f, NEW g, NEW x \in S,
           \A y \in S : f[y] \in Int /\ g[y] \in Int, \A y \in S \ {x} : g[y] = f[y]
    PROVE  SumFunctionOnSet(g, S) = SumFunctionOnSet(f, S) + (g[x] - f[x])
<1>1. IsFiniteSet(S \ {x})
  BY FS_Subset
<1>2. SumFunctionOnSet(g, S \ {x}) = SumFunctionOnSet(f, S \ {x})
  BY <1>1, SumSame
<1>3. SumFunctionOnSet(f, S \ {x}) \in Int /\ f[x] \in Int /\ g[x] \in Int
  BY <1>1, SumType
<1>4. /\ SumFunctionOnSet(f, S) = f[x] + SumFunctionOnSet(f, S \ {x})
      /\ SumFunctionOnSet(g, S) = g[x] + SumFunctionOnSet(g, S \ {x})
  BY SumSplits
<1> QED BY <1>2, <1>3, <1>4

\* A term that grows by n makes the sum grow by n.
LEMMA SumAdded ==
    ASSUME NEW S, IsFiniteSet(S), NEW f, NEW g, NEW x \in S, NEW n \in Int,
           \A y \in S : f[y] \in Int /\ g[y] \in Int, \A y \in S \ {x} : g[y] = f[y],
           g[x] = f[x] + n
    PROVE  SumFunctionOnSet(g, S) = SumFunctionOnSet(f, S) + n
<1>1. /\ SumFunctionOnSet(f, S) = f[x] + SumFunctionOnSet(f, S \ {x})
      /\ SumFunctionOnSet(g, S) = g[x] + SumFunctionOnSet(g, S \ {x})
  BY SumSplits
<1>2. IsFiniteSet(S \ {x})
  BY FS_Subset
<1>3. SumFunctionOnSet(g, S \ {x}) = SumFunctionOnSet(f, S \ {x})
  BY <1>2, SumSame
<1>4. SumFunctionOnSet(f, S \ {x}) \in Int
  BY <1>2, SumType
<1> QED BY <1>1, <1>3, <1>4

\* A new element adds its term.
LEMMA SumGrows ==
    ASSUME NEW S, IsFiniteSet(S), NEW f, NEW x, x \notin S,
           \A y \in S \cup {x} : f[y] \in Int
    PROVE  SumFunctionOnSet(f, S \cup {x}) = SumFunctionOnSet(f, S) + f[x]
<1>1. IsFiniteSet(S \cup {x}) /\ (S \cup {x}) \ {x} = S
  BY FS_AddElement
<1>2. SumFunctionOnSet(f, S) \in Int /\ f[x] \in Int
  BY SumType
<1>3. SumFunctionOnSet(f, S \cup {x}) = f[x] + SumFunctionOnSet(f, (S \cup {x}) \ {x})
  <2> DEFINE U == S \cup {x}
  <2>1. IsFiniteSet(U) /\ x \in U /\ \A y \in U : f[y] \in Int
    BY <1>1
  <2> HIDE DEF U
  <2>2. SumFunctionOnSet(f, U) = f[x] + SumFunctionOnSet(f, U \ {x})
    BY <2>1, SumSplits
  <2> QED BY <2>2 DEF U
<1>4. SumFunctionOnSet(f, S \cup {x}) = f[x] + SumFunctionOnSet(f, S)
  BY <1>1, <1>3
<1> QED BY <1>2, <1>4

\* A part of some naturals sums to no more than the whole.
LEMMA SumOfPart ==
    ASSUME NEW S, IsFiniteSet(S), NEW f, NEW V \in SUBSET S, \A x \in S : f[x] \in Nat
    PROVE  SumFunctionOnSet(f, V) <= SumFunctionOnSet(f, S)
<1> DEFINE g == [x \in S |-> IF x \in V THEN f[x] ELSE 0]
<1>1. SumFunctionOnSet(g, S) <= SumFunctionOnSet(f, S)
  <2>1. \A x \in S : g[x] \in Int /\ f[x] \in Int /\ g[x] <= f[x]
    OBVIOUS
  <2> HIDE DEF g
  <2> QED BY <2>1, SumMonotone
<1>2. SumFunctionOnSet(g, S) = SumFunctionOnSet(g, V)
  <2>1. (\A x \in S : g[x] \in Int) /\ \A x \in S \ V : g[x] = 0
    OBVIOUS
  <2> HIDE DEF g
  <2> QED BY <2>1, SumDropsZeros
<1>3. SumFunctionOnSet(g, V) = SumFunctionOnSet(f, V)
  <2>1. IsFiniteSet(V) /\ \A x \in V : g[x] = f[x]
    BY FS_Subset
  <2> HIDE DEF g
  <2> QED BY <2>1, SumSame
<1> QED BY <1>1, <1>2, <1>3

\* Sums are added term by term.
LEMMA SumOfTwo ==
    ASSUME NEW S, IsFiniteSet(S), NEW f, NEW g, NEW h,
           \A x \in S : f[x] \in Int /\ g[x] \in Int /\ h[x] = f[x] + g[x]
    PROVE  SumFunctionOnSet(h, S) = SumFunctionOnSet(f, S) + SumFunctionOnSet(g, S)
<1> DEFINE T == {V \in SUBSET S : SumFunctionOnSet(h, V)
                                    = SumFunctionOnSet(f, V) + SumFunctionOnSet(g, V)}
<1>1. {} \in T
  BY SumUnfolds
<1>2. ASSUME NEW V \in SUBSET S, V # {}, \A x \in V : V \ {x} \in T
      PROVE  V \in T
  <2>1. Pick(V) \in V /\ IsFiniteSet(V) /\ IsFiniteSet(V \ {Pick(V)})
    BY <1>2, PickIn, FS_Subset
  <2>2. /\ SumFunctionOnSet(f, V) = f[Pick(V)] + SumFunctionOnSet(f, V \ {Pick(V)})
        /\ SumFunctionOnSet(g, V) = g[Pick(V)] + SumFunctionOnSet(g, V \ {Pick(V)})
        /\ SumFunctionOnSet(h, V) = h[Pick(V)] + SumFunctionOnSet(h, V \ {Pick(V)})
    BY <2>1, <1>2, SumUnfolds
  <2>3. SumFunctionOnSet(f, V \ {Pick(V)}) \in Int /\ SumFunctionOnSet(g, V \ {Pick(V)}) \in Int
    BY <2>1, SumType
  <2>4. SumFunctionOnSet(h, V \ {Pick(V)})
          = SumFunctionOnSet(f, V \ {Pick(V)}) + SumFunctionOnSet(g, V \ {Pick(V)})
    BY <1>2, <2>1
  <2>5. /\ f[Pick(V)] \in Int /\ g[Pick(V)] \in Int
        /\ h[Pick(V)] = f[Pick(V)] + g[Pick(V)]
    BY <2>1
  <2> QED BY <2>2, <2>3, <2>4, <2>5
<1>3. T \in SUBSET SUBSET S
  OBVIOUS
<1> HIDE DEF T
<1>4. T = SUBSET S
  BY <1>1, <1>2, <1>3, SubsetInduction
<1> QED BY <1>4 DEF T

\* At most what is taken from one goes to another.
LEMMA SumMoved ==
    ASSUME NEW K, IsFiniteSet(K), NEW f, NEW g, NEW i \in K, NEW j, j # i, NEW n \in Nat,
           \A x \in K : f[x] \in Nat, \A x \in K \ {i, j} : g[x] = f[x],
           n <= f[i], g[i] = 0, g[j] \in Nat, NEW M \in {K, K \cup {j}},
           j \in M => g[j] <= (IF j \in K THEN f[j] ELSE 0) + n
    PROVE  SumFunctionOnSet(g, M) <= SumFunctionOnSet(f, K)
<1>1. PICK R, W : R = K \ {i} /\ W = R \ {j}
  OBVIOUS
<1>2. IsFiniteSet(R) /\ IsFiniteSet(W) /\ W \subseteq K
  BY <1>1, FS_Subset
<1>3. \A x \in K : f[x] \in Int /\ g[x] \in Int
  <2>1. ASSUME NEW x \in K
        PROVE  f[x] \in Int /\ g[x] \in Int
    <3>1. CASE x \in {i, j}
      BY <3>1
    <3>2. CASE x \notin {i, j}
      <4>1. g[x] = f[x] /\ f[x] \in Nat
        BY <3>2
      <4> QED BY <4>1
    <3> QED BY <3>1, <3>2
  <2> QED BY <2>1
<1>4. /\ SumFunctionOnSet(f, K) = f[i] + SumFunctionOnSet(f, R)
      /\ SumFunctionOnSet(g, K) = g[i] + SumFunctionOnSet(g, R)
  BY <1>1, <1>3, SumSplits
<1>5. SumFunctionOnSet(g, W) = SumFunctionOnSet(f, W) /\ SumFunctionOnSet(f, W) \in Nat
  <2>1. \A x \in W : g[x] = f[x] /\ f[x] \in Nat
    BY <1>1
  <2> QED BY <1>2, <2>1, SumSame, SumType
<1>6. CASE j \in K
  <2>1. j \in R /\ M = K /\ \A x \in R : f[x] \in Int /\ g[x] \in Int
    BY <1>1, <1>3, <1>6
  <2>2. /\ SumFunctionOnSet(f, R) = f[j] + SumFunctionOnSet(f, W)
        /\ SumFunctionOnSet(g, R) = g[j] + SumFunctionOnSet(g, W)
    BY <1>1, <1>2, <2>1, SumSplits
  <2>3. f[i] \in Nat /\ f[j] \in Nat /\ g[j] <= f[j] + n
    BY <1>6
  <2>4. SumFunctionOnSet(g, K) <= SumFunctionOnSet(f, K)
    BY <1>4, <1>5, <2>2, <2>3
  <2> QED BY <2>1, <2>4
<1>7. CASE j \notin K
  <2>1. R = W /\ f[i] \in Nat
    BY <1>1, <1>7
  <2>2. SumFunctionOnSet(g, K) = SumFunctionOnSet(f, W)
    BY <1>4, <1>5, <2>1
  <2>3. SumFunctionOnSet(f, K) = f[i] + SumFunctionOnSet(f, W)
    BY <1>4, <2>1
  <2>4. CASE M = K
    BY <1>5, <2>1, <2>2, <2>3, <2>4
  <2>5. CASE M = K \cup {j}
    <3>1. \A x \in K \cup {j} : g[x] \in Int
      BY <1>3
    <3>2. SumFunctionOnSet(g, K \cup {j}) = SumFunctionOnSet(g, K) + g[j]
      BY <1>7, <3>1, SumGrows
    <3>3. g[j] <= n
      BY <1>7, <2>5
    <3>4. SumFunctionOnSet(g, M) <= SumFunctionOnSet(f, K)
      BY <1>5, <2>1, <2>2, <2>3, <2>5, <3>2, <3>3
    <3> QED BY <3>4
  <2> QED BY <2>4, <2>5
<1> QED BY <1>6, <1>7

\* A sum is that of a part and that of the rest.
LEMMA SumOfParts ==
    ASSUME NEW S, IsFiniteSet(S), NEW f, NEW V \in SUBSET S, \A x \in S : f[x] \in Int
    PROVE  SumFunctionOnSet(f, S) = SumFunctionOnSet(f, V) + SumFunctionOnSet(f, S \ V)
<1> DEFINE g == [x \in S |-> IF x \in V THEN f[x] ELSE 0]
           h == [x \in S |-> IF x \in V THEN 0 ELSE f[x]]
           W == S \ V
<1>1. SumFunctionOnSet(f, S) = SumFunctionOnSet(g, S) + SumFunctionOnSet(h, S)
  <2>1. \A x \in S : g[x] \in Int /\ h[x] \in Int /\ f[x] = g[x] + h[x]
    OBVIOUS
  <2> HIDE DEF g, h
  <2> QED BY <2>1, SumOfTwo
<1>2. SumFunctionOnSet(g, S) = SumFunctionOnSet(g, V)
  <2>1. (\A x \in S : g[x] \in Int) /\ \A x \in S \ V : g[x] = 0
    OBVIOUS
  <2> HIDE DEF g
  <2> QED BY <2>1, SumDropsZeros
<1>3. SumFunctionOnSet(h, S) = SumFunctionOnSet(h, W)
  <2>1. (\A x \in S : h[x] \in Int) /\ (\A x \in S \ W : h[x] = 0) /\ W \in SUBSET S
    OBVIOUS
  <2> HIDE DEF h, W
  <2> QED BY <2>1, SumDropsZeros
<1>4. SumFunctionOnSet(g, V) = SumFunctionOnSet(f, V)
  <2>1. IsFiniteSet(V) /\ \A x \in V : g[x] = f[x]
    BY FS_Subset
  <2> HIDE DEF g
  <2> QED BY <2>1, SumSame
<1>5. SumFunctionOnSet(h, W) = SumFunctionOnSet(f, W)
  <2>1. IsFiniteSet(W) /\ \A x \in W : h[x] = f[x]
    BY FS_Subset
  <2> HIDE DEF h, W
  <2> QED BY <2>1, SumSame
<1> QED BY <1>1, <1>2, <1>3, <1>4, <1>5

\* Elements of S that are of one of the kinds in A.
OfKind(S, kind, A) == {i \in S : kind[i] \in A}

\* What is counted kind by kind is counted once.
LEMMA SumGathers ==
    ASSUME NEW S, NEW f, NEW kind, NEW A, NEW F,
           IsFiniteSet(S), IsFiniteSet(A), \A i \in S : f[i] \in Int,
           \A a \in A : F[a] = SumFunctionOnSet(f, OfKind(S, kind, {a}))
    PROVE  SumFunctionOnSet(F, A) = SumFunctionOnSet(f, OfKind(S, kind, A))
<1> DEFINE Kinds(V) == OfKind(S, kind, V)
           T == {V \in SUBSET A : SumFunctionOnSet(F, V) = SumFunctionOnSet(f, Kinds(V))}
<1>1. {} \in T
  <2>1. Kinds({}) = {}
    BY DEF OfKind
  <2> QED BY <2>1, SumUnfolds
<1>2. ASSUME NEW V \in SUBSET A, V # {}, \A x \in V : V \ {x} \in T
      PROVE  V \in T
  <2>1. Pick(V) \in V /\ IsFiniteSet(V)
    BY <1>2, PickIn, FS_Subset
  <2>2. SumFunctionOnSet(F, V) = F[Pick(V)] + SumFunctionOnSet(F, V \ {Pick(V)})
    BY <2>1, <1>2, SumUnfolds
  <2>3. SumFunctionOnSet(F, V \ {Pick(V)}) = SumFunctionOnSet(f, Kinds(V \ {Pick(V)}))
    BY <1>2, <2>1
  <2>4. F[Pick(V)] = SumFunctionOnSet(f, Kinds({Pick(V)}))
    BY <2>1
  <2> DEFINE W == Kinds(V)
             U == Kinds({Pick(V)})
  <2>5. U \in SUBSET W /\ W \ U = Kinds(V \ {Pick(V)})
    BY <2>1 DEF OfKind
  <2>6. IsFiniteSet(W) /\ \A i \in W : f[i] \in Int
    <3>1. W \in SUBSET S
      BY DEF OfKind
    <3> HIDE DEF W
    <3> QED BY <3>1, FS_Subset
  <2>7. SumFunctionOnSet(f, W) = SumFunctionOnSet(f, U) + SumFunctionOnSet(f, W \ U)
    <3> HIDE DEF W, U
    <3> QED BY <2>5, <2>6, SumOfParts
  <2>8. SumFunctionOnSet(F, V) = SumFunctionOnSet(f, W)
    BY <2>2, <2>3, <2>4, <2>5, <2>7
  <2> QED BY <2>8
<1>3. T \in SUBSET SUBSET A
  OBVIOUS
<1> HIDE DEF T
<1>4. T = SUBSET A
  BY <1>1, <1>2, <1>3, SubsetInduction
<1> QED BY <1>4 DEF T

\* One term.
LEMMA SumOfOne ==
    ASSUME NEW f, NEW x, f[x] \in Int
    PROVE  SumFunctionOnSet(f, {x}) = f[x]
<1>1. IsFiniteSet({x}) /\ {x} \ {x} = {} /\ \A y \in {x} : f[y] \in Int
  BY FS_Singleton
<1>2. SumFunctionOnSet(f, {x}) = f[x] + SumFunctionOnSet(f, {x} \ {x})
  BY <1>1, SumSplits
<1>3. SumFunctionOnSet(f, {x} \ {x}) = 0
  BY <1>1, SumUnfolds
<1> QED BY <1>2, <1>3

\* Terms that are all zero.
LEMMA SumOfZeros ==
    ASSUME NEW S, IsFiniteSet(S), NEW f, \A x \in S : f[x] = 0
    PROVE  SumFunctionOnSet(f, S) = 0
<1>1. (\A x \in S : f[x] \in Int) /\ {} \in SUBSET S /\ \A x \in S \ {} : f[x] = 0
  OBVIOUS
<1>2. SumFunctionOnSet(f, S) = SumFunctionOnSet(f, {})
  BY <1>1, SumDropsZeros
<1> QED BY <1>2, SumUnfolds

\* A factor of every term is one of the sum.
LEMMA SumScaled ==
    ASSUME NEW S, IsFiniteSet(S), NEW f, NEW g, NEW c \in Int,
           \A x \in S : f[x] \in Int /\ g[x] = c * f[x]
    PROVE  SumFunctionOnSet(g, S) = c * SumFunctionOnSet(f, S)
<1> DEFINE T == {V \in SUBSET S : SumFunctionOnSet(g, V) = c * SumFunctionOnSet(f, V)}
<1>1. {} \in T
  BY SumUnfolds
<1>2. ASSUME NEW V \in SUBSET S, V # {}, \A x \in V : V \ {x} \in T
      PROVE  V \in T
  <2>1. Pick(V) \in V /\ IsFiniteSet(V) /\ IsFiniteSet(V \ {Pick(V)})
    BY <1>2, PickIn, FS_Subset
  <2>2. /\ SumFunctionOnSet(f, V) = f[Pick(V)] + SumFunctionOnSet(f, V \ {Pick(V)})
        /\ SumFunctionOnSet(g, V) = g[Pick(V)] + SumFunctionOnSet(g, V \ {Pick(V)})
    BY <2>1, <1>2, SumUnfolds
  <2>3. SumFunctionOnSet(f, V \ {Pick(V)}) \in Int
    BY <2>1, SumType
  <2>4. SumFunctionOnSet(g, V \ {Pick(V)}) = c * SumFunctionOnSet(f, V \ {Pick(V)})
    BY <1>2, <2>1
  <2>5. f[Pick(V)] \in Int /\ g[Pick(V)] = c * f[Pick(V)]
    BY <2>1
  <2>6. \A a, b \in Int : c * a + c * b = c * (a + b)
    OBVIOUS
  <2>7. SumFunctionOnSet(g, V) = c * SumFunctionOnSet(f, V)
    BY <2>2, <2>3, <2>4, <2>5, <2>6
  <2> QED BY <2>7
<1>3. T \in SUBSET SUBSET S
  OBVIOUS
<1> HIDE DEF T
<1>4. T = SUBSET S
  BY <1>1, <1>2, <1>3, SubsetInduction
<1> QED BY <1>4 DEF T

\* A set is as large as the sum of a one for each element.
LEMMA SumCounts ==
    ASSUME NEW S, IsFiniteSet(S), NEW f, NEW V \in SUBSET S,
           \A x \in S : f[x] = IF x \in V THEN 1 ELSE 0
    PROVE  SumFunctionOnSet(f, S) = Cardinality(V)
<1> DEFINE T == {W \in SUBSET S : SumFunctionOnSet(f, W) = Cardinality(W \cap V)}
<1>1. {} \in T
  BY SumUnfolds, FS_EmptySet
<1>2. ASSUME NEW W \in SUBSET S, W # {}, \A x \in W : W \ {x} \in T
      PROVE  W \in T
  <2>1. PICK x : x \in W
    BY <1>2
  <2> DEFINE R == W \ {x}
  <2>2. IsFiniteSet(W) /\ IsFiniteSet(R \cap V) /\ x \notin R \cap V
    <3>1. R \cap V \in SUBSET S
      OBVIOUS
    <3> QED BY <3>1, FS_Subset
  <2>3. SumFunctionOnSet(f, W) = f[x] + SumFunctionOnSet(f, R)
    <3>1. \A y \in W : f[y] \in Int
      OBVIOUS
    <3> QED BY <2>1, <2>2, <3>1, SumSplits
  <2>4. SumFunctionOnSet(f, R) = Cardinality(R \cap V)
    BY <1>2, <2>1
  <2>5. Cardinality(R \cap V) \in Nat
    BY <2>2, FS_CardinalityType
  <2>6. CASE x \in V
    <3>1. W \cap V = (R \cap V) \cup {x}
      BY <2>1, <2>6
    <3>2. Cardinality(W \cap V) = Cardinality(R \cap V) + 1
      BY <2>2, <3>1, FS_AddElement
    <3> QED BY <2>1, <2>3, <2>4, <2>5, <2>6, <3>2
  <2>7. CASE x \notin V
    <3>1. W \cap V = R \cap V
      BY <2>7
    <3> QED BY <2>1, <2>3, <2>4, <2>5, <2>7, <3>1
  <2> QED BY <2>6, <2>7
<1>3. T \in SUBSET SUBSET S
  OBVIOUS
<1>4. S \cap V = V
  OBVIOUS
<1> HIDE DEF T
<1>5. T = SUBSET S
  BY <1>1, <1>2, <1>3, SubsetInduction
<1> QED BY <1>4, <1>5 DEF T

\* s takes each element of T to one of S of its own, and misses none.
Renames(s, T, S) ==
    /\ \A x \in T : s[x] \in S
    /\ \A x, y \in T : s[x] = s[y] => x = y
    /\ \A y \in S : \E x \in T : s[x] = y

\* The same terms under other names make the same sum.
LEMMA SumReindexed ==
    ASSUME NEW S, IsFiniteSet(S), NEW T, IsFiniteSet(T), NEW f, NEW g, NEW s,
           Renames(s, T, S), \A x \in T : g[x] = f[s[x]], \A y \in S : f[y] \in Int
    PROVE  SumFunctionOnSet(g, T) = SumFunctionOnSet(f, S)
<1>1. \A x \in T : g[x] \in Int
  BY DEF Renames
<1>2. ASSUME NEW y \in S
      PROVE  f[y] = SumFunctionOnSet(g, OfKind(T, s, {y}))
  <2>1. PICK x \in T : s[x] = y
    BY DEF Renames
  <2>2. OfKind(T, s, {y}) = {x}
    BY <2>1 DEF OfKind, Renames
  <2>3. g[x] = f[y] /\ g[x] \in Int
    BY <1>1, <2>1
  <2> QED BY <2>2, <2>3, SumOfOne
<1>3. SumFunctionOnSet(f, S) = SumFunctionOnSet(g, OfKind(T, s, S))
  BY <1>1, <1>2, SumGathers
<1>4. OfKind(T, s, S) = T
  BY DEF OfKind, Renames
<1> QED BY <1>3, <1>4

\* And there are as many of them.
LEMMA RenamedAreAsMany ==
    ASSUME NEW S, NEW T, IsFiniteSet(T), NEW s, Renames(s, T, S)
    PROVE  IsFiniteSet(S) /\ Cardinality(S) = Cardinality(T)
<1> DEFINE b == [x \in T |-> s[x]]
<1>1. b \in Bijection(T, S)
  BY DEF Renames, Bijection, Injection, Surjection, IsInjective
<1>2. ExistsBijection(T, S)
  BY <1>1 DEF ExistsBijection
<1> QED BY <1>2, FS_Bijection

-----------------------------------------------------------------------------
(* The first elements of a finite set in a strict total order of it, which *)
(* is given by its pairs                                                   *)

InStrictOrder(before, S) ==
    /\ \A i, j \in S : i # j => <<i, j>> \in before \/ <<j, i>> \in before
    /\ \A i \in S : <<i, i>> \notin before
    /\ \A i, j, k \in S : <<i, j>> \in before /\ <<j, k>> \in before => <<i, k>> \in before

Earlier(before, S, i)   == {j \in S : <<j, i>> \in before}
FirstOnes(before, S, k) == {i \in S : Cardinality(Earlier(before, S, i)) < k}

\* One element is the last.
LEMMA LastInOrder ==
    ASSUME NEW S, IsFiniteSet(S), S # {}, NEW before, InStrictOrder(before, S)
    PROVE  \E m \in S : \A j \in S \ {m} : <<j, m>> \in before
<1> DEFINE T == {V \in SUBSET S : V = {} \/ \E m \in V : \A j \in V \ {m} : <<j, m>> \in before}
<1>1. {} \in T
  OBVIOUS
<1>2. ASSUME NEW V \in SUBSET S, V # {}, \A x \in V : V \ {x} \in T
      PROVE  V \in T
  <2>1. PICK x : x \in V
    BY <1>2
  <2>2. CASE V \ {x} = {}
    BY <2>1, <2>2
  <2>3. CASE V \ {x} # {}
    <3>1. PICK m \in V \ {x} : \A j \in (V \ {x}) \ {m} : <<j, m>> \in before
      BY <1>2, <2>1, <2>3
    <3>2. CASE <<x, m>> \in before
      <4>1. \A j \in V \ {m} : <<j, m>> \in before
        BY <3>1, <3>2
      <4> QED BY <3>1, <4>1
    <3>3. CASE <<m, x>> \in before
      <4>1. ASSUME NEW j \in V \ {x} PROVE <<j, x>> \in before
        BY <2>1, <3>1, <3>3, <4>1 DEF InStrictOrder
      <4> QED BY <2>1, <4>1
    <3> QED BY <2>1, <3>1, <3>2, <3>3 DEF InStrictOrder
  <2> QED BY <2>2, <2>3
<1>3. T \in SUBSET SUBSET S
  OBVIOUS
<1> HIDE DEF T
<1>4. T = SUBSET S
  BY <1>1, <1>2, <1>3, SubsetInduction
<1> QED BY <1>4 DEF T

\* The first k are k.
LEMMA FirstOnesAreAsMany ==
    ASSUME NEW S, IsFiniteSet(S), NEW before, InStrictOrder(before, S)
    PROVE  \A k \in 0 .. Cardinality(S) : Cardinality(FirstOnes(before, S, k)) = k
<1> DEFINE T == {V \in SUBSET S :
                    \A k \in 0 .. Cardinality(V) : Cardinality(FirstOnes(before, V, k)) = k}
<1>1. {} \in T
  <2>1. \A k : FirstOnes(before, {}, k) = {}
    BY DEF FirstOnes
  <2> QED BY <2>1, FS_EmptySet
<1>2. ASSUME NEW V \in SUBSET S, V # {}, \A x \in V : V \ {x} \in T
      PROVE  V \in T
  <2>1. IsFiniteSet(V) /\ InStrictOrder(before, V)
    BY FS_Subset DEF InStrictOrder
  <2>2. PICK m \in V : \A j \in V \ {m} : <<j, m>> \in before
    BY <1>2, <2>1, LastInOrder
  <2> DEFINE W == V \ {m}
             n == Cardinality(W)
  <2>3. n \in Nat /\ Cardinality(V) = n + 1
    <3>1. IsFiniteSet(W) /\ n = Cardinality(V) - 1
      BY <2>1, <2>2, FS_RemoveElement
    <3>2. n \in Nat /\ Cardinality(V) \in Nat
      BY <2>1, <3>1, FS_CardinalityType
    <3> QED BY <3>1, <3>2
  <2>4. \A i \in W : Earlier(before, V, i) = Earlier(before, W, i)
    <3>1. ASSUME NEW i \in W PROVE <<m, i>> \notin before
      BY <2>1, <2>2 DEF InStrictOrder
    <3> QED BY <3>1 DEF Earlier
  <2>5. Earlier(before, V, m) = W
    BY <2>1, <2>2 DEF Earlier, InStrictOrder
  <2>6. ASSUME NEW k \in 0 .. n PROVE Cardinality(FirstOnes(before, V, k)) = k
    <3>1. FirstOnes(before, V, k) = FirstOnes(before, W, k)
      <4>1. ~(n < k)
        BY <2>3
      <4>2. m \notin FirstOnes(before, V, k)
        BY <2>5, <4>1 DEF FirstOnes
      <4> QED BY <2>4, <4>2 DEF FirstOnes
    <3>2. W \in T
      BY <1>2
    <3> QED BY <3>1, <3>2
  <2>7. Cardinality(FirstOnes(before, V, n + 1)) = n + 1
    <3>1. ASSUME NEW i \in V PROVE Cardinality(Earlier(before, V, i)) < n + 1
      <4>1. Earlier(before, V, i) \in SUBSET (V \ {i})
        BY <2>1 DEF Earlier, InStrictOrder
      <4>2. IsFiniteSet(V \ {i}) /\ Cardinality(V \ {i}) = n
        <5>1. IsFiniteSet(V \ {i}) /\ Cardinality(V \ {i}) = Cardinality(V) - 1
          BY <2>1, FS_RemoveElement
        <5> HIDE DEF n
        <5> QED BY <2>3, <5>1
      <4>3. IsFiniteSet(Earlier(before, V, i)) /\ Cardinality(Earlier(before, V, i)) <= n
        <5> DEFINE U == V \ {i}
        <5>1. IsFiniteSet(U) /\ Earlier(before, V, i) \in SUBSET U /\ Cardinality(U) = n
          BY <4>1, <4>2
        <5> HIDE DEF U, n
        <5> QED BY <5>1, FS_Subset
      <4>4. Cardinality(Earlier(before, V, i)) \in Nat
        BY <4>3, FS_CardinalityType
      <4> HIDE DEF n
      <4> QED BY <2>3, <4>3, <4>4
    <3>2. FirstOnes(before, V, n + 1) = V
      BY <3>1 DEF FirstOnes
    <3> QED BY <2>3, <3>2
  <2>8. \A k \in 0 .. Cardinality(V) : Cardinality(FirstOnes(before, V, k)) = k
    <3> HIDE DEF n
    <3>1. \A k \in 0 .. Cardinality(V) : k \in 0 .. n \/ k = n + 1
      BY <2>3
    <3> QED BY <2>6, <2>7, <3>1
  <2> QED BY <2>8
<1>3. T \in SUBSET SUBSET S
  OBVIOUS
<1>4. S \in SUBSET S
  OBVIOUS
<1> HIDE DEF T
<1>5. T = SUBSET S
  BY <1>1, <1>2, <1>3, SubsetInduction
<1> QED BY <1>4, <1>5 DEF T

=============================================================================
