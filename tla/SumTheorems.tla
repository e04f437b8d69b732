---------------------------- MODULE SumTheorems ----------------------------
(***************************************************************************)
(* Lemmas about SumFunctionOnSet of the community module Functions, with   *)
(* which the models add up balances, grants, archives, amounts and bytes.  *)
(* A fold is a recursive function over the subsets of its set; what it     *)
(* computes is proved by induction over those subsets, with the property   *)
(* to be shown given as a set (SubsetInduction), which keeps every step    *)
(* first-order.                                                            *)
(***************************************************************************)
EXTENDS Integers, FiniteSets, Functions, FiniteSetTheorems, WellFoundedInduction, TLAPS

\* The element a fold takes first.
First(T) == CHOOSE x \in T : TRUE

SumBody(f, g, T) == IF T = {} THEN 0 ELSE f[First(T)] + g[T \ {First(T)}]
IsSum(f, g, S) == g = [T \in SUBSET S |-> SumBody(f, g, T)]

\* A sum is the value at S of the recursive function that adds up.
LEMMA SumDef ==
    ASSUME NEW f, NEW S
    PROVE  SumFunctionOnSet(f, S) = (CHOOSE g : IsSum(f, g, S))[S]
BY Zenon DEF SumFunctionOnSet, FoldFunctionOnSet, MapThenFoldSet, IsSum, SumBody, First

\* Induction over the subsets of a finite set, the property given as a set.
LEMMA SubsetInduction ==
    ASSUME NEW S, IsFiniteSet(S), NEW Good,
           \A T \in SUBSET S : (\A U \in SUBSET T : U # T => U \in Good) => T \in Good
    PROVE  SUBSET S \subseteq Good
<1> DEFINE Bad == (SUBSET S) \ Good
<1> SUFFICES ASSUME Bad # {} PROVE FALSE
  OBVIOUS
<1>1. IsWellFoundedOn(StrictSubsetOrdering(S), SUBSET S)
  <2>1. IsWellFoundedOn(StrictSubsetOrdering(S), FiniteSubsetsOf(S))
    BY FS_StrictSubsetOrderingWellFounded
  <2>2. FiniteSubsetsOf(S) = SUBSET S
    BY FS_FiniteSubsetsOfFinite
  <2> QED
    BY <2>1, <2>2, Zenon
<1>2. PICK T \in Bad : \A U \in Bad : ~ (<<U, T>> \in StrictSubsetOrdering(S))
  <2>1. Bad \subseteq SUBSET S
    OBVIOUS
  <2> DEFINE R == StrictSubsetOrdering(S)
             P == SUBSET S
  <2>2. IsWellFoundedOn(R, P) /\ Bad \subseteq P /\ Bad # {}
    BY <1>1
  <2> HIDE DEF Bad, R, P
  <2>3. \E T \in Bad : \A U \in Bad : ~ (<<U, T>> \in R)
    BY <2>2, WFMin
  <2> QED
    BY <2>3 DEF R
<1>3. ASSUME NEW U \in SUBSET T, U # T PROVE U \in Good
  BY <1>2, <1>3 DEF StrictSubsetOrdering
<1> QED
  BY <1>2, <1>3

\* Two solutions agree wherever both are defined.
LEMMA SumUnique ==
    ASSUME NEW f, NEW S, NEW T \in SUBSET S, IsFiniteSet(T), NEW g, NEW h,
           IsSum(f, g, S), IsSum(f, h, T)
    PROVE  \A U \in SUBSET T : g[U] = h[U]
<1> DEFINE Good == {U \in SUBSET T : g[U] = h[U]}
<1>1. ASSUME NEW U \in SUBSET T, \A V \in SUBSET U : V # U => V \in Good
      PROVE  U \in Good
  <2>1. g[U] = SumBody(f, g, U) /\ h[U] = SumBody(f, h, U)
    BY DEF IsSum
  <2>2. CASE U = {}
    BY <2>1, <2>2 DEF SumBody
  <2>3. CASE U # {}
    <3>1. First(U) \in U
      BY <2>3 DEF First
    <3>2. U \ {First(U)} \in Good
      BY <1>1, <3>1
    <3> QED
      BY <2>1, <3>2 DEF SumBody
  <2> QED
    BY <2>2, <2>3
<1> HIDE DEF Good
<1>2. SUBSET T \subseteq Good
  BY <1>1, SubsetInduction
<1> QED
  BY <1>2 DEF Good

\* The recursive function exists.
LEMMA SumExists ==
    ASSUME NEW f, NEW S, IsFiniteSet(S)
    PROVE  \E g : IsSum(f, g, S)
<1> DEFINE Good == {T \in SUBSET S : \E g : IsSum(f, g, T)}
           H(V) == CHOOSE g : IsSum(f, g, V)
<1>1. ASSUME NEW T \in SUBSET S, \A V \in SUBSET T : V # T => V \in Good
      PROVE  T \in Good
  <2> DEFINE Rest(U) == U \ {First(U)}
             G == [U \in SUBSET T |-> IF U = {} THEN 0 ELSE f[First(U)] + H(Rest(U))[Rest(U)]]
  <2>1. ASSUME NEW U \in SUBSET T, U # T PROVE IsSum(f, H(U), U) /\ IsFiniteSet(U)
    <3>1. \E g : IsSum(f, g, U)
      BY <1>1, <2>1
    <3>2. IsFiniteSet(U)
      BY FS_Subset
    <3> QED
      BY <3>1, <3>2
  <2>2. ASSUME NEW U \in SUBSET T, U # {} PROVE First(U) \in U /\ Rest(U) \in SUBSET U /\ Rest(U) # T
    BY <2>2 DEF First
  <2>3. ASSUME NEW W \in SUBSET T, W # T PROVE G[W] = H(W)[W]
    <3>0. IsSum(f, H(W), W) /\ IsFiniteSet(W)
      BY <2>1, <2>3
    <3>1. H(W)[W] = SumBody(f, H(W), W)
      BY <3>0 DEF IsSum
    <3>2. CASE W = {}
      BY <3>1, <3>2 DEF SumBody
    <3>3. CASE W # {}
      <4>0. Rest(W) \in SUBSET W /\ Rest(W) # T
        BY <2>2, <3>3
      <4>1. IsSum(f, H(Rest(W)), Rest(W)) /\ IsFiniteSet(Rest(W))
        BY <2>1, <4>0
      <4> HIDE DEF H, Rest
      <4>2. H(W)[Rest(W)] = H(Rest(W))[Rest(W)]
        BY <3>0, <4>0, <4>1, SumUnique
      <4>3. H(W)[W] = f[First(W)] + H(W)[Rest(W)]
        BY <3>1, <3>3 DEF SumBody, Rest
      <4> QED
        BY <3>3, <4>2, <4>3
    <3> QED
      BY <3>2, <3>3
  <2>4. ASSUME NEW U \in SUBSET T PROVE G[U] = SumBody(f, G, U)
    <3>1. CASE U = {}
      BY <3>1 DEF SumBody
    <3>2. CASE U # {}
      <4>1. G[Rest(U)] = H(Rest(U))[Rest(U)]
        BY <2>2, <2>3, <3>2
      <4> QED
        BY <3>2, <4>1 DEF SumBody
    <3> QED
      BY <3>1, <3>2
  <2>5. IsSum(f, G, T)
    <3>1. G = [U \in SUBSET T |-> G[U]]
      OBVIOUS
    <3> HIDE DEF G
    <3> QED
      BY <2>4, <3>1, Zenon DEF IsSum
  <2> HIDE DEF G
  <2> QED
    BY <2>5
<1> HIDE DEF Good
<1>2. SUBSET S \subseteq Good
  BY <1>1, SubsetInduction
<1> QED
  BY <1>2 DEF Good

\* Nothing adds up to zero.
LEMMA SumEmpty == ASSUME NEW f PROVE SumFunctionOnSet(f, {}) = 0
<1>1. PICK g : IsSum(f, g, {})
  BY SumExists, FS_EmptySet
<1>2. IsSum(f, CHOOSE h : IsSum(f, h, {}), {})
  BY <1>1
<1> QED
  BY <1>2, SumDef DEF IsSum, SumBody

\* A sum is its first element and the sum of the others.
LEMMA SumFirst ==
    ASSUME NEW f, NEW S, IsFiniteSet(S), S # {}
    PROVE  /\ First(S) \in S
           /\ SumFunctionOnSet(f, S) = f[First(S)] + SumFunctionOnSet(f, S \ {First(S)})
<1> DEFINE T == S \ {First(S)}
           H(V) == CHOOSE g : IsSum(f, g, V)
<1>1. First(S) \in S
  BY DEF First
<1>2. T \in SUBSET S /\ IsFiniteSet(T)
  BY FS_Subset
<1>3. IsSum(f, H(S), S) /\ IsSum(f, H(T), T)
  <2>1. \E g : IsSum(f, g, S)
    BY SumExists
  <2>2. \E g : IsSum(f, g, T)
    BY <1>2, SumExists
  <2> QED
    BY <2>1, <2>2
<1>4. SumFunctionOnSet(f, S) = H(S)[S] /\ SumFunctionOnSet(f, T) = H(T)[T]
  BY SumDef
<1> HIDE DEF H
<1>5. H(S)[T] = H(T)[T]
  BY <1>2, <1>3, SumUnique
<1>6. H(S)[S] = f[First(S)] + H(S)[T]
  BY <1>3 DEF IsSum, SumBody
<1> QED
  BY <1>1, <1>4, <1>5, <1>6

\* A sum of integers is an integer ...
LEMMA SumInt ==
    ASSUME NEW S, IsFiniteSet(S), NEW f, \A x \in S : f[x] \in Int
    PROVE  SumFunctionOnSet(f, S) \in Int
<1> DEFINE Good == {T \in SUBSET S : SumFunctionOnSet(f, T) \in Int}
<1>1. ASSUME NEW T \in SUBSET S, \A V \in SUBSET T : V # T => V \in Good
      PROVE  T \in Good
  <2>1. CASE T = {}
    BY <2>1, SumEmpty
  <2>2. CASE T # {}
    <3>1. IsFiniteSet(T)
      BY FS_Subset
    <3>2. /\ First(T) \in T
          /\ SumFunctionOnSet(f, T) = f[First(T)] + SumFunctionOnSet(f, T \ {First(T)})
      BY <2>2, <3>1, SumFirst
    <3>3. T \ {First(T)} \in Good
      BY <1>1, <3>2
    <3> QED
      BY <3>2, <3>3
  <2> QED
    BY <2>1, <2>2
<1> HIDE DEF Good
<1>2. SUBSET S \subseteq Good
  BY <1>1, SubsetInduction
<1> QED
  BY <1>2 DEF Good

\* ... and of natural numbers a natural number.
LEMMA SumNat ==
    ASSUME NEW S, IsFiniteSet(S), NEW f, \A x \in S : f[x] \in Nat
    PROVE  SumFunctionOnSet(f, S) \in Nat
<1> DEFINE Good == {T \in SUBSET S : SumFunctionOnSet(f, T) \in Nat}
<1>1. ASSUME NEW T \in SUBSET S, \A V \in SUBSET T : V # T => V \in Good
      PROVE  T \in Good
  <2>1. CASE T = {}
    BY <2>1, SumEmpty
  <2>2. CASE T # {}
    <3>1. IsFiniteSet(T)
      BY FS_Subset
    <3>2. /\ First(T) \in T
          /\ SumFunctionOnSet(f, T) = f[First(T)] + SumFunctionOnSet(f, T \ {First(T)})
      BY <2>2, <3>1, SumFirst
    <3>3. T \ {First(T)} \in Good
      BY <1>1, <3>2
    <3> QED
      BY <3>2, <3>3
  <2> QED
    BY <2>1, <2>2
<1> HIDE DEF Good
<1>2. SUBSET S \subseteq Good
  BY <1>1, SubsetInduction
<1> QED
  BY <1>2 DEF Good

\* Any element may be taken out first.
LEMMA SumRemove ==
    ASSUME NEW S, IsFiniteSet(S), NEW f, \A y \in S : f[y] \in Int, NEW x \in S
    PROVE  SumFunctionOnSet(f, S) = f[x] + SumFunctionOnSet(f, S \ {x})
<1> DEFINE Good == {T \in SUBSET S : \A z \in T : SumFunctionOnSet(f, T) = f[z] + SumFunctionOnSet(f, T \ {z})}
<1>1. ASSUME NEW T \in SUBSET S, \A V \in SUBSET T : V # T => V \in Good
      PROVE  T \in Good
  <2> SUFFICES ASSUME NEW z \in T
               PROVE  SumFunctionOnSet(f, T) = f[z] + SumFunctionOnSet(f, T \ {z})
    OBVIOUS
  <2> DEFINE y == First(T)
             R == T \ {y, z}
  <2>1. IsFiniteSet(T) /\ T # {}
    BY FS_Subset
  <2>2. y \in T /\ SumFunctionOnSet(f, T) = f[y] + SumFunctionOnSet(f, T \ {y})
    BY <2>1, SumFirst
  <2> HIDE DEF y
  <2>3. CASE y = z
    BY <2>2, <2>3
  <2>4. CASE y # z
    <3>1. T \ {y} \in Good /\ T \ {z} \in Good
      BY <1>1, <2>2
    <3>2. (T \ {y}) \ {z} = R /\ (T \ {z}) \ {y} = R
      OBVIOUS
    <3>3. SumFunctionOnSet(f, T \ {y}) = f[z] + SumFunctionOnSet(f, R)
      BY <2>4, <3>1, <3>2
    <3>4. SumFunctionOnSet(f, T \ {z}) = f[y] + SumFunctionOnSet(f, R)
      BY <2>2, <2>4, <3>1, <3>2
    <3>5. f[y] \in Int /\ f[z] \in Int
      BY <2>2
    <3>6. SumFunctionOnSet(f, R) \in Int
      <4>1. IsFiniteSet(R)
        BY <2>1, FS_Subset
      <4> QED
        BY <4>1, SumInt
    <3> HIDE DEF R
    <3> QED
      BY <2>2, <3>3, <3>4, <3>5, <3>6
  <2> QED
    BY <2>3, <2>4
<1> HIDE DEF Good
<1>2. SUBSET S \subseteq Good
  BY <1>1, SubsetInduction
<1> QED
  BY <1>2 DEF Good

\* A sum only depends on the values it adds.
LEMMA SumSame ==
    ASSUME NEW S, IsFiniteSet(S), NEW f, NEW g, \A x \in S : f[x] = g[x]
    PROVE  SumFunctionOnSet(f, S) = SumFunctionOnSet(g, S)
<1> DEFINE Good == {T \in SUBSET S : SumFunctionOnSet(f, T) = SumFunctionOnSet(g, T)}
<1>1. ASSUME NEW T \in SUBSET S, \A V \in SUBSET T : V # T => V \in Good
      PROVE  T \in Good
  <2>1. CASE T = {}
    BY <2>1, SumEmpty
  <2>2. CASE T # {}
    <3>1. IsFiniteSet(T)
      BY FS_Subset
    <3>2. /\ First(T) \in T
          /\ SumFunctionOnSet(f, T) = f[First(T)] + SumFunctionOnSet(f, T \ {First(T)})
          /\ SumFunctionOnSet(g, T) = g[First(T)] + SumFunctionOnSet(g, T \ {First(T)})
      BY <2>2, <3>1, SumFirst
    <3>3. T \ {First(T)} \in Good
      BY <1>1, <3>2
    <3> QED
      BY <3>2, <3>3
  <2> QED
    BY <2>1, <2>2
<1> HIDE DEF Good
<1>2. SUBSET S \subseteq Good
  BY <1>1, SubsetInduction
<1> QED
  BY <1>2 DEF Good

\* One value changes.
LEMMA SumUpdate ==
    ASSUME NEW S, IsFiniteSet(S), NEW f, NEW g, NEW x \in S,
           \A y \in S : f[y] \in Int, g[x] \in Int, \A y \in S \ {x} : g[y] = f[y]
    PROVE  SumFunctionOnSet(g, S) = SumFunctionOnSet(f, S) - f[x] + g[x]
<1>1. IsFiniteSet(S \ {x})
  BY FS_Subset
<1>2. SumFunctionOnSet(f, S) = f[x] + SumFunctionOnSet(f, S \ {x})
  BY SumRemove
<1>3. SumFunctionOnSet(g, S) = g[x] + SumFunctionOnSet(g, S \ {x})
  <2>1. \A y \in S : g[y] \in Int
    OBVIOUS
  <2> QED
    BY <2>1, SumRemove
<1>4. SumFunctionOnSet(g, S \ {x}) = SumFunctionOnSet(f, S \ {x})
  BY <1>1, SumSame
<1>5. SumFunctionOnSet(f, S \ {x}) \in Int
  BY <1>1, SumInt
<1> QED
  BY <1>2, <1>3, <1>4, <1>5

\* An element is added.
LEMMA SumAdd ==
    ASSUME NEW S, IsFiniteSet(S), NEW x, x \notin S, NEW f, \A y \in S \union {x} : f[y] \in Int
    PROVE  SumFunctionOnSet(f, S \union {x}) = SumFunctionOnSet(f, S) + f[x]
<1>1. IsFiniteSet(S \union {x}) /\ (S \union {x}) \ {x} = S
  BY FS_AddElement
<1>2. SumFunctionOnSet(f, S) \in Int
  BY SumInt
<1>3. SumFunctionOnSet(f, S \union {x}) = f[x] + SumFunctionOnSet(f, S)
  BY <1>1, SumRemove
<1> QED
  BY <1>2, <1>3

\* Adding up pairs of values.
LEMMA SumPlus ==
    ASSUME NEW S, IsFiniteSet(S), NEW f, NEW g, NEW h,
           \A x \in S : f[x] \in Int /\ g[x] \in Int /\ h[x] = f[x] + g[x]
    PROVE  SumFunctionOnSet(h, S) = SumFunctionOnSet(f, S) + SumFunctionOnSet(g, S)
<1> DEFINE Good == {T \in SUBSET S :
                      SumFunctionOnSet(h, T) = SumFunctionOnSet(f, T) + SumFunctionOnSet(g, T)}
<1>1. ASSUME NEW T \in SUBSET S, \A V \in SUBSET T : V # T => V \in Good
      PROVE  T \in Good
  <2>1. CASE T = {}
    BY <2>1, SumEmpty
  <2>2. CASE T # {}
    <3> DEFINE x == First(T)
               R == T \ {x}
    <3>1. IsFiniteSet(T) /\ IsFiniteSet(R)
      BY FS_Subset
    <3>2. /\ x \in T
          /\ SumFunctionOnSet(f, T) = f[x] + SumFunctionOnSet(f, R)
          /\ SumFunctionOnSet(g, T) = g[x] + SumFunctionOnSet(g, R)
          /\ SumFunctionOnSet(h, T) = h[x] + SumFunctionOnSet(h, R)
      BY <2>2, <3>1, SumFirst
    <3> HIDE DEF x
    <3>3. SumFunctionOnSet(h, R) = SumFunctionOnSet(f, R) + SumFunctionOnSet(g, R)
      BY <1>1, <3>2
    <3>4. SumFunctionOnSet(f, R) \in Int /\ SumFunctionOnSet(g, R) \in Int
      BY <3>1, SumInt
    <3>5. f[x] \in Int /\ g[x] \in Int /\ h[x] = f[x] + g[x]
      BY <3>2
    <3> HIDE DEF R
    <3> QED
      BY <3>2, <3>3, <3>4, <3>5
  <2> QED
    BY <2>1, <2>2
<1> HIDE DEF Good
<1>2. SUBSET S \subseteq Good
  BY <1>1, SubsetInduction
<1> QED
  BY <1>2 DEF Good

\* Two sets without a common element.
LEMMA SumUnion ==
    ASSUME NEW S, NEW R, IsFiniteSet(S), IsFiniteSet(R), S \intersect R = {},
           NEW f, \A x \in S \union R : f[x] \in Int
    PROVE  SumFunctionOnSet(f, S \union R) = SumFunctionOnSet(f, S) + SumFunctionOnSet(f, R)
<1> DEFINE Good == {T \in SUBSET S :
             SumFunctionOnSet(f, T \union R) = SumFunctionOnSet(f, T) + SumFunctionOnSet(f, R)}
<1>0. SumFunctionOnSet(f, R) \in Int
  BY SumInt
<1>1. ASSUME NEW T \in SUBSET S, \A V \in SUBSET T : V # T => V \in Good
      PROVE  T \in Good
  <2>1. CASE T = {}
    BY <1>0, <2>1, SumEmpty
  <2>2. CASE T # {}
    <3> DEFINE x == First(T)
               V == T \ {x}
    <3>1. IsFiniteSet(T) /\ IsFiniteSet(V)
      BY FS_Subset
    <3>2. x \in T /\ SumFunctionOnSet(f, T) = f[x] + SumFunctionOnSet(f, V)
      BY <2>2, <3>1, SumFirst
    <3> HIDE DEF x
    <3>3. SumFunctionOnSet(f, V \union R) = SumFunctionOnSet(f, V) + SumFunctionOnSet(f, R)
      BY <1>1, <3>2
    <3>4. SumFunctionOnSet(f, T \union R) = f[x] + SumFunctionOnSet(f, V \union R)
      <4>1. IsFiniteSet(T \union R)
        BY <3>1, FS_Union
      <4>2. x \in T \union R /\ (T \union R) \ {x} = V \union R
        BY <3>2
      <4>3. \A y \in T \union R : f[y] \in Int
        OBVIOUS
      <4> HIDE DEF V
      <4> QED
        BY <4>1, <4>2, <4>3, SumRemove
    <3>5. SumFunctionOnSet(f, V) \in Int /\ f[x] \in Int
      BY <3>1, <3>2, SumInt
    <3> HIDE DEF V
    <3> QED
      BY <1>0, <3>2, <3>3, <3>4, <3>5
  <2> QED
    BY <2>1, <2>2
<1> HIDE DEF Good
<1>2. SUBSET S \subseteq Good
  BY <1>1, SubsetInduction
<1> QED
  BY <1>2 DEF Good

\* Leaving elements out.
LEMMA SumSplit ==
    ASSUME NEW S, IsFiniteSet(S), NEW T \in SUBSET S, NEW f, \A x \in S : f[x] \in Int
    PROVE  /\ IsFiniteSet(T) /\ IsFiniteSet(S \ T)
           /\ SumFunctionOnSet(f, S) = SumFunctionOnSet(f, T) + SumFunctionOnSet(f, S \ T)
<1>1. IsFiniteSet(T) /\ IsFiniteSet(S \ T)
  BY FS_Subset
<1>2. T \union (S \ T) = S /\ T \intersect (S \ T) = {}
  OBVIOUS
<1> DEFINE R == S \ T
<1> HIDE DEF R
<1>3. SumFunctionOnSet(f, T \union R) = SumFunctionOnSet(f, T) + SumFunctionOnSet(f, R)
  BY <1>1, <1>2, SumUnion DEF R
<1> QED
  BY <1>1, <1>2, <1>3 DEF R

\* A part of a sum of natural numbers is not larger than the whole.
LEMMA SumSubset ==
    ASSUME NEW S, IsFiniteSet(S), NEW T \in SUBSET S, NEW f, \A x \in S : f[x] \in Nat
    PROVE  SumFunctionOnSet(f, T) <= SumFunctionOnSet(f, S)
<1>1. /\ IsFiniteSet(T) /\ IsFiniteSet(S \ T)
      /\ SumFunctionOnSet(f, S) = SumFunctionOnSet(f, T) + SumFunctionOnSet(f, S \ T)
  <2>1. \A x \in S : f[x] \in Int
    OBVIOUS
  <2> QED
    BY <2>1, SumSplit
<1>2. SumFunctionOnSet(f, T) \in Nat /\ SumFunctionOnSet(f, S \ T) \in Nat
  BY <1>1, SumNat
<1> QED
  BY <1>1, <1>2

\* What is zero does not count.
LEMMA SumZero ==
    ASSUME NEW S, IsFiniteSet(S), NEW f, \A x \in S : f[x] = 0
    PROVE  SumFunctionOnSet(f, S) = 0
<1> DEFINE Good == {T \in SUBSET S : SumFunctionOnSet(f, T) = 0}
<1>1. ASSUME NEW T \in SUBSET S, \A V \in SUBSET T : V # T => V \in Good
      PROVE  T \in Good
  <2>1. CASE T = {}
    BY <2>1, SumEmpty
  <2>2. CASE T # {}
    <3>1. IsFiniteSet(T)
      BY FS_Subset
    <3>2. /\ First(T) \in T
          /\ SumFunctionOnSet(f, T) = f[First(T)] + SumFunctionOnSet(f, T \ {First(T)})
      BY <2>2, <3>1, SumFirst
    <3>3. T \ {First(T)} \in Good
      BY <1>1, <3>2
    <3> QED
      BY <3>2, <3>3
  <2> QED
    BY <2>1, <2>2
<1> HIDE DEF Good
<1>2. SUBSET S \subseteq Good
  BY <1>1, SubsetInduction
<1> QED
  BY <1>2 DEF Good

\* Elements whose value is zero may be left out.
LEMMA SumNonzero ==
    ASSUME NEW S, IsFiniteSet(S), NEW T \in SUBSET S, NEW f, \A x \in S : f[x] \in Int,
           \A x \in S \ T : f[x] = 0
    PROVE  SumFunctionOnSet(f, S) = SumFunctionOnSet(f, T)
<1>1. /\ IsFiniteSet(T) /\ IsFiniteSet(S \ T)
      /\ SumFunctionOnSet(f, S) = SumFunctionOnSet(f, T) + SumFunctionOnSet(f, S \ T)
  BY SumSplit
<1>2. SumFunctionOnSet(f, S \ T) = 0
  BY <1>1, SumZero
<1>3. SumFunctionOnSet(f, T) \in Int
  BY <1>1, SumInt
<1> QED
  BY <1>1, <1>2, <1>3

\* Values that grow.
LEMMA SumLeq ==
    ASSUME NEW S, IsFiniteSet(S), NEW f, NEW g,
           \A x \in S : f[x] \in Int /\ g[x] \in Int /\ f[x] <= g[x]
    PROVE  SumFunctionOnSet(f, S) <= SumFunctionOnSet(g, S)
<1> DEFINE d == [x \in S |-> g[x] - f[x]]
<1>1. \A x \in S : d[x] \in Nat
  OBVIOUS
<1>2. \A x \in S : f[x] \in Int /\ d[x] \in Int /\ g[x] = f[x] + d[x]
  OBVIOUS
<1> HIDE DEF d
<1>3. SumFunctionOnSet(g, S) = SumFunctionOnSet(f, S) + SumFunctionOnSet(d, S)
  BY <1>2, SumPlus
<1>4. SumFunctionOnSet(d, S) \in Nat /\ SumFunctionOnSet(f, S) \in Int
  BY <1>1, SumNat, SumInt
<1> QED
  BY <1>3, <1>4

\* Induction up to a number, the property given as a set.
LEMMA UpTo ==
    ASSUME NEW n \in Nat, NEW Good, 0 \in Good, \A k \in 0 .. (n - 1) : k \in Good => k + 1 \in Good
    PROVE  0 .. n \subseteq Good
<1> DEFINE All == 1 .. n
           Best == {T \in SUBSET All : \A k \in 0 .. n : T = 1 .. k => k \in Good}
<1>1. IsFiniteSet(All)
  BY FS_Interval
<1>2. ASSUME NEW T \in SUBSET All, \A V \in SUBSET T : V # T => V \in Best
      PROVE  T \in Best
  <2> SUFFICES ASSUME NEW k \in 0 .. n, T = 1 .. k PROVE k \in Good
    OBVIOUS
  <2>1. CASE k = 0
    BY <2>1
  <2>2. CASE k # 0
    <3>1. k - 1 \in 0 .. (n - 1) /\ (k - 1) + 1 = k
      BY <2>2
    <3>2. 1 .. (k - 1) \in SUBSET T /\ k \in T /\ k \notin 1 .. (k - 1)
      BY <2>2
    <3>3. 1 .. (k - 1) \in Best
      BY <1>2, <3>2
    <3>4. k - 1 \in Good
      BY <3>1, <3>3
    <3> QED
      BY <3>1, <3>4
  <2> QED
    BY <2>1, <2>2
<1> HIDE DEF Best, All
<1>3. SUBSET All \subseteq Best
  BY <1>1, <1>2, SubsetInduction
<1>4. ASSUME NEW k \in 0 .. n PROVE k \in Good
  <2>1. 1 .. k \in SUBSET All
    BY DEF All
  <2>2. 1 .. k \in Best
    BY <1>3, <2>1
  <2> QED
    BY <2>2 DEF Best
<1> QED
  BY <1>4
=============================================================================
