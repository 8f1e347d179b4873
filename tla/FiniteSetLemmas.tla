-------------------------- MODULE FiniteSetLemmas --------------------------
(***************************************************************************)
(* Finite sets: the induction on them, with the set of the sets that have  *)
(* the property as its parameter; greatest and least elements; and sums of *)
(* a function, which the community modules define by a recursion along the *)
(* elements CHOOSE takes out first.                                        *)
(***************************************************************************)
EXTENDS Integers, FiniteSets, FiniteSetsExt, FiniteSetTheorems, WellFoundedInduction, TLAPS

\* Induction on a finite set: a set is in P when its proper subsets are.
LEMMA FiniteInduction ==
  ASSUME NEW S, IsFiniteSet(S), NEW P,
         \A T \in SUBSET S : (\A U \in SUBSET T : U # T => U \in P) => T \in P
  PROVE  S \in P
<1> DEFINE R == StrictSubsetOrdering(S)
           Bad == {T \in SUBSET S : T \notin P}
<1> SUFFICES ASSUME Bad # {} PROVE FALSE OBVIOUS
<1>1. IsWellFoundedOn(R, FiniteSubsetsOf(S)) BY FS_StrictSubsetOrderingWellFounded
<1>2. PICK T \in Bad : \A U \in Bad : ~(<<U, T>> \in R)
  <2>1. Bad \subseteq FiniteSubsetsOf(S) BY FS_FiniteSubsetsOfFinite
  <2> HIDE DEF Bad, R
  <2>2. \E T \in Bad : \A U \in Bad : ~(<<U, T>> \in R)
    BY <1>1, <2>1, WFMin
  <2> QED BY <2>2
<1>3. ASSUME NEW U \in SUBSET T, U # T PROVE U \in P
  <2>1. SUFFICES ASSUME U \notin P PROVE FALSE OBVIOUS
  <2>2. U \in Bad BY <1>2, <2>1
  <2>3. <<U, T>>[1] = U /\ <<U, T>>[2] = T /\ <<U, T>> \in (SUBSET S) \X (SUBSET S)
    BY <1>2, <2>2
  <2>4. <<U, T>> \in R BY <1>3, <2>3 DEF StrictSubsetOrdering
  <2> QED BY <1>2, <2>2, <2>4
<1> QED BY <1>2, <1>3

\* A finite set of integers has its greatest element.
LEMMA MaxIsGreatest ==
  ASSUME NEW S, IsFiniteSet(S), S \subseteq Int, S # {}
  PROVE  Max(S) \in S /\ \A y \in S : Max(S) >= y
<1> DEFINE P == {T \in SUBSET S : T = {} \/ \E x \in T : \A y \in T : x >= y}
<1>1. ASSUME NEW T \in SUBSET S, \A U \in SUBSET T : U # T => U \in P PROVE T \in P
  <2> SUFFICES ASSUME NEW x \in T PROVE \E z \in T : \A y \in T : z >= y OBVIOUS
  <2>1. T \ {x} \in P BY <1>1
  <2>2. CASE T \ {x} = {} BY <2>2
  <2>3. CASE T \ {x} # {}
    <3> PICK z \in T \ {x} : \A y \in T \ {x} : z >= y BY <2>1, <2>3
    <3>1. CASE z >= x BY <3>1
    <3>2. CASE x > z
      <4>1. \A y \in T : x >= y BY <3>2
      <4> QED BY <4>1
    <3> QED BY <3>1, <3>2
  <2> QED BY <2>2, <2>3
<1>2. S \in P
  <2> HIDE DEF P
  <2> QED BY <1>1, FiniteInduction
<1>3. \E x \in S : \A y \in S : x >= y BY <1>2
<1> QED BY <1>3 DEF Max

\* A finite set of integers has its least element.
LEMMA MinIsLeast ==
  ASSUME NEW S, IsFiniteSet(S), S \subseteq Int, S # {}
  PROVE  Min(S) \in S /\ \A y \in S : Min(S) <= y
<1> DEFINE P == {T \in SUBSET S : T = {} \/ \E x \in T : \A y \in T : x <= y}
<1>1. ASSUME NEW T \in SUBSET S, \A U \in SUBSET T : U # T => U \in P PROVE T \in P
  <2> SUFFICES ASSUME NEW x \in T PROVE \E z \in T : \A y \in T : z <= y OBVIOUS
  <2>1. T \ {x} \in P BY <1>1
  <2>2. CASE T \ {x} = {} BY <2>2
  <2>3. CASE T \ {x} # {}
    <3> PICK z \in T \ {x} : \A y \in T \ {x} : z <= y BY <2>1, <2>3
    <3>1. CASE z <= x BY <3>1
    <3>2. CASE x < z
      <4>1. \A y \in T : x <= y BY <3>2
      <4> QED BY <4>1
    <3> QED BY <3>1, <3>2
  <2> QED BY <2>2, <2>3
<1>2. S \in P
  <2> HIDE DEF P
  <2> QED BY <1>1, FiniteInduction
<1>3. \E x \in S : \A y \in S : x <= y BY <1>2
<1> QED BY <1>3 DEF Min

\* The recursion of a sum of f over S, a function that follows it, and the value of
\* the one that CHOOSE takes.
FirstOf(s) == CHOOSE x \in s : TRUE

Follows(h, f, S) ==
  h = [s \in SUBSET S |-> IF s = {} THEN 0 ELSE f[FirstOf(s)] + h[s \ {FirstOf(s)}]]

\* A sum is what the recursion of the fold gives.
LEMMA SumUnfolds ==
  ASSUME NEW S, NEW f
  PROVE  SumFunctionOnSet(f, S) = (CHOOSE h : Follows(h, f, S))[S]
BY DEF SumFunctionOnSet, FoldFunctionOnSet, MapThenFoldSet, Follows, FirstOf

\* The element taken out first is an element.
LEMMA FirstIsIn ==
  ASSUME NEW s, s # {}
  PROVE  FirstOf(s) \in s
BY DEF FirstOf

\* The recursion, at each subset.
LEMMA FollowingAt ==
  ASSUME NEW S, NEW f, NEW h, Follows(h, f, S)
  PROVE  \A s \in SUBSET S : h[s] = IF s = {} THEN 0 ELSE f[FirstOf(s)] + h[s \ {FirstOf(s)}]
<1> TAKE s \in SUBSET S
<1> DEFINE E(t) == IF t = {} THEN 0 ELSE f[FirstOf(t)] + h[t \ {FirstOf(t)}]
<1>1. h = [t \in SUBSET S |-> E(t)] BY DEF Follows
<1> HIDE DEF E
<1>2. h[s] = E(s) BY <1>1
<1> QED BY <1>2 DEF E

\* Two functions that follow the recursion have the same sum.
LEMMA FollowersAgree ==
  ASSUME NEW S, IsFiniteSet(S), NEW f, NEW g, NEW h, Follows(g, f, S), Follows(h, f, S)
  PROVE  g[S] = h[S]
<1> DEFINE P == {T \in SUBSET S : g[T] = h[T]}
<1>a. \A s \in SUBSET S : g[s] = IF s = {} THEN 0 ELSE f[FirstOf(s)] + g[s \ {FirstOf(s)}]
  <2> HIDE DEF P
  <2> QED BY FollowingAt
<1>b. \A s \in SUBSET S : h[s] = IF s = {} THEN 0 ELSE f[FirstOf(s)] + h[s \ {FirstOf(s)}]
  <2> HIDE DEF P
  <2> QED BY FollowingAt
<1>1. ASSUME NEW T \in SUBSET S, \A U \in SUBSET T : U # T => U \in P PROVE T \in P
  <2> HIDE DEF P
  <2>1. g[T] = IF T = {} THEN 0 ELSE f[FirstOf(T)] + g[T \ {FirstOf(T)}]
    BY <1>a
  <2>2. h[T] = IF T = {} THEN 0 ELSE f[FirstOf(T)] + h[T \ {FirstOf(T)}]
    BY <1>b
  <2>3. CASE T = {} BY <2>1, <2>2, <2>3 DEF P
  <2>4. CASE T # {}
    <3>1. FirstOf(T) \in T BY <2>4, FirstIsIn
    <3>2. T \ {FirstOf(T)} \in P BY <1>1, <3>1
    <3>3. g[T \ {FirstOf(T)}] = h[T \ {FirstOf(T)}] BY <3>2 DEF P
    <3> QED BY <2>1, <2>2, <2>4, <3>3 DEF P
  <2> QED BY <2>3, <2>4
<1>2. S \in P
  <2> HIDE DEF P
  <2> QED BY <1>1, FiniteInduction
<1> QED BY <1>2

\* A function that follows the recursion exists on every finite set.
SumAlong(f, s) == (CHOOSE h : Follows(h, f, s))[s]

\* A function that follows the recursion exists.
LEMMA FollowersExist ==
  ASSUME NEW S, IsFiniteSet(S), NEW f
  PROVE  Follows([s \in SUBSET S |-> SumAlong(f, s)], f, S)
<1> DEFINE V(T) == [s \in SUBSET T |-> SumAlong(f, s)]
           P == {T \in SUBSET S : Follows(V(T), f, T)}
<1>1. ASSUME NEW T \in SUBSET S, \A U \in SUBSET T : U # T => U \in P PROVE T \in P
  <2> DEFINE E(t) == IF t = {} THEN 0 ELSE f[FirstOf(t)] + SumAlong(f, t \ {FirstOf(t)})
             h == [t \in SUBSET T |-> E(t)]
  <2>1. ASSUME NEW U \in SUBSET T, U # T PROVE SumAlong(f, U) = E(U)
    <3>1. Follows(V(U), f, U) BY <1>1, <2>1
    <3>2. V(U)[U] = IF U = {} THEN 0 ELSE f[FirstOf(U)] + V(U)[U \ {FirstOf(U)}]
      <4> HIDE DEF V
      <4> QED BY <3>1, FollowingAt
    <3> QED BY <3>2
  <2>2. ASSUME NEW t \in SUBSET T PROVE h[t] = IF t = {} THEN 0 ELSE f[FirstOf(t)] + h[t \ {FirstOf(t)}]
    <3>1. CASE t = {} BY <3>1
    <3>2. CASE t # {}
      <4>1. FirstOf(t) \in t BY <3>2, FirstIsIn
      <4>2. t \ {FirstOf(t)} \in SUBSET T /\ t \ {FirstOf(t)} # T BY <4>1
      <4>3. h[t \ {FirstOf(t)}] = SumAlong(f, t \ {FirstOf(t)}) 
        <5> HIDE DEF E
        <5>1. h[t \ {FirstOf(t)}] = E(t \ {FirstOf(t)}) BY <4>2
        <5> QED BY <4>2, <5>1, <2>1
      <4>4. h[t] = E(t) OBVIOUS
      <4> QED BY <3>2, <4>3, <4>4
    <3> QED BY <3>1, <3>2
  <2>3. Follows(h, f, T)
    <3> HIDE DEF E
    <3>1. h = [t \in SUBSET T |-> h[t]] OBVIOUS
    <3> HIDE DEF h
    <3> QED BY <2>2, <3>1 DEF Follows
  <2>4. SumAlong(f, T) = h[T]
    <3> DEFINE g == CHOOSE g : Follows(g, f, T)
    <3> HIDE DEF h
    <3>1. Follows(g, f, T) BY <2>3, Zenon
    <3>2. IsFiniteSet(T) BY FS_Subset
    <3> HIDE DEF g
    <3>3. g[T] = h[T] BY <2>3, <3>1, <3>2, FollowersAgree
    <3> QED BY <3>3 DEF SumAlong, g
  <2>5. \A t \in SUBSET T : h[t] = SumAlong(f, t)
    <3> HIDE DEF E
    <3>1. \A t \in SUBSET T : h[t] = E(t) OBVIOUS
    <3> QED BY <2>1, <2>4, <3>1
  <2>6. V(T) = h BY <2>5
  <2> QED BY <2>3, <2>6
<1>2. S \in P
  <2> HIDE DEF P
  <2> QED BY <1>1, FiniteInduction
<1> QED BY <1>2

\* A sum is its first element and the sum of the rest.
LEMMA SumRecursion ==
  ASSUME NEW S, IsFiniteSet(S), NEW f
  PROVE  SumFunctionOnSet(f, S) =
           IF S = {} THEN 0 ELSE f[FirstOf(S)] + SumFunctionOnSet(f, S \ {FirstOf(S)})
<1> DEFINE V == [s \in SUBSET S |-> SumAlong(f, s)]
<1>1. \A T : SumFunctionOnSet(f, T) = SumAlong(f, T) BY SumUnfolds DEF SumAlong
<1>2. Follows(V, f, S) BY FollowersExist
<1>3. V[S] = IF S = {} THEN 0 ELSE f[FirstOf(S)] + V[S \ {FirstOf(S)}]
  <2> HIDE DEF V
  <2> QED BY <1>2, FollowingAt
<1>4. V[S] = SumAlong(f, S) /\ V[S \ {FirstOf(S)}] = SumAlong(f, S \ {FirstOf(S)}) OBVIOUS
<1> QED BY <1>1, <1>3, <1>4
\* What follows reads a sum as a function of the set, by the induction above.
LEMMA SumEmpty ==
  ASSUME NEW f
  PROVE  SumFunctionOnSet(f, {}) = 0
BY SumRecursion, FS_EmptySet

\* A sum of integers is an integer.
LEMMA SumType ==
  ASSUME NEW S, IsFiniteSet(S), NEW f, \A x \in S : f[x] \in Int
  PROVE  SumFunctionOnSet(f, S) \in Int
<1> DEFINE P == {T \in SUBSET S : SumFunctionOnSet(f, T) \in Int}
<1>1. ASSUME NEW T \in SUBSET S, \A U \in SUBSET T : U # T => U \in P PROVE T \in P
  <2>1. IsFiniteSet(T) BY FS_Subset
  <2>2. CASE T = {} BY <2>2, SumEmpty
  <2>3. CASE T # {}
    <3>1. FirstOf(T) \in T BY <2>3, FirstIsIn
    <3>2. T \ {FirstOf(T)} \in P BY <1>1, <3>1
    <3>3. SumFunctionOnSet(f, T) = f[FirstOf(T)] + SumFunctionOnSet(f, T \ {FirstOf(T)})
      BY <2>1, <2>3, SumRecursion
    <3> QED BY <3>1, <3>2, <3>3
  <2> QED BY <2>2, <2>3
<1>2. S \in P
  <2> HIDE DEF P
  <2> QED BY <1>1, FiniteInduction
<1> QED BY <1>2

\* A sum of naturals is a natural.
LEMMA SumNatural ==
  ASSUME NEW S, IsFiniteSet(S), NEW f, \A x \in S : f[x] \in Nat
  PROVE  SumFunctionOnSet(f, S) \in Nat
<1> DEFINE P == {T \in SUBSET S : SumFunctionOnSet(f, T) \in Nat}
<1>1. ASSUME NEW T \in SUBSET S, \A U \in SUBSET T : U # T => U \in P PROVE T \in P
  <2>1. IsFiniteSet(T) BY FS_Subset
  <2>2. CASE T = {} BY <2>2, SumEmpty
  <2>3. CASE T # {}
    <3>1. FirstOf(T) \in T BY <2>3, FirstIsIn
    <3>2. T \ {FirstOf(T)} \in P BY <1>1, <3>1
    <3>3. SumFunctionOnSet(f, T) = f[FirstOf(T)] + SumFunctionOnSet(f, T \ {FirstOf(T)})
      BY <2>1, <2>3, SumRecursion
    <3> QED BY <3>1, <3>2, <3>3
  <2> QED BY <2>2, <2>3
<1>2. S \in P
  <2> HIDE DEF P
  <2> QED BY <1>1, FiniteInduction
<1> QED BY <1>2

\* The order of the recursion does not matter: any element may come first.
LEMMA SumRemove ==
  ASSUME NEW S, IsFiniteSet(S), NEW f, \A x \in S : f[x] \in Int, NEW x \in S
  PROVE  SumFunctionOnSet(f, S) = f[x] + SumFunctionOnSet(f, S \ {x})
<1> DEFINE P == {T \in SUBSET S : \A y \in T :
                   SumFunctionOnSet(f, T) = f[y] + SumFunctionOnSet(f, T \ {y})}
<1>1. ASSUME NEW T \in SUBSET S, \A U \in SUBSET T : U # T => U \in P PROVE T \in P
  <2> SUFFICES ASSUME NEW y \in T
               PROVE  SumFunctionOnSet(f, T) = f[y] + SumFunctionOnSet(f, T \ {y})
    OBVIOUS
  <2> DEFINE c == FirstOf(T)
             both == (T \ {c}) \ {y}
  <2>1. IsFiniteSet(T) /\ c \in T BY FS_Subset, FirstIsIn
  <2>2. SumFunctionOnSet(f, T) = f[c] + SumFunctionOnSet(f, T \ {c})
    BY <2>1, SumRecursion
  <2> HIDE DEF c
  <2>3. CASE c = y BY <2>2, <2>3
  <2>4. CASE c # y
    <3>1. SumFunctionOnSet(f, T \ {c}) = f[y] + SumFunctionOnSet(f, both)
      <4>1. T \ {c} \in P BY <1>1, <2>1
      <4> QED BY <2>4, <4>1
    <3>2. SumFunctionOnSet(f, T \ {y}) = f[c] + SumFunctionOnSet(f, both)
      <4>1. T \ {y} \in P BY <1>1
      <4>2. (T \ {y}) \ {c} = both OBVIOUS
      <4> QED BY <2>1, <2>4, <4>1, <4>2
    <3>3. f[y] \in Int /\ f[c] \in Int /\ SumFunctionOnSet(f, both) \in Int
      <4>1. both \in SUBSET S BY <2>1
      <4>2. IsFiniteSet(both) BY <4>1, FS_Subset
      <4>3. SumFunctionOnSet(f, both) \in Int BY <4>1, <4>2, SumType
      <4> QED BY <2>1, <4>3
    <3> HIDE DEF both
    <3> QED BY <2>2, <3>1, <3>2, <3>3
  <2> QED BY <2>3, <2>4
<1>2. S \in P
  <2> HIDE DEF P
  <2> QED BY <1>1, FiniteInduction
<1> QED BY <1>2

\* Functions that agree on the set have one sum.
LEMMA SumOfSame ==
  ASSUME NEW S, IsFiniteSet(S), NEW f, NEW g, \A x \in S : f[x] = g[x]
  PROVE  SumFunctionOnSet(f, S) = SumFunctionOnSet(g, S)
<1> DEFINE P == {T \in SUBSET S : SumFunctionOnSet(f, T) = SumFunctionOnSet(g, T)}
<1>1. ASSUME NEW T \in SUBSET S, \A U \in SUBSET T : U # T => U \in P PROVE T \in P
  <2>1. IsFiniteSet(T) BY FS_Subset
  <2>2. CASE T = {} BY <2>2, SumEmpty
  <2>3. CASE T # {}
    <3>1. FirstOf(T) \in T BY <2>3, FirstIsIn
    <3>2. T \ {FirstOf(T)} \in P BY <1>1, <3>1
    <3>3. /\ SumFunctionOnSet(f, T) = f[FirstOf(T)] + SumFunctionOnSet(f, T \ {FirstOf(T)})
          /\ SumFunctionOnSet(g, T) = g[FirstOf(T)] + SumFunctionOnSet(g, T \ {FirstOf(T)})
      BY <2>1, <2>3, SumRecursion
    <3> QED BY <3>1, <3>2, <3>3
  <2> QED BY <2>2, <2>3
<1>2. S \in P
  <2> HIDE DEF P
  <2> QED BY <1>1, FiniteInduction
<1> QED BY <1>2

\* A sum of sums is the sum of the two.
LEMMA SumOfPlus ==
  ASSUME NEW S, IsFiniteSet(S), NEW f, NEW g, NEW h,
         \A x \in S : f[x] \in Int /\ g[x] \in Int /\ h[x] = f[x] + g[x]
  PROVE  SumFunctionOnSet(h, S) = SumFunctionOnSet(f, S) + SumFunctionOnSet(g, S)
<1> DEFINE P == {T \in SUBSET S : SumFunctionOnSet(h, T) =
                                    SumFunctionOnSet(f, T) + SumFunctionOnSet(g, T)}
<1>1. ASSUME NEW T \in SUBSET S, \A U \in SUBSET T : U # T => U \in P PROVE T \in P
  <2>1. IsFiniteSet(T) BY FS_Subset
  <2>2. CASE T = {} BY <2>2, SumEmpty
  <2>3. CASE T # {}
    <3> DEFINE c == FirstOf(T)
               U == T \ {c}
    <3>1. c \in T BY <2>3, FirstIsIn
    <3>2. U \in P BY <1>1, <3>1
    <3>3. /\ SumFunctionOnSet(f, T) = f[c] + SumFunctionOnSet(f, U)
          /\ SumFunctionOnSet(g, T) = g[c] + SumFunctionOnSet(g, U)
          /\ SumFunctionOnSet(h, T) = h[c] + SumFunctionOnSet(h, U)
      BY <2>1, <2>3, SumRecursion
    <3>4. /\ f[c] \in Int /\ g[c] \in Int /\ h[c] = f[c] + g[c]
          /\ SumFunctionOnSet(f, U) \in Int /\ SumFunctionOnSet(g, U) \in Int
      <4>1. IsFiniteSet(U) /\ \A x \in U : f[x] \in Int /\ g[x] \in Int BY <2>1, FS_Subset
      <4>2. SumFunctionOnSet(f, U) \in Int /\ SumFunctionOnSet(g, U) \in Int BY <4>1, SumType
      <4> QED BY <3>1, <4>2
    <3>5. SumFunctionOnSet(h, U) = SumFunctionOnSet(f, U) + SumFunctionOnSet(g, U) BY <3>2
    <3> HIDE DEF c, U
    <3> QED BY <3>3, <3>4, <3>5
  <2> QED BY <2>2, <2>3
<1>2. S \in P
  <2> HIDE DEF P
  <2> QED BY <1>1, FiniteInduction
<1> QED BY <1>2

\* A sum is monotone in its terms.
LEMMA SumAtMost ==
  ASSUME NEW S, IsFiniteSet(S), NEW f, NEW g,
         \A x \in S : f[x] \in Int /\ g[x] \in Int /\ f[x] <= g[x]
  PROVE  SumFunctionOnSet(f, S) <= SumFunctionOnSet(g, S)
<1> DEFINE d == [x \in S |-> g[x] - f[x]]
<1>1. \A x \in S : d[x] \in Nat /\ d[x] \in Int /\ g[x] = f[x] + d[x] OBVIOUS
<1> HIDE DEF d
<1>2. SumFunctionOnSet(g, S) = SumFunctionOnSet(f, S) + SumFunctionOnSet(d, S) BY <1>1, SumOfPlus
<1>3. SumFunctionOnSet(d, S) \in Nat BY <1>1, SumNatural
<1>4. SumFunctionOnSet(f, S) \in Int BY SumType
<1> QED BY <1>2, <1>3, <1>4

\* A sum of differences is the difference of the two.
LEMMA SumOfDifference ==
  ASSUME NEW S, IsFiniteSet(S), NEW f, NEW g, NEW h,
         \A x \in S : f[x] \in Int /\ g[x] \in Int /\ h[x] = f[x] - g[x]
  PROVE  SumFunctionOnSet(h, S) = SumFunctionOnSet(f, S) - SumFunctionOnSet(g, S)
<1>1. \A x \in S : h[x] \in Int /\ f[x] = h[x] + g[x] OBVIOUS
<1>2. SumFunctionOnSet(f, S) = SumFunctionOnSet(h, S) + SumFunctionOnSet(g, S)
  BY <1>1, SumOfPlus
<1>3. SumFunctionOnSet(h, S) \in Int /\ SumFunctionOnSet(g, S) \in Int BY <1>1, SumType
<1> QED BY <1>2, <1>3

\* A set and what is outside it.
LEMMA SumSplit ==
  ASSUME NEW S, IsFiniteSet(S), NEW f, \A x \in S : f[x] \in Int, NEW A \in SUBSET S
  PROVE  SumFunctionOnSet(f, S) = SumFunctionOnSet(f, A) + SumFunctionOnSet(f, S \ A)
<1> DEFINE P == {T \in SUBSET A : SumFunctionOnSet(f, S) =
                                    SumFunctionOnSet(f, T) + SumFunctionOnSet(f, S \ T)}
<1>0. IsFiniteSet(A) BY FS_Subset
<1>1. ASSUME NEW T \in SUBSET A, \A U \in SUBSET T : U # T => U \in P PROVE T \in P
  <2>1. CASE T = {}
    <3>1. S \ T = S BY <2>1
    <3> QED BY <2>1, <3>1, SumEmpty, SumType
  <2>2. CASE T # {}
    <3> DEFINE c == FirstOf(T)
               U == T \ {c}
    <3>1. c \in T /\ c \in S BY <2>2, FirstIsIn
    <3>2. U \in P BY <1>1, <3>1
    <3>3. SumFunctionOnSet(f, T) = f[c] + SumFunctionOnSet(f, U)
      <4>1. IsFiniteSet(T) BY FS_Subset
      <4> QED BY <2>2, <4>1, SumRecursion
    <3>4. SumFunctionOnSet(f, S \ U) = f[c] + SumFunctionOnSet(f, S \ T)
      <4>1. S \ U \in SUBSET S /\ c \in S \ U /\ (S \ U) \ {c} = S \ T BY <3>1
      <4>2. IsFiniteSet(S \ U) BY FS_Subset
      <4> HIDE DEF U, c
      <4>3. SumFunctionOnSet(f, S \ U) = f[c] + SumFunctionOnSet(f, (S \ U) \ {c})
        BY <4>1, <4>2, SumRemove
      <4> QED BY <4>1, <4>3
    <3>5. f[c] \in Int /\ SumFunctionOnSet(f, U) \in Int /\ SumFunctionOnSet(f, S \ T) \in Int
      <4>1. U \in SUBSET S /\ IsFiniteSet(U) /\ IsFiniteSet(S \ T) BY <1>0, FS_Subset
      <4> QED BY <3>1, <4>1, SumType
    <3>6. SumFunctionOnSet(f, S) = SumFunctionOnSet(f, U) + SumFunctionOnSet(f, S \ U) BY <3>2
    <3> HIDE DEF c, U
    <3> QED BY <3>3, <3>4, <3>5, <3>6
  <2> QED BY <2>1, <2>2
<1>2. A \in P
  <2> HIDE DEF P
  <2> QED BY <1>0, <1>1, FiniteInduction
<1> QED BY <1>2

\* The image of a finite set is finite.
LEMMA ImageIsFinite ==
  ASSUME NEW S, IsFiniteSet(S), NEW b
  PROVE  IsFiniteSet({b[x] : x \in S})
<1> DEFINE T == {b[x] : x \in S}
           s == [x \in S |-> b[x]]
<1>1. s \in Surjection(S, T) BY DEF Surjection
<1> HIDE DEF s, T
<1>2. IsFiniteSet(T) BY <1>1, FS_Surjection
<1> QED BY <1>2 DEF T

\* A sum over the image of an injective function is a sum over its domain.
LEMMA SumOfImage ==
  ASSUME NEW S, IsFiniteSet(S), NEW b, \A x, y \in S : b[x] = b[y] => x = y,
         NEW g, \A x \in S : g[b[x]] \in Int, NEW f, \A x \in S : f[x] = g[b[x]]
  PROVE  SumFunctionOnSet(g, {b[x] : x \in S}) = SumFunctionOnSet(f, S)
<1> DEFINE Image(T) == {b[x] : x \in T}
           P == {T \in SUBSET S : SumFunctionOnSet(g, Image(T)) = SumFunctionOnSet(f, T)}
<1>1. ASSUME NEW T \in SUBSET S, \A U \in SUBSET T : U # T => U \in P PROVE T \in P
  <2>1. IsFiniteSet(T) /\ IsFiniteSet(Image(T))
    <3>1. IsFiniteSet(T) BY FS_Subset
    <3> QED BY <3>1, ImageIsFinite
  <2>2. CASE T = {}
    <3>1. Image(T) = {} BY <2>2
    <3> QED BY <2>2, <3>1, SumEmpty
  <2>3. CASE T # {}
    <3> DEFINE c == FirstOf(T)
               U == T \ {c}
    <3>1. c \in T BY <2>3, FirstIsIn
    <3>2. U \in P BY <1>1, <3>1
    <3>3. SumFunctionOnSet(f, T) = f[c] + SumFunctionOnSet(f, U) BY <2>1, <2>3, SumRecursion
    <3> HIDE DEF c
    <3>4. b[c] \in Image(T) /\ Image(T) \ {b[c]} = Image(U) BY <3>1
    <3>5. SumFunctionOnSet(g, Image(T)) = g[b[c]] + SumFunctionOnSet(g, Image(U))
      <4>1. \A y \in Image(T) : g[y] \in Int OBVIOUS
      <4> HIDE DEF Image, U
      <4>2. SumFunctionOnSet(g, Image(T)) = g[b[c]] + SumFunctionOnSet(g, Image(T) \ {b[c]})
        BY <2>1, <3>4, <4>1, SumRemove
      <4> QED BY <3>4, <4>2
    <3>6. f[c] = g[b[c]] /\ SumFunctionOnSet(g, Image(U)) = SumFunctionOnSet(f, U) BY <3>1, <3>2
    <3> QED BY <3>3, <3>5, <3>6
  <2> QED BY <2>2, <2>3
<1>2. S \in P
  <2> HIDE DEF P
  <2> QED BY <1>1, FiniteInduction
<1> QED BY <1>2
-----------------------------------------------------------------------------
(* Products of a function follow the same recursion. *)

ProductOver(f, S) == FoldFunctionOnSet(LAMBDA a, b : a * b, 1, f, S)

Multiplies(h, f, S) ==
  h = [s \in SUBSET S |-> IF s = {} THEN 1 ELSE f[FirstOf(s)] * h[s \ {FirstOf(s)}]]

\* A product is what the recursion of the fold gives.
LEMMA ProductUnfolds ==
  ASSUME NEW S, NEW f
  PROVE  ProductOver(f, S) = (CHOOSE h : Multiplies(h, f, S))[S]
BY DEF ProductOver, FoldFunctionOnSet, MapThenFoldSet, Multiplies, FirstOf

\* The recursion, at each subset.
LEMMA MultiplyingAt ==
  ASSUME NEW S, NEW f, NEW h, Multiplies(h, f, S)
  PROVE  \A s \in SUBSET S : h[s] = IF s = {} THEN 1 ELSE f[FirstOf(s)] * h[s \ {FirstOf(s)}]
<1> TAKE s \in SUBSET S
<1> DEFINE E(t) == IF t = {} THEN 1 ELSE f[FirstOf(t)] * h[t \ {FirstOf(t)}]
<1>1. h = [t \in SUBSET S |-> E(t)] BY DEF Multiplies
<1> HIDE DEF E
<1>2. h[s] = E(s) BY <1>1
<1> QED BY <1>2 DEF E

\* Two functions that follow the recursion have the same product.
LEMMA MultipliersAgree ==
  ASSUME NEW S, IsFiniteSet(S), NEW f, NEW g, NEW h, Multiplies(g, f, S), Multiplies(h, f, S)
  PROVE  g[S] = h[S]
<1> DEFINE P == {T \in SUBSET S : g[T] = h[T]}
<1>a. \A s \in SUBSET S : g[s] = IF s = {} THEN 1 ELSE f[FirstOf(s)] * g[s \ {FirstOf(s)}]
  <2> HIDE DEF P
  <2> QED BY MultiplyingAt
<1>b. \A s \in SUBSET S : h[s] = IF s = {} THEN 1 ELSE f[FirstOf(s)] * h[s \ {FirstOf(s)}]
  <2> HIDE DEF P
  <2> QED BY MultiplyingAt
<1>1. ASSUME NEW T \in SUBSET S, \A U \in SUBSET T : U # T => U \in P PROVE T \in P
  <2> HIDE DEF P
  <2>1. g[T] = IF T = {} THEN 1 ELSE f[FirstOf(T)] * g[T \ {FirstOf(T)}]
    BY <1>a
  <2>2. h[T] = IF T = {} THEN 1 ELSE f[FirstOf(T)] * h[T \ {FirstOf(T)}]
    BY <1>b
  <2>3. CASE T = {} BY <2>1, <2>2, <2>3 DEF P
  <2>4. CASE T # {}
    <3>1. FirstOf(T) \in T BY <2>4, FirstIsIn
    <3>2. T \ {FirstOf(T)} \in P BY <1>1, <3>1
    <3>3. g[T \ {FirstOf(T)}] = h[T \ {FirstOf(T)}] BY <3>2 DEF P
    <3> QED BY <2>1, <2>2, <2>4, <3>3 DEF P
  <2> QED BY <2>3, <2>4
<1>2. S \in P
  <2> HIDE DEF P
  <2> QED BY <1>1, FiniteInduction
<1> QED BY <1>2

ProductAlong(f, s) == (CHOOSE h : Multiplies(h, f, s))[s]

\* A function that follows the recursion exists.
LEMMA MultipliersExist ==
  ASSUME NEW S, IsFiniteSet(S), NEW f
  PROVE  Multiplies([s \in SUBSET S |-> ProductAlong(f, s)], f, S)
<1> DEFINE V(T) == [s \in SUBSET T |-> ProductAlong(f, s)]
           P == {T \in SUBSET S : Multiplies(V(T), f, T)}
<1>1. ASSUME NEW T \in SUBSET S, \A U \in SUBSET T : U # T => U \in P PROVE T \in P
  <2> DEFINE E(t) == IF t = {} THEN 1 ELSE f[FirstOf(t)] * ProductAlong(f, t \ {FirstOf(t)})
             h == [t \in SUBSET T |-> E(t)]
  <2>1. ASSUME NEW U \in SUBSET T, U # T PROVE ProductAlong(f, U) = E(U)
    <3>1. Multiplies(V(U), f, U) BY <1>1, <2>1
    <3>2. V(U)[U] = IF U = {} THEN 1 ELSE f[FirstOf(U)] * V(U)[U \ {FirstOf(U)}]
      <4> HIDE DEF V
      <4> QED BY <3>1, MultiplyingAt
    <3> QED BY <3>2
  <2>2. ASSUME NEW t \in SUBSET T PROVE h[t] = IF t = {} THEN 1 ELSE f[FirstOf(t)] * h[t \ {FirstOf(t)}]
    <3>1. CASE t = {} BY <3>1
    <3>2. CASE t # {}
      <4>1. FirstOf(t) \in t BY <3>2, FirstIsIn
      <4>2. t \ {FirstOf(t)} \in SUBSET T /\ t \ {FirstOf(t)} # T BY <4>1
      <4>3. h[t \ {FirstOf(t)}] = ProductAlong(f, t \ {FirstOf(t)}) 
        <5> HIDE DEF E
        <5>1. h[t \ {FirstOf(t)}] = E(t \ {FirstOf(t)}) BY <4>2
        <5> QED BY <4>2, <5>1, <2>1
      <4>4. h[t] = E(t) OBVIOUS
      <4> QED BY <3>2, <4>3, <4>4
    <3> QED BY <3>1, <3>2
  <2>3. Multiplies(h, f, T)
    <3> HIDE DEF E
    <3>1. h = [t \in SUBSET T |-> h[t]] OBVIOUS
    <3> HIDE DEF h
    <3> QED BY <2>2, <3>1 DEF Multiplies
  <2>4. ProductAlong(f, T) = h[T]
    <3> DEFINE g == CHOOSE g : Multiplies(g, f, T)
    <3> HIDE DEF h
    <3>1. Multiplies(g, f, T) BY <2>3, Zenon
    <3>2. IsFiniteSet(T) BY FS_Subset
    <3> HIDE DEF g
    <3>3. g[T] = h[T] BY <2>3, <3>1, <3>2, MultipliersAgree
    <3> QED BY <3>3 DEF ProductAlong, g
  <2>5. \A t \in SUBSET T : h[t] = ProductAlong(f, t)
    <3> HIDE DEF E
    <3>1. \A t \in SUBSET T : h[t] = E(t) OBVIOUS
    <3> QED BY <2>1, <2>4, <3>1
  <2>6. V(T) = h BY <2>5
  <2> QED BY <2>3, <2>6
<1>2. S \in P
  <2> HIDE DEF P
  <2> QED BY <1>1, FiniteInduction
<1> QED BY <1>2

\* A product is its first factor times the product of the rest.
LEMMA ProductRecursion ==
  ASSUME NEW S, IsFiniteSet(S), NEW f
  PROVE  ProductOver(f, S) =
           IF S = {} THEN 1 ELSE f[FirstOf(S)] * ProductOver(f, S \ {FirstOf(S)})
<1> DEFINE V == [s \in SUBSET S |-> ProductAlong(f, s)]
<1>1. \A T : ProductOver(f, T) = ProductAlong(f, T) BY ProductUnfolds DEF ProductAlong
<1>2. Multiplies(V, f, S) BY MultipliersExist
<1>3. V[S] = IF S = {} THEN 1 ELSE f[FirstOf(S)] * V[S \ {FirstOf(S)}]
  <2> HIDE DEF V
  <2> QED BY <1>2, MultiplyingAt
<1>4. V[S] = ProductAlong(f, S) /\ V[S \ {FirstOf(S)}] = ProductAlong(f, S \ {FirstOf(S)}) OBVIOUS
<1> QED BY <1>1, <1>3, <1>4
\* A product of integers is an integer.
LEMMA ProductType ==
  ASSUME NEW S, IsFiniteSet(S), NEW f, \A x \in S : f[x] \in Int
  PROVE  ProductOver(f, S) \in Int
<1> DEFINE P == {T \in SUBSET S : ProductOver(f, T) \in Int}
<1>1. ASSUME NEW T \in SUBSET S, \A U \in SUBSET T : U # T => U \in P PROVE T \in P
  <2>1. IsFiniteSet(T) BY FS_Subset
  <2>2. CASE T = {} BY <2>1, <2>2, ProductRecursion
  <2>3. CASE T # {}
    <3>1. FirstOf(T) \in T BY <2>3, FirstIsIn
    <3>2. T \ {FirstOf(T)} \in P BY <1>1, <3>1
    <3>3. ProductOver(f, T) = f[FirstOf(T)] * ProductOver(f, T \ {FirstOf(T)})
      BY <2>1, <2>3, ProductRecursion
    <3> QED BY <3>1, <3>2, <3>3
  <2> QED BY <2>2, <2>3
<1>2. S \in P
  <2> HIDE DEF P
  <2> QED BY <1>1, FiniteInduction
<1> QED BY <1>2
-----------------------------------------------------------------------------
(* Sorting: a strict order on a finite set, given as its set of pairs, has  *)
(* one element of every rank.                                               *)

Orders(R, S) ==
  /\ \A x \in S : <<x, x>> \notin R
  /\ \A x, y \in S : x # y => <<x, y>> \in R \/ <<y, x>> \in R
  /\ \A x, y, z \in S : <<x, y>> \in R /\ <<y, z>> \in R => <<x, z>> \in R

Below(R, S, x) == {y \in S : <<y, x>> \in R}
Rank(R, S, x) == Cardinality(Below(R, S, x))

\* Ranks in a strict order are the first naturals, and grow along it.
LEMMA RankFacts ==
  ASSUME NEW S, IsFiniteSet(S), NEW R, Orders(R, S)
  PROVE  /\ \A x \in S : Rank(R, S, x) \in 0 .. Cardinality(S) - 1
         /\ \A x, y \in S : <<x, y>> \in R => Rank(R, S, x) < Rank(R, S, y)
<1>1. ASSUME NEW x \in S
      PROVE  /\ IsFiniteSet(Below(R, S, x)) /\ Rank(R, S, x) \in Nat
             /\ Below(R, S, x) \subseteq S \ {x}
  <2>1. Below(R, S, x) \subseteq S \ {x} BY DEF Below, Orders
  <2>2. IsFiniteSet(Below(R, S, x)) BY <2>1, FS_Subset
  <2> QED BY <2>1, <2>2, FS_CardinalityType DEF Rank
<1>2. ASSUME NEW x \in S PROVE Rank(R, S, x) \in 0 .. Cardinality(S) - 1
  <2>1. IsFiniteSet(S \ {x}) /\ Cardinality(S \ {x}) = Cardinality(S) - 1 BY FS_RemoveElement
  <2>2. Rank(R, S, x) <= Cardinality(S \ {x}) BY <1>1, <2>1, FS_Subset DEF Rank
  <2>3. Cardinality(S) \in Nat BY FS_CardinalityType
  <2> QED BY <1>1, <2>1, <2>2, <2>3
<1>3. ASSUME NEW x \in S, NEW y \in S, <<x, y>> \in R PROVE Rank(R, S, x) < Rank(R, S, y)
  <2>1. x \in Below(R, S, y) BY <1>3 DEF Below
  <2>2. Below(R, S, x) \subseteq Below(R, S, y) \ {x}
    BY <1>1, <1>3 DEF Below, Orders
  <2>3. /\ IsFiniteSet(Below(R, S, y) \ {x})
        /\ Cardinality(Below(R, S, y) \ {x}) = Rank(R, S, y) - 1
    BY <1>1, <2>1, FS_RemoveElement DEF Rank
  <2>4. Rank(R, S, x) <= Cardinality(Below(R, S, y) \ {x}) BY <2>2, <2>3, FS_Subset DEF Rank
  <2> QED BY <1>1, <2>3, <2>4
<1> QED BY <1>2, <1>3

\* Every rank below the number of elements is taken.
LEMMA RankExists ==
  ASSUME NEW S, IsFiniteSet(S), NEW R, Orders(R, S), NEW k \in 0 .. Cardinality(S) - 1
  PROVE  \E x \in S : Rank(R, S, x) = k
<1> DEFINE n == Cardinality(S)
           T == 0 .. n - 1
           rank == [x \in S |-> Rank(R, S, x)]
<1>1. n \in Nat BY FS_CardinalityType
<1>2. IsFiniteSet(T) /\ Cardinality(T) = n BY <1>1, FS_Interval
<1>3. rank \in [S -> T] BY RankFacts
<1>4. \A x, y \in S : rank[x] = rank[y] => x = y
  <2> SUFFICES ASSUME NEW x \in S, NEW y \in S, x # y PROVE rank[x] # rank[y] OBVIOUS
  <2>1. rank[x] \in T /\ rank[y] \in T BY <1>3
  <2>2. rank[x] < rank[y] \/ rank[y] < rank[x] BY RankFacts DEF Orders
  <2> QED BY <1>1, <2>1, <2>2
<1>5. rank \in Injection(S, T) BY <1>3, <1>4 DEF Injection, IsInjective
<1>6. rank \in Surjection(S, T)
  <2> HIDE DEF rank, T
  <2> QED BY <1>2, <1>5, FS_Injection
<1>7. \A t \in T : \E x \in S : rank[x] = t BY <1>6 DEF Surjection
<1> QED BY <1>7

\* A finite set that is ordered has a sorted enumeration.
LEMMA SortedExists ==
  ASSUME NEW S, IsFiniteSet(S), NEW R, Orders(R, S)
  PROVE  \E s \in [1 .. Cardinality(S) -> S] :
           \A i, j \in 1 .. Cardinality(S) : i < j => <<s[i], s[j]>> \in R
<1> DEFINE n == Cardinality(S)
           s == [i \in 1 .. n |-> CHOOSE x \in S : Rank(R, S, x) = i - 1]
<1>1. n \in Nat BY FS_CardinalityType
<1>2. ASSUME NEW i \in 1 .. n PROVE s[i] \in S /\ Rank(R, S, s[i]) = i - 1
  <2>1. i - 1 \in 0 .. n - 1 BY <1>1
  <2>2. \E x \in S : Rank(R, S, x) = i - 1 BY <2>1, RankExists
  <2> QED BY <2>2
<1> HIDE DEF s
<1>3. ASSUME NEW i \in 1 .. n, NEW j \in 1 .. n, i < j PROVE <<s[i], s[j]>> \in R
  <2>1. s[i] \in S /\ s[j] \in S /\ Rank(R, S, s[i]) = i - 1 /\ Rank(R, S, s[j]) = j - 1
    BY <1>2
  <2>2. s[i] # s[j] BY <1>1, <1>3, <2>1
  <2>3. SUFFICES ASSUME <<s[j], s[i]>> \in R PROVE FALSE BY <2>1, <2>2 DEF Orders
  <2>4. j - 1 < i - 1 BY <2>1, <2>3, RankFacts
  <2> QED BY <1>1, <1>3, <2>4
<1>4. s \in [1 .. n -> S] BY <1>2 DEF s
<1> QED BY <1>3, <1>4

\* An enumeration without repetition names every element.
LEMMA EnumerationIsComplete ==
  ASSUME NEW S, IsFiniteSet(S), NEW s \in [1 .. Cardinality(S) -> S],
         \A i, j \in 1 .. Cardinality(S) : s[i] = s[j] => i = j
  PROVE  \A x \in S : \E i \in 1 .. Cardinality(S) : s[i] = x
<1> DEFINE D == 1 .. Cardinality(S)
<1>1. Cardinality(S) \in Nat BY FS_CardinalityType
<1>2. IsFiniteSet(D) /\ Cardinality(D) = Cardinality(S) BY <1>1, FS_Interval
<1>3. s \in Injection(D, S) BY DEF Injection, IsInjective
<1>4. s \in Surjection(D, S) 
  <2> HIDE DEF D
  <2> QED BY <1>2, <1>3, FS_Injection
<1> QED BY <1>4 DEF Surjection

\* Sums over parts, disjoint unions and single elements.
LEMMA SumOfZeros ==
  ASSUME NEW S, IsFiniteSet(S), NEW f, \A x \in S : f[x] = 0
  PROVE  SumFunctionOnSet(f, S) = 0
<1>1. \A x \in S : f[x] \in Int /\ f[x] = f[x] - f[x] OBVIOUS
<1>2. SumFunctionOnSet(f, S) \in Int BY <1>1, SumType
<1>3. SumFunctionOnSet(f, S) = SumFunctionOnSet(f, S) - SumFunctionOnSet(f, S)
  BY <1>1, SumOfDifference
<1> QED BY <1>2, <1>3

\* Elements that count nothing may be left out.
LEMMA SumOfPart ==
  ASSUME NEW S, IsFiniteSet(S), NEW f, NEW A \in SUBSET S,
         \A x \in S : f[x] \in Int, \A x \in S \ A : f[x] = 0
  PROVE  SumFunctionOnSet(f, A) = SumFunctionOnSet(f, S)
<1>1. SumFunctionOnSet(f, S) = SumFunctionOnSet(f, A) + SumFunctionOnSet(f, S \ A)
  BY SumSplit
<1>2. IsFiniteSet(S \ A) /\ IsFiniteSet(A) BY FS_Subset
<1>3. SumFunctionOnSet(f, S \ A) = 0 BY <1>2, SumOfZeros
<1>4. SumFunctionOnSet(f, A) \in Int BY <1>2, SumType
<1> QED BY <1>1, <1>3, <1>4

\* The sum over two disjoint sets is the sum of the two sums.
LEMMA SumOfDisjoint ==
  ASSUME NEW S, IsFiniteSet(S), NEW T, IsFiniteSet(T), S \cap T = {},
         NEW f, \A x \in S \cup T : f[x] \in Int
  PROVE  SumFunctionOnSet(f, S \cup T) = SumFunctionOnSet(f, S) + SumFunctionOnSet(f, T)
<1>1. IsFiniteSet(S \cup T) BY FS_Union
<1>2. (S \cup T) \ S = T /\ S \in SUBSET (S \cup T) OBVIOUS
<1>3. SumFunctionOnSet(f, S \cup T)
        = SumFunctionOnSet(f, S) + SumFunctionOnSet(f, (S \cup T) \ S)
  BY <1>1, <1>2, SumSplit
<1> QED BY <1>2, <1>3

\* The sum over one element is its term.
LEMMA SumOfOne ==
  ASSUME NEW x, NEW f, f[x] \in Int
  PROVE  SumFunctionOnSet(f, {x}) = f[x]
<1>1. IsFiniteSet({x}) /\ {x} \ {x} = {} BY FS_Singleton
<1>2. SumFunctionOnSet(f, {x}) = f[x] + SumFunctionOnSet(f, {x} \ {x}) BY <1>1, SumRemove
<1>3. SumFunctionOnSet(f, {x}) = f[x] + 0 BY <1>1, <1>2, SumEmpty
<1> QED BY <1>3

Fibre(S, key, d) == {x \in S : key[x] = d}

\* A sum may be taken key by key.
LEMMA SumByKey ==
  ASSUME NEW S, IsFiniteSet(S), NEW f, \A x \in S : f[x] \in Int,
         NEW D, IsFiniteSet(D), NEW key, \A x \in S : key[x] \in D
  PROVE  SumFunctionOnSet([d \in D |-> SumFunctionOnSet(f, Fibre(S, key, d))], D)
           = SumFunctionOnSet(f, S)
<1> DEFINE F(T, d) == Fibre(T, key, d)
           By(T) == [d \in D |-> SumFunctionOnSet(f, F(T, d))]
           P == {T \in SUBSET S : SumFunctionOnSet(By(T), D) = SumFunctionOnSet(f, T)}
<1>0. ASSUME NEW T \in SUBSET S, NEW d \in D
      PROVE  IsFiniteSet(F(T, d)) /\ By(T)[d] \in Int /\ IsFiniteSet(T)
  <2>1. F(T, d) \in SUBSET S /\ \A x \in F(T, d) : f[x] \in Int BY DEF Fibre
  <2>2. IsFiniteSet(F(T, d)) BY <2>1, FS_Subset
  <2>3. SumFunctionOnSet(f, F(T, d)) \in Int
    <3> HIDE DEF F
    <3> QED BY <2>1, <2>2, SumType
  <2>4. IsFiniteSet(T) BY FS_Subset
  <2> QED BY <2>2, <2>3, <2>4
<1>1. ASSUME NEW T \in SUBSET S, \A U \in SUBSET T : U # T => U \in P PROVE T \in P
  <2>1. CASE T = {}
    <3>1. \A d \in D : By(T)[d] = 0
      <4>1. \A d \in D : F(T, d) = {} BY <2>1 DEF Fibre
      <4> HIDE DEF F
      <4> QED BY <4>1, SumEmpty
    <3> HIDE DEF By
    <3>2. SumFunctionOnSet(By(T), D) = 0 BY <3>1, SumOfZeros
    <3> QED BY <2>1, <3>2, SumEmpty
  <2>2. CASE T # {}
    <3> PICK c \in T : TRUE BY <2>2
    <3> DEFINE U == T \ {c}
               k == key[c]
    <3>1. U \in P /\ k \in D /\ U \in SUBSET S BY <1>1
    <3>2. SumFunctionOnSet(f, T) = f[c] + SumFunctionOnSet(f, U)
      <4>1. IsFiniteSet(T) BY FS_Subset
      <4> QED BY <4>1, SumRemove
    <3>3. F(T, k) \ {c} = F(U, k) /\ c \in F(T, k)
          /\ \A x \in F(T, k) : f[x] \in Int
      BY DEF Fibre
    <3>4. \A d \in D \ {k} : F(T, d) = F(U, d) BY DEF Fibre
    <3>a. IsFiniteSet(F(T, k)) BY <1>0, <3>1
    <3>b. \A d \in D : By(T)[d] \in Int /\ By(U)[d] \in Int
      <4> HIDE DEF By, F, U
      <4> QED BY <1>0, <3>1
    <3>5. By(T)[k] = f[c] + By(U)[k]
      <4> HIDE DEF F, k
      <4>1. SumFunctionOnSet(f, F(T, k)) = f[c] + SumFunctionOnSet(f, F(T, k) \ {c})
        BY <3>3, <3>a, SumRemove
      <4> QED BY <3>1, <3>3, <4>1
    <3>6. \A d \in D \ {k} : By(T)[d] = By(U)[d]
      <4> HIDE DEF F, k, U
      <4> QED BY <3>4
    <3>7. SumFunctionOnSet(By(U), D) = SumFunctionOnSet(f, U) BY <3>1
    <3> HIDE DEF By, F, k, U, P
    <3>8. SumFunctionOnSet(By(T), D) = SumFunctionOnSet(By(U), D) - By(U)[k] + By(T)[k]
      <4> DEFINE a == By(T)
                 b == By(U)
      <4>1. \A d \in D : b[d] \in Int BY <3>b
      <4>2. \A d \in D : a[d] \in Int BY <3>b
      <4>3. \A d \in D \ {k} : a[d] = b[d] BY <3>6
      <4>4. k \in D /\ IsFiniteSet(D \ {k}) BY <3>1, FS_Subset
      <4> HIDE DEF a, b
      <4>5. SumFunctionOnSet(a, D) = a[k] + SumFunctionOnSet(a, D \ {k}) BY <4>2, <4>4, SumRemove
      <4>6. SumFunctionOnSet(b, D) = b[k] + SumFunctionOnSet(b, D \ {k}) BY <4>1, <4>4, SumRemove
      <4>7. SumFunctionOnSet(a, D \ {k}) = SumFunctionOnSet(b, D \ {k}) BY <4>3, <4>4, SumOfSame
      <4>8. \A d \in D \ {k} : b[d] \in Int BY <4>1
      <4>9. SumFunctionOnSet(b, D \ {k}) \in Int BY <4>4, <4>8, SumType
      <4>10. a[k] \in Int /\ b[k] \in Int BY <4>1, <4>2, <4>4
      <4>11. SumFunctionOnSet(a, D) = SumFunctionOnSet(b, D) - b[k] + a[k]
        BY <4>5, <4>6, <4>7, <4>9, <4>10
      <4> QED BY <4>11 DEF a, b
    <3>9. SumFunctionOnSet(By(U), D) \in Int /\ f[c] \in Int
      BY <3>b, SumType
    <3>10. By(U)[k] \in Int BY <3>1, <3>b
    <3>11. SumFunctionOnSet(By(T), D) = SumFunctionOnSet(f, T)
      BY <3>2, <3>5, <3>7, <3>8, <3>9, <3>10
    <3> QED BY <3>11 DEF P
  <2> QED BY <2>1, <2>2
<1>2. S \in P
  <2> HIDE DEF P
  <2> QED BY <1>1, FiniteInduction
<1> QED BY <1>2

\* A sum by the values of a key.
LEMMA SumOfFibres ==
  ASSUME NEW S, IsFiniteSet(S), NEW f, \A x \in S : f[x] \in Int,
         NEW D, IsFiniteSet(D), NEW key, \A x \in S : key[x] \in D,
         NEW g, \A d \in D : g[d] = SumFunctionOnSet(f, Fibre(S, key, d))
  PROVE  SumFunctionOnSet(g, D) = SumFunctionOnSet(f, S)
<1> DEFINE h == [d \in D |-> SumFunctionOnSet(f, Fibre(S, key, d))]
<1>1. \A d \in D : g[d] = h[d] OBVIOUS
<1>2. SumFunctionOnSet(h, D) = SumFunctionOnSet(f, S) BY SumByKey
<1> HIDE DEF h
<1>3. SumFunctionOnSet(g, D) = SumFunctionOnSet(h, D) BY <1>1, SumOfSame
<1> QED BY <1>2, <1>3

\* The last element of a strict order.
LEMMA LastExists ==
  ASSUME NEW S, IsFiniteSet(S), NEW R, Orders(R, S), NEW A \in SUBSET S, A # {}
  PROVE  \E m \in A : \A y \in A \ {m} : <<y, m>> \in R
<1> DEFINE P == {T \in SUBSET A : T = {} \/ \E m \in T : \A y \in T \ {m} : <<y, m>> \in R}
<1>0. IsFiniteSet(A) BY FS_Subset
<1>1. ASSUME NEW T \in SUBSET A, \A U \in SUBSET T : U # T => U \in P PROVE T \in P
  <2> SUFFICES ASSUME NEW x \in T
               PROVE  \E m \in T : \A y \in T \ {m} : <<y, m>> \in R
    OBVIOUS
  <2>1. T \ {x} \in P BY <1>1
  <2>2. CASE T \ {x} = {}
    <3>1. \A y \in T \ {x} : <<y, x>> \in R BY <2>2
    <3> QED BY <3>1
  <2>3. CASE T \ {x} # {}
    <3> PICK z \in T \ {x} : \A y \in (T \ {x}) \ {z} : <<y, z>> \in R BY <2>1, <2>3
    <3>1. x \in S /\ z \in S /\ x # z /\ T \subseteq S OBVIOUS
    <3>2. <<x, z>> \in R \/ <<z, x>> \in R BY <3>1 DEF Orders
    <3>3. CASE <<x, z>> \in R
      <4>1. \A y \in T \ {z} : <<y, z>> \in R BY <3>3
      <4> QED BY <4>1
    <3>4. CASE <<z, x>> \in R
      <4>1. ASSUME NEW y \in T \ {x} PROVE <<y, x>> \in R
        <5>1. CASE y = z BY <3>4, <5>1
        <5>2. CASE y # z
          <6>1. <<y, z>> \in R /\ y \in S BY <5>2, <3>1
          <6> QED BY <3>1, <3>4, <6>1 DEF Orders
        <5> QED BY <5>1, <5>2
      <4> QED BY <4>1
    <3> QED BY <3>2, <3>3, <3>4
  <2> QED BY <2>2, <2>3
<1>2. A \in P
  <2> HIDE DEF P
  <2> QED BY <1>0, <1>1, FiniteInduction
<1> QED BY <1>2
=============================================================================
