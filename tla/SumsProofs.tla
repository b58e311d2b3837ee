------------------------------ MODULE SumsProofs ------------------------------
(***************************************************************************)
(* Sums over finite sets.  Total is a recursive function on the subsets of *)
(* a domain; the lemmas show that it is well defined and that any element  *)
(* may be added last.  They rest on induction over finite subsets, stated  *)
(* for sets (SubsetInduction).                                             *)
(***************************************************************************)
EXTENDS Sums, FiniteSetTheorems, WellFoundedInduction, TLAPS

First(S) == CHOOSE x \in S : TRUE
Added(f, g, S) == IF S = {} THEN 0 ELSE f[First(S)] + g[S \ {First(S)}]

(* g is the recursive function for the subsets of D.                       *)
Adds(f, D, g) == g = [S \in SUBSET D |-> Added(f, g, S)]
Adder(f, D) == CHOOSE g : Adds(f, D, g)
Sum(f, D) == Adder(f, D)[D]

LEMMA TotalIsSum == \A f : Total(f) = Sum(f, DOMAIN f)
  BY DEF Total, MapThenSumSet, MapThenFoldSet, Sum, Adder, Adds, Added, First

(* A set of subsets that has each subset whose strict subsets it has, has  *)
(* all of them.                                                            *)
LEMMA SubsetInduction ==
  ASSUME NEW D, IsFiniteSet(D), NEW T, T \subseteq SUBSET D,
         \A S \in SUBSET D : (\A R \in SUBSET S : R # S => R \in T) => S \in T
  PROVE  T = SUBSET D
<1> DEFINE Bad == (SUBSET D) \ T
<1>1. SUFFICES ASSUME Bad # {} PROVE FALSE
  OBVIOUS
<1>2. FiniteSubsetsOf(D) = SUBSET D
  BY FS_FiniteSubsetsOfFinite
<1>3. IsWellFoundedOn(StrictSubsetOrdering(D), SUBSET D)
  BY <1>2, FS_StrictSubsetOrderingWellFounded
<1>4. \E S \in Bad : \A R \in Bad : ~ (<<R, S>> \in StrictSubsetOrdering(D))
  <2>1. Bad \subseteq SUBSET D
    OBVIOUS
  <2> HIDE DEF Bad
  <2> QED BY <1>1, <1>3, <2>1, WFMin
<1>5. PICK S \in Bad : \A R \in Bad : ~ (<<R, S>> \in StrictSubsetOrdering(D))
  BY <1>4
<1>6. \A R \in SUBSET S : R # S => R \in T
  BY <1>5 DEF StrictSubsetOrdering
<1> QED BY <1>5, <1>6

-----------------------------------------------------------------------------
(* The recursive function exists, and the larger one extends the smaller.  *)

LEMMA AdderIs ==
  ASSUME NEW f, NEW D, NEW g, Adds(f, D, g), NEW S \in SUBSET D
  PROVE  g[S] = IF S = {} THEN 0 ELSE f[First(S)] + g[S \ {First(S)}]
  BY DEF Adds, Added

LEMMA FirstIn == \A S : S # {} => First(S) \in S
  BY DEF First

LEMMA AddersAgree ==
  ASSUME NEW f, NEW h, NEW A, IsFiniteSet(A), NEW B, NEW D, NEW g, NEW k,
         A \subseteq B, A \subseteq D, Adds(f, B, g), Adds(h, D, k),
         \A x \in A : f[x] = h[x]
  PROVE  \A S \in SUBSET A : g[S] = k[S]
<1> DEFINE T == {S \in SUBSET A : g[S] = k[S]}
<1>1. ASSUME NEW S \in SUBSET A, \A R \in SUBSET S : R # S => R \in T
      PROVE  S \in T
  <2>1. /\ g[S] = IF S = {} THEN 0 ELSE f[First(S)] + g[S \ {First(S)}]
        /\ k[S] = IF S = {} THEN 0 ELSE h[First(S)] + k[S \ {First(S)}]
    <3>1. S \in SUBSET B
      OBVIOUS
    <3>2. S \in SUBSET D
      OBVIOUS
    <3>3. g[S] = Added(f, g, S)
      BY <3>1 DEF Adds
    <3>4. k[S] = Added(h, k, S)
      BY <3>2 DEF Adds
    <3> QED BY <3>3, <3>4 DEF Added
  <2>2. S # {} => First(S) \in S /\ S \ {First(S)} \in T
    BY <1>1, FirstIn
  <2> QED BY <2>1, <2>2
<1>2. T \subseteq SUBSET A
  OBVIOUS
<1> HIDE DEF T
<1>3. T = SUBSET A
  BY <1>1, <1>2, SubsetInduction
<1> QED BY <1>3 DEF T

LEMMA AdderExists ==
  ASSUME NEW f, NEW D, IsFiniteSet(D)
  PROVE  \A S \in SUBSET D : \E g : Adds(f, S, g)
<1> DEFINE T == {S \in SUBSET D : \E g : Adds(f, S, g)}
<1>1. ASSUME NEW S \in SUBSET D, \A R \in SUBSET S : R # S => R \in T
      PROVE  S \in T
  <2> DEFINE V(R) == Sum(f, R)
             g == [Q \in SUBSET S |-> IF Q = {} THEN 0 ELSE f[First(Q)] + V(Q \ {First(Q)})]
  <2>1. ASSUME NEW R \in SUBSET S, R # S
        PROVE  Adds(f, R, Adder(f, R))
    BY <1>1, <2>1 DEF Adder
  <2>2. ASSUME NEW R \in SUBSET S, R # S
        PROVE  V(R) = g[R]
    <3>1. Adds(f, R, Adder(f, R))
      BY <2>1, <2>2
    <3>2. V(R) = IF R = {} THEN 0 ELSE f[First(R)] + Adder(f, R)[R \ {First(R)}]
      BY <3>1, AdderIs DEF Sum
    <3>3. ASSUME R # {}
          PROVE  Adder(f, R)[R \ {First(R)}] = V(R \ {First(R)})
      <4> DEFINE Q == R \ {First(R)}
      <4>1. Q \in SUBSET S /\ Q # S /\ Q \subseteq R /\ IsFiniteSet(Q)
        BY <2>2, <3>3, FirstIn, FS_Subset
      <4>2. Adds(f, Q, Adder(f, Q))
        BY <2>1, <4>1
      <4> HIDE DEF Q
      <4>3. Adder(f, R)[Q] = Adder(f, Q)[Q]
        BY <3>1, <4>1, <4>2, AddersAgree
      <4> QED BY <4>3 DEF Q, Sum
    <3>4. g[R] = IF R = {} THEN 0 ELSE f[First(R)] + V(R \ {First(R)})
      OBVIOUS
    <3> HIDE DEF V, g
    <3> QED BY <3>2, <3>3, <3>4
  <2>3. ASSUME NEW Q \in SUBSET S
        PROVE  g[Q] = Added(f, g, Q)
    <3>1. g[Q] = IF Q = {} THEN 0 ELSE f[First(Q)] + V(Q \ {First(Q)})
      OBVIOUS
    <3>2. Q # {} => V(Q \ {First(Q)}) = g[Q \ {First(Q)}]
      <4>1. ASSUME Q # {}
            PROVE  Q \ {First(Q)} \in SUBSET S /\ Q \ {First(Q)} # S
        BY <4>1, FirstIn
      <4> HIDE DEF V, g
      <4> QED BY <2>2, <4>1
    <3> HIDE DEF V, g
    <3> QED BY <3>1, <3>2 DEF Added
  <2>4. g = [Q \in SUBSET S |-> Added(f, g, Q)]
    <3>1. g = [Q \in SUBSET S |-> g[Q]]
      OBVIOUS
    <3> HIDE DEF g
    <3> QED BY <2>3, <3>1
  <2> HIDE DEF g
  <2> QED BY <2>4 DEF Adds
<1>2. T \subseteq SUBSET D
  OBVIOUS
<1> HIDE DEF T
<1>3. T = SUBSET D
  BY <1>1, <1>2, SubsetInduction
<1> QED BY <1>3 DEF T

LEMMA AdderAdds ==
  ASSUME NEW f, NEW D, IsFiniteSet(D)
  PROVE  Adds(f, D, Adder(f, D))
  BY AdderExists DEF Adder

-----------------------------------------------------------------------------
(* Sums                                                                    *)

LEMMA SumsAgree ==
  ASSUME NEW f, NEW h, NEW D, IsFiniteSet(D), \A x \in D : f[x] = h[x]
  PROVE  Sum(f, D) = Sum(h, D)
<1>1. Adds(f, D, Adder(f, D)) /\ Adds(h, D, Adder(h, D))
  BY AdderAdds
<1> QED BY <1>1, AddersAgree DEF Sum

LEMMA SumIs ==
  ASSUME NEW f, NEW D, IsFiniteSet(D)
  PROVE  Sum(f, D) = IF D = {} THEN 0 ELSE f[First(D)] + Sum(f, D \ {First(D)})
<1> DEFINE R == D \ {First(D)}
<1>1. Adds(f, D, Adder(f, D)) /\ Adds(f, R, Adder(f, R)) /\ IsFiniteSet(R)
  BY AdderAdds, FS_Subset
<1>2. Adder(f, D)[D] = IF D = {} THEN 0 ELSE f[First(D)] + Adder(f, D)[R]
  <2>1. D \in SUBSET D
    OBVIOUS
  <2> HIDE DEF R
  <2>2. Adder(f, D)[D] = IF D = {} THEN 0 ELSE f[First(D)] + Adder(f, D)[D \ {First(D)}]
    BY <1>1, <2>1, AdderIs
  <2> QED BY <2>2 DEF R
<1>3. Adder(f, D)[R] = Adder(f, R)[R]
  <2>1. R \subseteq D
    OBVIOUS
  <2> PICK g, k : g = Adder(f, D) /\ k = Adder(f, R)
    OBVIOUS
  <2>2. Adds(f, D, g) /\ Adds(f, R, k) /\ IsFiniteSet(R)
    BY <1>1
  <2> HIDE DEF R
  <2>3. \A S \in SUBSET R : g[S] = k[S]
    BY <2>1, <2>2, AddersAgree
  <2> QED BY <2>3
<1> QED BY <1>2, <1>3 DEF Sum

LEMMA SumTyped ==
  ASSUME NEW f, NEW D, IsFiniteSet(D), \A x \in D : f[x] \in Int
  PROVE  Sum(f, D) \in Int
<1> DEFINE T == {S \in SUBSET D : Sum(f, S) \in Int}
<1>1. ASSUME NEW S \in SUBSET D, \A R \in SUBSET S : R # S => R \in T
      PROVE  S \in T
  <2>1. IsFiniteSet(S)
    BY FS_Subset
  <2>2. S # {} => First(S) \in S /\ S \ {First(S)} \in T
    BY <1>1, FirstIn
  <2> QED BY <2>1, <2>2, SumIs
<1>2. T \subseteq SUBSET D
  OBVIOUS
<1> HIDE DEF T
<1>3. T = SUBSET D
  BY <1>1, <1>2, SubsetInduction
<1> QED BY <1>3 DEF T

(* Any element may be added last.                                          *)
LEMMA SumAdd ==
  ASSUME NEW f, NEW D, IsFiniteSet(D), \A x \in D : f[x] \in Int
  PROVE  \A S \in SUBSET D : \A x \in S : Sum(f, S) = f[x] + Sum(f, S \ {x})
<1> DEFINE T == {S \in SUBSET D : \A x \in S : Sum(f, S) = f[x] + Sum(f, S \ {x})}
<1>1. ASSUME NEW S \in SUBSET D, \A R \in SUBSET S : R # S => R \in T
      PROVE  S \in T
  <2>1. ASSUME NEW x \in S
        PROVE  Sum(f, S) = f[x] + Sum(f, S \ {x})
    <3>1. PICK y \in S : y = First(S)
      BY FirstIn
    <3>2. IsFiniteSet(S) /\ IsFiniteSet(S \ {x}) /\ IsFiniteSet((S \ {x}) \ {y})
      BY FS_Subset
    <3>3. Sum(f, S) = f[y] + Sum(f, S \ {y})
      BY <3>1, <3>2, SumIs
    <3>4. CASE x = y
      BY <3>3, <3>4
    <3>5. CASE x # y
      <4>1. Sum(f, S \ {y}) = f[x] + Sum(f, (S \ {y}) \ {x})
        BY <1>1, <3>5
      <4>2. Sum(f, S \ {x}) = f[y] + Sum(f, (S \ {x}) \ {y})
        BY <1>1, <3>5
      <4>3. Sum(f, (S \ {y}) \ {x}) = Sum(f, (S \ {x}) \ {y})
        <5>1. (S \ {y}) \ {x} = (S \ {x}) \ {y}
          OBVIOUS
        <5> QED BY <5>1
      <4>4. Sum(f, (S \ {x}) \ {y}) \in Int
        BY <3>2, SumTyped
      <4>5. f[x] \in Int /\ f[y] \in Int
        OBVIOUS
      <4> QED BY <3>3, <4>1, <4>2, <4>3, <4>4, <4>5
    <3> QED BY <3>4, <3>5
  <2> QED BY <2>1
<1>2. T \subseteq SUBSET D
  OBVIOUS
<1> HIDE DEF T
<1>3. T = SUBSET D
  BY <1>1, <1>2, SubsetInduction
<1> QED BY <1>3 DEF T

-----------------------------------------------------------------------------
(* Total, of functions                                                     *)

LEMMA TotalTyped ==
  ASSUME NEW f, IsFiniteSet(DOMAIN f), \A x \in DOMAIN f : f[x] \in Int
  PROVE  Total(f) \in Int
  BY SumTyped, TotalIsSum

LEMMA TotalOfNothing ==
  ASSUME NEW f, DOMAIN f = {}
  PROVE  Total(f) = 0
  BY SumIs, FS_EmptySet, TotalIsSum

LEMMA TotalOfZeros ==
  ASSUME NEW D, IsFiniteSet(D)
  PROVE  Total([x \in D |-> 0]) = 0
<1> DEFINE f == [x \in D |-> 0]
           T == {S \in SUBSET D : Sum(f, S) = 0}
<1>1. ASSUME NEW S \in SUBSET D, \A R \in SUBSET S : R # S => R \in T
      PROVE  S \in T
  <2>1. IsFiniteSet(S)
    BY FS_Subset
  <2>2. S # {} => First(S) \in S /\ S \ {First(S)} \in T /\ f[First(S)] = 0
    BY <1>1, FirstIn
  <2> HIDE DEF f
  <2> QED BY <2>1, <2>2, SumIs
<1>2. T \subseteq SUBSET D
  OBVIOUS
<1>3. DOMAIN f = D
  OBVIOUS
<1> HIDE DEF T, f
<1>4. T = SUBSET D
  BY <1>1, <1>2, SubsetInduction
<1>5. Sum(f, D) = 0
  BY <1>4 DEF T
<1> QED BY <1>3, <1>5, TotalIsSum DEF f

(* The sum of a function is that of all arguments but one, and the one.    *)
LEMMA TotalSplit ==
  ASSUME NEW f, IsFiniteSet(DOMAIN f), \A x \in DOMAIN f : f[x] \in Int,
         NEW x \in DOMAIN f, NEW h,
         DOMAIN h = (DOMAIN f) \ {x}, \A y \in DOMAIN h : h[y] = f[y]
  PROVE  /\ Total(f) = f[x] + Total(h)
         /\ Total(h) \in Int
<1>1. Sum(f, DOMAIN f) = f[x] + Sum(f, DOMAIN h)
  BY SumAdd
<1>2. IsFiniteSet(DOMAIN h)
  BY FS_Subset
<1>3. Sum(f, DOMAIN h) = Sum(h, DOMAIN h)
  BY <1>2, SumsAgree
<1>4. Total(h) \in Int
  BY <1>2, TotalTyped
<1> QED BY <1>1, <1>3, <1>4, TotalIsSum

(* Functions with the same values have the same sum.                       *)
LEMMA TotalSame ==
  ASSUME NEW f, NEW h, IsFiniteSet(DOMAIN f), DOMAIN h = DOMAIN f,
         \A x \in DOMAIN f : h[x] = f[x]
  PROVE  Total(h) = Total(f)
<1>1. Sum(f, DOMAIN f) = Sum(h, DOMAIN f)
  BY SumsAgree
<1> QED BY <1>1, TotalIsSum

(* The sum after one value changed.                                        *)
LEMMA TotalChange ==
  ASSUME NEW f, IsFiniteSet(DOMAIN f), \A x \in DOMAIN f : f[x] \in Int,
         NEW x \in DOMAIN f, NEW h, DOMAIN h = DOMAIN f, h[x] \in Int,
         \A y \in (DOMAIN f) \ {x} : h[y] = f[y]
  PROVE  Total(h) = Total(f) - f[x] + h[x]
<1> DEFINE r == [y \in (DOMAIN f) \ {x} |-> f[y]]
<1>1. /\ DOMAIN r = (DOMAIN f) \ {x} /\ \A y \in DOMAIN r : r[y] = f[y]
      /\ \A y \in DOMAIN r : r[y] = h[y]
  OBVIOUS
<1> HIDE DEF r
<1>2. Total(f) = f[x] + Total(r) /\ Total(r) \in Int
  BY <1>1, TotalSplit
<1>3. /\ IsFiniteSet(DOMAIN h) /\ \A y \in DOMAIN h : h[y] \in Int
      /\ x \in DOMAIN h
      /\ DOMAIN r = (DOMAIN h) \ {x}
  BY <1>1
<1>4. Total(h) = h[x] + Total(r)
  BY <1>1, <1>3, TotalSplit
<1>5. f[x] \in Int
  OBVIOUS
<1> QED BY <1>2, <1>4, <1>5
=============================================================================
