--------------------------- MODULE FiniteSetLemmas ---------------------------
(***************************************************************************)
(* Lemmas about finite sets that the proofs of several components need:    *)
(* the greatest and the least element of a set of numbers, and what a sum  *)
(* over a set comes to when an element, a part or a weight of it changes.  *)
(* Each is proved from the least counterexample.                           *)
(***************************************************************************)
EXTENDS Integers, FiniteSets, FiniteSetsExt, FiniteSetTheorems, WellFoundedInduction, TLAPS

-----------------------------------------------------------------------------
(* Elements *)

\* A finite set of numbers that is not empty has a greatest and a least element.
LEMMA Extremes ==
  ASSUME NEW S, S \subseteq Int, IsFiniteSet(S), S # {}
  PROVE  /\ Max(S) \in S /\ \A x \in S : Max(S) >= x
         /\ Min(S) \in S /\ \A x \in S : Min(S) =< x
<1> DEFINE Bounded(M) == (\E m \in M : \A x \in M : m >= x) /\ (\E m \in M : \A x \in M : m =< x)
           Others == {M \in SUBSET S : M # {} /\ ~Bounded(M)}
<1>1. IsWellFoundedOn(StrictSubsetOrdering(S), SUBSET S)
  BY FS_StrictSubsetOrderingWellFounded, FS_FiniteSubsetsOfFinite
<1>2. Others = {}
  <2>1. SUFFICES ASSUME Others # {} PROVE FALSE
    OBVIOUS
  <2>2. PICK M \in Others : \A N \in Others : <<N, M>> \notin StrictSubsetOrdering(S)
    <3> HIDE DEF Others
    <3>1. Others \subseteq SUBSET S
      BY DEF Others
    <3> QED BY <1>1, <2>1, <3>1, WFMin
  <2>3. PICK x \in M : TRUE
    OBVIOUS
  <2>4. CASE M = {x}
    BY <2>4
  <2>5. CASE M # {x}
    <3>1. M \ {x} \in SUBSET S /\ M \ {x} # {}
      BY <2>3, <2>5
    <3>2. <<M \ {x}, M>> \in StrictSubsetOrdering(S)
      BY <2>3 DEF StrictSubsetOrdering
    <3>3. Bounded(M \ {x})
      BY <2>2, <3>1, <3>2
    <3>4. PICK m \in M \ {x}, n \in M \ {x} : \A y \in M \ {x} : m >= y /\ n =< y
      BY <3>3
    <3>5. \E a \in M : \A y \in M : a >= y
      <4>1. CASE m >= x BY <3>4, <4>1
      <4>2. CASE ~(m >= x)
        <5>1. \A y \in M : x >= y
          BY <2>3, <3>4, <4>2
        <5> QED BY <2>3, <5>1
      <4> QED BY <4>1, <4>2
    <3>6. \E a \in M : \A y \in M : a =< y
      <4>1. CASE n =< x BY <3>4, <4>1
      <4>2. CASE ~(n =< x)
        <5>1. \A y \in M : x =< y
          BY <2>3, <3>4, <4>2
        <5> QED BY <2>3, <5>1
      <4> QED BY <4>1, <4>2
    <3> QED BY <3>5, <3>6
  <2> QED BY <2>4, <2>5
<1>3. Bounded(S)
  BY <1>2
<1> QED BY <1>3 DEF Max, Min

\* What is left of a finite set without one of its elements.
LEMMA OneLess ==
  ASSUME NEW S, NEW x, IsFiniteSet(S)
  PROVE  /\ IsFiniteSet(S \ {x}) /\ Cardinality(S) \in Nat
         /\ Cardinality(S \ {x}) \in Nat /\ Cardinality(S \ {x}) >= Cardinality(S) - 1
<1>1. Cardinality(S) \in Nat
  BY FS_CardinalityType
<1>2. IsFiniteSet(S \ {x}) /\ Cardinality(S \ {x}) = IF x \in S THEN Cardinality(S) - 1 ELSE Cardinality(S)
  BY FS_RemoveElement
<1>3. Cardinality(S \ {x}) \in Nat
  BY <1>2, FS_CardinalityType
<1> QED BY <1>1, <1>2, <1>3

-----------------------------------------------------------------------------
(* Sums.  MapThenSumSet adds up by a recursive function, which picks one   *)
(* element after the other; Adds says of g that it is this function, for   *)
(* the sets of elements of K that have the weights w.                      *)

Pick(S) == CHOOSE x \in S : TRUE
Adds(g, w, K) == g = [S \in SUBSET K |-> IF S = {} THEN 0 ELSE w[Pick(S)] + g[S \ {Pick(S)}]]
Total(w, K) == (CHOOSE g : Adds(g, w, K))[K]

LEMMA Picked == ASSUME NEW S, S # {} PROVE Pick(S) \in S
BY DEF Pick

\* A property of the sizes up to that of a finite set, by the least size that
\* lacks it: there is a function that adds up all sets up to a size, and one
\* more round of additions makes it one for the next size.
LEMMA AdderExists == ASSUME NEW K, IsFiniteSet(K), NEW w PROVE \E g : Adds(g, w, K)
<1> DEFINE Body(g, S) == IF S = {} THEN 0 ELSE w[Pick(S)] + g[S \ {Pick(S)}]
           Upto(g, n) == \A S \in SUBSET K : Cardinality(S) <= n => g[S] = Body(g, S)
           Sizes == 0..Cardinality(K)
           Bad == {n \in Sizes : ~\E g : Upto(g, n)}
<1>1. /\ Cardinality(K) \in Nat
      /\ \A S \in SUBSET K : IsFiniteSet(S) /\ Cardinality(S) \in Nat /\ Cardinality(S) <= Cardinality(K)
  BY FS_Subset, FS_CardinalityType
<1>2. ASSUME NEW g, NEW n \in Nat, Upto(g, n)
      PROVE  \E h : Upto(h, n + 1)
  <2> DEFINE h == [S \in SUBSET K |-> Body(g, S)]
  <2>1. ASSUME NEW S \in SUBSET K, Cardinality(S) <= n + 1 PROVE h[S] = Body(h, S)
    <3>1. CASE S = {}
      BY <3>1
    <3>2. CASE S # {}
      <4> DEFINE R == S \ {Pick(S)}
      <4>1. Pick(S) \in S /\ R \in SUBSET K
        BY <3>2, Picked
      <4>2. Cardinality(R) = Cardinality(S) - 1
        BY <1>1, <4>1, FS_RemoveElement
      <4>3. Cardinality(R) <= n
        BY <1>1, <2>1, <4>2
      <4>4. h[R] = g[R]
        BY <1>2, <4>1, <4>3
      <4> QED BY <3>2, <4>4
    <3> QED BY <3>1, <3>2
  <2> HIDE DEF h, Body
  <2> QED BY <2>1
<1>3. \E g : Upto(g, 0)
  <2> DEFINE h == [S \in SUBSET K |-> 0]
  <2>1. ASSUME NEW S \in SUBSET K, Cardinality(S) <= 0 PROVE h[S] = Body(h, S)
    BY <1>1, <2>1, FS_EmptySet
  <2> HIDE DEF h, Body
  <2> QED BY <2>1
<1> HIDE DEF Upto
<1>4. Bad = {}
  <2> SUFFICES ASSUME Bad # {} PROVE FALSE
    OBVIOUS
  <2>1. IsFiniteSet(Bad) /\ Bad \subseteq Int
    <3>1. Sizes \subseteq Int /\ IsFiniteSet(Sizes)
      BY <1>1, FS_Interval
    <3>2. Bad \in SUBSET Sizes
      OBVIOUS
    <3> HIDE DEF Bad, Sizes
    <3> QED BY <3>1, <3>2, FS_Subset
  <2>2. Min(Bad) \in Bad /\ \A n \in Bad : Min(Bad) =< n
    BY <2>1, Extremes
  <2> DEFINE m == Min(Bad)
  <2> HIDE DEF m
  <2>3. m \in Sizes /\ (~\E g : Upto(g, m)) /\ m - 1 \notin Bad
    <3>1. m \in Bad /\ \A n \in Bad : m =< n
      BY <2>2 DEF m
    <3> QED BY <1>1, <3>1
  <2>4. m # 0 /\ m \in Nat
    BY <1>1, <1>3, <2>3
  <2>5. m - 1 \in Sizes /\ m - 1 \in Nat
    BY <1>1, <2>3, <2>4
  <2>6. PICK g : Upto(g, m - 1)
    BY <2>3, <2>5
  <2>7. \E h : Upto(h, (m - 1) + 1)
    BY <1>2, <2>5, <2>6
  <2>8. (m - 1) + 1 = m
    BY <2>4
  <2> QED BY <2>3, <2>7, <2>8
<1>5. PICK g : Upto(g, Cardinality(K))
  BY <1>1, <1>4
<1>6. \A S \in SUBSET K : g[S] = Body(g, S)
  BY <1>1, <1>5 DEF Upto
<1> DEFINE h == [S \in SUBSET K |-> g[S]]
<1>7. \A S \in SUBSET K : h[S] = Body(h, S)
  <2> SUFFICES ASSUME NEW S \in SUBSET K PROVE h[S] = Body(h, S)
    OBVIOUS
  <2>1. h[S] = Body(g, S) /\ S \ {Pick(S)} \in SUBSET K
    BY <1>6
  <2> QED BY <2>1
<1>8. h = [S \in SUBSET K |-> Body(h, S)]
  <2> HIDE DEF Body
  <2>1. h = [S \in SUBSET K |-> h[S]]
    OBVIOUS
  <2> HIDE DEF h
  <2> QED BY <1>7, <2>1
<1> HIDE DEF h
<1> QED BY <1>8 DEF Adds

\* Only the weights matter, and of a larger set only the part.
LEMMA AdderUnique ==
  ASSUME NEW L, IsFiniteSet(L), NEW K \in SUBSET L, NEW w, NEW v, \A x \in K : w[x] = v[x],
         NEW g, NEW h, Adds(g, w, K), Adds(h, v, L)
  PROVE  \A S \in SUBSET K : g[S] = h[S]
<1> DEFINE Bad == {S \in SUBSET K : g[S] # h[S]}
<1>1. IsFiniteSet(K)
  BY FS_Subset
<1>2. IsWellFoundedOn(StrictSubsetOrdering(K), SUBSET K)
  BY <1>1, FS_StrictSubsetOrderingWellFounded, FS_FiniteSubsetsOfFinite
<1>3. SUFFICES ASSUME Bad # {} PROVE FALSE
  OBVIOUS
<1>4. PICK S \in Bad : \A R \in Bad : <<R, S>> \notin StrictSubsetOrdering(K)
  <2>1. Bad \subseteq SUBSET K
    OBVIOUS
  <2> HIDE DEF Bad
  <2> QED BY <1>2, <1>3, <2>1, WFMin
<1>5. /\ g[S] = IF S = {} THEN 0 ELSE w[Pick(S)] + g[S \ {Pick(S)}]
      /\ h[S] = IF S = {} THEN 0 ELSE v[Pick(S)] + h[S \ {Pick(S)}]
  <2>1. S \in SUBSET K /\ S \in SUBSET L
    OBVIOUS
  <2> HIDE DEF Bad
  <2> QED BY <2>1 DEF Adds
<1>6. S # {}
  BY <1>5
<1>7. Pick(S) \in S /\ Pick(S) \in K
  BY <1>6, Picked
<1>8. <<S \ {Pick(S)}, S>> \in StrictSubsetOrdering(K)
  BY <1>7 DEF StrictSubsetOrdering
<1>9. g[S \ {Pick(S)}] = h[S \ {Pick(S)}]
  BY <1>4, <1>8
<1> QED BY <1>5, <1>6, <1>7, <1>9

LEMMA TotalIs ==
  ASSUME NEW K, IsFiniteSet(K), NEW w, NEW g, Adds(g, w, K)
  PROVE  Total(w, K) = g[K]
<1> DEFINE h == CHOOSE h : Adds(h, w, K)
<1>1. Adds(h, w, K)
  OBVIOUS
<1> HIDE DEF h
<1>2. \A S \in SUBSET K : h[S] = g[S]
  BY <1>1, AdderUnique
<1> QED BY <1>2 DEF Total, h

\* The sum of a part is what the function for the whole says of it.
LEMMA TotalPart ==
  ASSUME NEW L, IsFiniteSet(L), NEW w, NEW h, Adds(h, w, L), NEW K \in SUBSET L
  PROVE  Total(w, K) = h[K]
<1>1. IsFiniteSet(K)
  BY FS_Subset
<1>2. PICK g : Adds(g, w, K)
  BY <1>1, AdderExists
<1>3. \A S \in SUBSET K : g[S] = h[S]
  BY <1>2, AdderUnique
<1> QED BY <1>1, <1>2, <1>3, TotalIs

LEMMA TotalEmpty == ASSUME NEW w PROVE Total(w, {}) = 0
<1>1. IsFiniteSet({})
  BY FS_EmptySet
<1>2. PICK g : Adds(g, w, {})
  BY <1>1, AdderExists
<1>3. g[{}] = 0
  BY <1>2 DEF Adds
<1> QED BY <1>1, <1>2, <1>3, TotalIs

LEMMA TotalPicks ==
  ASSUME NEW K, IsFiniteSet(K), K # {}, NEW w
  PROVE  Pick(K) \in K /\ Total(w, K) = w[Pick(K)] + Total(w, K \ {Pick(K)})
<1>1. PICK g : Adds(g, w, K)
  BY AdderExists
<1>2. Pick(K) \in K
  BY Picked
<1>3. g[K] = w[Pick(K)] + g[K \ {Pick(K)}]
  BY <1>1 DEF Adds
<1>4. Total(w, K) = g[K] /\ Total(w, K \ {Pick(K)}) = g[K \ {Pick(K)}]
  BY <1>1, TotalPart
<1> QED BY <1>2, <1>3, <1>4

LEMMA TotalCongruence ==
  ASSUME NEW K, IsFiniteSet(K), NEW w, NEW v, \A x \in K : w[x] = v[x]
  PROVE  Total(w, K) = Total(v, K)
<1>1. PICK g : Adds(g, w, K)
  BY AdderExists
<1>2. PICK h : Adds(h, v, K)
  BY AdderExists
<1>3. \A S \in SUBSET K : g[S] = h[S]
  BY <1>1, <1>2, AdderUnique
<1> QED BY <1>1, <1>2, <1>3, TotalIs

\* A smallest counterexample to a fact about the subsets of a finite set.
LEMMA SmallestSubset ==
  ASSUME NEW K, IsFiniteSet(K), NEW Bad \in SUBSET (SUBSET K), Bad # {}
  PROVE  \E S \in Bad : \A R \in SUBSET S : R # S => R \notin Bad
<1>1. IsWellFoundedOn(StrictSubsetOrdering(K), SUBSET K)
  BY FS_StrictSubsetOrderingWellFounded, FS_FiniteSubsetsOfFinite
<1>2. PICK S \in Bad : \A R \in Bad : <<R, S>> \notin StrictSubsetOrdering(K)
  BY <1>1, WFMin
<1>3. ASSUME NEW R \in SUBSET S, R # S PROVE R \notin Bad
  BY <1>2, <1>3 DEF StrictSubsetOrdering
<1> QED BY <1>3

LEMMA TotalNatural ==
  ASSUME NEW K, IsFiniteSet(K), NEW w, \A x \in K : w[x] \in Nat
  PROVE  Total(w, K) \in Nat
<1> DEFINE Bad == {S \in SUBSET K : Total(w, S) \notin Nat}
<1>1. SUFFICES ASSUME Bad # {} PROVE FALSE
  OBVIOUS
<1>2. PICK S \in Bad : \A R \in SUBSET S : R # S => R \notin Bad
  <2>1. Bad \in SUBSET (SUBSET K)
    OBVIOUS
  <2> HIDE DEF Bad
  <2> QED BY <1>1, <2>1, SmallestSubset
<1>3. S \in SUBSET K /\ IsFiniteSet(S) /\ Total(w, S) \notin Nat
  BY FS_Subset
<1>4. S # {}
  BY <1>3, TotalEmpty
<1>5. Pick(S) \in S /\ Total(w, S) = w[Pick(S)] + Total(w, S \ {Pick(S)})
  BY <1>3, <1>4, TotalPicks
<1>6. Total(w, S \ {Pick(S)}) \in Nat
  BY <1>2, <1>3, <1>5
<1> QED BY <1>3, <1>5, <1>6

\* Whichever element is taken out, the sum of the others is what is left.
LEMMA TotalRemove ==
  ASSUME NEW K, IsFiniteSet(K), NEW w, \A x \in K : w[x] \in Nat, NEW x \in K
  PROVE  Total(w, K) = w[x] + Total(w, K \ {x})
<1> DEFINE Bad == {S \in SUBSET K : \E y \in S : Total(w, S) # w[y] + Total(w, S \ {y})}
<1>1. SUFFICES Bad = {}
  BY <1>1
<1>2. SUFFICES ASSUME Bad # {} PROVE FALSE
  OBVIOUS
<1>3. PICK S \in Bad : \A R \in SUBSET S : R # S => R \notin Bad
  <2>1. Bad \in SUBSET (SUBSET K)
    OBVIOUS
  <2> HIDE DEF Bad
  <2> QED BY <1>2, <2>1, SmallestSubset
<1>4. S \in SUBSET K /\ IsFiniteSet(S)
  BY FS_Subset
<1>5. PICK y \in S : Total(w, S) # w[y] + Total(w, S \ {y})
  BY <1>3
<1> DEFINE p == Pick(S)
<1>6. p \in S /\ Total(w, S) = w[p] + Total(w, S \ {p})
  BY <1>4, <1>5, TotalPicks
<1> HIDE DEF p
<1>7. p # y
  BY <1>5, <1>6
<1>8. Total(w, S \ {p}) = w[y] + Total(w, (S \ {p}) \ {y})
  <2>1. S \ {p} \in SUBSET S /\ S \ {p} # S /\ S \ {p} \in SUBSET K /\ y \in S \ {p}
    BY <1>4, <1>6, <1>7
  <2> QED BY <1>3, <2>1
<1>9. Total(w, S \ {y}) = w[p] + Total(w, (S \ {y}) \ {p})
  <2>1. S \ {y} \in SUBSET S /\ S \ {y} # S /\ S \ {y} \in SUBSET K /\ p \in S \ {y}
    BY <1>4, <1>6, <1>7
  <2> QED BY <1>3, <2>1
<1>10. (S \ {p}) \ {y} = (S \ {y}) \ {p}
  OBVIOUS
<1>11. w[p] \in Nat /\ w[y] \in Nat /\ Total(w, (S \ {p}) \ {y}) \in Nat
  <2>1. IsFiniteSet((S \ {p}) \ {y}) /\ \A z \in (S \ {p}) \ {y} : w[z] \in Nat
    BY <1>4, FS_Subset
  <2> QED BY <1>4, <1>6, <2>1, TotalNatural
<1> QED BY <1>5, <1>6, <1>8, <1>9, <1>10, <1>11

\* One weight changes, of an element of the set or of another one.
LEMMA TotalUpdate ==
  ASSUME NEW K, IsFiniteSet(K), NEW w, NEW v, NEW x,
         \A y \in K : w[y] \in Nat /\ v[y] \in Nat, \A y \in K : y # x => v[y] = w[y]
  PROVE  /\ x \notin K => Total(v, K) = Total(w, K)
         /\ x \in K => Total(v, K) = (Total(w, K) - w[x]) + v[x] /\ w[x] <= Total(w, K)
<1>1. CASE x \notin K
  <2>1. Total(v, K) = Total(w, K)
    BY <1>1, TotalCongruence
  <2> QED BY <1>1, <2>1
<1>2. CASE x \in K
  <2>1. IsFiniteSet(K \ {x})
    BY FS_Subset
  <2>2. Total(v, K \ {x}) = Total(w, K \ {x})
    BY <2>1, TotalCongruence
  <2>3. Total(w, K \ {x}) \in Nat
    BY <2>1, TotalNatural
  <2>4. Total(w, K) = w[x] + Total(w, K \ {x}) /\ Total(v, K) = v[x] + Total(v, K \ {x})
    BY <1>2, TotalRemove
  <2> QED BY <1>2, <2>2, <2>3, <2>4
<1> QED BY <1>1, <1>2

\* The sum of a set is that of a part and that of the rest.
LEMMA TotalSplit ==
  ASSUME NEW K, IsFiniteSet(K), NEW w, \A x \in K : w[x] \in Nat, NEW L \in SUBSET K
  PROVE  /\ Total(w, K) = Total(w, L) + Total(w, K \ L)
         /\ Total(w, L) \in Nat /\ Total(w, K \ L) \in Nat
<1> DEFINE Bad == {S \in SUBSET K : Total(w, K) # Total(w, S) + Total(w, K \ S)}
<1>1. ASSUME NEW S \in SUBSET K PROVE IsFiniteSet(S) /\ Total(w, S) \in Nat
  <2>1. IsFiniteSet(S) /\ \A x \in S : w[x] \in Nat
    BY FS_Subset
  <2> QED BY <2>1, TotalNatural
<1>2. SUFFICES Bad = {}
  BY <1>1, <1>2
<1>3. SUFFICES ASSUME Bad # {} PROVE FALSE
  OBVIOUS
<1>4. PICK S \in Bad : \A R \in SUBSET S : R # S => R \notin Bad
  <2>1. Bad \in SUBSET (SUBSET K)
    OBVIOUS
  <2> HIDE DEF Bad
  <2> QED BY <1>3, <2>1, SmallestSubset
<1>5. S \in SUBSET K /\ Total(w, K) # Total(w, S) + Total(w, K \ S)
  BY <1>4
<1>6. S # {}
  <2>1. Total(w, {}) = 0 /\ Total(w, K) \in Nat
    BY <1>1, TotalEmpty
  <2>2. ASSUME S = {} PROVE K \ S = K
    BY <2>2
  <2> HIDE DEF Bad
  <2> QED BY <1>5, <2>1, <2>2
<1>7. PICK x \in S : TRUE
  BY <1>6
<1> DEFINE R == S \ {x}
<1>8. Total(w, K) = Total(w, R) + Total(w, K \ R)
  BY <1>4, <1>5, <1>7
<1>9. Total(w, S) = w[x] + Total(w, R)
  <2>1. IsFiniteSet(S) /\ \A y \in S : w[y] \in Nat
    BY <1>1, <1>5
  <2> QED BY <2>1, <1>7, TotalRemove
<1>10. Total(w, K \ R) = w[x] + Total(w, K \ S)
  <2>1. IsFiniteSet(K \ R) /\ (\A y \in K \ R : w[y] \in Nat) /\ x \in K \ R /\ (K \ R) \ {x} = K \ S
    BY <1>1, <1>5, <1>7
  <2> HIDE DEF R
  <2>2. Total(w, K \ R) = w[x] + Total(w, (K \ R) \ {x})
    BY <2>1, TotalRemove
  <2> QED BY <2>1, <2>2
<1>11. w[x] \in Nat /\ Total(w, R) \in Nat /\ Total(w, K \ S) \in Nat
  BY <1>1, <1>5, <1>7
<1> HIDE DEF R
<1> QED BY <1>5, <1>8, <1>9, <1>10, <1>11

LEMMA TotalZero ==
  ASSUME NEW K, IsFiniteSet(K), NEW w, \A x \in K : w[x] = 0
  PROVE  Total(w, K) = 0
<1> DEFINE Bad == {S \in SUBSET K : Total(w, S) # 0}
<1>1. SUFFICES ASSUME Bad # {} PROVE FALSE
  OBVIOUS
<1>2. PICK S \in Bad : \A R \in SUBSET S : R # S => R \notin Bad
  <2>1. Bad \in SUBSET (SUBSET K)
    OBVIOUS
  <2> HIDE DEF Bad
  <2> QED BY <1>1, <2>1, SmallestSubset
<1>3. S \in SUBSET K /\ IsFiniteSet(S) /\ Total(w, S) # 0
  BY FS_Subset
<1>4. S # {}
  BY <1>3, TotalEmpty
<1>5. Pick(S) \in S /\ Total(w, S) = w[Pick(S)] + Total(w, S \ {Pick(S)})
  BY <1>3, <1>4, TotalPicks
<1>6. Total(w, S \ {Pick(S)}) = 0
  BY <1>2, <1>3, <1>5
<1> QED BY <1>3, <1>5, <1>6

\* What weighs nothing can be left out of the sum.
LEMMA TotalFilter ==
  ASSUME NEW K, IsFiniteSet(K), NEW w, \A x \in K : w[x] \in Nat,
         NEW L \in SUBSET K, \A x \in K \ L : w[x] = 0
  PROVE  Total(w, K) = Total(w, L)
<1>1. IsFiniteSet(K \ L)
  BY FS_Subset
<1>2. Total(w, K \ L) = 0
  BY <1>1, TotalZero
<1>3. Total(w, K) = Total(w, L) + Total(w, K \ L) /\ Total(w, L) \in Nat
  BY TotalSplit
<1> QED BY <1>2, <1>3
=============================================================================
