---------------------------- MODULE SumTheorems -----------------------------
(***************************************************************************)
(* Sums of quantities over finite sets, for the exposure and the risk of a *)
(* bucket.  A sum is a fold that takes the elements of the set in an order *)
(* that CHOOSE fixes; these facts do not depend on that order.             *)
(***************************************************************************)
EXTENDS Integers, FiniteSets, Functions, FiniteSetTheorems, WellFoundedInduction, TLAPS

\* The next element of the fold, and the fold over the subsets of D.
Pick(S) == CHOOSE x \in S : TRUE
IsSum(g, f, D) ==
  g = [s \in SUBSET D |-> IF s = {} THEN 0 ELSE f[Pick(s)] + g[s \ {Pick(s)}]]
Fold(f, D) == CHOOSE g : IsSum(g, f, D)

\* A set of subsets of D that has every set whose strict subsets it has, has D.
LEMMA SubsetInduction ==
  ASSUME NEW D, IsFiniteSet(D), NEW G,
         \A s \in SUBSET D : (\A u \in SUBSET s : u # s => u \in G) => s \in G
  PROVE  \A s \in SUBSET D : s \in G
<1> DEFINE bad == {s \in SUBSET D : s \notin G}
<1>1. IsWellFoundedOn(StrictSubsetOrdering(D), SUBSET D)
  BY FS_StrictSubsetOrderingWellFounded, FS_FiniteSubsetsOfFinite
<1>2. SUFFICES ASSUME bad # {} PROVE FALSE
  OBVIOUS
<1>3. PICK s \in bad : \A u \in bad : <<u, s>> \notin StrictSubsetOrdering(D)
  <2> bad \subseteq SUBSET D
    OBVIOUS
  <2> HIDE DEF bad
  <2> QED BY <1>1, <1>2, WFMin
<1>4. ASSUME NEW u \in SUBSET s, u # s PROVE u \in G
  <2>1. u \in SUBSET D /\ s \in SUBSET D
    OBVIOUS
  <2>2. <<u, s>> \in StrictSubsetOrdering(D)
    BY <1>4, <2>1 DEF StrictSubsetOrdering
  <2>3. QED BY <1>3, <2>1, <2>2
<1>5. QED BY <1>4

\* The picked element of a set that is not empty is one of its own.
LEMMA PickIsMember ==
  ASSUME NEW S, S # {}
  PROVE  Pick(S) \in S
BY DEF Pick

\* The fold is the same for every set that contains the summed one.
LEMMA FoldsAgree ==
  ASSUME NEW f, NEW D, IsFiniteSet(D), NEW E \in SUBSET D,
         NEW g, IsSum(g, f, D), NEW h, IsSum(h, f, E)
  PROVE  \A s \in SUBSET E : g[s] = h[s]
<1> DEFINE G == {s \in SUBSET E : g[s] = h[s]}
<1>1. IsFiniteSet(E)
  BY FS_Subset
<1>2. ASSUME NEW s \in SUBSET E, \A u \in SUBSET s : u # s => u \in G
      PROVE  s \in G
  <2>1. CASE s = {}
    BY <2>1 DEF IsSum
  <2>2. CASE s # {}
    <3> DEFINE r == s \ {Pick(s)}
    <3>1. r \in SUBSET s /\ r # s
      BY <2>2, PickIsMember
    <3>2. g[r] = h[r]
      BY <1>2, <3>1
    <3>3. g[s] = f[Pick(s)] + g[r]
      <4>1. s \in SUBSET D
        OBVIOUS
      <4>2. QED BY <2>2, <4>1 DEF IsSum
    <3>4. h[s] = f[Pick(s)] + h[r]
      BY <2>2 DEF IsSum
    <3>5. QED BY <3>2, <3>3, <3>4
  <2>3. QED BY <2>1, <2>2
<1> HIDE DEF G
<1>3. \A s \in SUBSET E : s \in G
  BY <1>1, <1>2, SubsetInduction
<1>4. QED BY <1>3 DEF G

\* There is a fold over every finite set.
LEMMA FoldExists ==
  ASSUME NEW f, NEW D, IsFiniteSet(D)
  PROVE  IsSum(Fold(f, D), f, D)
<1> DEFINE G == {s \in SUBSET D : IsSum(Fold(f, s), f, s)}
<1>1. ASSUME NEW s \in SUBSET D, \A u \in SUBSET s : u # s => u \in G
      PROVE  s \in G
  <2> DEFINE v(u) == Fold(f, u)[u]
             g == [u \in SUBSET s |-> IF u = {} THEN 0
                                      ELSE f[Pick(u)] + v(u \ {Pick(u)})]
  <2>1. ASSUME NEW u \in SUBSET s, u # s PROVE g[u] = v(u)
    <3>1. u \in G /\ IsSum(Fold(f, u), f, u)
      BY <1>1, <2>1
    <3>2. CASE u = {}
      BY <3>1, <3>2 DEF IsSum
    <3>3. CASE u # {}
      <4> DEFINE r == u \ {Pick(u)}
      <4>1. r \in SUBSET u /\ r \in SUBSET s /\ r # s
        BY <3>3, PickIsMember
      <4>2. IsSum(Fold(f, r), f, r)
        BY <1>1, <4>1
      <4>3. IsFiniteSet(u)
        BY FS_Subset
      <4>4. Fold(f, u)[r] = Fold(f, r)[r]
        <5> DEFINE wide == Fold(f, u)
                   narrow == Fold(f, r)
        <5>1. IsSum(wide, f, u) /\ IsSum(narrow, f, r)
          BY <3>1, <4>2
        <5>2. r \in SUBSET u /\ r \in SUBSET r
          BY <4>1
        <5> HIDE DEF wide, narrow, r
        <5>3. \A x \in SUBSET r : wide[x] = narrow[x]
          BY <4>3, <5>1, <5>2, FoldsAgree
        <5>4. wide[r] = narrow[r]
          BY <5>2, <5>3
        <5>5. QED BY <5>4 DEF wide, narrow
      <4>5. Fold(f, u)[u] = f[Pick(u)] + Fold(f, u)[r]
        BY <3>1, <3>3 DEF IsSum
      <4>6. QED BY <3>3, <4>4, <4>5
    <3>4. QED BY <3>2, <3>3
  <2>2. g = [u \in SUBSET s |-> IF u = {} THEN 0 ELSE f[Pick(u)] + g[u \ {Pick(u)}]]
    <3>1. ASSUME NEW u \in SUBSET s, u # {} PROVE v(u \ {Pick(u)}) = g[u \ {Pick(u)}]
      <4>1. u \ {Pick(u)} \in SUBSET s /\ u \ {Pick(u)} # s
        BY <3>1, PickIsMember
      <4>2. QED BY <2>1, <4>1
    <3>2. QED BY <3>1
  <2> HIDE DEF g
  <2>3. IsSum(g, f, s)
    BY <2>2 DEF IsSum
  <2>4. IsSum(Fold(f, s), f, s)
    BY <2>3, Zenon DEF Fold
  <2>5. QED BY <2>4
<1> HIDE DEF G
<1>2. \A s \in SUBSET D : s \in G
  BY <1>1, SubsetInduction
<1>3. QED BY <1>2 DEF G

-----------------------------------------------------------------------------
(* Sums.                                                                   *)

\* The library's sum is the fold over the subsets of the summed set.
LEMMA SumIsFold ==
  ASSUME NEW f, NEW S
  PROVE  SumFunctionOnSet(f, S) = Fold(f, S)[S]
BY Zenon DEF SumFunctionOnSet, FoldFunctionOnSet, MapThenFoldSet, Fold, IsSum, Pick

\* Whatever is a fold over D yields the sum over D.
LEMMA SumIsUnique ==
  ASSUME NEW f, NEW D, IsFiniteSet(D), NEW g, IsSum(g, f, D)
  PROVE  g[D] = SumFunctionOnSet(f, D)
<1> DEFINE h == Fold(f, D)
<1>1. IsSum(h, f, D)
  BY FoldExists
<1>2. D \in SUBSET D
  OBVIOUS
<1> HIDE DEF h
<1>3. \A s \in SUBSET D : g[s] = h[s]
  BY <1>1, <1>2, FoldsAgree
<1>4. g[D] = h[D]
  BY <1>2, <1>3
<1>5. QED BY <1>4, SumIsFold DEF h

\* The sum over the empty set.
LEMMA SumOfNothing ==
  ASSUME NEW f
  PROVE  SumFunctionOnSet(f, {}) = 0
<1>1. IsSum(Fold(f, {}), f, {})
  BY FoldExists, FS_EmptySet
<1>2. Fold(f, {})[{}] = 0
  BY <1>1 DEF IsSum
<1>3. QED BY <1>2, SumIsFold

\* The sum takes the picked element first.
LEMMA SumStep ==
  ASSUME NEW f, NEW S, IsFiniteSet(S), S # {}
  PROVE  SumFunctionOnSet(f, S) = f[Pick(S)] + SumFunctionOnSet(f, S \ {Pick(S)})
<1> DEFINE r == S \ {Pick(S)}
           wide == Fold(f, S)
           narrow == Fold(f, r)
<1>1. r \in SUBSET S /\ r \in SUBSET r /\ IsFiniteSet(r)
  BY FS_Subset
<1>2. IsSum(wide, f, S) /\ IsSum(narrow, f, r)
  BY <1>1, FoldExists
<1>3. wide[S] = f[Pick(S)] + wide[r]
  BY <1>2 DEF IsSum
<1> HIDE DEF wide, narrow, r
<1>4. \A x \in SUBSET r : wide[x] = narrow[x]
  <2>1. r \in SUBSET S /\ IsSum(wide, f, S) /\ IsSum(narrow, f, r)
    BY <1>1, <1>2
  <2>2. QED BY <2>1, FoldsAgree, Z3
<1>5. wide[r] = narrow[r]
  BY <1>1, <1>4
<1>6. SumFunctionOnSet(f, S) = wide[S] /\ SumFunctionOnSet(f, r) = narrow[r]
  BY SumIsFold DEF wide, narrow
<1>7. QED BY <1>3, <1>5, <1>6 DEF r

\* A sum of natural numbers is one.
LEMMA SumType ==
  ASSUME NEW S, IsFiniteSet(S), NEW f, \A x \in S : f[x] \in Nat
  PROVE  SumFunctionOnSet(f, S) \in Nat
<1> DEFINE G == {s \in SUBSET S : SumFunctionOnSet(f, s) \in Nat}
<1>1. ASSUME NEW s \in SUBSET S, \A u \in SUBSET s : u # s => u \in G
      PROVE  s \in G
  <2>1. CASE s = {}
    BY <2>1, SumOfNothing
  <2>2. CASE s # {}
    <3>1. /\ Pick(s) \in s /\ s \ {Pick(s)} \in SUBSET s /\ s \ {Pick(s)} # s
      BY <2>2, PickIsMember
    <3>2. SumFunctionOnSet(f, s \ {Pick(s)}) \in Nat /\ f[Pick(s)] \in Nat
      BY <1>1, <3>1
    <3>3. IsFiniteSet(s)
      BY FS_Subset
    <3>4. SumFunctionOnSet(f, s) = f[Pick(s)] + SumFunctionOnSet(f, s \ {Pick(s)})
      BY <2>2, <3>3, SumStep
    <3>5. QED BY <3>2, <3>4
  <2>3. QED BY <2>1, <2>2
<1> HIDE DEF G
<1>2. \A s \in SUBSET S : s \in G
  BY <1>1, SubsetInduction
<1>3. QED BY <1>2 DEF G

\* A sum of integers is one.
LEMMA SumIsInt ==
  ASSUME NEW S, IsFiniteSet(S), NEW f, \A x \in S : f[x] \in Int
  PROVE  SumFunctionOnSet(f, S) \in Int
<1> DEFINE G == {s \in SUBSET S : SumFunctionOnSet(f, s) \in Int}
<1>1. ASSUME NEW s \in SUBSET S, \A u \in SUBSET s : u # s => u \in G
      PROVE  s \in G
  <2>1. CASE s = {}
    BY <2>1, SumOfNothing
  <2>2. CASE s # {}
    <3>1. /\ Pick(s) \in s /\ s \ {Pick(s)} \in SUBSET s /\ s \ {Pick(s)} # s
      BY <2>2, PickIsMember
    <3>2. SumFunctionOnSet(f, s \ {Pick(s)}) \in Int /\ f[Pick(s)] \in Int
      BY <1>1, <3>1
    <3>3. IsFiniteSet(s)
      BY FS_Subset
    <3>4. SumFunctionOnSet(f, s) = f[Pick(s)] + SumFunctionOnSet(f, s \ {Pick(s)})
      BY <2>2, <3>3, SumStep
    <3>5. QED BY <3>2, <3>4
  <2>3. QED BY <2>1, <2>2
<1> HIDE DEF G
<1>2. \A s \in SUBSET S : s \in G
  BY <1>1, SubsetInduction
<1>3. QED BY <1>2 DEF G

\* An element may be taken out of a sum, whichever it is.
LEMMA SumSplit ==
  ASSUME NEW S, IsFiniteSet(S), NEW f, \A y \in S : f[y] \in Nat, NEW x \in S
  PROVE  SumFunctionOnSet(f, S) = f[x] + SumFunctionOnSet(f, S \ {x})
<1> DEFINE G == {s \in SUBSET S : \A y \in s :
                   SumFunctionOnSet(f, s) = f[y] + SumFunctionOnSet(f, s \ {y})}
<1>1. ASSUME NEW s \in SUBSET S, \A u \in SUBSET s : u # s => u \in G
      PROVE  s \in G
  <2> SUFFICES ASSUME NEW y \in s
               PROVE  SumFunctionOnSet(f, s) = f[y] + SumFunctionOnSet(f, s \ {y})
    OBVIOUS
  <2> DEFINE p == Pick(s)
  <2>1. p \in s
    BY PickIsMember
  <2>2. IsFiniteSet(s) /\ IsFiniteSet(s \ {y, p})
    BY FS_Subset
  <2>3. SumFunctionOnSet(f, s) = f[p] + SumFunctionOnSet(f, s \ {p})
    BY <2>2, SumStep
  <2> HIDE DEF p
  <2>4. CASE y = p
    BY <2>3, <2>4
  <2>5. CASE y # p
    <3>1. /\ s \ {p} \in SUBSET s /\ s \ {p} # s /\ y \in s \ {p}
          /\ s \ {y} \in SUBSET s /\ s \ {y} # s /\ p \in s \ {y}
      BY <2>1, <2>5
    <3>2. SumFunctionOnSet(f, s \ {p}) = f[y] + SumFunctionOnSet(f, (s \ {p}) \ {y})
      BY <1>1, <3>1
    <3>3. SumFunctionOnSet(f, s \ {y}) = f[p] + SumFunctionOnSet(f, (s \ {y}) \ {p})
      BY <1>1, <3>1
    <3>4. (s \ {p}) \ {y} = s \ {y, p} /\ (s \ {y}) \ {p} = s \ {y, p}
      OBVIOUS
    <3>5. /\ f[y] \in Nat /\ f[p] \in Nat
          /\ SumFunctionOnSet(f, s \ {y, p}) \in Nat
      BY <2>1, <2>2, SumType
    <3>6. QED BY <2>3, <3>2, <3>3, <3>4, <3>5
  <2>6. QED BY <2>4, <2>5
<1> HIDE DEF G
<1>2. \A s \in SUBSET S : s \in G
  BY <1>1, SubsetInduction
<1>3. S \in G
  BY <1>2
<1>4. QED BY <1>3 DEF G

\* Sums of the same quantities are the same.
LEMMA SumSame ==
  ASSUME NEW S, IsFiniteSet(S), NEW f, NEW g, \A x \in S : f[x] = g[x]
  PROVE  SumFunctionOnSet(f, S) = SumFunctionOnSet(g, S)
<1> DEFINE G == {s \in SUBSET S : SumFunctionOnSet(f, s) = SumFunctionOnSet(g, s)}
<1>1. ASSUME NEW s \in SUBSET S, \A u \in SUBSET s : u # s => u \in G
      PROVE  s \in G
  <2>1. CASE s = {}
    BY <2>1, SumOfNothing
  <2>2. CASE s # {}
    <3>1. /\ Pick(s) \in s /\ s \ {Pick(s)} \in SUBSET s /\ s \ {Pick(s)} # s
          /\ IsFiniteSet(s)
      BY <2>2, PickIsMember, FS_Subset
    <3>2. SumFunctionOnSet(f, s \ {Pick(s)}) = SumFunctionOnSet(g, s \ {Pick(s)})
      BY <1>1, <3>1
    <3>3. /\ SumFunctionOnSet(f, s) = f[Pick(s)] + SumFunctionOnSet(f, s \ {Pick(s)})
          /\ SumFunctionOnSet(g, s) = g[Pick(s)] + SumFunctionOnSet(g, s \ {Pick(s)})
      BY <2>2, <3>1, SumStep
    <3>4. QED BY <3>1, <3>2, <3>3
  <2>3. QED BY <2>1, <2>2
<1> HIDE DEF G
<1>2. \A s \in SUBSET S : s \in G
  BY <1>1, SubsetInduction
<1>3. QED BY <1>2 DEF G

\* A sum of zeros is zero.
LEMMA SumOfZeros ==
  ASSUME NEW S, IsFiniteSet(S), NEW f, \A x \in S : f[x] = 0
  PROVE  SumFunctionOnSet(f, S) = 0
<1> DEFINE G == {s \in SUBSET S : SumFunctionOnSet(f, s) = 0}
<1>1. ASSUME NEW s \in SUBSET S, \A u \in SUBSET s : u # s => u \in G
      PROVE  s \in G
  <2>1. CASE s = {}
    BY <2>1, SumOfNothing
  <2>2. CASE s # {}
    <3>1. /\ Pick(s) \in s /\ s \ {Pick(s)} \in SUBSET s /\ s \ {Pick(s)} # s
          /\ IsFiniteSet(s)
      BY <2>2, PickIsMember, FS_Subset
    <3>2. SumFunctionOnSet(f, s \ {Pick(s)}) = 0 /\ f[Pick(s)] = 0
      BY <1>1, <3>1
    <3>3. QED BY <2>2, <3>1, <3>2, SumStep
  <2>3. QED BY <2>1, <2>2
<1> HIDE DEF G
<1>2. \A s \in SUBSET S : s \in G
  BY <1>1, SubsetInduction
<1>3. QED BY <1>2 DEF G

\* Changing one quantity changes the sum by as much.
LEMMA SumUpdate ==
  ASSUME NEW S, IsFiniteSet(S), NEW f, NEW g, NEW x \in S,
         \A y \in S : f[y] \in Nat /\ g[y] \in Nat,
         \A y \in S : y # x => g[y] = f[y]
  PROVE  SumFunctionOnSet(g, S) + f[x] = SumFunctionOnSet(f, S) + g[x]
<1>1. IsFiniteSet(S \ {x})
  BY FS_Subset
<1>2. /\ SumFunctionOnSet(f, S) = f[x] + SumFunctionOnSet(f, S \ {x})
      /\ SumFunctionOnSet(g, S) = g[x] + SumFunctionOnSet(g, S \ {x})
  BY SumSplit
<1>3. SumFunctionOnSet(f, S \ {x}) = SumFunctionOnSet(g, S \ {x})
  BY <1>1, SumSame
<1>4. SumFunctionOnSet(f, S \ {x}) \in Nat
  BY <1>1, SumType
<1>5. QED BY <1>2, <1>3, <1>4

\* A part is no more than the whole, and all of it when the others are zero.
LEMMA SumHasPart ==
  ASSUME NEW S, IsFiniteSet(S), NEW f, \A y \in S : f[y] \in Nat, NEW x \in S
  PROVE  /\ f[x] <= SumFunctionOnSet(f, S)
         /\ (\A y \in S : y # x => f[y] = 0) => SumFunctionOnSet(f, S) = f[x]
<1>1. IsFiniteSet(S \ {x})
  BY FS_Subset
<1>2. SumFunctionOnSet(f, S) = f[x] + SumFunctionOnSet(f, S \ {x})
  BY SumSplit
<1>3. SumFunctionOnSet(f, S \ {x}) \in Nat
  BY <1>1, SumType
<1>4. (\A y \in S : y # x => f[y] = 0) => SumFunctionOnSet(f, S \ {x}) = 0
  BY <1>1, SumOfZeros
<1>5. QED BY <1>2, <1>3, <1>4

\* Smaller quantities have a smaller sum.
LEMMA SumMonotone ==
  ASSUME NEW S, IsFiniteSet(S), NEW f, NEW g,
         \A x \in S : f[x] \in Nat /\ g[x] \in Nat /\ f[x] <= g[x]
  PROVE  SumFunctionOnSet(f, S) <= SumFunctionOnSet(g, S)
<1> DEFINE G == {s \in SUBSET S : SumFunctionOnSet(f, s) <= SumFunctionOnSet(g, s)}
<1>1. ASSUME NEW s \in SUBSET S, \A u \in SUBSET s : u # s => u \in G
      PROVE  s \in G
  <2>1. CASE s = {}
    BY <2>1, SumOfNothing
  <2>2. CASE s # {}
    <3> DEFINE p == Pick(s)
               r == s \ {Pick(s)}
    <3>1. p \in s /\ r \in SUBSET s /\ r # s /\ IsFiniteSet(s) /\ IsFiniteSet(r)
      BY <2>2, PickIsMember, FS_Subset
    <3>2. SumFunctionOnSet(f, r) <= SumFunctionOnSet(g, r)
      BY <1>1, <3>1
    <3>3. /\ SumFunctionOnSet(f, s) = f[p] + SumFunctionOnSet(f, r)
          /\ SumFunctionOnSet(g, s) = g[p] + SumFunctionOnSet(g, r)
      BY <2>2, <3>1, SumStep
    <3> HIDE DEF p, r
    <3>4. /\ f[p] \in Nat /\ g[p] \in Nat /\ f[p] <= g[p]
          /\ SumFunctionOnSet(f, r) \in Nat /\ SumFunctionOnSet(g, r) \in Nat
      BY <3>1, SumType
    <3>5. QED BY <3>2, <3>3, <3>4
  <2>3. QED BY <2>1, <2>2
<1> HIDE DEF G
<1>2. \A s \in SUBSET S : s \in G
  BY <1>1, SubsetInduction
<1>3. QED BY <1>2 DEF G

\* The sum of sums is the sum.
LEMMA SumAdd ==
  ASSUME NEW S, IsFiniteSet(S), NEW f, NEW g, NEW h,
         \A x \in S : f[x] \in Nat /\ g[x] \in Nat /\ h[x] = f[x] + g[x]
  PROVE  SumFunctionOnSet(h, S) = SumFunctionOnSet(f, S) + SumFunctionOnSet(g, S)
<1> DEFINE G == {s \in SUBSET S : SumFunctionOnSet(h, s)
                                    = SumFunctionOnSet(f, s) + SumFunctionOnSet(g, s)}
<1>1. ASSUME NEW s \in SUBSET S, \A u \in SUBSET s : u # s => u \in G
      PROVE  s \in G
  <2>1. CASE s = {}
    BY <2>1, SumOfNothing
  <2>2. CASE s # {}
    <3> DEFINE p == Pick(s)
               r == s \ {Pick(s)}
    <3>1. p \in s /\ r \in SUBSET s /\ r # s /\ IsFiniteSet(s) /\ IsFiniteSet(r)
      BY <2>2, PickIsMember, FS_Subset
    <3>2. SumFunctionOnSet(h, r) = SumFunctionOnSet(f, r) + SumFunctionOnSet(g, r)
      BY <1>1, <3>1
    <3>3. /\ SumFunctionOnSet(f, s) = f[p] + SumFunctionOnSet(f, r)
          /\ SumFunctionOnSet(g, s) = g[p] + SumFunctionOnSet(g, r)
          /\ SumFunctionOnSet(h, s) = h[p] + SumFunctionOnSet(h, r)
      BY <2>2, <3>1, SumStep
    <3> HIDE DEF p, r
    <3>4. /\ f[p] \in Nat /\ g[p] \in Nat /\ h[p] = f[p] + g[p]
          /\ SumFunctionOnSet(f, r) \in Nat /\ SumFunctionOnSet(g, r) \in Nat
      BY <3>1, SumType
    <3>5. QED BY <3>2, <3>3, <3>4
  <2>3. QED BY <2>1, <2>2
<1> HIDE DEF G
<1>2. \A s \in SUBSET S : s \in G
  BY <1>1, SubsetInduction
<1>3. QED BY <1>2 DEF G

\* A sum over a part of a set is the sum over the set with zero elsewhere.
LEMMA SumOverPart ==
  ASSUME NEW S, IsFiniteSet(S), NEW R \in SUBSET S, NEW f, NEW g,
         \A x \in S : f[x] \in Nat /\ g[x] = IF x \in R THEN f[x] ELSE 0
  PROVE  SumFunctionOnSet(f, R) = SumFunctionOnSet(g, S)
<1> DEFINE G == {s \in SUBSET S :
                   SumFunctionOnSet(f, s \cap R) = SumFunctionOnSet(g, s)}
<1>1. ASSUME NEW s \in SUBSET S, \A u \in SUBSET s : u # s => u \in G
      PROVE  s \in G
  <2>1. CASE s = {}
    <3>1. s \cap R = {}
      BY <2>1
    <3>2. QED BY <2>1, <3>1, SumOfNothing
  <2>2. CASE s # {}
    <3> DEFINE p == Pick(s)
               r == s \ {p}
    <3>1. p \in s /\ r \in SUBSET s /\ r # s
      BY <2>2, PickIsMember
    <3>2. IsFiniteSet(s) /\ IsFiniteSet(r) /\ IsFiniteSet(s \cap R) /\ IsFiniteSet(r \cap R)
      BY <3>1, FS_Subset
    <3> HIDE DEF p
    <3>3. SumFunctionOnSet(f, r \cap R) = SumFunctionOnSet(g, r)
      BY <1>1, <3>1
    <3>4. SumFunctionOnSet(g, s) = g[p] + SumFunctionOnSet(g, r)
      BY <3>1, <3>2, SumSplit
    <3>5. SumFunctionOnSet(g, r) \in Nat
      BY <3>1, <3>2, SumType
    <3>6. CASE p \in R
      <4>1. p \in s \cap R /\ (s \cap R) \ {p} = r \cap R
        BY <3>1, <3>6
      <4>2. SumFunctionOnSet(f, s \cap R) = f[p] + SumFunctionOnSet(f, r \cap R)
        BY <3>2, <4>1, SumSplit
      <4>3. g[p] = f[p]
        BY <3>1, <3>6
      <4>4. QED BY <3>3, <3>4, <4>2, <4>3
    <3>7. CASE p \notin R
      <4>1. s \cap R = r \cap R
        BY <3>7
      <4>2. g[p] = 0
        BY <3>1, <3>7
      <4>3. SumFunctionOnSet(g, s) = SumFunctionOnSet(g, r)
        BY <3>4, <3>5, <4>2
      <4>4. SumFunctionOnSet(f, s \cap R) = SumFunctionOnSet(f, r \cap R)
        BY <4>1
      <4>5. QED BY <3>3, <4>3, <4>4
    <3>8. QED BY <3>6, <3>7
  <2>3. QED BY <2>1, <2>2
<1> HIDE DEF G
<1>2. \A s \in SUBSET S : s \in G
  BY <1>1, SubsetInduction
<1>3. S \cap R = R /\ S \in G
  BY <1>2
<1>4. QED BY <1>3 DEF G
=============================================================================
