----------------------------- MODULE RingFacts -----------------------------
(***************************************************************************)
(* Facts about the operators of module Ring, for every number of holes and *)
(* korgools: what the sum of a row is, and what a sowing, a capture and a  *)
(* tuz preserve.  Before them come the facts they need about naturals      *)
(* (induction, finite recursion, division) and about sums over finite      *)
(* sets.  ToguzKorgoolGame_proofs and GameManager_proofs build on them.    *)
(***************************************************************************)
EXTENDS Ring, Sums, FiniteSetTheorems, WellFoundedInduction, TLAPS

(* A set of naturals with a member has a least one.                        *)
LEMMA LeastElement ==
  ASSUME NEW T \in SUBSET Nat, T # {}
  PROVE  \E m \in T : \A k \in T : m <= k
<1> DEFINE R == OpToRel(<, Nat)
<1>1. IsWellFoundedOn(R, Nat)
  BY NatLessThanWellFounded
<1>2. PICK m \in T : \A k \in T : ~ (<<k, m>> \in R)
  <2> HIDE DEF R
  <2> QED
    BY <1>1, WFMin
<1>3. ASSUME NEW k \in T PROVE m <= k
  <2>1. SUFFICES ASSUME k < m PROVE FALSE
    OBVIOUS
  <2>2. <<k, m>> \in R
    BY <2>1 DEF OpToRel
  <2> QED
    BY <1>2, <2>2
<1> QED
  BY <1>3

(* A set of naturals that holds 0 and is closed under successor is Nat.    *)
LEMMA SetInduction ==
  ASSUME NEW P \in SUBSET Nat, 0 \in P, \A n \in P : n + 1 \in P
  PROVE  P = Nat
<1> DEFINE T == Nat \ P
<1>1. SUFFICES ASSUME T # {} PROVE FALSE
  OBVIOUS
<1>2. PICK m \in T : \A k \in T : m <= k
  <2> HIDE DEF T
  <2>1. T \in SUBSET Nat
    BY DEF T
  <2> QED
    BY <1>1, <2>1, LeastElement
<1>3. m # 0 /\ m \in Nat
  OBVIOUS
<1>4. m - 1 \in Nat /\ m - 1 < m /\ m - 1 \notin P
  BY <1>3
<1> QED
  BY <1>2, <1>4

(* g lists the values from s0 on, each one a step from the one before.     *)
IsTable(g, S, s0, step, n) ==
  /\ g \in [0..n -> S]
  /\ g[0] = s0
  /\ \A i \in 1..n : g[i] = step[i][g[i - 1]]

(* Recursion from 0 to n: a step function for each index, applied one      *)
(* after the other, has such a table.                                      *)
LEMMA FiniteRecursion ==
  ASSUME NEW S, NEW s0 \in S, NEW step \in [Nat -> [S -> S]], NEW n \in Nat
  PROVE  \E g : IsTable(g, S, s0, step, n)
<1> DEFINE P == {m \in Nat : \E g : IsTable(g, S, s0, step, m)}
<1>1. 0 \in P
  <2>1. IsTable([i \in 0..0 |-> s0], S, s0, step, 0)
    BY DEF IsTable
  <2> QED
    BY <2>1
<1>2. ASSUME NEW m \in P PROVE m + 1 \in P
  <2>1. PICK g : IsTable(g, S, s0, step, m)
    OBVIOUS
  <2> DEFINE h == [i \in 0..m + 1 |-> IF i <= m THEN g[i] ELSE step[m + 1][g[m]]]
  <2>2. step[m + 1][g[m]] \in S
    BY <2>1 DEF IsTable
  <2>3. h \in [0..m + 1 -> S] /\ h[0] = s0
    BY <2>1, <2>2 DEF IsTable
  <2>4. ASSUME NEW i \in 1..m + 1 PROVE h[i] = step[i][h[i - 1]]
    BY <2>1 DEF IsTable
  <2>5. IsTable(h, S, s0, step, m + 1)
    BY <2>3, <2>4 DEF IsTable
  <2> HIDE DEF h
  <2> QED
    BY <2>5
<1>3. P = Nat
  <2> HIDE DEF P
  <2>1. P \subseteq Nat
    BY DEF P
  <2> QED
    BY <1>1, <1>2, <2>1, SetInduction
<1> QED
  BY <1>3

-----------------------------------------------------------------------------
(* Sums are taken by choosing one element after the other.                 *)
Some(s) == CHOOSE x \in s : TRUE
Rest(s) == s \ {Some(s)}

LEMMA RestFact ==
  ASSUME NEW s, IsFiniteSet(s), s # {}
  PROVE  /\ Some(s) \in s /\ Some(s) \notin Rest(s) /\ s = Rest(s) \union {Some(s)}
         /\ IsFiniteSet(Rest(s))
         /\ Cardinality(s) \in Nat /\ Cardinality(Rest(s)) = Cardinality(s) - 1
<1>1. Some(s) \in s
  BY DEF Some
<1>2. /\ IsFiniteSet(s \ {Some(s)}) /\ Cardinality(s \ {Some(s)}) = Cardinality(s) - 1
      /\ Cardinality(s) \in Nat
  BY <1>1, FS_RemoveElement, FS_CardinalityType
<1> QED
  BY <1>1, <1>2 DEF Rest

(* Induction over the subsets of a finite set, one such step at a time.    *)
LEMMA SubsetInduction ==
  ASSUME NEW S, IsFiniteSet(S), NEW Q, {} \in Q,
         \A s \in SUBSET S : s # {} /\ Rest(s) \in Q => s \in Q
  PROVE  S \in Q
<1> DEFINE P == {n \in Nat : \A s \in SUBSET S : Cardinality(s) <= n => s \in Q}
<1>0. \A s \in SUBSET S : IsFiniteSet(s) /\ Cardinality(s) \in Nat
  BY FS_Subset, FS_CardinalityType
<1>1. 0 \in P
  <2>1. ASSUME NEW s \in SUBSET S, Cardinality(s) <= 0 PROVE s \in Q
    <3>1. Cardinality(s) = 0
      BY <1>0, <2>1
    <3>2. s = {}
      BY <1>0, <3>1, FS_EmptySet
    <3> QED
      BY <3>2
  <2> QED
    BY <2>1
<1>2. ASSUME NEW n \in P PROVE n + 1 \in P
  <2>1. ASSUME NEW s \in SUBSET S, Cardinality(s) <= n + 1, s # {} PROVE s \in Q
    <3>1. IsFiniteSet(s)
      BY <1>0
    <3>2. Rest(s) \in SUBSET S /\ Cardinality(Rest(s)) <= n
      <4>1. Rest(s) \in SUBSET S
        BY DEF Rest
      <4>2. Cardinality(Rest(s)) = Cardinality(s) - 1 /\ Cardinality(s) \in Nat
        BY <2>1, <3>1, RestFact
      <4> QED
        BY <2>1, <4>1, <4>2
    <3>3. Rest(s) \in Q
      BY <1>2, <3>2
    <3> QED
      BY <2>1, <3>3
  <2> QED
    BY <2>1
<1>3. P = Nat
  <2> HIDE DEF P
  <2>1. P \in SUBSET Nat
    BY DEF P
  <2> QED
    BY <1>1, <1>2, <2>1, SetInduction
<1>4. Cardinality(S) \in P
  BY <1>0, <1>3
<1> QED
  BY <1>0, <1>4

(* A table of the sums of f over the subsets of S.                         *)
Tallies(g, f, S) ==
  /\ g \in [SUBSET S -> Nat] /\ g[{}] = 0
  /\ \A s \in SUBSET S : s # {} => g[s] = f[Some(s)] + g[Rest(s)]

(* Part of such a table: for the subsets of up to n elements.              *)
TalliesTo(n, g, f, S) ==
  /\ g \in [SUBSET S -> Nat] /\ g[{}] = 0
  /\ \A s \in SUBSET S : s # {} /\ Cardinality(s) <= n => g[s] = f[Some(s)] + g[Rest(s)]

LEMMA TableExists ==
  ASSUME NEW S, IsFiniteSet(S), NEW f \in [S -> Nat]
  PROVE  \E g : Tallies(g, f, S)
<1> DEFINE P == {n \in Nat : \E g : TalliesTo(n, g, f, S)}
<1>0. \A s \in SUBSET S : IsFiniteSet(s) /\ Cardinality(s) \in Nat
  BY FS_Subset, FS_CardinalityType
<1>1. 0 \in P
  <2>1. \A s \in SUBSET S : s # {} => ~ (Cardinality(s) <= 0)
    <3> SUFFICES ASSUME NEW s \in SUBSET S, s # {}, Cardinality(s) <= 0 PROVE FALSE
      OBVIOUS
    <3>1. Cardinality(s) = 0
      BY <1>0
    <3> QED
      BY <1>0, <3>1, FS_EmptySet
  <2>2. TalliesTo(0, [s \in SUBSET S |-> 0], f, S)
    BY <2>1 DEF TalliesTo
  <2> QED
    BY <2>2
<1>2. ASSUME NEW n \in P PROVE n + 1 \in P
  <2>1. PICK g : TalliesTo(n, g, f, S)
    OBVIOUS
  <2> DEFINE h == [s \in SUBSET S |-> IF Cardinality(s) <= n THEN g[s]
                                      ELSE f[Some(s)] + g[Rest(s)]]
  <2>2. \A s \in SUBSET S : s # {} =>
          /\ f[Some(s)] \in Nat /\ Rest(s) \in SUBSET S
          /\ Cardinality(Rest(s)) = Cardinality(s) - 1
    BY <1>0, RestFact
  <2>3. h \in [SUBSET S -> Nat]
    <3>1. ASSUME NEW s \in SUBSET S
          PROVE  (IF Cardinality(s) <= n THEN g[s] ELSE f[Some(s)] + g[Rest(s)]) \in Nat
      <4>1. CASE s = {}
        <5>1. Cardinality(s) <= n
          BY <4>1, FS_EmptySet
        <5> QED
          BY <2>1, <5>1 DEF TalliesTo
      <4>2. CASE s # {}
        BY <2>1, <2>2, <4>2 DEF TalliesTo
      <4> QED
        BY <4>1, <4>2
    <3> QED
      BY <3>1
  <2>4. h[{}] = 0
    BY <2>1, FS_EmptySet DEF TalliesTo
  <2>5. ASSUME NEW s \in SUBSET S, s # {}, Cardinality(s) <= n + 1
        PROVE  h[s] = f[Some(s)] + h[Rest(s)]
    <3>1. /\ Rest(s) \in SUBSET S /\ Cardinality(Rest(s)) = Cardinality(s) - 1
          /\ Cardinality(s) \in Nat
      BY <1>0, <2>2, <2>5
    <3>2. h[Rest(s)] = g[Rest(s)]
      BY <2>5, <3>1
    <3>3. h[s] = f[Some(s)] + g[Rest(s)]
      BY <2>1, <2>5, <3>1 DEF TalliesTo
    <3> QED
      BY <3>2, <3>3
  <2>6. TalliesTo(n + 1, h, f, S)
    <3> HIDE DEF h
    <3> QED
      BY <2>3, <2>4, <2>5 DEF TalliesTo
  <2> HIDE DEF h
  <2> QED
    BY <2>6
<1>3. P = Nat
  <2> HIDE DEF P
  <2>1. P \in SUBSET Nat
    BY DEF P
  <2> QED
    BY <1>1, <1>2, <2>1, SetInduction
<1>4. PICK g : TalliesTo(Cardinality(S), g, f, S)
  BY <1>0, <1>3
<1>5. \A s \in SUBSET S : Cardinality(s) <= Cardinality(S)
  BY FS_Subset
<1>6. Tallies(g, f, S)
  BY <1>4, <1>5 DEF TalliesTo, Tallies
<1> QED
  BY <1>6

(* SumOver is the last entry of that table.                                *)
LEMMA SumFact ==
  ASSUME NEW S, IsFiniteSet(S), NEW f \in [S -> Nat]
  PROVE  \E g : Tallies(g, f, S) /\ SumOver(f) = g[S]
<1> DEFINE Def(g) == [s \in SUBSET S |->
                        IF s = {} THEN 0
                        ELSE f[CHOOSE x \in s : TRUE] + g[s \ {CHOOSE x \in s : TRUE}]]
           iter == CHOOSE g : g = Def(g)
<1>1. PICK g : Tallies(g, f, S)
  BY TableExists
<1>2. g = Def(g)
  BY <1>1 DEF Tallies, Some, Rest
<1>3. iter = Def(iter)
  BY <1>2
<1>4. SumOver(f) = iter[S]
  BY DEF SumOver, FoldFunction, FoldFunctionOnSet, MapThenFoldSet
<1> HIDE DEF iter
<1>5. iter = g
  <2> DEFINE Q == {s \in SUBSET S : iter[s] = g[s]}
  <2>1. {} \in Q
    BY <1>2, <1>3
  <2>2. ASSUME NEW s \in SUBSET S, s # {}, Rest(s) \in Q PROVE s \in Q
    BY <1>2, <1>3, <2>2 DEF Some, Rest
  <2>3. ASSUME NEW t \in SUBSET S PROVE t \in Q
    <3>1. IsFiniteSet(t)
      BY FS_Subset
    <3> HIDE DEF Q
    <3>2. \A s \in SUBSET t : s # {} /\ Rest(s) \in Q => s \in Q
      BY <2>2
    <3> QED
      BY <2>1, <3>1, <3>2, SubsetInduction
  <2>4. \A t \in SUBSET S : iter[t] = g[t]
    BY <2>3
  <2>5. DOMAIN iter = SUBSET S /\ DOMAIN g = SUBSET S
    BY <1>2, <1>3
  <2> QED
    BY <1>2, <1>3, <2>4, <2>5
<1> QED
  BY <1>1, <1>4, <1>5

(* The sum is a natural number.                                            *)
LEMMA SumType ==
  ASSUME NEW S, IsFiniteSet(S), NEW f \in [S -> Nat]
  PROVE  SumOver(f) \in Nat
<1>1. PICK g : Tallies(g, f, S) /\ SumOver(f) = g[S]
  BY SumFact
<1> QED
  BY <1>1 DEF Tallies

(* A smaller term for each makes a smaller sum.                            *)
LEMMA SumMonotone ==
  ASSUME NEW S, IsFiniteSet(S), NEW e \in [S -> Nat], NEW f \in [S -> Nat],
         \A x \in S : e[x] <= f[x]
  PROVE  SumOver(e) <= SumOver(f)
<1>1. PICK g : Tallies(g, e, S) /\ SumOver(e) = g[S]
  BY SumFact
<1>2. PICK h : Tallies(h, f, S) /\ SumOver(f) = h[S]
  BY SumFact
<1> DEFINE Q == {s \in SUBSET S : g[s] <= h[s]}
<1>3. {} \in Q
  BY <1>1, <1>2 DEF Tallies
<1>4. ASSUME NEW s \in SUBSET S, s # {}, Rest(s) \in Q PROVE s \in Q
  <2>1. Some(s) \in S /\ Rest(s) \in SUBSET S
    BY <1>4 DEF Some, Rest
  <2>2. /\ g[s] = e[Some(s)] + g[Rest(s)]
        /\ h[s] = f[Some(s)] + h[Rest(s)]
        /\ g[Rest(s)] \in Nat /\ h[Rest(s)] \in Nat
    BY <1>1, <1>2, <1>4, <2>1 DEF Tallies
  <2>3. /\ e[Some(s)] \in Nat /\ f[Some(s)] \in Nat /\ e[Some(s)] <= f[Some(s)]
        /\ g[Rest(s)] <= h[Rest(s)]
    BY <1>4, <2>1
  <2>4. g[s] <= h[s]
    BY <2>2, <2>3
  <2> QED
    BY <2>4
<1>5. S \in Q
  <2> HIDE DEF Q
  <2> QED
    BY <1>3, <1>4, SubsetInduction
<1> QED
  BY <1>1, <1>2, <1>5

(* The sum of sums, term by term.                                          *)
LEMMA SumPlus ==
  ASSUME NEW S, IsFiniteSet(S), NEW d \in [S -> Nat], NEW e \in [S -> Nat],
         NEW f \in [S -> Nat], \A x \in S : f[x] = d[x] + e[x]
  PROVE  SumOver(f) = SumOver(d) + SumOver(e)
<1>1. PICK g : Tallies(g, d, S) /\ SumOver(d) = g[S]
  BY SumFact
<1>2. PICK h : Tallies(h, e, S) /\ SumOver(e) = h[S]
  BY SumFact
<1>3. PICK k : Tallies(k, f, S) /\ SumOver(f) = k[S]
  BY SumFact
<1> DEFINE Q == {s \in SUBSET S : k[s] = g[s] + h[s]}
<1>4. {} \in Q
  BY <1>1, <1>2, <1>3 DEF Tallies
<1>5. ASSUME NEW s \in SUBSET S, s # {}, Rest(s) \in Q PROVE s \in Q
  <2>1. Some(s) \in S /\ Rest(s) \in SUBSET S
    BY <1>5 DEF Some, Rest
  <2>2. /\ g[s] = d[Some(s)] + g[Rest(s)]
        /\ h[s] = e[Some(s)] + h[Rest(s)]
        /\ k[s] = f[Some(s)] + k[Rest(s)]
        /\ g[Rest(s)] \in Nat /\ h[Rest(s)] \in Nat
    BY <1>1, <1>2, <1>3, <1>5, <2>1 DEF Tallies
  <2>3. /\ d[Some(s)] \in Nat /\ e[Some(s)] \in Nat
        /\ f[Some(s)] = d[Some(s)] + e[Some(s)]
        /\ k[Rest(s)] = g[Rest(s)] + h[Rest(s)]
    BY <1>5, <2>1
  <2>4. k[s] = g[s] + h[s]
    BY <2>2, <2>3
  <2> QED
    BY <2>4
<1>6. S \in Q
  <2> HIDE DEF Q
  <2> QED
    BY <1>4, <1>5, SubsetInduction
<1> QED
  BY <1>1, <1>2, <1>3, <1>6

(* So many terms of at least n add up to at least n times as much.         *)
LEMMA SumCounts ==
  ASSUME NEW S, IsFiniteSet(S), NEW f \in [S -> Nat], NEW n \in Nat,
         NEW T \in SUBSET S, \A x \in T : f[x] >= n
  PROVE  n * Cardinality(T) <= SumOver(f)
<1>1. PICK g : Tallies(g, f, S) /\ SumOver(f) = g[S]
  BY SumFact
<1> DEFINE Q == {s \in SUBSET S : n * Cardinality(s \intersect T) <= g[s]}
<1>2. {} \in Q
  <2>1. {} \intersect T = {} /\ Cardinality({}) = 0 /\ g[{}] = 0
    BY <1>1, FS_EmptySet DEF Tallies
  <2> QED
    BY <2>1
<1>3. ASSUME NEW s \in SUBSET S, s # {}, Rest(s) \in Q PROVE s \in Q
  <2>1. /\ Some(s) \in s /\ Rest(s) \in SUBSET S
        /\ s = Rest(s) \union {Some(s)} /\ Some(s) \notin Rest(s)
    BY <1>3 DEF Some, Rest
  <2>2. /\ g[s] = f[Some(s)] + g[Rest(s)] /\ g[Rest(s)] \in Nat /\ f[Some(s)] \in Nat
        /\ n * Cardinality(Rest(s) \intersect T) <= g[Rest(s)]
    BY <1>1, <1>3, <2>1 DEF Tallies
  <2>3. IsFiniteSet(Rest(s) \intersect T)
    <3>1. Rest(s) \intersect T \in SUBSET S
      BY <2>1
    <3> QED
      BY <3>1, FS_Subset
  <2> DEFINE m == Cardinality(Rest(s) \intersect T)
  <2>4. m \in Nat
    BY <2>3, FS_CardinalityType
  <2>5. CASE Some(s) \in T
    <3>1. s \intersect T = (Rest(s) \intersect T) \union {Some(s)}
      BY <2>1, <2>5
    <3>2. Cardinality(s \intersect T) = m + 1
      BY <2>1, <2>3, <3>1, FS_AddElement
    <3>3. f[Some(s)] >= n
      BY <2>5
    <3> HIDE DEF m
    <3>4. n * (m + 1) = n * m + n /\ n * m \in Int
      BY <2>4
    <3>5. n * Cardinality(s \intersect T) <= g[s]
      BY <2>2, <3>2, <3>3, <3>4 DEF m
    <3> QED
      BY <3>5
  <2>6. CASE Some(s) \notin T
    <3>1. s \intersect T = Rest(s) \intersect T
      BY <2>1, <2>6
    <3>2. n * m <= g[Rest(s)] /\ Cardinality(s \intersect T) = m
      BY <2>2, <3>1
    <3> HIDE DEF m
    <3>4. n * m \in Int
      BY <2>4
    <3>5. n * Cardinality(s \intersect T) <= g[s]
      BY <2>2, <3>2, <3>4
    <3> QED
      BY <3>5
  <2> QED
    BY <2>5, <2>6
<1>4. S \in Q
  <2> HIDE DEF Q
  <2> QED
    BY <1>2, <1>3, SubsetInduction
<1>5. S \intersect T = T
  OBVIOUS
<1> QED
  BY <1>1, <1>4, <1>5

(* Each term is part of the sum.                                           *)
LEMMA SumBound ==
  ASSUME NEW S, IsFiniteSet(S), NEW f \in [S -> Nat], NEW x \in S
  PROVE  f[x] <= SumOver(f)
<1>1. f[x] * Cardinality({x}) <= SumOver(f)
  <2>1. \A y \in {x} : f[y] >= f[x]
    OBVIOUS
  <2>2. f[x] \in Nat /\ {x} \in SUBSET S
    OBVIOUS
  <2> QED
    BY <2>1, <2>2, SumCounts
<1>2. Cardinality({x}) = 1
  BY FS_Singleton
<1> QED
  BY <1>1, <1>2

(* One term more makes the sum one more.                                   *)
LEMMA SumIncrement ==
  ASSUME NEW S, IsFiniteSet(S), NEW e \in [S -> Nat], NEW f \in [S -> Nat], NEW y \in S,
         \A x \in S : f[x] = e[x] + (IF x = y THEN 1 ELSE 0)
  PROVE  SumOver(f) = SumOver(e) + 1
<1>1. PICK g : Tallies(g, e, S) /\ SumOver(e) = g[S]
  BY SumFact
<1>2. PICK h : Tallies(h, f, S) /\ SumOver(f) = h[S]
  BY SumFact
<1> DEFINE Q == {s \in SUBSET S : h[s] = g[s] + (IF y \in s THEN 1 ELSE 0)}
<1>3. {} \in Q
  BY <1>1, <1>2 DEF Tallies
<1>4. ASSUME NEW s \in SUBSET S, s # {}, Rest(s) \in Q PROVE s \in Q
  <2>1. /\ Some(s) \in S /\ Rest(s) \in SUBSET S
        /\ Some(s) \in s /\ \A x : x \in Rest(s) <=> x \in s /\ x # Some(s)
    BY <1>4 DEF Some, Rest
  <2>2. /\ g[s] = e[Some(s)] + g[Rest(s)]
        /\ h[s] = f[Some(s)] + h[Rest(s)]
        /\ g[Rest(s)] \in Nat /\ h[Rest(s)] \in Nat
    BY <1>1, <1>2, <1>4, <2>1 DEF Tallies
  <2>3. /\ e[Some(s)] \in Nat /\ f[Some(s)] \in Nat
        /\ f[Some(s)] = e[Some(s)] + (IF Some(s) = y THEN 1 ELSE 0)
        /\ h[Rest(s)] = g[Rest(s)] + (IF y \in Rest(s) THEN 1 ELSE 0)
    BY <1>4, <2>1
  <2>4. h[s] = g[s] + (IF y \in s THEN 1 ELSE 0)
    <3>1. CASE Some(s) = y
      BY <2>1, <2>2, <2>3, <3>1
    <3>2. CASE Some(s) # y
      BY <2>1, <2>2, <2>3, <3>2
    <3> QED
      BY <3>1, <3>2
  <2> QED
    BY <2>4
<1>5. S \in Q
  <2> HIDE DEF Q
  <2> QED
    BY <1>3, <1>4, SubsetInduction
<1> QED
  BY <1>1, <1>2, <1>5

(* Nothing adds up to nothing.                                             *)
LEMMA SumZero ==
  ASSUME NEW S, IsFiniteSet(S), NEW f \in [S -> Nat], \A x \in S : f[x] = 0
  PROVE  SumOver(f) = 0
<1>1. SumOver(f) = SumOver(f) + SumOver(f)
  BY SumPlus
<1> QED
  BY <1>1, SumType

-----------------------------------------------------------------------------
(* Division.                                                               *)
LEMMA DivModFact ==
  ASSUME NEW L \in Nat \ {0}, NEW m \in Int
  PROVE  /\ m \div L \in Int /\ m % L \in 0..L - 1
         /\ m = L * (m \div L) + (m % L)
OBVIOUS

LEMMA Product ==
  ASSUME NEW L \in Nat \ {0}, NEW e \in Int, e >= 1
  PROVE  L * e >= L
<1>1. L * e = L * (e - 1) + L
  OBVIOUS
<1>2. L * (e - 1) >= 0
  OBVIOUS
<1>3. L * (e - 1) \in Int
  OBVIOUS
<1> QED
  BY <1>1, <1>2, <1>3

(* Quotient and remainder are unique.                                      *)
LEMMA DivModUnique ==
  ASSUME NEW L \in Nat \ {0}, NEW m \in Int, NEW q \in Int, NEW r \in 0..L - 1,
         m = L * q + r
  PROVE  m \div L = q /\ m % L = r
<1>1. /\ m \div L \in Int /\ m % L \in 0..L - 1
      /\ m = L * (m \div L) + (m % L)
  BY DivModFact
<1> DEFINE a == m \div L
           b == m % L
<1> HIDE DEF a, b
<1>2. /\ a \in Int /\ b \in 0..L - 1 /\ L * a + b = L * q + r
  BY <1>1 DEF a, b
<1>3. L * (a - q) = r - b /\ L * (q - a) = b - r
  <2>1. /\ L * (a - q) = L * a - L * q /\ L * (q - a) = L * q - L * a
        /\ L * a \in Int /\ L * q \in Int
    BY <1>2
  <2> QED
    BY <1>2, <2>1
<1>4. ~ (a - q >= 1)
  <2>1. a - q >= 1 => L * (a - q) >= L
    BY <1>2, Product
  <2> QED
    BY <1>2, <1>3, <2>1
<1>5. ~ (q - a >= 1)
  <2>1. q - a >= 1 => L * (q - a) >= L
    BY <1>2, Product
  <2> QED
    BY <1>2, <1>3, <2>1
<1>6. a = q
  BY <1>2, <1>4, <1>5
<1> QED
  BY <1>2, <1>6 DEF a, b

(* The remainder of a number less than one turn away.                      *)
LEMMA ModNear ==
  ASSUME NEW L \in Nat \ {0}, NEW m \in Int
  PROVE  /\ m \in 0..L - 1 => m % L = m
         /\ m + L \in 0..L - 1 => m % L = m + L
         /\ m - L \in 0..L - 1 => m % L = m - L
<1>1. \A q \in Int, r \in 0..L - 1 : m = L * q + r => m % L = r
  BY DivModUnique
<1>2. ASSUME NEW q \in Int, q \in {-1, 0, 1}, m - L * q \in 0..L - 1
      PROVE  m % L = m - L * q
  <2> DEFINE r == m - L * q
  <2>1. m = L * q + r /\ r \in 0..L - 1
    <3>1. L * q \in Int
      OBVIOUS
    <3> QED
      BY <1>2, <3>1
  <2> HIDE DEF r
  <2>2. m % L = r
    BY <1>1, <2>1
  <2> QED
    BY <2>2 DEF r
<1>3. L * 0 = 0 /\ L * (-1) = -L /\ L * 1 = L
  OBVIOUS
<1>4. m \in 0..L - 1 => m % L = m
  BY <1>2, <1>3
<1>5. m + L \in 0..L - 1 => m % L = m + L
  BY <1>2, <1>3
<1>6. m - L \in 0..L - 1 => m % L = m - L
  BY <1>2, <1>3
<1> QED
  BY <1>4, <1>5, <1>6

(* Counting on by one.                                                     *)
LEMMA DivModNext ==
  ASSUME NEW L \in Nat \ {0}, NEW m \in Nat
  PROVE  /\ (m + 1) % L = IF m % L = L - 1 THEN 0 ELSE (m % L) + 1
         /\ (m + 1) \div L = (m \div L) + (IF m % L = L - 1 THEN 1 ELSE 0)
<1> DEFINE a == m \div L
           b == m % L
<1>1. a \in Int /\ b \in 0..L - 1 /\ m = L * a + b
  BY DivModFact
<1> HIDE DEF a, b
<1>2. CASE b = L - 1
  <2>1. m + 1 = L * (a + 1) + 0
    <3>1. L * (a + 1) = L * a + L /\ L * a \in Int
      BY <1>1
    <3> QED
      BY <1>1, <1>2, <3>1
  <2>2. 0 \in 0..L - 1 /\ a + 1 \in Int /\ m + 1 \in Int
    BY <1>1
  <2>3. (m + 1) \div L = a + 1 /\ (m + 1) % L = 0
    BY <2>1, <2>2, DivModUnique
  <2> QED
    BY <1>2, <2>3 DEF a, b
<1>3. CASE b # L - 1
  <2>1. m + 1 = L * a + (b + 1)
    BY <1>1
  <2>2. b + 1 \in 0..L - 1 /\ a \in Int /\ m + 1 \in Int
    BY <1>1, <1>3
  <2>3. (m + 1) \div L = a /\ (m + 1) % L = b + 1
    BY <2>1, <2>2, DivModUnique
  <2> QED
    BY <1>1, <1>3, <2>3 DEF a, b
<1> QED
  BY <1>2, <1>3

-----------------------------------------------------------------------------
LEMMA LastFact == Last \in Nat /\ 0 \in Hole /\ Last \in Hole
BY RingAssumption DEF Last, Hole

(* The recursive definition of the prefix sums has a solution.             *)
LEMMA PrefixSumsFact ==
  ASSUME NEW row \in Row
  PROVE  /\ PrefixSums(row) \in [Hole -> Nat]
         /\ PrefixSums(row)[0] = row[0]
         /\ \A h \in 1..Last : PrefixSums(row)[h] = PrefixSums(row)[h - 1] + row[h]
<1> DEFINE here(i) == IF i \in Hole THEN row[i] ELSE 0
           step == [i \in Nat |-> [x \in Nat |-> x + here(i)]]
           Def(g) == [h \in Hole |-> IF h = 0 THEN row[0] ELSE g[h - 1] + row[h]]
           sums == CHOOSE g : g = Def(g)
<1>1. row[0] \in Nat
  BY LastFact DEF Row
<1>2. step \in [Nat -> [Nat -> Nat]]
  <2>1. ASSUME NEW i \in Nat PROVE here(i) \in Nat
    BY DEF Row
  <2> QED
    BY <2>1
<1>3. PICK g : IsTable(g, Nat, row[0], step, Last)
  <2> HIDE DEF step
  <2> QED
    BY <1>1, <1>2, LastFact, FiniteRecursion
<1>4. g \in [Hole -> Nat] /\ g[0] = row[0]
  BY <1>3 DEF IsTable, Hole
<1>5. ASSUME NEW i \in 1..Last PROVE g[i] = g[i - 1] + row[i]
  <2>1. i \in Nat /\ i \in Hole /\ i - 1 \in Hole
    BY LastFact DEF Hole
  <2>2. g[i] = step[i][g[i - 1]]
    BY <1>3 DEF IsTable
  <2>3. g[i - 1] \in Nat
    BY <2>1, <1>4
  <2>4. step[i][g[i - 1]] = g[i - 1] + here(i)
    BY <2>1, <2>3
  <2> QED
    BY <2>1, <2>2, <2>4
<1>6. \A h \in Hole : h # 0 => h \in 1..Last
  BY LastFact DEF Hole
<1>7. g = Def(g)
  BY <1>4, <1>5, <1>6
<1>8. sums = Def(sums)
  BY <1>7
<1>9. PrefixSums(row) = sums
  BY DEF PrefixSums
<1> HIDE DEF sums
<1>10. ASSUME NEW h \in 1..Last
       PROVE  h \in Hole /\ h # 0 /\ h - 1 \in Hole
  BY LastFact DEF Hole
<1>11. sums[0] = row[0] /\ \A h \in 1..Last : sums[h] = sums[h - 1] + row[h]
  BY <1>8, <1>10, LastFact
<1>12. \A h \in Hole : sums[h] \in Nat
  <2> DEFINE P == {n \in Nat : n \in Hole => sums[n] \in Nat}
  <2>1. 0 \in P
    BY <1>11, <1>1
  <2>2. ASSUME NEW n \in P PROVE n + 1 \in P
    <3> SUFFICES ASSUME n + 1 \in Hole PROVE sums[n + 1] \in Nat
      OBVIOUS
    <3>1. n \in Hole /\ n + 1 \in 1..Last /\ (n + 1) - 1 = n
      BY LastFact DEF Hole
    <3>2. sums[n + 1] = sums[n] + row[n + 1]
      BY <1>11, <3>1
    <3>3. row[n + 1] \in Nat
      BY DEF Row
    <3> QED
      BY <3>1, <3>2, <3>3
  <2>3. P = Nat
    <3> HIDE DEF P
    <3>1. P \subseteq Nat
      BY DEF P
    <3> QED
      BY <2>1, <2>2, <3>1, SetInduction
  <2> QED
    BY <2>3 DEF Hole
<1>13. sums \in [Hole -> Nat]
  BY <1>8, <1>12
<1> QED
  BY <1>9, <1>11, <1>13

(* A row holds a natural number of korgools, no fewer than any one hole.   *)
LEMMA RowSumBounds ==
  ASSUME NEW row \in Row
  PROVE  /\ RowSum(row) \in Nat
         /\ \A h \in Hole : row[h] <= RowSum(row)
<1> DEFINE sums == PrefixSums(row)
           P == {n \in Nat : n \in Hole => \A h \in 0..n : row[h] <= sums[n]}
<1>1. /\ sums \in [Hole -> Nat] /\ sums[0] = row[0]
      /\ \A h \in 1..Last : sums[h] = sums[h - 1] + row[h]
  BY PrefixSumsFact
<1> HIDE DEF sums
<1>2. 0 \in P
  BY <1>1, LastFact DEF Row
<1>3. ASSUME NEW n \in P PROVE n + 1 \in P
  <2> SUFFICES ASSUME n + 1 \in Hole, NEW h \in 0..n + 1 PROVE row[h] <= sums[n + 1]
    OBVIOUS
  <2>1. n \in Hole /\ n + 1 \in 1..Last /\ (n + 1) - 1 = n
    BY LastFact DEF Hole
  <2>2. sums[n + 1] = sums[n] + row[n + 1] /\ sums[n] \in Nat /\ row[n + 1] \in Nat
    BY <1>1, <2>1 DEF Row
  <2>3. CASE h = n + 1
    BY <2>2, <2>3
  <2>4. CASE h # n + 1
    <3>1. h \in 0..n /\ h \in Hole
      BY <2>4, <2>1, LastFact DEF Hole
    <3>2. row[h] <= sums[n] /\ row[h] \in Nat
      BY <3>1, <2>1 DEF Row
    <3> QED
      BY <3>2, <2>2
  <2> QED
    BY <2>3, <2>4
<1>4. P = Nat
  <2> HIDE DEF P
  <2>1. P \subseteq Nat
    BY DEF P
  <2> QED
    BY <1>2, <1>3, <2>1, SetInduction
<1>5. Last \in P /\ Last \in Hole
  BY <1>4, LastFact
<1> QED
  BY <1>1, <1>5 DEF RowSum, sums, Hole

(* Changing one hole changes the sum by as much.                           *)
LEMMA RowSumExcept ==
  ASSUME NEW row \in Row, NEW k \in Hole, NEW v \in Nat
  PROVE  /\ [row EXCEPT ![k] = v] \in Row
         /\ RowSum([row EXCEPT ![k] = v]) = RowSum(row) - row[k] + v
<1> DEFINE new == [row EXCEPT ![k] = v]
           old == PrefixSums(row)
           sums == PrefixSums(new)
           P == {n \in Nat : n \in Hole =>
                   sums[n] = IF n < k THEN old[n] ELSE old[n] - row[k] + v}
<1>1. new \in Row /\ row[k] \in Nat
  BY DEF Row
<1>2. /\ old \in [Hole -> Nat] /\ old[0] = row[0]
      /\ \A h \in 1..Last : old[h] = old[h - 1] + row[h]
  BY PrefixSumsFact
<1>3. /\ sums \in [Hole -> Nat] /\ sums[0] = new[0]
      /\ \A h \in 1..Last : sums[h] = sums[h - 1] + new[h]
  BY <1>1, PrefixSumsFact
<1>4. \A h \in Hole : new[h] = IF h = k THEN v ELSE row[h]
  BY DEF Row
<1> HIDE DEF new, old, sums
<1>5. 0 \in P
  BY <1>1, <1>2, <1>3, <1>4, LastFact DEF Row, Hole
<1>6. ASSUME NEW n \in P PROVE n + 1 \in P
  <2> SUFFICES ASSUME n + 1 \in Hole
               PROVE  sums[n + 1] = IF n + 1 < k THEN old[n + 1]
                                                 ELSE old[n + 1] - row[k] + v
    OBVIOUS
  <2>1. n \in Hole /\ n + 1 \in 1..Last /\ (n + 1) - 1 = n
    BY LastFact DEF Hole
  <2>2. sums[n + 1] = sums[n] + new[n + 1] /\ old[n + 1] = old[n] + row[n + 1]
    BY <1>2, <1>3, <2>1
  <2>3. row[n + 1] \in Nat /\ old[n] \in Nat /\ k \in Nat
    BY <1>2, <2>1, LastFact DEF Row, Hole
  <2>4. CASE n + 1 = k
    BY <2>1, <2>2, <2>3, <2>4, <1>1, <1>4
  <2>5. CASE n + 1 # k
    BY <2>1, <2>2, <2>3, <2>5, <1>1, <1>4
  <2> QED
    BY <2>4, <2>5
<1>7. P = Nat
  <2> HIDE DEF P
  <2>1. P \subseteq Nat
    BY DEF P
  <2> QED
    BY <1>5, <1>6, <2>1, SetInduction
<1>8. sums[Last] = old[Last] - row[k] + v
  <2>1. Last \in P /\ Last \in Hole /\ ~ (Last < k)
    BY <1>7, LastFact DEF Hole
  <2> QED
    BY <2>1
<1> QED
  BY <1>1, <1>8 DEF RowSum, old, sums, new

(* Rows of equal holes: the stock of the starting position.                *)
LEMMA StartRowSum ==
  RowSum([h \in Hole |-> Seeds]) = Half
<1> DEFINE row == [h \in Hole |-> Seeds]
           sums == PrefixSums(row)
           P == {n \in Nat : n \in Hole => sums[n] = (n + 1) * Seeds}
<1>1. row \in Row /\ Seeds \in Nat /\ \A h \in Hole : row[h] = Seeds
  BY RingAssumption DEF Row
<1>2. /\ sums \in [Hole -> Nat] /\ sums[0] = row[0]
      /\ \A h \in 1..Last : sums[h] = sums[h - 1] + row[h]
  BY <1>1, PrefixSumsFact
<1> HIDE DEF row, sums
<1>3. 0 \in P
  BY <1>1, <1>2, LastFact
<1>4. ASSUME NEW n \in P PROVE n + 1 \in P
  <2> SUFFICES ASSUME n + 1 \in Hole PROVE sums[n + 1] = ((n + 1) + 1) * Seeds
    OBVIOUS
  <2>1. n \in Hole /\ n + 1 \in 1..Last /\ (n + 1) - 1 = n
    BY LastFact DEF Hole
  <2>2. sums[n + 1] = (n + 1) * Seeds + Seeds
    BY <1>1, <1>2, <2>1
  <2>3. \A a, b \in Nat : (a + 1) * b = a * b + b
    OBVIOUS
  <2> QED
    BY <1>1, <2>2, <2>3
<1>5. P = Nat
  <2> HIDE DEF P
  <2>1. P \subseteq Nat
    BY DEF P
  <2> QED
    BY <1>3, <1>4, <2>1, SetInduction
<1>6. sums[Last] = (Last + 1) * Seeds
  <2>1. Last \in P /\ Last \in Hole
    BY <1>5, LastFact
  <2> QED
    BY <2>1
<1>7. Last + 1 = NHoles
  BY RingAssumption DEF Last
<1> QED
  BY <1>6, <1>7 DEF RowSum, Half, sums, row

-----------------------------------------------------------------------------
(* All the korgools of the game.                                           *)
Korgools(holes, kazans) == OnBoard(holes) + InKazans(kazans)

LEMMA OnBoardType ==
  ASSUME NEW holes \in Holes
  PROVE  OnBoard(holes) \in Nat
<1>1. holes["top"] \in Row /\ holes["down"] \in Row
  BY DEF Holes, Side
<1> QED
  BY <1>1, RowSumBounds DEF OnBoard

(* Changing one hole of a board changes its korgools by as much.           *)
LEMMA OnBoardExcept ==
  ASSUME NEW holes \in Holes, NEW side \in Side, NEW k \in Hole, NEW v \in Nat
  PROVE  /\ SetHole(holes, side, k, v) \in Holes
         /\ OnBoard(SetHole(holes, side, k, v)) = OnBoard(holes) - holes[side][k] + v
         /\ \A z \in Side, h \in Hole :
              SetHole(holes, side, k, v)[z][h]
                = IF z = side /\ h = k THEN v ELSE holes[z][h]
<1> DEFINE new == [holes EXCEPT ![side][k] = v]
           changed == [holes[side] EXCEPT ![k] = v]
<1>1. holes["top"] \in Row /\ holes["down"] \in Row /\ holes[side] \in Row
  BY DEF Holes, Side
<1>2. changed \in Row /\ RowSum(changed) = RowSum(holes[side]) - holes[side][k] + v
  BY <1>1, RowSumExcept
<1>3. /\ RowSum(holes["top"]) \in Nat /\ RowSum(holes["down"]) \in Nat
      /\ holes[side][k] \in Nat
  BY <1>1, RowSumBounds DEF Row
<1>4. new = [holes EXCEPT ![side] = changed]
  BY DEF Holes
<1>5. new \in Holes /\ \A z \in Side : new[z] = IF z = side THEN changed ELSE holes[z]
  <2> HIDE DEF new, changed
  <2> QED
    BY <1>1, <1>2, <1>4 DEF Holes
<1>6. \A h \in Hole : changed[h] = IF h = k THEN v ELSE holes[side][h]
  BY <1>1 DEF Row
<1> HIDE DEF new, changed
<1>7. OnBoard(new) = OnBoard(holes) - holes[side][k] + v
  BY <1>2, <1>3, <1>5 DEF OnBoard, Side
<1>8. \A z \in Side, h \in Hole :
         new[z][h] = IF z = side /\ h = k THEN v ELSE holes[z][h]
  BY <1>5, <1>6
<1> QED
  BY <1>5, <1>7, <1>8 DEF new, SetHole

LEMMA InKazansExcept ==
  ASSUME NEW kazans \in Kazans, NEW p \in Side, NEW v \in Nat
  PROVE  /\ Credit(kazans, p, v) \in Kazans
         /\ InKazans(Credit(kazans, p, v)) = InKazans(kazans) + v
         /\ \A q \in Side :
              Credit(kazans, p, v)[q] = kazans[q] + (IF q = p THEN v ELSE 0)
BY DEF Kazans, InKazans, Side, Credit

LEMMA NextPlaceType ==
  ASSUME NEW side \in Side, NEW pos \in Hole
  PROVE  NextPlace(side, pos).side \in Side /\ NextPlace(side, pos).pos \in Hole
BY LastFact DEF NextPlace, Side, Hole

(* A korgool that stays in a hole is not at the index of any tuz.          *)
LEMMA TakerFact ==
  ASSUME NEW tuz \in Tuzes, NEW side \in Side, NEW pos \in Hole
  PROVE  LET taker == Taker(tuz, side, pos)
         IN  /\ taker \in Side \union {"none"}
             /\ taker \notin Side => \A p \in Side : tuz[p] # pos
<1>1. Opponent(side) \in Side /\ \A p \in Side : p = side \/ p = Opponent(side)
  BY DEF Opponent, Side
<1> QED
  BY <1>1 DEF Taker

(***************************************************************************)
(* What sowing n korgools does to a board, whatever the route: they are    *)
(* all on the board or in a kazan, no kazan shrinks, and no hole with the  *)
(* index of a tuz gets one.                                                *)
(***************************************************************************)
Sows(tuz, s, n, d) ==
  /\ d \in Sowing
  /\ Korgools(d.holes, d.kazans) = Korgools(s.holes, s.kazans) + n
  /\ \A p \in Side : d.kazans[p] >= s.kazans[p]
  /\ \A p, z \in Side : tuz[p] # NoTuz => d.holes[z][tuz[p]] = s.holes[z][tuz[p]]

LEMMA DropSowsOne ==
  ASSUME NEW tuz \in Tuzes, NEW s \in Sowing
  PROVE  Sows(tuz, s, 1, Drop(tuz, s))
<1> DEFINE next == NextPlace(s.side, s.pos)
           taker == Taker(tuz, next.side, next.pos)
<1>1. s.holes \in Holes /\ s.kazans \in Kazans /\ s.side \in Side /\ s.pos \in Hole
  BY DEF Sowing
<1>2. next.side \in Side /\ next.pos \in Hole
  BY <1>1, NextPlaceType
<1>3. /\ taker \in Side \union {"none"}
      /\ taker \notin Side => \A p \in Side : tuz[p] # next.pos
  BY <1>2, TakerFact
<1>4. OnBoard(s.holes) \in Nat /\ InKazans(s.kazans) \in Nat
  BY <1>1, OnBoardType DEF InKazans, Kazans, Side
<1>5. \A p \in Side : s.kazans[p] \in Nat
  BY <1>1 DEF Kazans
<1>6. CASE taker \in Side
  <2> DEFINE kazans == Credit(s.kazans, taker, 1)
             d == [holes |-> s.holes, kazans |-> kazans,
                   side |-> next.side, pos |-> next.pos]
  <2>1. Drop(tuz, s) = d
    BY <1>1, <1>6 DEF Drop, Sowing
  <2>2. /\ kazans \in Kazans /\ InKazans(kazans) = InKazans(s.kazans) + 1
        /\ \A q \in Side : kazans[q] = s.kazans[q] + (IF q = taker THEN 1 ELSE 0)
    BY <1>1, <1>6, InKazansExcept
  <2> HIDE DEF next, taker, kazans
  <2>3. d \in Sowing
    BY <1>1, <1>2, <2>2 DEF Sowing
  <2>4. Korgools(d.holes, d.kazans) = Korgools(s.holes, s.kazans) + 1
    BY <1>4, <2>2 DEF Korgools
  <2>5. \A q \in Side : d.kazans[q] >= s.kazans[q]
    BY <1>5, <2>2
  <2> QED
    BY <2>1, <2>3, <2>4, <2>5 DEF Sows
<1>7. CASE taker \notin Side
  <2> DEFINE old == s.holes[next.side][next.pos]
             holes == SetHole(s.holes, next.side, next.pos, old + 1)
             d == [holes |-> holes, kazans |-> s.kazans,
                   side |-> next.side, pos |-> next.pos]
  <2>1. Drop(tuz, s) = d
    BY <1>1, <1>7 DEF Drop, Sowing
  <2>2. old \in Nat
    BY <1>1, <1>2 DEF Holes, Row
  <2>3. old + 1 \in Nat
    BY <2>2
  <2>4. /\ holes \in Holes /\ OnBoard(holes) = OnBoard(s.holes) - old + (old + 1)
        /\ \A z \in Side, h \in Hole :
             holes[z][h] = IF z = next.side /\ h = next.pos THEN old + 1 ELSE s.holes[z][h]
    <3> HIDE DEF next
    <3>1. \A v \in Nat :
            /\ SetHole(s.holes, next.side, next.pos, v) \in Holes
            /\ OnBoard(SetHole(s.holes, next.side, next.pos, v))
                 = OnBoard(s.holes) - s.holes[next.side][next.pos] + v
            /\ \A z \in Side, h \in Hole :
                 SetHole(s.holes, next.side, next.pos, v)[z][h]
                   = IF z = next.side /\ h = next.pos THEN v ELSE s.holes[z][h]
      BY <1>1, <1>2, OnBoardExcept
    <3>2. old = s.holes[next.side][next.pos]
      OBVIOUS
    <3> HIDE DEF old
    <3> QED
      BY <2>3, <3>1, <3>2
  <2> HIDE DEF next, taker, holes, old
  <2>5. d \in Sowing
    BY <1>1, <1>2, <2>4 DEF Sowing
  <2>6. Korgools(d.holes, d.kazans) = Korgools(s.holes, s.kazans) + 1
    BY <1>4, <2>2, <2>4 DEF Korgools
  <2>7. \A p, z \in Side : tuz[p] # NoTuz => d.holes[z][tuz[p]] = s.holes[z][tuz[p]]
    BY <1>3, <1>7, <2>4 DEF Tuzes
  <2>8. \A q \in Side : d.kazans[q] >= s.kazans[q]
    BY <1>5
  <2> QED
    BY <2>1, <2>5, <2>6, <2>7, <2>8 DEF Sows
<1> QED
  BY <1>6, <1>7

LEMMA SowingTypes ==
  ASSUME NEW s \in Sowing
  PROVE  /\ s.holes \in Holes /\ s.kazans \in Kazans
         /\ s.side \in Side /\ s.pos \in Hole
         /\ Korgools(s.holes, s.kazans) \in Nat
         /\ \A p \in Side : s.kazans[p] \in Nat
<1>1. /\ s.holes \in Holes /\ s.kazans \in Kazans
      /\ s.side \in Side /\ s.pos \in Hole
  BY DEF Sowing
<1>2. OnBoard(s.holes) \in Nat
  BY <1>1, OnBoardType
<1>3. \A p \in Side : s.kazans[p] \in Nat
  BY <1>1 DEF Kazans
<1>4. InKazans(s.kazans) \in Nat
  BY <1>3 DEF InKazans, Side
<1> QED
  BY <1>1, <1>2, <1>3, <1>4 DEF Korgools

LEMMA SowsOneMore ==
  ASSUME NEW tuz \in Tuzes, NEW s \in Sowing, NEW i \in Nat, NEW d,
         Sows(tuz, s, i, d)
  PROVE  Sows(tuz, s, i + 1, Drop(tuz, d))
<1> DEFINE e == Drop(tuz, d)
<1>1. d \in Sowing
  BY DEF Sows
<1>2. Sows(tuz, d, 1, e)
  BY <1>1, DropSowsOne
<1>3. e \in Sowing
  BY <1>2 DEF Sows
<1> HIDE DEF e
<1>4. Korgools(e.holes, e.kazans) = Korgools(s.holes, s.kazans) + (i + 1)
  BY <1>1, <1>2, <1>3, SowingTypes DEF Sows
<1>5. \A p \in Side : e.kazans[p] >= s.kazans[p]
  <2> SUFFICES ASSUME NEW p \in Side PROVE e.kazans[p] >= s.kazans[p]
    OBVIOUS
  <2>1. e.kazans[p] >= d.kazans[p] /\ d.kazans[p] >= s.kazans[p]
    BY <1>2 DEF Sows
  <2>2. e.kazans[p] \in Nat /\ d.kazans[p] \in Nat /\ s.kazans[p] \in Nat
    BY <1>1, <1>3, SowingTypes
  <2> QED
    BY <2>1, <2>2
<1>6. \A p, z \in Side : tuz[p] # NoTuz => e.holes[z][tuz[p]] = s.holes[z][tuz[p]]
  BY <1>2 DEF Sows
<1> QED
  BY <1>3, <1>4, <1>5, <1>6 DEF Sows, e

(* The boards of a sowing, one after each korgool.                         *)
LEMMA SowTable ==
  ASSUME NEW tuz \in Tuzes, NEW s \in Sowing, NEW n \in Nat
  PROVE  \E after : /\ after[0] = s /\ Sow(tuz, s, n) = after[n]
                    /\ \A i \in 0..n : i # 0 => after[i] = Drop(tuz, after[i - 1])
<1> DEFINE step == [i \in Nat |-> [x \in Sowing |-> Drop(tuz, x)]]
           Def(g) == [i \in 0..n |-> IF i = 0 THEN s ELSE Drop(tuz, g[i - 1])]
           after == CHOOSE g : g = Def(g)
<1>1. step \in [Nat -> [Sowing -> Sowing]]
  BY DropSowsOne DEF Sows
<1>2. PICK g : IsTable(g, Sowing, s, step, n)
  <2> HIDE DEF step
  <2> QED
    BY <1>1, FiniteRecursion
<1>3. g = Def(g)
  <2>1. g \in [0..n -> Sowing] /\ g[0] = s
    BY <1>2 DEF IsTable
  <2>2. ASSUME NEW i \in 0..n, i # 0 PROVE g[i] = Drop(tuz, g[i - 1])
    <3>1. i \in 1..n /\ i \in Nat /\ i - 1 \in 0..n
      BY <2>2
    <3>2. g[i] = step[i][g[i - 1]] /\ g[i - 1] \in Sowing
      BY <1>2, <2>1, <3>1 DEF IsTable
    <3> QED
      BY <3>1, <3>2
  <2> QED
    BY <2>1, <2>2
<1>4. after = Def(after)
  BY <1>3
<1>5. Sow(tuz, s, n) = after[n]
  BY DEF Sow
<1> HIDE DEF after
<1>6. after[0] = s /\ \A i \in 0..n : i # 0 => after[i] = Drop(tuz, after[i - 1])
  BY <1>4
<1> QED
  BY <1>5, <1>6

(* distribute_korgools, whatever the number of korgools.                   *)
LEMMA SowSows ==
  ASSUME NEW tuz \in Tuzes, NEW s \in Sowing, NEW n \in Nat
  PROVE  Sows(tuz, s, n, Sow(tuz, s, n))
<1>1. PICK after : /\ after[0] = s /\ Sow(tuz, s, n) = after[n]
                   /\ \A i \in 0..n : i # 0 => after[i] = Drop(tuz, after[i - 1])
  BY SowTable
<1> DEFINE P == {i \in Nat : i \in 0..n => Sows(tuz, s, i, after[i])}
<1>2. 0 \in P
  BY <1>1, SowingTypes DEF Sows
<1>3. ASSUME NEW i \in P PROVE i + 1 \in P
  <2> SUFFICES ASSUME i + 1 \in 0..n PROVE Sows(tuz, s, i + 1, after[i + 1])
    OBVIOUS
  <2>1. i \in Nat /\ Sows(tuz, s, i, after[i])
    OBVIOUS
  <2>2. after[i + 1] = Drop(tuz, after[i])
    <3>1. i + 1 # 0 /\ (i + 1) - 1 = i
      BY <2>1
    <3> QED
      BY <1>1, <3>1
  <2> QED
    BY <2>1, <2>2, SowsOneMore
<1>4. P = Nat
  <2> HIDE DEF P
  <2>1. P \subseteq Nat
    BY DEF P
  <2> QED
    BY <1>2, <1>3, <2>1, SetInduction
<1>5. n \in P
  BY <1>4
<1> QED
  BY <1>1, <1>5

(* Where nobody has a tuz a sowing leaves the kazans alone.                *)
LEMMA SowWithoutTuz ==
  ASSUME NEW tuz \in Tuzes, \A p \in Side : tuz[p] = NoTuz,
         NEW s \in Sowing, NEW n \in Nat
  PROVE  Sow(tuz, s, n).kazans = s.kazans
<1>1. PICK after : /\ after[0] = s /\ Sow(tuz, s, n) = after[n]
                   /\ \A i \in 0..n : i # 0 => after[i] = Drop(tuz, after[i - 1])
  BY SowTable
<1>2. ASSUME NEW d \in Sowing
      PROVE  Drop(tuz, d) \in Sowing /\ Drop(tuz, d).kazans = d.kazans
  <2> DEFINE next == NextPlace(d.side, d.pos)
             taker == Taker(tuz, next.side, next.pos)
  <2>1. next.side \in Side /\ next.pos \in Hole
    BY SowingTypes, NextPlaceType
  <2>2. next.pos # NoTuz
    BY <2>1 DEF Hole, NoTuz
  <2>3. taker = "none"
    BY <2>1, <2>2 DEF Taker, Opponent, Side
  <2>4. taker \notin Side
    BY <2>3 DEF Side
  <2>5. Drop(tuz, d).kazans = d.kazans
    BY <2>4 DEF Drop, Sowing
  <2> QED
    BY <2>5, DropSowsOne DEF Sows
<1> DEFINE P == {i \in Nat : i \in 0..n => after[i] \in Sowing /\ after[i].kazans = s.kazans}
<1>3. 0 \in P
  BY <1>1
<1>4. ASSUME NEW i \in P PROVE i + 1 \in P
  <2> SUFFICES ASSUME i + 1 \in 0..n
               PROVE  after[i + 1] \in Sowing /\ after[i + 1].kazans = s.kazans
    OBVIOUS
  <2>1. i \in Nat /\ after[i] \in Sowing /\ after[i].kazans = s.kazans
    OBVIOUS
  <2>2. after[i + 1] = Drop(tuz, after[i])
    <3>1. i + 1 # 0 /\ (i + 1) - 1 = i
      BY <2>1
    <3> QED
      BY <1>1, <3>1
  <2> QED
    BY <1>2, <2>1, <2>2
<1>5. P = Nat
  <2> HIDE DEF P
  <2>1. P \subseteq Nat
    BY DEF P
  <2> QED
    BY <1>3, <1>4, <2>1, SetInduction
<1>6. n \in P
  BY <1>5
<1> QED
  BY <1>1, <1>6

-----------------------------------------------------------------------------
(* Lifting the korgools of the chosen hole takes just them off the board.  *)
LEMMA LiftFact ==
  ASSUME NEW holes \in Holes, NEW kazans \in Kazans,
         NEW player \in Side, NEW pos \in Hole
  PROVE  LET s == Lift(holes, kazans, player, pos)
         IN  /\ s \in Sowing
             /\ s.kazans = kazans
             /\ holes[player][pos] \in Nat
             /\ Korgools(s.holes, kazans) + holes[player][pos] = Korgools(holes, kazans)
             /\ \A z \in Side, h \in Hole : s.holes[z][h] <= holes[z][h]
<1> DEFINE s == Lift(holes, kazans, player, pos)
           new == SetHole(holes, player, pos, 0)
<1>1. s = [holes |-> new, kazans |-> kazans, side |-> player, pos |-> pos]
  BY DEF Lift
<1>2. /\ new \in Holes
      /\ OnBoard(new) = OnBoard(holes) - holes[player][pos] + 0
      /\ \A z \in Side, h \in Hole :
           new[z][h] = IF z = player /\ h = pos THEN 0 ELSE holes[z][h]
  BY OnBoardExcept
<1>3. \A z \in Side, h \in Hole : holes[z][h] \in Nat
  BY DEF Holes, Row
<1> HIDE DEF s, new
<1>4. s \in Sowing /\ s.holes = new /\ s.kazans = kazans
  BY <1>1, <1>2 DEF Sowing
<1>5. OnBoard(holes) \in Nat /\ OnBoard(new) \in Nat /\ InKazans(kazans) \in Nat
  BY <1>2, OnBoardType DEF InKazans, Kazans, Side
<1>6. Korgools(new, kazans) + holes[player][pos] = Korgools(holes, kazans)
  BY <1>2, <1>3, <1>5 DEF Korgools
<1>7. \A z \in Side, h \in Hole : new[z][h] <= holes[z][h]
  BY <1>2, <1>3
<1> QED
  BY <1>3, <1>4, <1>6, <1>7 DEF s

(* Taking the last hole moves its korgools to the kazan and empties it.    *)
LEMMA CollectFact ==
  ASSUME NEW s \in Sowing, NEW player \in Side
  PROVE  LET c == Collect(s, player)
         IN  /\ c \in Sowing
             /\ Korgools(c.holes, c.kazans) = Korgools(s.holes, s.kazans)
             /\ \A p \in Side : c.kazans[p] >= s.kazans[p]
             /\ \A z \in Side, h \in Hole : c.holes[z][h] <= s.holes[z][h]
             /\ c.holes[s.side][s.pos] = 0
             /\ c.side = s.side /\ c.pos = s.pos
<1> DEFINE n == InLastHole(s)
           holes == SetHole(s.holes, s.side, s.pos, 0)
           kazans == Credit(s.kazans, player, n)
           c == Collect(s, player)
<1>1. /\ s.holes \in Holes /\ s.kazans \in Kazans
      /\ s.side \in Side /\ s.pos \in Hole
      /\ \A p \in Side : s.kazans[p] \in Nat
  BY SowingTypes
<1>2. \A z \in Side, h \in Hole : s.holes[z][h] \in Nat
  BY <1>1 DEF Holes, Row
<1>3. n \in Nat /\ n = s.holes[s.side][s.pos]
  BY <1>1, <1>2 DEF InLastHole
<1>4. c = [holes |-> holes, kazans |-> kazans, side |-> s.side, pos |-> s.pos]
  <2> HIDE DEF n
  <2>1. s = [holes |-> s.holes, kazans |-> s.kazans, side |-> s.side, pos |-> s.pos]
    BY DEF Sowing
  <2>2. c = [s EXCEPT !.kazans = kazans, !.holes = holes]
    BY DEF Collect, n
  <2> HIDE DEF c, kazans, holes
  <2> QED
    BY <2>1, <2>2
<1>5. /\ holes \in Holes
      /\ OnBoard(holes) = OnBoard(s.holes) - s.holes[s.side][s.pos] + 0
      /\ \A z \in Side, h \in Hole :
           holes[z][h] = IF z = s.side /\ h = s.pos THEN 0 ELSE s.holes[z][h]
  BY <1>1, OnBoardExcept
<1> HIDE DEF n
<1>6. /\ kazans \in Kazans /\ InKazans(kazans) = InKazans(s.kazans) + n
      /\ \A q \in Side : kazans[q] = s.kazans[q] + (IF q = player THEN n ELSE 0)
  <2> HIDE DEF holes, c
  <2>1. s.kazans \in Kazans /\ n \in Nat
    BY <1>1, <1>3
  <2> QED
    BY <2>1, InKazansExcept
<1> HIDE DEF holes, kazans, c
<1>7. /\ c \in Sowing /\ c.holes = holes /\ c.kazans = kazans
      /\ c.side = s.side /\ c.pos = s.pos
  BY <1>1, <1>4, <1>5, <1>6 DEF Sowing
<1>8. /\ OnBoard(s.holes) \in Nat /\ OnBoard(holes) \in Nat
      /\ InKazans(s.kazans) \in Nat
  BY <1>1, <1>5, OnBoardType DEF InKazans, Side
<1>9. Korgools(holes, kazans) = Korgools(s.holes, s.kazans)
  BY <1>3, <1>5, <1>6, <1>8 DEF Korgools
<1>10. \A p \in Side : kazans[p] >= s.kazans[p]
  BY <1>1, <1>3, <1>6
<1>11. \A z \in Side, h \in Hole : holes[z][h] <= s.holes[z][h]
  BY <1>2, <1>5
<1>12. holes[s.side][s.pos] = 0
  BY <1>1, <1>5
<1> QED
  BY <1>7, <1>9, <1>10, <1>11, <1>12 DEF c

(***************************************************************************)
(* What a whole move does, whoever moves and from wherever.  Every fact    *)
(* about games below is drawn from this theorem.                           *)
(***************************************************************************)
MoveEffect(holes, kazans, tuz, after) ==
  /\ after.ring.holes \in Holes
  /\ after.ring.kazans \in Kazans
  /\ after.tuz \in Tuzes
  /\ Korgools(after.ring.holes, after.ring.kazans) = Korgools(holes, kazans)
  /\ \A p \in Side : after.ring.kazans[p] >= kazans[p]
  /\ \A p, z \in Side : tuz[p] # NoTuz => after.ring.holes[z][tuz[p]] <= holes[z][tuz[p]]
  /\ \A p \in Side : tuz[p] # NoTuz => after.tuz[p] = tuz[p]
  /\ \A p \in Side : after.tuz[p] # tuz[p] =>
       /\ after.tuz[p] # Last
       /\ after.tuz[p] # tuz[Opponent(p)]
       /\ after.tuz[Opponent(p)] = tuz[Opponent(p)]
       /\ after.ring.holes[Opponent(p)][after.tuz[p]] = 0

LEMMA CheckCaptureFact ==
  ASSUME NEW s \in Sowing, NEW player \in Side
  PROVE  LET c == CheckCapture(s, player)
         IN  /\ c \in Sowing
             /\ Korgools(c.holes, c.kazans) = Korgools(s.holes, s.kazans)
             /\ \A p \in Side : c.kazans[p] >= s.kazans[p]
             /\ \A z \in Side, h \in Hole : c.holes[z][h] <= s.holes[z][h]
<1>1. CASE CheckCapture(s, player) = Collect(s, player)
  BY <1>1, CollectFact
<1>2. CASE CheckCapture(s, player) = s
  <2>1. \A z \in Side, h \in Hole : s.holes[z][h] \in Nat
    BY SowingTypes DEF Holes, Row
  <2>2. \A p \in Side : s.kazans[p] \in Nat
    BY SowingTypes
  <2> QED
    BY <1>2, <2>1, <2>2
<1> QED
  BY <1>1, <1>2 DEF CheckCapture

(* A new tuz is an emptied hole of the opponent, never the last one nor    *)
(* the index of the other tuz, and is the only tuz that changes.           *)
LEMMA CheckTuzFact ==
  ASSUME NEW s \in Sowing, NEW tuz \in Tuzes, NEW player \in Side
  PROVE  LET t == CheckTuz(s, tuz, player)
         IN  /\ t.ring \in Sowing
             /\ t.tuz \in Tuzes
             /\ Korgools(t.ring.holes, t.ring.kazans) = Korgools(s.holes, s.kazans)
             /\ \A p \in Side : t.ring.kazans[p] >= s.kazans[p]
             /\ \A z \in Side, h \in Hole : t.ring.holes[z][h] <= s.holes[z][h]
             /\ \A p \in Side : tuz[p] # NoTuz => t.tuz[p] = tuz[p]
             /\ \A p \in Side : t.tuz[p] # tuz[p] =>
                  /\ t.tuz[p] # Last
                  /\ t.tuz[p] # tuz[Opponent(p)]
                  /\ t.tuz[Opponent(p)] = tuz[Opponent(p)]
                  /\ t.ring.holes[Opponent(p)][t.tuz[p]] = 0
<1> DEFINE t == CheckTuz(s, tuz, player)
<1>1. s.side \in Side /\ s.pos \in Hole /\ \A p \in Side : s.kazans[p] \in Nat
  BY SowingTypes
<1>2. CASE WinsTuz(s, tuz, player)
  <2> DEFINE c == Collect(s, player)
             new == [tuz EXCEPT ![player] = s.pos]
  <2>1. t.ring = c /\ t.tuz = new
    BY <1>2 DEF CheckTuz
  <2>2. /\ c \in Sowing
        /\ Korgools(c.holes, c.kazans) = Korgools(s.holes, s.kazans)
        /\ \A p \in Side : c.kazans[p] >= s.kazans[p]
        /\ \A z \in Side, h \in Hole : c.holes[z][h] <= s.holes[z][h]
        /\ c.holes[s.side][s.pos] = 0
    BY CollectFact
  <2>3. new \in Tuzes /\ \A p \in Side : new[p] = IF p = player THEN s.pos ELSE tuz[p]
    BY <1>1 DEF Tuzes
  <2>4. /\ s.side = Opponent(player) /\ Opponent(player) \in Side
        /\ Opponent(player) # player
        /\ s.pos # Last /\ tuz[player] = NoTuz /\ tuz[Opponent(player)] # s.pos
    BY <1>1, <1>2 DEF WinsTuz, Opponent, Side
  <2> HIDE DEF c, new, t
  <2>5. ASSUME NEW p \in Side, new[p] # tuz[p]
        PROVE  /\ new[p] # Last
               /\ new[p] # tuz[Opponent(p)]
               /\ new[Opponent(p)] = tuz[Opponent(p)]
               /\ c.holes[Opponent(p)][new[p]] = 0
    <3>1. p = player /\ new[p] = s.pos
      BY <2>3, <2>5
    <3> QED
      BY <2>2, <2>3, <2>4, <3>1
  <2>6. \A p \in Side : tuz[p] # NoTuz => new[p] = tuz[p]
    BY <2>3, <2>4
  <2> QED
    BY <2>1, <2>2, <2>3, <2>5, <2>6 DEF t
<1>3. CASE ~ WinsTuz(s, tuz, player)
  <2>1. t.ring = s /\ t.tuz = tuz
    BY <1>3 DEF CheckTuz
  <2>2. \A z \in Side, h \in Hole : s.holes[z][h] \in Nat
    BY SowingTypes DEF Holes, Row
  <2> HIDE DEF t
  <2> QED
    BY <1>1, <2>1, <2>2 DEF t
<1> QED
  BY <1>2, <1>3

THEOREM MoveEffectFact ==
  ASSUME NEW holes \in Holes, NEW kazans \in Kazans, NEW tuz \in Tuzes,
         NEW player \in Side, NEW pos \in Hole
  PROVE  MoveEffect(holes, kazans, tuz, AfterMove(holes, kazans, tuz, player, pos))
<1> DEFINE n == holes[player][pos]
           lifted == Lift(holes, kazans, player, pos)
           sown == Sow(tuz, lifted, n)
           c == CheckCapture(sown, player)
           t == CheckTuz(c, tuz, player)
<1>1. AfterMove(holes, kazans, tuz, player, pos) = t
  BY DEF AfterMove, Sown
<1>2. /\ lifted \in Sowing /\ lifted.kazans = kazans /\ n \in Nat
      /\ Korgools(lifted.holes, kazans) + n = Korgools(holes, kazans)
      /\ \A z \in Side, h \in Hole : lifted.holes[z][h] <= holes[z][h]
  BY LiftFact
<1> HIDE DEF n, lifted
<1>3. Sows(tuz, lifted, n, sown)
  BY <1>2, SowSows
<1>4. sown \in Sowing
  BY <1>3 DEF Sows
<1> HIDE DEF sown
<1>5. /\ c \in Sowing
      /\ Korgools(c.holes, c.kazans) = Korgools(sown.holes, sown.kazans)
      /\ \A p \in Side : c.kazans[p] >= sown.kazans[p]
      /\ \A z \in Side, h \in Hole : c.holes[z][h] <= sown.holes[z][h]
  BY <1>4, CheckCaptureFact
<1> HIDE DEF c
<1>6. /\ t.ring \in Sowing
      /\ t.tuz \in Tuzes
      /\ Korgools(t.ring.holes, t.ring.kazans) = Korgools(c.holes, c.kazans)
      /\ \A p \in Side : t.ring.kazans[p] >= c.kazans[p]
      /\ \A z \in Side, h \in Hole : t.ring.holes[z][h] <= c.holes[z][h]
      /\ \A p \in Side : tuz[p] # NoTuz => t.tuz[p] = tuz[p]
      /\ \A p \in Side : t.tuz[p] # tuz[p] =>
           /\ t.tuz[p] # Last
           /\ t.tuz[p] # tuz[Opponent(p)]
           /\ t.tuz[Opponent(p)] = tuz[Opponent(p)]
           /\ t.ring.holes[Opponent(p)][t.tuz[p]] = 0
  BY <1>5, CheckTuzFact
<1> HIDE DEF t
<1>7. Korgools(t.ring.holes, t.ring.kazans) = Korgools(holes, kazans)
  BY <1>2, <1>3, <1>4, <1>5, <1>6, SowingTypes DEF Sows
<1>8. ASSUME NEW p \in Side PROVE t.ring.kazans[p] >= kazans[p]
  <2>1. /\ t.ring.kazans[p] \in Nat /\ c.kazans[p] \in Nat
        /\ sown.kazans[p] \in Nat /\ kazans[p] \in Nat
    BY <1>2, <1>4, <1>5, <1>6, SowingTypes
  <2>2. t.ring.kazans[p] >= c.kazans[p] /\ c.kazans[p] >= sown.kazans[p]
    BY <1>5, <1>6
  <2>3. sown.kazans[p] >= kazans[p]
    BY <1>2, <1>3 DEF Sows
  <2> QED
    BY <2>1, <2>2, <2>3
<1>9. ASSUME NEW p \in Side, NEW z \in Side, tuz[p] # NoTuz
      PROVE  t.ring.holes[z][tuz[p]] <= holes[z][tuz[p]]
  <2> DEFINE k == tuz[p]
  <2>1. k \in Hole
    BY <1>9 DEF Tuzes
  <2>2. sown.holes[z][k] = lifted.holes[z][k]
    BY <1>3, <1>9 DEF Sows
  <2> HIDE DEF k
  <2>3. \A s \in Sowing : s.holes[z][k] \in Nat
    BY <2>1, SowingTypes DEF Holes, Row
  <2>4. /\ t.ring.holes[z][k] \in Nat /\ c.holes[z][k] \in Nat
        /\ sown.holes[z][k] \in Nat /\ holes[z][k] \in Nat
    BY <1>4, <1>5, <1>6, <2>1, <2>3 DEF Holes, Row
  <2>5. /\ t.ring.holes[z][k] <= c.holes[z][k]
        /\ c.holes[z][k] <= sown.holes[z][k]
        /\ lifted.holes[z][k] <= holes[z][k]
    BY <1>2, <1>5, <1>6, <2>1
  <2> QED
    BY <2>2, <2>4, <2>5 DEF k
<1>10. t.ring.holes \in Holes /\ t.ring.kazans \in Kazans
  BY <1>6, SowingTypes
<1> QED
  BY <1>1, <1>6, <1>7, <1>8, <1>9, <1>10 DEF MoveEffect
=============================================================================
