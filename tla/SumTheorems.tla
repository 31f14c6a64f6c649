---------------------------- MODULE SumTheorems ----------------------------
(***************************************************************************)
(* Sums over finite sets: what the folds of the community modules compute   *)
(* when they add up numbers, by picking the elements one by one.  The       *)
(* totals of the bridge and the rolling counters are such sums.             *)
(*                                                                          *)
(* The lemmas are inductions over the subsets of a finite set.  A property  *)
(* enters as the set of the subsets that have it, so that the induction     *)
(* rests on a smallest subset without it (WFMin) and needs no operator as   *)
(* a parameter.                                                             *)
(***************************************************************************)
EXTENDS Integers, FiniteSets, Functions, FiniteSetTheorems, WellFoundedInduction, TLAPS

Pick(s) == CHOOSE x \in s : TRUE

(* it[s] is the sum of g over s, for every subset s of S: the equation by      *)
(* which MapThenFoldSet defines its result.                                    *)
IsSum(it, g, S) ==
    it = [s \in SUBSET S |-> IF s = {} THEN 0 ELSE g[Pick(s)] + it[s \ {Pick(s)}]]

Sums(g, S) == CHOOSE it : IsSum(it, g, S)

SumOf(g, S) == Sums(g, S)[S]

-----------------------------------------------------------------------------
(* Induction                                                                 *)

LEMMA PickIn == ASSUME NEW s, s # {} PROVE Pick(s) \in s
BY DEF Pick

(* Among subsets of a finite set, one has no other of them inside it. *)
LEMMA SmallestSubset ==
    ASSUME NEW S, IsFiniteSet(S), NEW T \in SUBSET (SUBSET S), T # {}
    PROVE  \E m \in T : \A t \in SUBSET m : t # m => t \notin T
<1>1. IsWellFoundedOn(StrictSubsetOrdering(S), SUBSET S)
  BY FS_StrictSubsetOrderingWellFounded, FS_FiniteSubsetsOfFinite
<1>2. PICK m \in T : \A y \in T : ~ (<<y, m>> \in StrictSubsetOrdering(S))
  BY <1>1, WFMin
<1>3. ASSUME NEW t \in SUBSET m, t # m, t \in T PROVE FALSE
  <2>1. <<t, m>> \in StrictSubsetOrdering(S)
    BY <1>3 DEF StrictSubsetOrdering
  <2> QED BY <2>1, <1>2, <1>3
<1> QED BY <1>3

(* Induction over the subsets of a finite set, with the property as the set   *)
(* of the subsets that have it.                                               *)
LEMMA SubsetInduction ==
    ASSUME NEW S, IsFiniteSet(S), NEW P \in SUBSET (SUBSET S),
           \A m \in SUBSET S : (\A t \in SUBSET m : t # m => t \in P) => m \in P
    PROVE  S \in P
<1> DEFINE T == (SUBSET S) \ P
<1>1. ASSUME T # {} PROVE FALSE
  <2>0. T \in SUBSET (SUBSET S)
    OBVIOUS
  <2> HIDE DEF T
  <2>1. PICK m \in T : \A t \in SUBSET m : t # m => t \notin T
    BY <1>1, <2>0, SmallestSubset
  <2> USE DEF T
  <2>2. \A t \in SUBSET m : t # m => t \in P
    BY <2>1
  <2> QED BY <2>1, <2>2
<1> QED BY <1>1

-----------------------------------------------------------------------------
(* The equation has one solution.                                            *)

(* Solutions for a set and a subset of it agree on the subset. *)
LEMMA SumsAgree ==
    ASSUME NEW g, NEW S, IsFiniteSet(S), NEW R \in SUBSET S, NEW it, NEW jt,
           IsSum(it, g, S), IsSum(jt, g, R)
    PROVE  it[R] = jt[R]
<1> DEFINE P == {s \in SUBSET R : it[s] = jt[s]}
<1>1. ASSUME NEW m \in SUBSET R, \A t \in SUBSET m : t # m => t \in P
      PROVE  m \in P
  <2>0. m \in SUBSET S
    OBVIOUS
  <2>1. CASE m = {}
    BY <2>0, <2>1 DEF IsSum
  <2>2. CASE m # {}
    <3> DEFINE r == m \ {Pick(m)}
    <3>1. r \in SUBSET m /\ r # m
      BY <2>2, PickIn
    <3>2. it[r] = jt[r]
      BY <3>1, <1>1
    <3>3. it[m] = g[Pick(m)] + it[r] /\ jt[m] = g[Pick(m)] + jt[r]
      BY <2>0, <2>2 DEF IsSum
    <3> QED BY <3>2, <3>3
  <2> QED BY <2>1, <2>2
<1> HIDE DEF P
<1>2. IsFiniteSet(R) /\ P \in SUBSET (SUBSET R)
  BY FS_Subset DEF P
<1>3. R \in P
  BY <1>1, <1>2, SubsetInduction
<1> QED BY <1>3 DEF P

(* There is a solution: one for a set is put together from those for its       *)
(* proper subsets.                                                             *)
LEMMA SumExists ==
    ASSUME NEW g, NEW S, IsFiniteSet(S)
    PROVE  IsSum(Sums(g, S), g, S)
<1> DEFINE P == {s \in SUBSET S : IsSum(Sums(g, s), g, s)}
<1>1. ASSUME NEW m \in SUBSET S, \A t \in SUBSET m : t # m => t \in P
      PROVE  m \in P
  <2>1. IsFiniteSet(m) /\ \A t \in SUBSET m : t # m => IsSum(Sums(g, t), g, t)
    BY <1>1, FS_Subset
  <2>2. ASSUME NEW s \in SUBSET m, s # m, s # {}
        PROVE  SumOf(g, s) = g[Pick(s)] + SumOf(g, s \ {Pick(s)})
    <3> DEFINE r == s \ {Pick(s)}
    <3>1. r \in SUBSET s /\ r \in SUBSET m /\ r # m /\ s \in SUBSET s
      BY <2>2, PickIn
    <3>2. IsSum(Sums(g, s), g, s) /\ IsSum(Sums(g, r), g, r) /\ IsFiniteSet(s)
      BY <2>1, <2>2, <3>1, FS_Subset
    <3>3. Sums(g, s)[s] = g[Pick(s)] + Sums(g, s)[r]
      BY <2>2, <3>1, <3>2 DEF IsSum
    <3>4. Sums(g, s)[r] = Sums(g, r)[r]
      BY <3>1, <3>2, SumsAgree
    <3> QED BY <3>3, <3>4 DEF SumOf
  <2>3. ASSUME m # {} PROVE SumOf(g, {}) = 0
    <3>1. IsSum(Sums(g, {}), g, {})
      BY <2>1, <2>3
    <3> QED BY <3>1 DEF SumOf, IsSum
  <2> DEFINE it == [s \in SUBSET m |-> IF s = {} THEN 0
                                       ELSE g[Pick(s)] + SumOf(g, s \ {Pick(s)})]
  <2>4. ASSUME NEW s \in SUBSET m, s # {}
        PROVE  it[s \ {Pick(s)}] = SumOf(g, s \ {Pick(s)})
    <3> DEFINE r == s \ {Pick(s)}
    <3>1. r \in SUBSET m /\ r # m
      BY <2>4, PickIn
    <3>2. CASE r = {}
      BY <3>1, <3>2, <2>3
    <3>3. CASE r # {}
      <4>1. SumOf(g, r) = g[Pick(r)] + SumOf(g, r \ {Pick(r)})
        BY <3>1, <3>3, <2>2
      <4> HIDE DEF r
      <4>2. it[r] = g[Pick(r)] + SumOf(g, r \ {Pick(r)})
        BY <3>1, <3>3
      <4> QED BY <4>1, <4>2 DEF r
    <3> QED BY <3>2, <3>3
  <2>5. IsSum(it, g, m)
    BY <2>4 DEF IsSum
  <2>6. IsSum(Sums(g, m), g, m)
    BY <2>5 DEF Sums
  <2> QED BY <2>6
<1> HIDE DEF P
<1>2. P \in SUBSET (SUBSET S)
  BY DEF P
<1>3. S \in P
  BY <1>1, <1>2, SubsetInduction
<1> QED BY <1>3 DEF P

(* It is what the fold of a function with + computes. *)
LEMMA FunctionSum ==
    ASSUME NEW g, NEW S, IsFiniteSet(S)
    PROVE  SumFunctionOnSet(g, S) = SumOf(g, S)
<1> DEFINE Body(it) == [s \in SUBSET S |->
                           IF s = {} THEN 0 ELSE g[Pick(s)] + it[s \ {Pick(s)}]]
           sums == CHOOSE it : it = Body(it)
<1>1. IsSum(Sums(g, S), g, S) /\ S \in SUBSET S
  BY SumExists
<1>2. sums = Body(sums)
  BY <1>1 DEF IsSum
<1>3. SumFunctionOnSet(g, S) = sums[S]
  BY DEF SumFunctionOnSet, FoldFunctionOnSet, MapThenFoldSet, Pick
<1> HIDE DEF sums
<1>4. IsSum(sums, g, S)
  BY <1>2 DEF IsSum
<1> QED BY <1>1, <1>3, <1>4, SumsAgree DEF SumOf

-----------------------------------------------------------------------------
(* Sums                                                                      *)

LEMMA SumEmpty == ASSUME NEW g PROVE SumFunctionOnSet(g, {}) = 0
<1>1. IsSum(Sums(g, {}), g, {}) /\ IsFiniteSet({})
  BY SumExists, FS_EmptySet
<1>2. SumOf(g, {}) = 0
  BY <1>1 DEF SumOf, IsSum
<1> QED BY <1>1, <1>2, FunctionSum

LEMMA SumPick ==
    ASSUME NEW g, NEW S, IsFiniteSet(S), S # {}
    PROVE  SumFunctionOnSet(g, S) = g[Pick(S)] + SumFunctionOnSet(g, S \ {Pick(S)})
<1> DEFINE r == S \ {Pick(S)}
<1>1. IsFiniteSet(r) /\ r \in SUBSET S /\ S \in SUBSET S
  BY FS_Subset
<1>2. IsSum(Sums(g, S), g, S) /\ IsSum(Sums(g, r), g, r)
  BY <1>1, SumExists
<1>3. Sums(g, S)[S] = g[Pick(S)] + Sums(g, S)[r]
  BY <1>1, <1>2 DEF IsSum
<1>4. Sums(g, S)[r] = Sums(g, r)[r]
  BY <1>1, <1>2, SumsAgree
<1> HIDE DEF r
<1>5. SumFunctionOnSet(g, S) = Sums(g, S)[S] /\ SumFunctionOnSet(g, r) = Sums(g, r)[r]
  BY <1>1, FunctionSum DEF SumOf
<1> QED BY <1>3, <1>4, <1>5 DEF r

(* The sum is a number. *)
LEMMA SumType ==
    ASSUME NEW S, IsFiniteSet(S), NEW g, \A x \in S : g[x] \in Nat
    PROVE  SumFunctionOnSet(g, S) \in Nat
<1> DEFINE P == {s \in SUBSET S : SumFunctionOnSet(g, s) \in Nat}
<1>1. ASSUME NEW m \in SUBSET S, \A t \in SUBSET m : t # m => t \in P
      PROVE  m \in P
  <2>1. CASE m = {}
    BY <2>1, SumEmpty
  <2>2. CASE m # {}
    <3> DEFINE r == m \ {Pick(m)}
    <3>1. r \in SUBSET m /\ r # m /\ g[Pick(m)] \in Nat /\ IsFiniteSet(m)
      BY <2>2, PickIn, FS_Subset
    <3>2. SumFunctionOnSet(g, r) \in Nat
      BY <1>1, <3>1
    <3>3. SumFunctionOnSet(g, m) = g[Pick(m)] + SumFunctionOnSet(g, r)
      BY <2>2, <3>1, SumPick
    <3> QED BY <3>1, <3>2, <3>3
  <2> QED BY <2>1, <2>2
<1> HIDE DEF P
<1>2. P \in SUBSET (SUBSET S)
  BY DEF P
<1>3. S \in P
  BY <1>1, <1>2, SubsetInduction
<1> QED BY <1>3 DEF P

(* It depends only on what is summed. *)
LEMMA SumSame ==
    ASSUME NEW S, IsFiniteSet(S), NEW g, NEW h, \A x \in S : g[x] = h[x]
    PROVE  SumFunctionOnSet(g, S) = SumFunctionOnSet(h, S)
<1> DEFINE P == {s \in SUBSET S : SumFunctionOnSet(g, s) = SumFunctionOnSet(h, s)}
<1>1. ASSUME NEW m \in SUBSET S, \A t \in SUBSET m : t # m => t \in P
      PROVE  m \in P
  <2>1. CASE m = {}
    BY <2>1, SumEmpty
  <2>2. CASE m # {}
    <3> DEFINE r == m \ {Pick(m)}
    <3>1. r \in SUBSET m /\ r # m /\ g[Pick(m)] = h[Pick(m)] /\ IsFiniteSet(m)
      BY <2>2, PickIn, FS_Subset
    <3>2. SumFunctionOnSet(g, r) = SumFunctionOnSet(h, r)
      BY <1>1, <3>1
    <3>3. SumFunctionOnSet(g, m) = g[Pick(m)] + SumFunctionOnSet(g, r) /\ SumFunctionOnSet(h, m) = h[Pick(m)] + SumFunctionOnSet(h, r)
      BY <2>2, <3>1, SumPick
    <3> QED BY <3>1, <3>2, <3>3
  <2> QED BY <2>1, <2>2
<1> HIDE DEF P
<1>2. P \in SUBSET (SUBSET S)
  BY DEF P
<1>3. S \in P
  BY <1>1, <1>2, SubsetInduction
<1> QED BY <1>3 DEF P

(* The elements may be taken in any order. *)
LEMMA SumRemove ==
    ASSUME NEW S, IsFiniteSet(S), NEW g, \A x \in S : g[x] \in Nat, NEW c \in S
    PROVE  SumFunctionOnSet(g, S) = g[c] + SumFunctionOnSet(g, S \ {c})
<1> DEFINE P == {s \in SUBSET S : \A d \in s : SumFunctionOnSet(g, s) = g[d] + SumFunctionOnSet(g, s \ {d})}
<1>1. ASSUME NEW m \in SUBSET S, \A t \in SUBSET m : t # m => t \in P
      PROVE  m \in P
  <2> SUFFICES ASSUME NEW d \in m PROVE SumFunctionOnSet(g, m) = g[d] + SumFunctionOnSet(g, m \ {d})
    OBVIOUS
  <2> DEFINE p == Pick(m)
             r == m \ {p}
             q == m \ {d}
  <2>1. /\ r \in SUBSET m /\ r # m /\ p \in m /\ q \in SUBSET m /\ q # m
        /\ IsFiniteSet(m) /\ m # {}
    BY PickIn, FS_Subset
  <2>2. SumFunctionOnSet(g, m) = g[p] + SumFunctionOnSet(g, r)
    BY <2>1, SumPick
  <2>3. CASE p = d
    BY <2>2, <2>3
  <2>4. CASE p # d
    <3>1. d \in r /\ p \in q /\ r \ {d} = q \ {p}
      BY <2>1, <2>4
    <3>2. r \in P /\ q \in P
      BY <1>1, <2>1
    <3>3. SumFunctionOnSet(g, r) = g[d] + SumFunctionOnSet(g, r \ {d})
      BY <3>1, <3>2
    <3>4. SumFunctionOnSet(g, q) = g[p] + SumFunctionOnSet(g, r \ {d})
      BY <3>1, <3>2
    <3>5. SumFunctionOnSet(g, r \ {d}) \in Nat /\ g[d] \in Nat /\ g[p] \in Nat
      <4> DEFINE z == r \ {d}
      <4>1. IsFiniteSet(z) /\ \A x \in z : g[x] \in Nat
        BY <2>1, FS_Subset
      <4> HIDE DEF z
      <4>2. SumFunctionOnSet(g, z) \in Nat
        BY <4>1, SumType
      <4> QED BY <4>2, <2>1 DEF z
    <3> HIDE DEF P, r, q, p
    <3>6. SumFunctionOnSet(g, m) = g[d] + SumFunctionOnSet(g, q)
      BY <2>2, <3>3, <3>4, <3>5
    <3> QED BY <3>6 DEF q
  <2> QED BY <2>3, <2>4
<1> HIDE DEF P
<1>2. P \in SUBSET (SUBSET S)
  BY DEF P
<1>3. S \in P
  BY <1>1, <1>2, SubsetInduction
<1> QED BY <1>3 DEF P

(* Raising one of the numbers raises the sum as much. *)
LEMMA SumRaise ==
    ASSUME NEW S, IsFiniteSet(S), NEW c \in S, NEW k \in Nat,
           NEW g, \A x \in S : g[x] \in Nat,
           NEW h, h[c] = g[c] + k, \A x \in S : x # c => h[x] = g[x]
    PROVE  SumFunctionOnSet(h, S) = SumFunctionOnSet(g, S) + k
<1> DEFINE r == S \ {c}
<1>1. IsFiniteSet(r) /\ \A x \in r : h[x] = g[x] /\ g[x] \in Nat
  BY FS_Subset
<1>2. \A x \in S : h[x] \in Nat
  OBVIOUS
<1>3. SumFunctionOnSet(g, S) = g[c] + SumFunctionOnSet(g, r) /\ SumFunctionOnSet(h, S) = h[c] + SumFunctionOnSet(h, r)
  BY <1>2, SumRemove
<1> HIDE DEF r
<1>4. SumFunctionOnSet(h, r) = SumFunctionOnSet(g, r) /\ SumFunctionOnSet(g, r) \in Nat
  BY <1>1, SumSame, SumType
<1> QED BY <1>3, <1>4

(* Zeros add up to zero. *)
LEMMA SumZero ==
    ASSUME NEW S, IsFiniteSet(S), NEW g, \A x \in S : g[x] = 0
    PROVE  SumFunctionOnSet(g, S) = 0
<1> DEFINE P == {s \in SUBSET S : SumFunctionOnSet(g, s) = 0}
<1>1. ASSUME NEW m \in SUBSET S, \A t \in SUBSET m : t # m => t \in P
      PROVE  m \in P
  <2>1. CASE m = {}
    BY <2>1, SumEmpty
  <2>2. CASE m # {}
    <3> DEFINE r == m \ {Pick(m)}
    <3>1. r \in SUBSET m /\ r # m /\ g[Pick(m)] = 0 /\ IsFiniteSet(m)
      BY <2>2, PickIn, FS_Subset
    <3>2. SumFunctionOnSet(g, r) = 0
      BY <1>1, <3>1
    <3>3. SumFunctionOnSet(g, m) = g[Pick(m)] + SumFunctionOnSet(g, r)
      BY <2>2, <3>1, SumPick
    <3> QED BY <3>1, <3>2, <3>3
  <2> QED BY <2>1, <2>2
<1> HIDE DEF P
<1>2. P \in SUBSET (SUBSET S)
  BY DEF P
<1>3. S \in P
  BY <1>1, <1>2, SubsetInduction
<1> QED BY <1>3 DEF P

(* The same number for each adds up to that many times the number. *)
LEMMA SumSteady ==
    ASSUME NEW S, IsFiniteSet(S), NEW g, NEW k \in Nat, \A x \in S : g[x] = k
    PROVE  SumFunctionOnSet(g, S) = k * Cardinality(S)
<1> DEFINE P == {s \in SUBSET S : SumFunctionOnSet(g, s) = k * Cardinality(s)}
<1>1. ASSUME NEW m \in SUBSET S, \A t \in SUBSET m : t # m => t \in P
      PROVE  m \in P
  <2>1. CASE m = {}
    BY <2>1, SumEmpty, FS_EmptySet
  <2>2. CASE m # {}
    <3> DEFINE r == m \ {Pick(m)}
    <3>1. r \in SUBSET m /\ r # m /\ g[Pick(m)] = k /\ IsFiniteSet(m) /\ Pick(m) \in m
      BY <2>2, PickIn, FS_Subset
    <3>2. SumFunctionOnSet(g, r) = k * Cardinality(r)
      BY <1>1, <3>1
    <3>3. SumFunctionOnSet(g, m) = k + SumFunctionOnSet(g, r)
      BY <2>2, <3>1, SumPick
    <3>4. Cardinality(r) = Cardinality(m) - 1 /\ Cardinality(m) \in Nat
      BY <3>1, FS_RemoveElement, FS_CardinalityType
    <3>5. k + k * (Cardinality(m) - 1) = k * Cardinality(m)
      BY <3>4
    <3> QED BY <3>2, <3>3, <3>4, <3>5
  <2> QED BY <2>1, <2>2
<1> HIDE DEF P
<1>2. P \in SUBSET (SUBSET S)
  BY DEF P
<1>3. S \in P
  BY <1>1, <1>2, SubsetInduction
<1> QED BY <1>3 DEF P

=============================================================================
