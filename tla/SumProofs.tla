------------------------------ MODULE SumProofs ------------------------------
(***************************************************************************)
(* Lemmas about SumFunctionOnSet, the sum that the models count money and  *)
(* quantities with, and about Max.  A sum is a fold, and a fold is a       *)
(* recursive function on the subsets of its domain, so the first three     *)
(* lemmas show that this function exists and what it is; the others are    *)
(* what proofs cite.                                                       *)
(*                                                                         *)
(* Induction is by the smallest counterexample: the set of the subsets     *)
(* that a lemma fails for has a smallest member if it has any.             *)
(***************************************************************************)
EXTENDS FiniteSetsExt, FiniteSetTheorems, WellFoundedInduction, TLAPS

Pick(s) == CHOOSE x \in s : TRUE

(* The function that is folded: partial sums of f.                         *)
Folds(f, S, g) ==
  g = [s \in SUBSET S |-> IF s = {} THEN 0 ELSE f[Pick(s)] + g[s \ {Pick(s)}]]

SumsTo(f, S, n) ==
  \E g : /\ g = [s \in SUBSET S |-> g[s]]
         /\ \A s \in SUBSET S : Cardinality(s) <= n =>
              g[s] = IF s = {} THEN 0 ELSE f[Pick(s)] + g[s \ {Pick(s)}]

(* A set of sets has a smallest member.                                    *)
LEMMA SmallestSubset ==
  ASSUME NEW S, IsFiniteSet(S), NEW Bad \in SUBSET (SUBSET S), Bad # {}
  PROVE  \E s \in Bad : \A t \in SUBSET s : t # s => t \notin Bad
<1> DEFINE R == StrictSubsetOrdering(S)
<1>1. IsWellFoundedOn(R, SUBSET S)
  BY FS_StrictSubsetOrderingWellFounded, FS_FiniteSubsetsOfFinite
<1>2. PICK s \in Bad : \A t \in Bad : ~(<<t, s>> \in R)
  <2> HIDE DEF R
  <2> QED BY <1>1, WFMin
<1>3. ASSUME NEW t \in SUBSET s, t # s, t \in Bad PROVE FALSE
  BY <1>2, <1>3 DEF StrictSubsetOrdering
<1> QED BY <1>2, <1>3

(* A step of the existence: one element more.                              *)
LEMMA SumsToNext ==
  ASSUME NEW S, IsFiniteSet(S), NEW f, NEW n \in Nat, SumsTo(f, S, n)
  PROVE  SumsTo(f, S, n + 1)
<1>1. PICK g : /\ g = [s \in SUBSET S |-> g[s]]
               /\ \A s \in SUBSET S : Cardinality(s) <= n =>
                    g[s] = IF s = {} THEN 0 ELSE f[Pick(s)] + g[s \ {Pick(s)}]
  BY DEF SumsTo
<1> DEFINE h == [s \in SUBSET S |-> IF s = {} THEN 0 ELSE f[Pick(s)] + g[s \ {Pick(s)}]]
<1>2. \A s \in SUBSET S : Cardinality(s) <= n + 1 =>
        h[s] = IF s = {} THEN 0 ELSE f[Pick(s)] + h[s \ {Pick(s)}]
  <2> SUFFICES ASSUME NEW s \in SUBSET S, Cardinality(s) <= n + 1, s # {}
               PROVE  h[s] = f[Pick(s)] + h[s \ {Pick(s)}]
    OBVIOUS
  <2>1. Pick(s) \in s
    BY DEF Pick
  <2>2. s \ {Pick(s)} \in SUBSET S
    OBVIOUS
  <2>3. IsFiniteSet(s) /\ Cardinality(s) \in Nat
    BY FS_Subset, FS_CardinalityType
  <2>4. Cardinality(s \ {Pick(s)}) = Cardinality(s) - 1
    BY <2>1, <2>3, FS_RemoveElement
  <2>5. Cardinality(s \ {Pick(s)}) <= n
    BY <2>3, <2>4
  <2>6. g[s \ {Pick(s)}] = h[s \ {Pick(s)}]
    BY <1>1, <2>2, <2>5
  <2> QED BY <2>2, <2>6
<1>3. h = [s \in SUBSET S |-> h[s]]
  OBVIOUS
<1> HIDE DEF h
<1> QED BY <1>2, <1>3 DEF SumsTo

LEMMA SumsToAll ==
  ASSUME NEW S, IsFiniteSet(S), NEW f, NEW n \in Nat
  PROVE  SumsTo(f, S, n)
<1> DEFINE Bad == {m \in Nat : ~SumsTo(f, S, m)} R == OpToRel(<, Nat)
<1> SUFFICES ASSUME Bad # {} PROVE FALSE
  OBVIOUS
<1>1. PICK m \in Bad : \A k \in Bad : ~(<<k, m>> \in R)
  <2>1. IsWellFoundedOn(R, Nat)
    BY NatLessThanWellFounded
  <2>2. Bad \subseteq Nat
    OBVIOUS
  <2> HIDE DEF Bad, R
  <2> QED BY <2>1, <2>2, WFMin
<1>2. SumsTo(f, S, 0)
  <2> DEFINE g == [s \in SUBSET S |-> 0]
  <2>1. \A s \in SUBSET S : Cardinality(s) <= 0 => s = {}
    <3> TAKE s \in SUBSET S
    <3>1. IsFiniteSet(s) /\ Cardinality(s) \in Nat
      BY FS_Subset, FS_CardinalityType
    <3> QED BY <3>1, FS_EmptySet
  <2>2. g = [s \in SUBSET S |-> g[s]] /\ g[{}] = 0
    OBVIOUS
  <2> HIDE DEF g
  <2> QED BY <2>1, <2>2 DEF SumsTo
<1>3. CASE m = 0
  BY <1>2, <1>3
<1>4. CASE m # 0
  <2>1. m - 1 \in Nat /\ m - 1 < m
    BY <1>4
  <2>2. <<m - 1, m>> \in R
    BY <2>1 DEF OpToRel
  <2>3. SumsTo(f, S, m - 1)
    BY <1>1, <2>1, <2>2
  <2>4. SumsTo(f, S, (m - 1) + 1)
    BY <2>1, <2>3, SumsToNext
  <2> QED BY <2>4
<1> QED BY <1>3, <1>4

(* The sum over S is the last partial sum.                                 *)
LEMMA SumIsFold ==
  ASSUME NEW S, IsFiniteSet(S), NEW f
  PROVE  \E g : Folds(f, S, g) /\ SumFunctionOnSet(f, S) = g[S]
<1> DEFINE G == CHOOSE g : Folds(f, S, g)
<1>1. \E g : Folds(f, S, g)
  <2>1. Cardinality(S) \in Nat
    BY FS_CardinalityType
  <2> DEFINE n == Cardinality(S)
  <2>2. SumsTo(f, S, n)
    BY <2>1, SumsToAll
  <2>3. \A s \in SUBSET S : Cardinality(s) <= n
    BY FS_Subset
  <2> HIDE DEF n
  <2>4. PICK g : /\ g = [s \in SUBSET S |-> g[s]]
                 /\ \A s \in SUBSET S : Cardinality(s) <= n =>
                      g[s] = IF s = {} THEN 0 ELSE f[Pick(s)] + g[s \ {Pick(s)}]
    BY <2>2 DEF SumsTo
  <2>5. \A s \in SUBSET S :
          g[s] = IF s = {} THEN 0 ELSE f[Pick(s)] + g[s \ {Pick(s)}]
    BY <2>3, <2>4
  <2>6. g = [s \in SUBSET S |-> IF s = {} THEN 0 ELSE f[Pick(s)] + g[s \ {Pick(s)}]]
    BY <2>4, <2>5
  <2> QED BY <2>6 DEF Folds
<1>2. Folds(f, S, G)
  BY <1>1
<1>3. SumFunctionOnSet(f, S) = G[S]
  BY DEF SumFunctionOnSet, FoldFunctionOnSet, MapThenFoldSet, Folds, Pick
<1> QED BY <1>2, <1>3

(* Partial sums depend on the values that are summed and nothing else.     *)
LEMMA FoldsAgree ==
  ASSUME NEW S, IsFiniteSet(S), NEW T \in SUBSET S, NEW f, NEW e, NEW g, NEW h,
         Folds(f, S, g), Folds(e, T, h), \A x \in T : f[x] = e[x]
  PROVE  g[T] = h[T]
<1> DEFINE Bad == {s \in SUBSET T : g[s] # h[s]}
<1> SUFFICES ASSUME Bad # {} PROVE FALSE
  OBVIOUS
<1>1. IsFiniteSet(T)
  BY FS_Subset
<1>2. PICK s \in Bad : \A t \in SUBSET s : t # s => t \notin Bad
  <2>1. Bad \in SUBSET (SUBSET T)
    OBVIOUS
  <2> HIDE DEF Bad
  <2> QED BY <1>1, <2>1, SmallestSubset
<1>3. s \in SUBSET T /\ s \in SUBSET S
  OBVIOUS
<1>4. /\ g[s] = IF s = {} THEN 0 ELSE f[Pick(s)] + g[s \ {Pick(s)}]
      /\ h[s] = IF s = {} THEN 0 ELSE e[Pick(s)] + h[s \ {Pick(s)}]
  BY <1>3 DEF Folds
<1>5. CASE s = {}
  BY <1>4, <1>5
<1>6. CASE s # {}
  <2>1. Pick(s) \in s
    BY <1>6 DEF Pick
  <2>2. g[s \ {Pick(s)}] = h[s \ {Pick(s)}]
    BY <1>2, <2>1
  <2> QED BY <1>3, <1>4, <1>6, <2>1, <2>2
<1> QED BY <1>5, <1>6

LEMMA SumSame ==
  ASSUME NEW S, IsFiniteSet(S), NEW f, NEW e, \A x \in S : f[x] = e[x]
  PROVE  SumFunctionOnSet(f, S) = SumFunctionOnSet(e, S)
<1>1. PICK g : Folds(f, S, g) /\ SumFunctionOnSet(f, S) = g[S]
  BY SumIsFold
<1>2. PICK h : Folds(e, S, h) /\ SumFunctionOnSet(e, S) = h[S]
  BY SumIsFold
<1>3. g[S] = h[S]
  <2>1. S \in SUBSET S
    OBVIOUS
  <2> QED BY <1>1, <1>2, <2>1, FoldsAgree
<1> QED BY <1>1, <1>2, <1>3

LEMMA SumEmpty ==
  ASSUME NEW f
  PROVE  SumFunctionOnSet(f, {}) = 0
<1>1. PICK g : Folds(f, {}, g) /\ SumFunctionOnSet(f, {}) = g[{}]
  BY SumIsFold, FS_EmptySet
<1>2. {} \in SUBSET {}
  OBVIOUS
<1> QED BY <1>1, <1>2 DEF Folds

LEMMA SumPick ==
  ASSUME NEW S, IsFiniteSet(S), S # {}, NEW f
  PROVE  /\ Pick(S) \in S
         /\ SumFunctionOnSet(f, S) = f[Pick(S)] + SumFunctionOnSet(f, S \ {Pick(S)})
<1>1. Pick(S) \in S
  BY DEF Pick
<1>2. PICK g : Folds(f, S, g) /\ SumFunctionOnSet(f, S) = g[S]
  BY SumIsFold
<1> DEFINE T == S \ {Pick(S)}
<1>3. IsFiniteSet(T) /\ T \in SUBSET S
  BY FS_RemoveElement
<1>4. g[S] = f[Pick(S)] + g[T]
  <2>1. S \in SUBSET S
    OBVIOUS
  <2> QED BY <1>2, <2>1 DEF Folds
<1> HIDE DEF T
<1>5. PICK h : Folds(f, T, h) /\ SumFunctionOnSet(f, T) = h[T]
  BY <1>3, SumIsFold
<1>6. g[T] = h[T]
  BY <1>2, <1>3, <1>5, FoldsAgree
<1> QED BY <1>1, <1>2, <1>4, <1>5, <1>6 DEF T

-----------------------------------------------------------------------------
(* A sum of integers is an integer.                                        *)
LEMMA SumInt ==
  ASSUME NEW S, IsFiniteSet(S), NEW f, \A x \in S : f[x] \in Int
  PROVE  SumFunctionOnSet(f, S) \in Int
<1> DEFINE Bad == {s \in SUBSET S : SumFunctionOnSet(f, s) \notin Int}
<1> SUFFICES ASSUME Bad # {} PROVE FALSE
  OBVIOUS
<1>1. PICK s \in Bad : \A t \in SUBSET s : t # s => t \notin Bad
  <2>1. Bad \in SUBSET (SUBSET S)
    OBVIOUS
  <2> HIDE DEF Bad
  <2> QED BY <2>1, SmallestSubset
<1>2. IsFiniteSet(s) /\ s \in SUBSET S /\ SumFunctionOnSet(f, s) \notin Int
  BY FS_Subset
<1>3. s # {}
  BY <1>2, SumEmpty
<1>4. /\ Pick(s) \in s
      /\ SumFunctionOnSet(f, s) = f[Pick(s)] + SumFunctionOnSet(f, s \ {Pick(s)})
  BY <1>2, <1>3, SumPick
<1>5. SumFunctionOnSet(f, s \ {Pick(s)}) \in Int
  BY <1>1, <1>2, <1>4
<1> QED BY <1>2, <1>4, <1>5

(* Any element may be taken out of a sum first.                            *)
LEMMA SumTake ==
  ASSUME NEW S, IsFiniteSet(S), NEW f, \A x \in S : f[x] \in Int, NEW x \in S
  PROVE  SumFunctionOnSet(f, S) = f[x] + SumFunctionOnSet(f, S \ {x})
<1> DEFINE Bad == {s \in SUBSET S : \E y \in s :
      SumFunctionOnSet(f, s) # f[y] + SumFunctionOnSet(f, s \ {y})}
<1> SUFFICES ASSUME Bad # {} PROVE FALSE
  OBVIOUS
<1>1. PICK s \in Bad : \A t \in SUBSET s : t # s => t \notin Bad
  <2>1. Bad \in SUBSET (SUBSET S)
    OBVIOUS
  <2> HIDE DEF Bad
  <2> QED BY <2>1, SmallestSubset
<1>2. PICK y \in s : SumFunctionOnSet(f, s) # f[y] + SumFunctionOnSet(f, s \ {y})
  OBVIOUS
<1>3. IsFiniteSet(s) /\ s \in SUBSET S
  BY FS_Subset
<1> DEFINE p == Pick(s)
<1>4. /\ p \in s
      /\ SumFunctionOnSet(f, s) = f[p] + SumFunctionOnSet(f, s \ {p})
  BY <1>2, <1>3, SumPick
<1>5. p # y
  BY <1>2, <1>4
<1> DEFINE r == s \ {p, y}
<1>6. SumFunctionOnSet(f, s \ {p}) = f[y] + SumFunctionOnSet(f, r)
  <2>1. (s \ {p}) \ {y} = r /\ y \in s \ {p} /\ s \ {p} # s /\ s \ {p} \in SUBSET S
    BY <1>3, <1>4, <1>5
  <2>2. s \ {p} \notin Bad
    BY <1>1, <2>1
  <2> QED BY <2>1, <2>2
<1>7. SumFunctionOnSet(f, s \ {y}) = f[p] + SumFunctionOnSet(f, r)
  <2>1. (s \ {y}) \ {p} = r /\ p \in s \ {y} /\ s \ {y} # s /\ s \ {y} \in SUBSET S
    BY <1>2, <1>3, <1>4, <1>5
  <2>2. s \ {y} \notin Bad
    BY <1>1, <2>1
  <2> QED BY <2>1, <2>2
<1>8. f[p] \in Int /\ f[y] \in Int /\ SumFunctionOnSet(f, r) \in Int
  <2>1. IsFiniteSet(r) /\ \A z \in r : f[z] \in Int
    BY <1>3, FS_Subset
  <2> QED BY <1>2, <1>3, <1>4, <2>1, SumInt
<1> QED BY <1>2, <1>4, <1>6, <1>7, <1>8

(* One value of a sum changes.                                             *)
LEMMA SumChanged ==
  ASSUME NEW S, IsFiniteSet(S), NEW f, NEW e, NEW x \in S,
         \A y \in S : f[y] \in Int, e[x] \in Int, \A y \in S \ {x} : e[y] = f[y]
  PROVE  SumFunctionOnSet(e, S) = SumFunctionOnSet(f, S) + e[x] - f[x]
<1> DEFINE r == S \ {x}
<1>1. IsFiniteSet(r)
  BY FS_RemoveElement
<1>2. SumFunctionOnSet(f, S) = f[x] + SumFunctionOnSet(f, r)
  BY SumTake
<1>3. SumFunctionOnSet(e, S) = e[x] + SumFunctionOnSet(e, r)
  <2>1. \A y \in S : e[y] \in Int
    OBVIOUS
  <2> QED BY <2>1, SumTake
<1>4. SumFunctionOnSet(e, r) = SumFunctionOnSet(f, r)
  BY <1>1, SumSame
<1>5. SumFunctionOnSet(f, r) \in Int
  BY <1>1, SumInt
<1> QED BY <1>2, <1>3, <1>4, <1>5

(* An element is added to the set that is summed over.                     *)
LEMMA SumAdded ==
  ASSUME NEW S, IsFiniteSet(S), NEW f, NEW x, x \notin S,
         \A y \in S \cup {x} : f[y] \in Int
  PROVE  SumFunctionOnSet(f, S \cup {x}) = f[x] + SumFunctionOnSet(f, S)
<1>1. IsFiniteSet(S \cup {x}) /\ x \in S \cup {x} /\ (S \cup {x}) \ {x} = S
  BY FS_AddElement
<1>2. SumFunctionOnSet(f, S \cup {x}) = f[x] + SumFunctionOnSet(f, (S \cup {x}) \ {x})
  BY <1>1, SumTake
<1> QED BY <1>1, <1>2

-----------------------------------------------------------------------------
(* Sums are compared, added and scaled value by value.                     *)
LEMMA SumLeq ==
  ASSUME NEW S, IsFiniteSet(S), NEW f, NEW e,
         \A x \in S : f[x] \in Int, \A x \in S : e[x] \in Int,
         \A x \in S : f[x] <= e[x]
  PROVE  SumFunctionOnSet(f, S) <= SumFunctionOnSet(e, S)
<1> DEFINE Bad == {s \in SUBSET S : ~(SumFunctionOnSet(f, s) <= SumFunctionOnSet(e, s))}
<1> SUFFICES ASSUME Bad # {} PROVE FALSE
  OBVIOUS
<1>1. PICK s \in Bad : \A t \in SUBSET s : t # s => t \notin Bad
  <2>1. Bad \in SUBSET (SUBSET S)
    OBVIOUS
  <2> HIDE DEF Bad
  <2> QED BY <2>1, SmallestSubset
<1>2. IsFiniteSet(s) /\ s \in SUBSET S
  BY FS_Subset
<1>3. s # {}
  BY <1>2, SumEmpty
<1> DEFINE p == Pick(s)
<1>4. /\ p \in s
      /\ SumFunctionOnSet(f, s) = f[p] + SumFunctionOnSet(f, s \ {p})
      /\ SumFunctionOnSet(e, s) = e[p] + SumFunctionOnSet(e, s \ {p})
  BY <1>2, <1>3, SumPick
<1>5. SumFunctionOnSet(f, s \ {p}) <= SumFunctionOnSet(e, s \ {p})
  BY <1>1, <1>2, <1>4
<1>6. /\ SumFunctionOnSet(f, s \ {p}) \in Int /\ SumFunctionOnSet(e, s \ {p}) \in Int
      /\ f[p] \in Int /\ e[p] \in Int /\ f[p] <= e[p]
  <2>1. IsFiniteSet(s \ {p}) /\ s \ {p} \subseteq S
    BY <1>2, FS_RemoveElement
  <2> QED BY <1>2, <1>4, <2>1, SumInt
<1> QED BY <1>4, <1>5, <1>6

LEMMA SumZero ==
  ASSUME NEW S, IsFiniteSet(S), NEW f, \A x \in S : f[x] = 0
  PROVE  SumFunctionOnSet(f, S) = 0
<1> DEFINE Bad == {s \in SUBSET S : SumFunctionOnSet(f, s) # 0}
<1> SUFFICES ASSUME Bad # {} PROVE FALSE
  OBVIOUS
<1>1. PICK s \in Bad : \A t \in SUBSET s : t # s => t \notin Bad
  <2>1. Bad \in SUBSET (SUBSET S)
    OBVIOUS
  <2> HIDE DEF Bad
  <2> QED BY <2>1, SmallestSubset
<1>2. IsFiniteSet(s) /\ s \in SUBSET S /\ s # {}
  BY FS_Subset, SumEmpty
<1>3. /\ Pick(s) \in s
      /\ SumFunctionOnSet(f, s) = f[Pick(s)] + SumFunctionOnSet(f, s \ {Pick(s)})
  BY <1>2, SumPick
<1>4. SumFunctionOnSet(f, s \ {Pick(s)}) = 0
  BY <1>1, <1>2, <1>3
<1> QED BY <1>2, <1>3, <1>4

LEMMA SumNat ==
  ASSUME NEW S, IsFiniteSet(S), NEW f, \A x \in S : f[x] \in Nat
  PROVE  SumFunctionOnSet(f, S) \in Nat
<1> DEFINE zero == [x \in S |-> 0]
<1>1. SumFunctionOnSet(zero, S) = 0
  BY SumZero
<1>2. SumFunctionOnSet(zero, S) <= SumFunctionOnSet(f, S)
  <2>1. \A x \in S : zero[x] \in Int /\ f[x] \in Int /\ zero[x] <= f[x]
    OBVIOUS
  <2> HIDE DEF zero
  <2> QED BY <2>1, SumLeq
<1>3. SumFunctionOnSet(f, S) \in Int
  BY SumInt
<1> QED BY <1>1, <1>2, <1>3

LEMMA SumPlus ==
  ASSUME NEW S, IsFiniteSet(S), NEW f, NEW e, NEW h,
         \A x \in S : f[x] \in Int, \A x \in S : e[x] \in Int,
         \A x \in S : h[x] = f[x] + e[x]
  PROVE  SumFunctionOnSet(h, S) = SumFunctionOnSet(f, S) + SumFunctionOnSet(e, S)
<1> DEFINE Bad == {s \in SUBSET S :
      SumFunctionOnSet(h, s) # SumFunctionOnSet(f, s) + SumFunctionOnSet(e, s)}
<1> SUFFICES ASSUME Bad # {} PROVE FALSE
  OBVIOUS
<1>1. PICK s \in Bad : \A t \in SUBSET s : t # s => t \notin Bad
  <2>1. Bad \in SUBSET (SUBSET S)
    OBVIOUS
  <2> HIDE DEF Bad
  <2> QED BY <2>1, SmallestSubset
<1>2. IsFiniteSet(s) /\ s \in SUBSET S
  BY FS_Subset
<1>3. s # {}
  BY <1>2, SumEmpty
<1> DEFINE p == Pick(s)
<1>4. /\ p \in s
      /\ SumFunctionOnSet(f, s) = f[p] + SumFunctionOnSet(f, s \ {p})
      /\ SumFunctionOnSet(e, s) = e[p] + SumFunctionOnSet(e, s \ {p})
      /\ SumFunctionOnSet(h, s) = h[p] + SumFunctionOnSet(h, s \ {p})
  BY <1>2, <1>3, SumPick
<1>5. SumFunctionOnSet(h, s \ {p})
        = SumFunctionOnSet(f, s \ {p}) + SumFunctionOnSet(e, s \ {p})
  BY <1>1, <1>2, <1>4
<1>6. /\ SumFunctionOnSet(f, s \ {p}) \in Int /\ SumFunctionOnSet(e, s \ {p}) \in Int
      /\ f[p] \in Int /\ e[p] \in Int /\ h[p] = f[p] + e[p]
  <2>1. IsFiniteSet(s \ {p}) /\ s \ {p} \subseteq S
    BY <1>2, FS_RemoveElement
  <2> QED BY <1>2, <1>4, <2>1, SumInt
<1> QED BY <1>4, <1>5, <1>6

LEMMA SumTimes ==
  ASSUME NEW S, IsFiniteSet(S), NEW f, NEW h, NEW k \in Int,
         \A x \in S : f[x] \in Int, \A x \in S : h[x] = k * f[x]
  PROVE  SumFunctionOnSet(h, S) = k * SumFunctionOnSet(f, S)
<1> DEFINE Bad == {s \in SUBSET S : SumFunctionOnSet(h, s) # k * SumFunctionOnSet(f, s)}
<1> SUFFICES ASSUME Bad # {} PROVE FALSE
  OBVIOUS
<1>1. PICK s \in Bad : \A t \in SUBSET s : t # s => t \notin Bad
  <2>1. Bad \in SUBSET (SUBSET S)
    OBVIOUS
  <2> HIDE DEF Bad
  <2> QED BY <2>1, SmallestSubset
<1>2. IsFiniteSet(s) /\ s \in SUBSET S
  BY FS_Subset
<1>3. s # {}
  BY <1>2, SumEmpty
<1> DEFINE p == Pick(s)
<1>4. /\ p \in s
      /\ SumFunctionOnSet(f, s) = f[p] + SumFunctionOnSet(f, s \ {p})
      /\ SumFunctionOnSet(h, s) = h[p] + SumFunctionOnSet(h, s \ {p})
  BY <1>2, <1>3, SumPick
<1>5. SumFunctionOnSet(h, s \ {p}) = k * SumFunctionOnSet(f, s \ {p})
  BY <1>1, <1>2, <1>4
<1>6. SumFunctionOnSet(f, s \ {p}) \in Int /\ f[p] \in Int /\ h[p] = k * f[p]
  <2>1. IsFiniteSet(s \ {p}) /\ s \ {p} \subseteq S
    BY <1>2, FS_RemoveElement
  <2> QED BY <1>2, <1>4, <2>1, SumInt
<1>7. \A a, b \in Int : k * (a + b) = k * a + k * b
  OBVIOUS
<1> QED BY <1>4, <1>5, <1>6, <1>7

-----------------------------------------------------------------------------
(* The same for the sum of all values of a function.                       *)
LEMMA TotalInt ==
  ASSUME NEW S, IsFiniteSet(S), NEW f \in [S -> Int]
  PROVE  SumFunction(f) \in Int
BY SumInt DEF SumFunction

LEMMA TotalNat ==
  ASSUME NEW S, IsFiniteSet(S), NEW f \in [S -> Nat]
  PROVE  SumFunction(f) \in Nat
BY SumNat DEF SumFunction

LEMMA TotalZero ==
  ASSUME NEW S, IsFiniteSet(S), NEW f \in [S -> Int], \A x \in S : f[x] = 0
  PROVE  SumFunction(f) = 0
BY SumZero DEF SumFunction

LEMMA TotalChanged ==
  ASSUME NEW S, IsFiniteSet(S), NEW f \in [S -> Int], NEW x \in S, NEW v \in Int
  PROVE  SumFunction([f EXCEPT ![x] = v]) = SumFunction(f) + v - f[x]
<1> DEFINE e == [f EXCEPT ![x] = v]
<1>1. /\ DOMAIN f = S /\ DOMAIN e = S /\ e[x] = v
      /\ \A y \in S : f[y] \in Int /\ \A z \in S \ {x} : e[z] = f[z]
  OBVIOUS
<1> HIDE DEF e
<1>2. SumFunctionOnSet(e, S) = SumFunctionOnSet(f, S) + e[x] - f[x]
  BY <1>1, SumChanged
<1> QED BY <1>1, <1>2 DEF SumFunction, e

-----------------------------------------------------------------------------
(* A sum does not change when its elements are renamed.                    *)
LEMMA SumMoved ==
  ASSUME NEW S, IsFiniteSet(S), NEW m, NEW f, NEW e,
         \A x, y \in S : m[x] = m[y] => x = y,
         \A x \in S : f[m[x]] \in Int /\ e[x] = f[m[x]]
  PROVE  SumFunctionOnSet(e, S) = SumFunctionOnSet(f, {m[x] : x \in S})
<1> DEFINE Im(s) == {m[x] : x \in s}
           Bad == {s \in SUBSET S : SumFunctionOnSet(e, s) # SumFunctionOnSet(f, Im(s))}
<1> SUFFICES ASSUME Bad # {} PROVE FALSE
  OBVIOUS
<1>1. PICK s \in Bad : \A t \in SUBSET s : t # s => t \notin Bad
  <2>1. Bad \in SUBSET (SUBSET S)
    OBVIOUS
  <2> HIDE DEF Bad
  <2> QED BY <2>1, SmallestSubset
<1>2. IsFiniteSet(s) /\ s \in SUBSET S
  BY FS_Subset
<1>3. s # {}
  <2>1. Im({}) = {}
    OBVIOUS
  <2> QED BY <2>1, SumEmpty
<1> DEFINE p == Pick(s)
           r == s \ {p}
<1>4. p \in s /\ SumFunctionOnSet(e, s) = e[p] + SumFunctionOnSet(e, r)
  BY <1>2, <1>3, SumPick
<1>5. SumFunctionOnSet(e, r) = SumFunctionOnSet(f, Im(r))
  BY <1>1, <1>2, <1>4
<1>6. SumFunctionOnSet(f, Im(s)) = f[m[p]] + SumFunctionOnSet(f, Im(r))
  <2>1. Im(s) = Im(r) \cup {m[p]} /\ m[p] \notin Im(r)
    BY <1>2, <1>4
  <2>2. IsFiniteSet(Im(r))
    <3>1. IsFiniteSet(r)
      BY <1>2, FS_RemoveElement
    <3>2. [x \in r |-> m[x]] \in Surjection(r, Im(r))
      BY DEF Surjection
    <3> HIDE DEF Im
    <3> QED BY <3>1, <3>2, FS_Surjection
  <2>3. \A y \in Im(r) \cup {m[p]} : f[y] \in Int
    BY <1>2, <1>4
  <2> HIDE DEF Im
  <2> QED BY <2>1, <2>2, <2>3, SumAdded
<1> QED BY <1>2, <1>4, <1>5, <1>6

(* A sum is the sum of the sums over the classes of its elements.          *)
LEMMA SumByClass ==
  ASSUME NEW S, IsFiniteSet(S), NEW C, IsFiniteSet(C), NEW f, NEW class,
         \A x \in S : f[x] \in Int /\ class[x] \in C
  PROVE  SumFunction([c \in C |-> SumFunctionOnSet(f, {x \in S : class[x] = c})])
           = SumFunctionOnSet(f, S)
<1> DEFINE Of(s, c) == {x \in s : class[x] = c}
           g(s) == [c \in C |-> SumFunctionOnSet(f, Of(s, c))]
           Bad == {s \in SUBSET S : SumFunction(g(s)) # SumFunctionOnSet(f, s)}
<1>g. ASSUME NEW s \in SUBSET S PROVE g(s) \in [C -> Int]
  <2>1. ASSUME NEW c \in C PROVE SumFunctionOnSet(f, Of(s, c)) \in Int
    <3>1. IsFiniteSet(Of(s, c)) /\ \A x \in Of(s, c) : f[x] \in Int
      BY FS_Subset
    <3> HIDE DEF Of
    <3> QED BY <3>1, SumInt
  <2> QED BY <2>1
<1> SUFFICES ASSUME Bad # {} PROVE FALSE
  OBVIOUS
<1>1. PICK s \in Bad : \A t \in SUBSET s : t # s => t \notin Bad
  <2>1. Bad \in SUBSET (SUBSET S)
    OBVIOUS
  <2> HIDE DEF Bad
  <2> QED BY <2>1, SmallestSubset
<1>2. IsFiniteSet(s) /\ s \in SUBSET S
  BY FS_Subset
<1>3. s # {}
  <2>1. ASSUME s = {} PROVE FALSE
    <3>1. \A c \in C : Of(s, c) = {}
      BY <2>1
    <3>2. \A c \in C : g(s)[c] = 0
      BY <3>1, SumEmpty
    <3>3. SumFunction(g(s)) = 0
      <4> HIDE DEF g
      <4> QED BY <1>g, <1>2, <3>2, TotalZero
    <3> QED BY <2>1, <3>3, SumEmpty
  <2> QED BY <2>1
<1> DEFINE p == Pick(s)
           r == s \ {p}
<1>4. p \in s /\ SumFunctionOnSet(f, s) = f[p] + SumFunctionOnSet(f, r)
  BY <1>2, <1>3, SumPick
<1>5. SumFunction(g(r)) = SumFunctionOnSet(f, r)
  BY <1>1, <1>2, <1>4
<1> DEFINE v == f[p] + SumFunctionOnSet(f, Of(r, class[p]))
<1>6. g(s) = [g(r) EXCEPT ![class[p]] = v] /\ v \in Int
  <2>1. IsFiniteSet(Of(r, class[p])) /\ \A x \in Of(r, class[p]) : f[x] \in Int
    BY <1>2, FS_Subset
  <2>2. Of(s, class[p]) = Of(r, class[p]) \cup {p} /\ p \notin Of(r, class[p])
    BY <1>4
  <2>3. SumFunctionOnSet(f, Of(s, class[p])) = v
    <3>1. \A x \in Of(r, class[p]) \cup {p} : f[x] \in Int
      BY <1>2, <1>4, <2>1
    <3> HIDE DEF Of
    <3> QED BY <2>1, <2>2, <3>1, SumAdded
  <2>4. \A c \in C \ {class[p]} : Of(s, c) = Of(r, c)
    OBVIOUS
  <2>5. v \in Int
    <3>1. SumFunctionOnSet(f, Of(r, class[p])) \in Int
      <4> HIDE DEF Of
      <4> QED BY <2>1, SumInt
    <3> QED BY <1>2, <1>4, <3>1
  <2> HIDE DEF Of, v
  <2> QED BY <2>3, <2>4, <2>5
<1>7. SumFunction(g(s)) = SumFunction(g(r)) + v - g(r)[class[p]]
  <2>1. g(r) \in [C -> Int] /\ class[p] \in C
    BY <1>g, <1>2, <1>4
  <2> HIDE DEF g, v
  <2>2. PICK k \in [C -> Int], c \in C, w \in Int : k = g(r) /\ c = class[p] /\ w = v
    BY <1>6, <2>1
  <2>3. SumFunction([k EXCEPT ![c] = w]) = SumFunction(k) + w - k[c]
    BY TotalChanged
  <2> QED BY <1>6, <2>2, <2>3
<1>8. g(r)[class[p]] = SumFunctionOnSet(f, Of(r, class[p]))
  BY <1>2, <1>4
<1>9. SumFunction(g(s)) = SumFunctionOnSet(f, s)
  <2>1. SumFunctionOnSet(f, r) \in Int /\ f[p] \in Int
    <3>1. IsFiniteSet(r) /\ \A x \in r : f[x] \in Int
      BY <1>2, FS_Subset
    <3> QED BY <1>2, <1>4, <3>1, SumInt
  <2>2. SumFunctionOnSet(f, Of(r, class[p])) \in Int
    <3>1. g(r) \in [C -> Int]
      BY <1>g, <1>2
    <3> QED BY <1>2, <1>4, <1>8, <3>1
  <2> HIDE DEF g, Of
  <2> QED BY <1>4, <1>5, <1>7, <1>8, <2>1, <2>2 DEF v
<1> QED BY <1>1, <1>9

-----------------------------------------------------------------------------
(* A bounded set of numbers that is not empty has a largest one, which is  *)
(* what Max picks.                                                         *)
LEMMA Largest ==
  ASSUME NEW S, S \subseteq Nat, S # {}, NEW b \in Nat, \A x \in S : x <= b
  PROVE  Max(S) \in S /\ \A y \in S : y <= Max(S)
<1> DEFINE R == OpToRel(<, Nat)
           D == {b - x : x \in S}
<1>1. IsWellFoundedOn(R, Nat)
  BY NatLessThanWellFounded
<1>2. \A x, y \in Nat : x < y => <<x, y>> \in R
  BY DEF OpToRel
<1>3. D \subseteq Nat /\ D # {}
  <2>1. \A x \in S : b - x \in Nat
    OBVIOUS
  <2> QED BY <2>1
<1> HIDE DEF R
<1>4. PICK d \in D : \A e \in D : ~(<<e, d>> \in R)
  <2> HIDE DEF D
  <2> QED BY <1>1, <1>3, WFMin
<1>5. PICK x \in S : d = b - x
  BY <1>4
<1>6. \A y \in S : y <= x
  <2> TAKE y \in S
  <2>1. b - y \in D /\ b - y \in Nat /\ d \in Nat
    BY <1>3, <1>4
  <2>2. ~(b - y < d)
    BY <1>2, <1>4, <2>1
  <2> QED BY <1>5, <2>2
<1>7. \A y \in S : x >= y
  BY <1>6
<1> QED
  BY <1>6, <1>7 DEF Max
=============================================================================
