---- MODULE Induction ----
(***************************************************************************)
(* Induction for sets of numbers: what the sums over days, over swaps and  *)
(* over what was seeded are reasoned about with; and the sum of a function *)
(* over a finite set.                                                      *)
(***************************************************************************)
EXTENDS Integers, FiniteSetsExt, FiniteSetTheorems, WellFoundedInduction, TLAPS

\* A set of numbers has a least one.
LEMMA LeastNatural ==
    ASSUME NEW T \in SUBSET Nat, T # {}
    PROVE  \E x \in T : \A y \in T : x <= y
  <1> DEFINE R == OpToRel(<, Nat)
  <1>1. IsWellFoundedOn(R, Nat)
    BY NatLessThanWellFounded
  <1>2. \A x, y \in Nat : x < y => <<x, y>> \in R
    BY DEF OpToRel
  <1> HIDE DEF R
  <1>3. T \subseteq Nat
    OBVIOUS
  <1>4. \E x \in T : \A y \in T : ~ (<<y, x>> \in R)
    BY <1>1, <1>3, WFMin, Zenon
  <1>5. PICK x \in T : \A y \in T : ~ (<<y, x>> \in R)
    BY <1>4
  <1>6. ASSUME NEW y \in T PROVE x <= y
    <2>1. x \in Nat /\ y \in Nat
      BY <1>3
    <2>2. ~ (y < x)
      BY <1>2, <1>5, <2>1
    <2> QED BY <2>1, <2>2
  <1> QED BY <1>6

\* Induction, for a set of numbers rather than a predicate.
LEMMA SetInduction ==
    ASSUME NEW T, 0 \in T, \A n \in Nat : n \in T => n + 1 \in T
    PROVE  Nat \subseteq T
  <1> DEFINE U == Nat \ T
  <1> SUFFICES ASSUME U # {} PROVE FALSE
    OBVIOUS
  <1>1. PICK x \in U : \A y \in U : x <= y
    BY LeastNatural
  <1>2. x # 0 /\ x - 1 \in Nat
    BY <1>1
  <1>3. x - 1 \in T
    BY <1>1, <1>2
  <1> QED BY <1>1, <1>2, <1>3

-----------------------------------------------------------------------------
(* Sums.                                                                      *)

SumOf(f, S) == MapThenSumSet(LAMBDA k : f[k], S)

One(s) == CHOOSE x \in s : TRUE

\* A subset is finite, and smaller by one without one of its elements.
LEMMA SmallerSets ==
    ASSUME NEW S, IsFiniteSet(S), NEW s \in SUBSET S
    PROVE  /\ Cardinality(s) \in Nat /\ Cardinality(s) <= Cardinality(S)
           /\ s # {} => /\ One(s) \in s /\ One(s) \in S /\ s \ {One(s)} \in SUBSET S
                        /\ Cardinality(s) > 0
                        /\ Cardinality(s \ {One(s)}) = Cardinality(s) - 1
  <1>1. IsFiniteSet(s) /\ Cardinality(s) \in Nat /\ Cardinality(s) <= Cardinality(S)
    BY FS_Subset, FS_CardinalityType
  <1>2. ASSUME s # {}
        PROVE  /\ One(s) \in s /\ One(s) \in S /\ s \ {One(s)} \in SUBSET S
               /\ Cardinality(s) > 0 /\ Cardinality(s \ {One(s)}) = Cardinality(s) - 1
    <2>1. One(s) \in s
      BY <1>2 DEF One
    <2>2. Cardinality(s) # 0
      BY <1>1, <1>2, FS_EmptySet
    <2>3. Cardinality(s \ {One(s)}) = Cardinality(s) - 1
      BY <1>1, <2>1, FS_RemoveElement
    <2>4. Cardinality(s) > 0
      BY <1>1, <2>2
    <2> QED BY <2>1, <2>3, <2>4
  <1> QED BY <1>1, <1>2

\* What a sum over s is, given the sums over smaller sets.
Unfolded(f, sum, s) == IF s = {} THEN 0 ELSE f[One(s)] + sum[s \ {One(s)}]

\* The recursion of the sum has a solution, and the sum takes one.
LEMMA SumUnfolds ==
    ASSUME NEW S, IsFiniteSet(S), NEW f
    PROVE  \E sum : /\ sum[{}] = 0
                    /\ \A s \in SUBSET S : s # {} => sum[s] = f[One(s)] + sum[s \ {One(s)}]
                    /\ SumOf(f, S) = sum[S]
  <1> DEFINE Solves(g, n) == \A s \in SUBSET S : Cardinality(s) <= n => g[s] = Unfolded(f, g, s)
             T == {n \in Nat : \E g : Solves(g, n)}
  <1>1. \A s \in SUBSET S : Cardinality(s) \in Nat /\ Cardinality(s) <= Cardinality(S)
    BY SmallerSets
  <1>2. \A s \in SUBSET S : s # {} => /\ s \ {One(s)} \in SUBSET S
                                    /\ Cardinality(s \ {One(s)}) = Cardinality(s) - 1
    BY SmallerSets
  <1>3. \A s \in SUBSET S : s # {} => Cardinality(s) > 0
    BY SmallerSets
  <1>4. 0 \in T
    <2> DEFINE g == [s \in SUBSET S |-> 0]
    <2>1. Solves(g, 0)
      BY <1>1, <1>3 DEF Unfolded
    <2> QED BY <2>1
  <1>5. ASSUME NEW n \in Nat, n \in T PROVE n + 1 \in T
    <2>1. PICK g : Solves(g, n)
      BY <1>5
    <2> DEFINE h == [s \in SUBSET S |-> Unfolded(f, g, s)]
    <2>2. ASSUME NEW s \in SUBSET S, Cardinality(s) <= n + 1 PROVE h[s] = Unfolded(f, h, s)
      <3>1. CASE s = {}
        BY <3>1 DEF Unfolded
      <3>2. CASE s # {}
        <4>1. s \ {One(s)} \in SUBSET S /\ Cardinality(s \ {One(s)}) <= n
          BY <1>1, <1>2, <2>2, <3>2
        <4>2. h[s \ {One(s)}] = g[s \ {One(s)}]
          BY <2>1, <4>1
        <4> QED BY <3>2, <4>2 DEF Unfolded
      <3> QED BY <3>1, <3>2
    <2>3. Solves(h, n + 1)
      BY <2>2
    <2> HIDE DEF h, Solves
    <2> QED BY <2>3
  <1> HIDE DEF T
  <1>6. Cardinality(S) \in T
    BY <1>1, <1>4, <1>5, SetInduction
  <1> USE DEF T
  <1>7. PICK g : Solves(g, Cardinality(S))
    BY <1>6
  <1> DEFINE sum == [s \in SUBSET S |-> g[s]]
  <1>8. sum = [s \in SUBSET S |-> IF s = {} THEN 0 ELSE f[CHOOSE x \in s : TRUE] + sum[s \ {CHOOSE x \in s : TRUE}]]
    <2>1. ASSUME NEW s \in SUBSET S PROVE g[s] = IF s = {} THEN 0 ELSE f[One(s)] + sum[s \ {One(s)}]
      <3>1. Cardinality(s) <= Cardinality(S)
        BY <1>1
      <3>2. g[s] = Unfolded(f, g, s)
        BY <1>7, <3>1
      <3>3. s # {} => sum[s \ {One(s)}] = g[s \ {One(s)}]
        BY <1>2
      <3> QED BY <3>2, <3>3 DEF Unfolded
    <2> QED BY <2>1 DEF One
  <1> HIDE DEF sum
  <1> DEFINE it == CHOOSE it : it = [s \in SUBSET S |-> IF s = {} THEN 0
                                           ELSE f[CHOOSE x \in s : TRUE] + it[s \ {CHOOSE x \in s : TRUE}]]
  <1>9. it = [s \in SUBSET S |-> IF s = {} THEN 0 ELSE f[CHOOSE x \in s : TRUE] + it[s \ {CHOOSE x \in s : TRUE}]]
    BY <1>8
  <1>10. SumOf(f, S) = it[S]
    BY DEF SumOf, MapThenSumSet, MapThenFoldSet
  <1> HIDE DEF it
  <1>11. \A s \in SUBSET S : it[s] = Unfolded(f, it, s)
    BY <1>9, Zenon DEF Unfolded, One
  <1>12. {} \in SUBSET S
    OBVIOUS
  <1>13. it[{}] = 0
    BY <1>11, <1>12 DEF Unfolded
  <1>14. \A s \in SUBSET S : s # {} => it[s] = f[One(s)] + it[s \ {One(s)}]
    BY <1>11 DEF Unfolded
  <1> QED BY <1>10, <1>13, <1>14


\* Where two functions differ by a third, so do their sums.
LEMMA SumAdds ==
    ASSUME NEW S, IsFiniteSet(S), NEW f \in [S -> Int], NEW g \in [S -> Int], NEW h \in [S -> Int],
           \A k \in S : h[k] = f[k] + g[k]
    PROVE  /\ SumOf(f, S) \in Int /\ SumOf(g, S) \in Int
           /\ SumOf(h, S) = SumOf(f, S) + SumOf(g, S)
  <1>1. PICK F : /\ F[{}] = 0
                 /\ \A s \in SUBSET S : s # {} => F[s] = f[One(s)] + F[s \ {One(s)}]
                 /\ SumOf(f, S) = F[S]
    BY SumUnfolds
  <1>2. PICK G : /\ G[{}] = 0
                 /\ \A s \in SUBSET S : s # {} => G[s] = g[One(s)] + G[s \ {One(s)}]
                 /\ SumOf(g, S) = G[S]
    BY SumUnfolds
  <1>3. PICK H : /\ H[{}] = 0
                 /\ \A s \in SUBSET S : s # {} => H[s] = h[One(s)] + H[s \ {One(s)}]
                 /\ SumOf(h, S) = H[S]
    BY SumUnfolds
  <1> DEFINE Right(s) == F[s] \in Int /\ G[s] \in Int /\ H[s] = F[s] + G[s]
             T == {n \in Nat : \A s \in SUBSET S : Cardinality(s) <= n => Right(s)}
  <1>4. ASSUME NEW s \in SUBSET S, s # {}
        PROVE  /\ Cardinality(s) \in Nat /\ Cardinality(s) > 0 /\ One(s) \in s /\ One(s) \in S
               /\ s \ {One(s)} \in SUBSET S /\ Cardinality(s \ {One(s)}) = Cardinality(s) - 1
    BY <1>4, SmallerSets
  <1>5. \A s \in SUBSET S : s = {} => Right(s)
    BY <1>1, <1>2, <1>3
  <1> HIDE DEF Right
  <1>6. 0 \in T
    <2>1. ASSUME NEW s \in SUBSET S, Cardinality(s) <= 0 PROVE s = {}
      <3> SUFFICES ASSUME s # {} PROVE FALSE
        OBVIOUS
      <3>1. Cardinality(s) \in Nat /\ Cardinality(s) > 0
        BY <1>4
      <3> QED BY <2>1, <3>1
    <2> QED BY <1>5, <2>1
  <1>7. ASSUME NEW n \in Nat, n \in T PROVE n + 1 \in T
    <2> SUFFICES ASSUME NEW s \in SUBSET S, Cardinality(s) <= n + 1, s # {} PROVE Right(s)
      BY <1>5
    <2>1. s \ {One(s)} \in SUBSET S /\ Cardinality(s \ {One(s)}) <= n /\ One(s) \in S
      BY <1>4
    <2>2. Right(s \ {One(s)})
      BY <1>7, <2>1
    <2>3. /\ F[s] = f[One(s)] + F[s \ {One(s)}] /\ G[s] = g[One(s)] + G[s \ {One(s)}]
          /\ H[s] = h[One(s)] + H[s \ {One(s)}]
      BY <1>1, <1>2, <1>3
    <2>4. f[One(s)] \in Int /\ g[One(s)] \in Int /\ h[One(s)] = f[One(s)] + g[One(s)]
      BY <2>1
    <2> QED BY <2>2, <2>3, <2>4 DEF Right
  <1> HIDE DEF T
  <1>8. Cardinality(S) \in T
    BY <1>4, <1>6, <1>7, FS_CardinalityType, SetInduction
  <1>9. Right(S)
    BY <1>4, <1>8, FS_CardinalityType DEF T
  <1> QED BY <1>1, <1>2, <1>3, <1>9 DEF Right

\* The sum of what is nowhere negative is not.
LEMMA SumIsNat ==
    ASSUME NEW S, IsFiniteSet(S), NEW f \in [S -> Nat]
    PROVE  SumOf(f, S) \in Nat
  <1>1. PICK F : /\ F[{}] = 0
                 /\ \A s \in SUBSET S : s # {} => F[s] = f[One(s)] + F[s \ {One(s)}]
                 /\ SumOf(f, S) = F[S]
    BY SumUnfolds
  <1> DEFINE T == {n \in Nat : \A s \in SUBSET S : Cardinality(s) <= n => F[s] \in Nat}
  <1>2. ASSUME NEW s \in SUBSET S, s # {}
        PROVE  /\ Cardinality(s) \in Nat /\ Cardinality(s) > 0 /\ One(s) \in s /\ One(s) \in S
               /\ s \ {One(s)} \in SUBSET S /\ Cardinality(s \ {One(s)}) = Cardinality(s) - 1
    BY <1>2, SmallerSets
  <1>3. \A s \in SUBSET S : s = {} => F[s] = 0
    BY <1>1
  <1>4. 0 \in T
    <2>1. ASSUME NEW s \in SUBSET S, Cardinality(s) <= 0 PROVE s = {}
      <3> SUFFICES ASSUME s # {} PROVE FALSE
        OBVIOUS
      <3>1. Cardinality(s) \in Nat /\ Cardinality(s) > 0
        BY <1>2
      <3> QED BY <2>1, <3>1
    <2> QED BY <1>3, <2>1
  <1>5. ASSUME NEW n \in Nat, n \in T PROVE n + 1 \in T
    <2> SUFFICES ASSUME NEW s \in SUBSET S, Cardinality(s) <= n + 1, s # {} PROVE F[s] \in Nat
      BY <1>3
    <2>1. s \ {One(s)} \in SUBSET S /\ Cardinality(s \ {One(s)}) <= n /\ One(s) \in S
      BY <1>2
    <2>2. F[s \ {One(s)}] \in Nat /\ f[One(s)] \in Nat
      BY <1>5, <2>1
    <2>3. F[s] = f[One(s)] + F[s \ {One(s)}]
      BY <1>1
    <2> QED BY <2>2, <2>3
  <1> HIDE DEF T
  <1>6. Cardinality(S) \in T
    BY <1>2, <1>4, <1>5, FS_CardinalityType, SetInduction
  <1> QED BY <1>1, <1>6, FS_CardinalityType DEF T

\* A function that differs in one place has a sum that differs by as much.
LEMMA SumMoves ==
    ASSUME NEW S, IsFiniteSet(S), NEW f \in [S -> Int], NEW k \in S, NEW d \in Int,
           NEW g \in [S -> Int], g[k] = f[k] + d, \A j \in S \ {k} : g[j] = f[j]
    PROVE  SumOf(f, S) \in Int /\ SumOf(g, S) = SumOf(f, S) + d
  <1>1. PICK F : /\ F[{}] = 0
                 /\ \A s \in SUBSET S : s # {} => F[s] = f[One(s)] + F[s \ {One(s)}]
                 /\ SumOf(f, S) = F[S]
    BY SumUnfolds
  <1>2. PICK G : /\ G[{}] = 0
                 /\ \A s \in SUBSET S : s # {} => G[s] = g[One(s)] + G[s \ {One(s)}]
                 /\ SumOf(g, S) = G[S]
    BY SumUnfolds
  <1> DEFINE Right(s) == F[s] \in Int /\ G[s] = F[s] + IF k \in s THEN d ELSE 0
             T == {n \in Nat : \A s \in SUBSET S : Cardinality(s) <= n => Right(s)}
  <1>3. ASSUME NEW s \in SUBSET S, s # {}
        PROVE  /\ Cardinality(s) \in Nat /\ Cardinality(s) > 0 /\ One(s) \in s /\ One(s) \in S
               /\ s \ {One(s)} \in SUBSET S /\ Cardinality(s \ {One(s)}) = Cardinality(s) - 1
    BY <1>3, SmallerSets
  <1>4. \A s \in SUBSET S : s = {} => Right(s)
    BY <1>1, <1>2
  <1> HIDE DEF Right
  <1>5. 0 \in T
    <2>1. ASSUME NEW s \in SUBSET S, Cardinality(s) <= 0 PROVE s = {}
      <3> SUFFICES ASSUME s # {} PROVE FALSE
        OBVIOUS
      <3>1. Cardinality(s) \in Nat /\ Cardinality(s) > 0
        BY <1>3
      <3> QED BY <2>1, <3>1
    <2> QED BY <1>4, <2>1
  <1>6. ASSUME NEW n \in Nat, n \in T PROVE n + 1 \in T
    <2> SUFFICES ASSUME NEW s \in SUBSET S, Cardinality(s) <= n + 1, s # {} PROVE Right(s)
      BY <1>4
    <2>1. s \ {One(s)} \in SUBSET S /\ Cardinality(s \ {One(s)}) <= n /\ One(s) \in S /\ One(s) \in s
      BY <1>3
    <2>2. Right(s \ {One(s)})
      BY <1>6, <2>1
    <2>3. F[s] = f[One(s)] + F[s \ {One(s)}] /\ G[s] = g[One(s)] + G[s \ {One(s)}]
      BY <1>1, <1>2
    <2>4. f[One(s)] \in Int /\ g[One(s)] = f[One(s)] + IF One(s) = k THEN d ELSE 0
      BY <2>1
    <2>5. CASE One(s) = k
      BY <2>1, <2>2, <2>3, <2>4, <2>5 DEF Right
    <2>6. CASE One(s) # k
      BY <2>1, <2>2, <2>3, <2>4, <2>6 DEF Right
    <2> QED BY <2>5, <2>6
  <1> HIDE DEF T
  <1>7. Cardinality(S) \in T
    BY <1>3, <1>5, <1>6, FS_CardinalityType, SetInduction
  <1>8. Right(S)
    BY <1>3, <1>7, FS_CardinalityType DEF T
  <1> QED BY <1>1, <1>2, <1>8 DEF Right

-----------------------------------------------------------------------------
(* Sums over sets that grow, shrink and are counted anew.                     *)

\* The sum over nothing.
LEMMA SumOfNone == ASSUME NEW f PROVE SumOf(f, {}) = 0
  <1>1. IsFiniteSet({})
    BY FS_EmptySet
  <1> QED BY <1>1, SumUnfolds

\* Functions that agree on a set have the same sum over it.
LEMMA SumsAgree ==
    ASSUME NEW S, IsFiniteSet(S), NEW f, NEW g, \A k \in S : f[k] \in Int /\ g[k] = f[k]
    PROVE  SumOf(f, S) \in Int /\ SumOf(g, S) = SumOf(f, S)
  <1> DEFINE F == [k \in S |-> f[k]]
             Z == [k \in S |-> 0]
  <1>1. PICK sum : /\ sum[{}] = 0
                   /\ \A s \in SUBSET S : s # {} => sum[s] = f[One(s)] + sum[s \ {One(s)}]
                   /\ SumOf(f, S) = sum[S]
    BY SumUnfolds
  <1>2. PICK other : /\ other[{}] = 0
                     /\ \A s \in SUBSET S : s # {} => other[s] = g[One(s)] + other[s \ {One(s)}]
                     /\ SumOf(g, S) = other[S]
    BY SumUnfolds
  <1> DEFINE Right(s) == sum[s] \in Int /\ other[s] = sum[s]
             T == {n \in Nat : \A s \in SUBSET S : Cardinality(s) <= n => Right(s)}
  <1>3. ASSUME NEW s \in SUBSET S, s # {}
        PROVE  /\ Cardinality(s) \in Nat /\ Cardinality(s) > 0 /\ One(s) \in s /\ One(s) \in S
               /\ s \ {One(s)} \in SUBSET S /\ Cardinality(s \ {One(s)}) = Cardinality(s) - 1
    BY <1>3, SmallerSets
  <1>4. \A s \in SUBSET S : s = {} => Right(s)
    BY <1>1, <1>2
  <1> HIDE DEF Right
  <1>5. 0 \in T
    <2>1. ASSUME NEW s \in SUBSET S, Cardinality(s) <= 0 PROVE s = {}
      <3> SUFFICES ASSUME s # {} PROVE FALSE
        OBVIOUS
      <3>1. Cardinality(s) \in Nat /\ Cardinality(s) > 0
        BY <1>3
      <3> QED BY <2>1, <3>1
    <2> QED BY <1>4, <2>1
  <1>6. ASSUME NEW n \in Nat, n \in T PROVE n + 1 \in T
    <2> SUFFICES ASSUME NEW s \in SUBSET S, Cardinality(s) <= n + 1, s # {} PROVE Right(s)
      BY <1>4
    <2>1. s \ {One(s)} \in SUBSET S /\ Cardinality(s \ {One(s)}) <= n /\ One(s) \in S
      BY <1>3
    <2>2. Right(s \ {One(s)})
      BY <1>6, <2>1
    <2>3. sum[s] = f[One(s)] + sum[s \ {One(s)}] /\ other[s] = g[One(s)] + other[s \ {One(s)}]
      BY <1>1, <1>2
    <2>4. f[One(s)] \in Int /\ g[One(s)] = f[One(s)]
      BY <2>1
    <2> QED BY <2>2, <2>3, <2>4 DEF Right
  <1> HIDE DEF T
  <1>7. Cardinality(S) \in T
    BY <1>3, <1>5, <1>6, FS_CardinalityType, SetInduction
  <1>8. Right(S)
    BY <1>3, <1>7, FS_CardinalityType DEF T
  <1> QED BY <1>1, <1>2, <1>8 DEF Right

\* In what order elements are summed does not matter: any may come first.
LEMMA SumRemove ==
    ASSUME NEW S, IsFiniteSet(S), NEW f, \A k \in S : f[k] \in Int, NEW x \in S
    PROVE  SumOf(f, S) \in Int /\ SumOf(f, S \ {x}) \in Int /\ SumOf(f, S) = f[x] + SumOf(f, S \ {x})
  <1>1. PICK sum : /\ sum[{}] = 0
                   /\ \A s \in SUBSET S : s # {} => sum[s] = f[One(s)] + sum[s \ {One(s)}]
                   /\ SumOf(f, S) = sum[S]
    BY SumUnfolds
  <1> DEFINE Right(s) == sum[s] \in Int /\ \A y \in s : sum[s] = f[y] + sum[s \ {y}]
             T == {n \in Nat : \A s \in SUBSET S : Cardinality(s) <= n => Right(s)}
  <1>3. ASSUME NEW s \in SUBSET S, s # {}
        PROVE  /\ Cardinality(s) \in Nat /\ Cardinality(s) > 0 /\ One(s) \in s /\ One(s) \in S
               /\ s \ {One(s)} \in SUBSET S /\ Cardinality(s \ {One(s)}) = Cardinality(s) - 1
    BY <1>3, SmallerSets
  <1>4. \A s \in SUBSET S : s = {} => Right(s)
    BY <1>1
  <1> HIDE DEF Right
  <1>5. 0 \in T
    <2>1. ASSUME NEW s \in SUBSET S, Cardinality(s) <= 0 PROVE s = {}
      <3> SUFFICES ASSUME s # {} PROVE FALSE
        OBVIOUS
      <3>1. Cardinality(s) \in Nat /\ Cardinality(s) > 0
        BY <1>3
      <3> QED BY <2>1, <3>1
    <2> QED BY <1>4, <2>1
  <1>6. ASSUME NEW n \in Nat, n \in T PROVE n + 1 \in T
    <2> SUFFICES ASSUME NEW s \in SUBSET S, Cardinality(s) <= n + 1, s # {} PROVE Right(s)
      BY <1>4
    <2> DEFINE o == One(s)
    <2>1. s \ {o} \in SUBSET S /\ Cardinality(s \ {o}) <= n /\ o \in S /\ o \in s
      BY <1>3
    <2>2. Right(s \ {o})
      BY <1>6, <2>1
    <2>3. sum[s] = f[o] + sum[s \ {o}]
      BY <1>1
    <2>4. f[o] \in Int
      BY <2>1
    <2>5. sum[s] \in Int
      BY <2>2, <2>3, <2>4 DEF Right
    <2> HIDE DEF o
    <2>6. ASSUME NEW y \in s, y # o PROVE sum[s] = f[y] + sum[s \ {y}]
      <3>1. s \ {y} \in SUBSET S /\ Cardinality(s \ {y}) <= n
        <4>1. IsFiniteSet(s) /\ Cardinality(s) \in Nat
          BY FS_Subset, FS_CardinalityType
        <4>2. Cardinality(s \ {y}) = Cardinality(s) - 1
          BY <4>1, FS_RemoveElement
        <4> QED BY <4>1, <4>2
      <3>2. Right(s \ {y})
        BY <1>6, <3>1
      <3>3. y \in s \ {o} /\ o \in s \ {y}
        BY <2>1, <2>6
      <3>4. sum[s \ {o}] = f[y] + sum[(s \ {o}) \ {y}]
        BY <2>2, <3>3 DEF Right
      <3>5. sum[s \ {y}] = f[o] + sum[(s \ {y}) \ {o}]
        BY <3>2, <3>3 DEF Right
      <3>6. (s \ {o}) \ {y} = (s \ {y}) \ {o}
        OBVIOUS
      <3>7. (s \ {o}) \ {y} \in SUBSET S /\ Cardinality((s \ {o}) \ {y}) <= n
        <4>1. IsFiniteSet(s \ {o}) /\ Cardinality(s \ {o}) \in Nat
          BY <2>1, FS_Subset, FS_CardinalityType
        <4>2. Cardinality((s \ {o}) \ {y}) = Cardinality(s \ {o}) - 1
          BY <3>3, <4>1, FS_RemoveElement
        <4> QED BY <2>1, <4>1, <4>2
      <3>8. sum[(s \ {o}) \ {y}] \in Int
        BY <1>6, <3>7 DEF Right
      <3>9. f[y] \in Int
        OBVIOUS
      <3>10. sum[(s \ {y}) \ {o}] = sum[(s \ {o}) \ {y}]
        BY <3>6
      <3> DEFINE c == sum[(s \ {o}) \ {y}]
      <3>11. c \in Int /\ sum[s \ {o}] = f[y] + c /\ sum[s \ {y}] = f[o] + c
        BY <3>4, <3>5, <3>8, <3>10
      <3> HIDE DEF c
      <3> QED BY <2>3, <2>4, <3>9, <3>11
    <2> QED BY <2>3, <2>5, <2>6 DEF Right
  <1> HIDE DEF T
  <1>7. Cardinality(S) \in T
    BY <1>3, <1>5, <1>6, FS_CardinalityType, SetInduction
  <1>8. \A s \in SUBSET S : Right(s)
    <2>1. ASSUME NEW s \in SUBSET S PROVE Cardinality(s) <= Cardinality(S)
      BY SmallerSets
    <2> QED BY <1>7, <2>1 DEF T
  <1>9. SumOf(f, S \ {x}) = sum[S \ {x}]
    <2>1. IsFiniteSet(S \ {x})
      BY FS_Subset
    <2>2. PICK rest : /\ rest[{}] = 0
                      /\ \A s \in SUBSET (S \ {x}) : s # {} => rest[s] = f[One(s)] + rest[s \ {One(s)}]
                      /\ SumOf(f, S \ {x}) = rest[S \ {x}]
      BY <2>1, SumUnfolds
    <2> DEFINE U == {n \in Nat : \A s \in SUBSET (S \ {x}) : Cardinality(s) <= n => rest[s] = sum[s]}
    <2>3. 0 \in U
      <3>1. ASSUME NEW s \in SUBSET (S \ {x}), Cardinality(s) <= 0 PROVE s = {}
        <4> SUFFICES ASSUME s # {} PROVE FALSE
          OBVIOUS
        <4>1. Cardinality(s) \in Nat /\ Cardinality(s) > 0
          BY <1>3
        <4> QED BY <3>1, <4>1
      <3> QED BY <1>1, <2>2, <3>1
    <2>4. ASSUME NEW n \in Nat, n \in U PROVE n + 1 \in U
      <3> SUFFICES ASSUME NEW s \in SUBSET (S \ {x}), Cardinality(s) <= n + 1 PROVE rest[s] = sum[s]
        OBVIOUS
      <3>1. CASE s = {}
        BY <1>1, <2>2, <3>1
      <3>2. CASE s # {}
        <4>1. s \ {One(s)} \in SUBSET (S \ {x}) /\ Cardinality(s \ {One(s)}) <= n
          BY <1>3, <3>2
        <4>2. rest[s \ {One(s)}] = sum[s \ {One(s)}]
          BY <2>4, <4>1
        <4>3. rest[s] = f[One(s)] + rest[s \ {One(s)}] /\ sum[s] = f[One(s)] + sum[s \ {One(s)}]
          BY <1>1, <2>2, <3>2
        <4> QED BY <4>2, <4>3
      <3> QED BY <3>1, <3>2
    <2> HIDE DEF U
    <2>5. Cardinality(S \ {x}) \in U
      BY <2>1, <2>3, <2>4, FS_CardinalityType, SetInduction
    <2>6. S \ {x} \in SUBSET (S \ {x}) /\ Cardinality(S \ {x}) <= Cardinality(S \ {x})
      BY <2>1, FS_CardinalityType
    <2>7. rest[S \ {x}] = sum[S \ {x}]
      BY <2>5, <2>6 DEF U
    <2> QED BY <2>2, <2>7
  <1>10. S \in SUBSET S /\ S \ {x} \in SUBSET S
    OBVIOUS
  <1>11. sum[S] \in Int /\ sum[S \ {x}] \in Int /\ sum[S] = f[x] + sum[S \ {x}]
    BY <1>8, <1>10 DEF Right
  <1> QED BY <1>1, <1>9, <1>11

\* An element more.
LEMMA SumInsert ==
    ASSUME NEW S, IsFiniteSet(S), NEW f, \A k \in S : f[k] \in Int, NEW x, x \notin S, f[x] \in Int
    PROVE  SumOf(f, S) \in Int /\ SumOf(f, S \union {x}) = SumOf(f, S) + f[x]
  <1>1. IsFiniteSet(S \union {x})
    BY FS_AddElement
  <1>2. (S \union {x}) \ {x} = S
    OBVIOUS
  <1> QED BY <1>1, <1>2, SumRemove

\* Functions that agree but in one place.
LEMMA SumChanges ==
    ASSUME NEW S, IsFiniteSet(S), NEW f, NEW g, NEW x \in S, NEW d \in Int,
           \A k \in S : f[k] \in Int, g[x] = f[x] + d, \A k \in S \ {x} : g[k] = f[k]
    PROVE  SumOf(f, S) \in Int /\ SumOf(g, S) = SumOf(f, S) + d
  <1> DEFINE R == S \ {x}
  <1>1. R \subseteq S /\ f[x] \in Int /\ x \notin R /\ R \union {x} = S
    OBVIOUS
  <1>2. IsFiniteSet(R)
    BY <1>1, FS_Subset
  <1>3. \A k \in R : f[k] \in Int /\ g[k] = f[k]
    OBVIOUS
  <1>4. g[x] \in Int /\ g[x] = f[x] + d
    BY <1>1
  <1>5. \A k \in S : f[k] \in Int
    OBVIOUS
  <1>6. \A k \in S : g[k] \in Int
    <2>1. ASSUME NEW k \in S PROVE g[k] \in Int
      <3>1. CASE k = x
        BY <1>4, <3>1
      <3>2. CASE k # x
        BY <1>3, <3>2
      <3> QED BY <3>1, <3>2
    <2> QED BY <2>1
  <1> HIDE DEF R
  <1>7. SumOf(g, R) = SumOf(f, R) /\ SumOf(f, R) \in Int
    BY <1>2, <1>3, SumsAgree
  <1>8. SumOf(f, S) = f[x] + SumOf(f, R) /\ SumOf(f, S) \in Int
    BY <1>5, SumRemove DEF R
  <1>9. SumOf(g, S) = g[x] + SumOf(g, R)
    BY <1>6, SumRemove DEF R
  <1> QED BY <1>1, <1>4, <1>7, <1>8, <1>9

\* Nothing but zeros.
LEMMA SumOfZeros == ASSUME NEW S, IsFiniteSet(S), NEW f, \A k \in S : f[k] = 0 PROVE SumOf(f, S) = 0
  <1> DEFINE Z == [k \in S |-> 0]
  <1>1. Z \in [S -> Int] /\ \A k \in S : Z[k] = Z[k] + Z[k]
    OBVIOUS
  <1>2. \A k \in S : Z[k] \in Int /\ f[k] = Z[k]
    OBVIOUS
  <1>3. \A k \in S : Z[k] = Z[k] + Z[k]
    BY <1>1
  <1> HIDE DEF Z
  <1>4. SumOf(Z, S) \in Int /\ SumOf(Z, S) = SumOf(Z, S) + SumOf(Z, S)
    BY <1>1, <1>3, SumAdds
  <1>5. SumOf(f, S) = SumOf(Z, S)
    BY <1>2, SumsAgree
  <1>6. PICK n : n = SumOf(Z, S)
    OBVIOUS
  <1>7. n \in Int /\ n = n + n
    BY <1>4, <1>6, Zenon
  <1>8. n = 0
    BY <1>7
  <1> QED BY <1>5, <1>6, <1>8

\* Sums of what is pairwise at most the other; the larger set counting for no less.
LEMMA SumsCompare ==
    ASSUME NEW S, IsFiniteSet(S), NEW f, NEW g, NEW R \in SUBSET S,
           \A k \in S : g[k] \in Nat, \A k \in R : f[k] \in Int /\ f[k] <= g[k]
    PROVE  SumOf(f, R) \in Int /\ SumOf(g, S) \in Nat /\ SumOf(f, R) <= SumOf(g, S)
  <1> DEFINE F == [k \in S |-> IF k \in R THEN f[k] ELSE 0]
             T == {n \in Nat : \A s \in SUBSET S : Cardinality(s) = n =>
                      /\ SumOf(g, s) \in Nat /\ SumOf(f, s \cap R) \in Int
                      /\ SumOf(f, s \cap R) <= SumOf(g, s)}
  <1>1. \A s \in SUBSET S : IsFiniteSet(s) /\ Cardinality(s) \in Nat /\ IsFiniteSet(s \cap R)
    BY FS_Subset, FS_CardinalityType
  <1>2. 0 \in T
    <2> SUFFICES ASSUME NEW s \in SUBSET S, Cardinality(s) = 0
                 PROVE  /\ SumOf(g, s) \in Nat /\ SumOf(f, s \cap R) \in Int
                        /\ SumOf(f, s \cap R) <= SumOf(g, s)
      OBVIOUS
    <2>1. s = {} /\ s \cap R = {}
      BY <1>1, FS_EmptySet
    <2>2. SumOf(g, s) = 0 /\ SumOf(f, s \cap R) = 0
      BY <2>1, SumOfNone
    <2> QED BY <2>2
  <1>3. ASSUME NEW n \in Nat, n \in T PROVE n + 1 \in T
    <2> SUFFICES ASSUME NEW s \in SUBSET S, Cardinality(s) = n + 1
                 PROVE  /\ SumOf(g, s) \in Nat /\ SumOf(f, s \cap R) \in Int
                        /\ SumOf(f, s \cap R) <= SumOf(g, s)
      OBVIOUS
    <2>1. PICK x \in s : TRUE
      BY <1>1, FS_EmptySet
    <2> DEFINE r == s \ {x}
    <2>2. r \in SUBSET S /\ Cardinality(r) = n
      <3>1. IsFiniteSet(s) /\ Cardinality(s) = n + 1
        BY <1>1
      <3>2. Cardinality(r) = Cardinality(s) - 1
        BY <2>1, <3>1, FS_RemoveElement
      <3> QED BY <3>1, <3>2
    <2>3. /\ SumOf(g, r) \in Nat /\ SumOf(f, r \cap R) \in Int
          /\ SumOf(f, r \cap R) <= SumOf(g, r)
      BY <1>3, <2>2
    <2>4. g[x] \in Nat /\ \A k \in s : g[k] \in Int
      BY <2>1
    <2>5. SumOf(g, s) = g[x] + SumOf(g, r)
      BY <1>1, <2>1, <2>4, SumRemove
    <2>6. CASE x \in R
      <3>1. (s \cap R) \ {x} = r \cap R /\ x \in s \cap R /\ \A k \in s \cap R : f[k] \in Int
        BY <2>1, <2>6
      <3>2. SumOf(f, s \cap R) = f[x] + SumOf(f, r \cap R)
        <4>1. IsFiniteSet(s \cap R)
          BY <1>1
        <4>2. SumOf(f, s \cap R) = f[x] + SumOf(f, (s \cap R) \ {x})
          BY <3>1, <4>1, SumRemove
        <4> QED BY <3>1, <4>2
      <3>3. f[x] \in Int /\ f[x] <= g[x]
        BY <2>6
      <3> HIDE DEF r
      <3> QED BY <2>3, <2>4, <2>5, <3>2, <3>3
    <2>7. CASE x \notin R
      <3>1. s \cap R = r \cap R
        BY <2>7
      <3>2. SumOf(f, s \cap R) = SumOf(f, r \cap R)
        BY <3>1
      <3> DEFINE a == SumOf(f, r \cap R)
                 c == SumOf(g, r)
      <3>3. a \in Int /\ c \in Nat /\ a <= c /\ SumOf(f, s \cap R) = a /\ SumOf(g, s) = g[x] + c
        BY <2>3, <2>5, <3>2
      <3> HIDE DEF a, c
      <3> QED BY <2>4, <3>3
    <2> QED BY <2>6, <2>7
  <1> HIDE DEF T
  <1>4. Cardinality(S) \in T
    BY <1>1, <1>2, <1>3, SetInduction
  <1>5. S \cap R = R
    OBVIOUS
  <1> QED BY <1>4, <1>5 DEF T

\* What a function makes of a finite set is finite.
LEMMA ImageFinite == ASSUME NEW S, IsFiniteSet(S), NEW b PROVE IsFiniteSet({b[k] : k \in S})
  <1> DEFINE T == {b[k] : k \in S}
             f == [k \in S |-> b[k]]
  <1>1. f \in Surjection(S, T)
    BY DEF Surjection
  <1> HIDE DEF f, T
  <1>2. IsFiniteSet(T)
    BY <1>1, FS_Surjection
  <1> QED BY <1>2 DEF T

\* Renaming what is summed over changes nothing.
LEMMA SumRenamed ==
    ASSUME NEW S, IsFiniteSet(S), NEW f, \A k \in S : f[k] \in Int, NEW g, NEW b,
           \A j, k \in S : b[j] = b[k] => j = k, \A k \in S : g[b[k]] = f[k]
    PROVE  /\ IsFiniteSet({b[k] : k \in S}) /\ Cardinality({b[k] : k \in S}) = Cardinality(S)
           /\ SumOf(f, S) \in Int /\ SumOf(g, {b[k] : k \in S}) = SumOf(f, S)
  <1> DEFINE Named(s) == {b[k] : k \in s}
             Right(s) == /\ IsFiniteSet(Named(s)) /\ Cardinality(Named(s)) = Cardinality(s)
                         /\ SumOf(f, s) \in Int /\ SumOf(g, Named(s)) = SumOf(f, s)
             T == {n \in Nat : \A s \in SUBSET S : Cardinality(s) = n => Right(s)}
  <1>1. \A s \in SUBSET S : IsFiniteSet(s) /\ Cardinality(s) \in Nat
    BY FS_Subset, FS_CardinalityType
  <1>2. 0 \in T
    <2> SUFFICES ASSUME NEW s \in SUBSET S, Cardinality(s) = 0 PROVE Right(s)
      OBVIOUS
    <2>1. s = {}
      BY <1>1, FS_EmptySet
    <2>2. Named(s) = {}
      BY <2>1
    <2>3. SumOf(f, {}) = 0 /\ SumOf(g, {}) = 0 /\ IsFiniteSet({}) /\ Cardinality({}) = 0
      BY SumOfNone, FS_EmptySet
    <2> QED BY <2>1, <2>2, <2>3
  <1>3. ASSUME NEW n \in Nat, n \in T PROVE n + 1 \in T
    <2> HIDE DEF Right
    <2> SUFFICES ASSUME NEW s \in SUBSET S, Cardinality(s) = n + 1 PROVE Right(s)
      OBVIOUS
    <2> USE DEF Right
    <2>1. PICK x \in s : TRUE
      BY <1>1, FS_EmptySet
    <2> DEFINE r == s \ {x}
    <2>2. r \in SUBSET S /\ Cardinality(r) = n
      <3>1. IsFiniteSet(s) /\ Cardinality(s) = n + 1
        BY <1>1
      <3>2. Cardinality(r) = Cardinality(s) - 1
        BY <2>1, <3>1, FS_RemoveElement
      <3> QED BY <3>1, <3>2
    <2>3. Right(r)
      BY <1>3, <2>2
    <2>4. Named(s) = Named(r) \union {b[x]} /\ b[x] \notin Named(r)
      BY <2>1
    <2>5. SumOf(f, s) \in Int /\ SumOf(f, s) = f[x] + SumOf(f, r) /\ f[x] \in Int
      BY <1>1, <2>1, SumRemove
    <2>6. \A y \in Named(s) : g[y] \in Int
      BY <2>1
    <2>7. SumOf(g, Named(s)) = SumOf(g, Named(r)) + g[b[x]]
      <3>1. IsFiniteSet(Named(r))
        BY <2>3
      <3> HIDE DEF Named, r
      <3>2. \A y \in Named(r) \union {b[x]} : g[y] \in Int
        BY <2>4, <2>6
      <3>3. SumOf(g, Named(r) \union {b[x]}) = SumOf(g, Named(r)) + g[b[x]]
        <4> DEFINE N == Named(r)
                   w == b[x]
        <4>1. IsFiniteSet(N) /\ w \notin N /\ (\A y \in N : g[y] \in Int) /\ g[w] \in Int
          BY <2>4, <3>1, <3>2
        <4> HIDE DEF N, w
        <4>2. SumOf(g, N \union {w}) = SumOf(g, N) + g[w]
          BY <4>1, SumInsert
        <4> QED BY <4>2 DEF N, w
      <3> QED BY <2>4, <3>3
    <2>8. g[b[x]] = f[x]
      BY <2>1
    <2>9. IsFiniteSet(Named(s)) /\ Cardinality(Named(s)) = Cardinality(Named(r)) + 1
      <3> HIDE DEF Named, r
      <3> QED BY <2>3, <2>4, FS_AddElement
    <2>10. SumOf(f, r) \in Int /\ SumOf(g, Named(r)) = SumOf(f, r) /\ Cardinality(Named(r)) = n
      BY <2>2, <2>3
    <2> HIDE DEF Named, r
    <2> QED BY <2>5, <2>7, <2>8, <2>9, <2>10
  <1> HIDE DEF T, Right
  <1>4. Cardinality(S) \in T
    BY <1>1, <1>2, <1>3, SetInduction
  <1>5. Right(S)
    BY <1>4 DEF T
  <1> QED BY <1>5 DEF Right

-----------------------------------------------------------------------------
(* Recursion over the first n numbers: what folds and scans are written as.   *)

\* The states gone through from b in n steps.
Runs(n, S, b, step) ==
    \E g \in [0 .. n -> S] : g[0] = b /\ \A k \in 1 .. n : g[k] = step[<<g[k - 1], k>>]

\* There are such states.
LEMMA StepsExist ==
    ASSUME NEW n \in Nat, NEW S, NEW b \in S, NEW step \in [S \X (1 .. n) -> S]
    PROVE  Runs(n, S, b, step)
  <1> DEFINE Goes(g, m) == g[0] = b /\ \A k \in 1 .. m : g[k] = step[<<g[k - 1], k>>]
             T == {m \in Nat : m <= n => \E g \in [0 .. m -> S] : Goes(g, m)}
  <1>1. 0 \in T
    <2>1. [k \in 0 .. 0 |-> b] \in [0 .. 0 -> S] /\ Goes([k \in 0 .. 0 |-> b], 0)
      OBVIOUS
    <2> QED BY <2>1
  <1>2. ASSUME NEW m \in Nat, m \in T PROVE m + 1 \in T
    <2> SUFFICES ASSUME m + 1 <= n PROVE \E g \in [0 .. m + 1 -> S] : Goes(g, m + 1)
      OBVIOUS
    <2>1. PICK g \in [0 .. m -> S] : Goes(g, m)
      BY <1>2
    <2> DEFINE last == step[<<g[m], m + 1>>]
               h == [k \in 0 .. m + 1 |-> IF k = m + 1 THEN last ELSE g[k]]
    <2>2. last \in S
      OBVIOUS
    <2> HIDE DEF last
    <2>3. h \in [0 .. m + 1 -> S]
      BY <2>2
    <2>4. h[0] = b
      BY <2>1
    <2>5. ASSUME NEW k \in 1 .. m + 1 PROVE h[k] = step[<<h[k - 1], k>>]
      <3>1. CASE k = m + 1
        <4>1. k - 1 = m /\ m # m + 1 /\ m \in 0 .. m + 1
          BY <3>1
        <4>2. h[k] = last /\ h[k - 1] = g[m]
          BY <3>1, <4>1
        <4> QED BY <3>1, <4>1, <4>2 DEF last
      <3>2. CASE k # m + 1
        <4>1. k \in 1 .. m /\ k - 1 \in 0 .. m /\ k - 1 # m + 1
          BY <3>2
        <4>2. h[k] = g[k] /\ h[k - 1] = g[k - 1]
          BY <4>1
        <4> QED BY <2>1, <4>1, <4>2
      <3> QED BY <3>1, <3>2
    <2> QED BY <2>3, <2>4, <2>5
  <1> HIDE DEF T
  <1>3. n \in T
    BY <1>1, <1>2, SetInduction
  <1> QED BY <1>3 DEF T, Runs

\* What holds at first, and after a step if before it, holds throughout.
LEMMA StepsKeep ==
    ASSUME NEW n \in Nat, NEW T, 0 \in T, \A k \in 1 .. n : k - 1 \in T => k \in T
    PROVE  0 .. n \subseteq T
  <1> DEFINE U == {m \in Nat : m <= n => m \in T}
  <1>1. 0 \in U
    OBVIOUS
  <1>2. ASSUME NEW m \in Nat, m \in U PROVE m + 1 \in U
    <2> SUFFICES ASSUME m + 1 <= n PROVE m + 1 \in T
      OBVIOUS
    <2>1. m + 1 \in 1 .. n /\ (m + 1) - 1 = m /\ m \in T
      BY <1>2
    <2> QED BY <2>1
  <1>3. Nat \subseteq U
    <2> HIDE DEF U
    <2> QED BY <1>1, <1>2, SetInduction
  <1> QED BY <1>3

====
