------------------------------ MODULE SumProofs ------------------------------
(***************************************************************************)
(* What FoldFunction(+, 0, a) computes for a function a from a finite set  *)
(* to integers: the fold exists, the order in which it takes the elements  *)
(* does not matter, and changing one value changes it by the difference.   *)
(* The inductions take a least counterexample of a set.                    *)
(***************************************************************************)
EXTENDS Integers, FiniteSets, Functions, FiniteSetTheorems, WellFoundedInduction, TLAPS

Total(a) == FoldFunction(+, 0, a)

\* A set of numbers with 0 and the successors of its members is Nat.
LEMMA NatSetInduction ==
  ASSUME NEW K, K \subseteq Nat, 0 \in K, \A n \in K : n + 1 \in K
  PROVE  K = Nat
<1> SUFFICES ASSUME K # Nat PROVE FALSE
  OBVIOUS
<1> DEFINE T == Nat \ K
<1>1. T # {} /\ T \subseteq Nat
  OBVIOUS
<1>2. PICK n \in T : \A m \in T : ~(<<m, n>> \in OpToRel(<, Nat))
  BY <1>1, NatLessThanWellFounded, WFMin
<1>3. n \in Nat /\ n # 0 /\ n - 1 \in Nat /\ n - 1 < n
  OBVIOUS
<1>4. <<n - 1, n>> \in OpToRel(<, Nat)
  BY <1>3 DEF OpToRel
<1>5. n - 1 \in K
  BY <1>2, <1>3, <1>4
<1>6. (n - 1) + 1 = n
  BY <1>3
<1> QED BY <1>5, <1>6

\* A set that has a subset of S whenever it has all its strict subsets has them all.
LEMMA SubsetInduction ==
  ASSUME NEW S, IsFiniteSet(S), NEW K,
         \A t \in SUBSET S : (\A u \in SUBSET t : u # t => u \in K) => t \in K
  PROVE  \A t \in SUBSET S : t \in K
<1> SUFFICES ASSUME NEW t0 \in SUBSET S, t0 \notin K PROVE FALSE
  OBVIOUS
<1> DEFINE T == {t \in SUBSET S : t \notin K}
<1>1. T # {} /\ T \subseteq FiniteSubsetsOf(S)
  <2>1. FiniteSubsetsOf(S) = SUBSET S
    BY FS_FiniteSubsetsOfFinite, Zenon
  <2> QED BY <2>1
<1>2. PICK t \in T : \A u \in T : ~(<<u, t>> \in StrictSubsetOrdering(S))
  <2>1. IsWellFoundedOn(StrictSubsetOrdering(S), FiniteSubsetsOf(S))
    BY FS_StrictSubsetOrderingWellFounded, Zenon
  <2> HIDE DEF T
  <2> QED BY <1>1, <2>1, WFMin
<1>3. ASSUME NEW u \in SUBSET t, u # t PROVE u \in K
  <2>1. <<u, t>> \in StrictSubsetOrdering(S)
    BY <1>3 DEF StrictSubsetOrdering
  <2> QED BY <1>2, <1>3, <2>1
<1> QED BY <1>3

-----------------------------------------------------------------------------
(***************************************************************************)
(* The recursive function that the fold defines                            *)
(***************************************************************************)
any(s) == CHOOSE x \in s : TRUE

\* f is the sum of a over each set of D.
Sums(f, a, D) ==
  f = [s \in D |-> IF s = {} THEN 0 ELSE a[any(s)] + f[s \ {any(s)}]]

PartialSum(a) == CHOOSE f : Sums(f, a, SUBSET (DOMAIN a))

\* The fold is the partial sum over the whole domain.
LEMMA TotalIsPartialSum ==
  ASSUME NEW a PROVE Total(a) = PartialSum(a)[DOMAIN a]
  BY DEF Total, PartialSum, Sums, FoldFunction, FoldFunctionOnSet, MapThenFoldSet, any

\* The recursion defines a function.
LEMMA PartialSumExists ==
  ASSUME NEW a, IsFiniteSet(DOMAIN a)
  PROVE  Sums(PartialSum(a), a, SUBSET (DOMAIN a))
<1> DEFINE S == DOMAIN a
           D(n) == {s \in SUBSET S : Cardinality(s) <= n}
           K == {n \in Nat : \E f : Sums(f, a, D(n))}
<1>1. \A s \in SUBSET S : IsFiniteSet(s) /\ Cardinality(s) \in Nat
  BY FS_Subset, FS_CardinalityType
<1>2. \A s \in SUBSET S : s # {} => /\ any(s) \in s
                                    /\ Cardinality(s \ {any(s)}) = Cardinality(s) - 1
  BY <1>1, FS_RemoveElement DEF any
<1>3. 0 \in K
  <2> DEFINE f == [s \in D(0) |-> 0]
  <2>1. \A s \in D(0) : s = {}
    BY <1>1, FS_EmptySet
  <2>2. Sums(f, a, D(0))
    BY <2>1 DEF Sums
  <2> QED BY <2>2
<1>4. ASSUME NEW n \in K PROVE n + 1 \in K
  <2>1. PICK f : Sums(f, a, D(n))
    OBVIOUS
  <2> DEFINE h == [s \in D(n + 1) |-> IF s = {} THEN 0 ELSE a[any(s)] + f[s \ {any(s)}]]
  <2>2. \A s \in D(n) : f[s] = IF s = {} THEN 0 ELSE a[any(s)] + f[s \ {any(s)}]
    BY <2>1 DEF Sums
  <2>3. \A s \in D(n) : s \in D(n + 1) /\ h[s] = f[s]
    BY <1>1, <2>2
  <2>4. \A s \in D(n + 1) : s # {} => s \ {any(s)} \in D(n)
    BY <1>1, <1>2
  <2>5. \A s \in D(n + 1) : s # {} => h[s \ {any(s)}] = f[s \ {any(s)}]
    BY <2>3, <2>4
  <2>6. Sums(h, a, D(n + 1))
    BY <2>5 DEF Sums
  <2> HIDE DEF h, D
  <2>7. \E f1 : Sums(f1, a, D(n + 1))
    BY <2>6
  <2>8. n + 1 \in Nat
    OBVIOUS
  <2> QED BY <2>7, <2>8
<1>5. K = Nat
  BY <1>3, <1>4, NatSetInduction
<1>6. D(Cardinality(S)) = SUBSET S
  BY <1>1, FS_Subset
<1>7. \E f : Sums(f, a, SUBSET S)
  BY <1>1, <1>5, <1>6
<1> QED BY <1>7 DEF PartialSum

-----------------------------------------------------------------------------
(***************************************************************************)
(* Sums of integers                                                        *)
(***************************************************************************)

\* The recursion of the partial sum, element by element.
LEMMA PartialSumStep ==
  ASSUME NEW S, IsFiniteSet(S), NEW a \in [S -> Int]
  PROVE  /\ PartialSum(a)[{}] = 0
         /\ \A s \in SUBSET S : s # {} =>
              PartialSum(a)[s] = a[any(s)] + PartialSum(a)[s \ {any(s)}]
<1>1. DOMAIN a = S
  OBVIOUS
<1>2. Sums(PartialSum(a), a, SUBSET S)
  BY <1>1, PartialSumExists
<1> QED BY <1>2 DEF Sums

\* The fold takes one element of a set that is not empty.
LEMMA AnyIsMember == ASSUME NEW s, s # {} PROVE any(s) \in s
  BY DEF any

\* A partial sum is an integer.
LEMMA PartialSumType ==
  ASSUME NEW S, IsFiniteSet(S), NEW a \in [S -> Int]
  PROVE  \A s \in SUBSET S : PartialSum(a)[s] \in Int
<1> DEFINE K == {s \in SUBSET S : PartialSum(a)[s] \in Int}
<1>1. ASSUME NEW t \in SUBSET S, \A u \in SUBSET t : u # t => u \in K PROVE t \in K
  <2>1. CASE t = {}
    <3>1. PartialSum(a)[t] = 0
      BY <2>1, PartialSumStep
    <3> QED BY <3>1
  <2>2. CASE t # {}
    <3>1. any(t) \in t
      BY <2>2, AnyIsMember
    <3>2. PartialSum(a)[t] = a[any(t)] + PartialSum(a)[t \ {any(t)}]
      BY <2>2, PartialSumStep
    <3>3. t \ {any(t)} \in K
      BY <1>1, <3>1
    <3> QED BY <3>1, <3>2, <3>3
  <2> QED BY <2>1, <2>2
<1>2. \A t \in SUBSET S : (\A u \in SUBSET t : u # t => u \in K) => t \in K
  BY <1>1
<1> HIDE DEF K
<1>3. \A t \in SUBSET S : t \in K
  BY <1>2, SubsetInduction
<1> QED BY <1>3 DEF K

\* Any element may be taken first.
LEMMA PartialSumAny ==
  ASSUME NEW S, IsFiniteSet(S), NEW a \in [S -> Int], NEW s0 \in SUBSET S, NEW x0 \in s0
  PROVE  PartialSum(a)[s0] = a[x0] + PartialSum(a)[s0 \ {x0}]
<1> DEFINE g == PartialSum(a)
           K == {s \in SUBSET S : \A x \in s : g[s] = a[x] + g[s \ {x}]}
<1>1. ASSUME NEW t \in SUBSET S, \A u \in SUBSET t : u # t => u \in K PROVE t \in K
  <2> SUFFICES ASSUME NEW x \in t PROVE g[t] = a[x] + g[t \ {x}]
    OBVIOUS
  <2> DEFINE c == any(t)
  <2>1. c \in t /\ g[t] = a[c] + g[t \ {c}]
    <3>1. any(t) \in t
      BY AnyIsMember
    <3>2. PartialSum(a)[t] = a[any(t)] + PartialSum(a)[t \ {any(t)}]
      BY PartialSumStep
    <3> QED BY <3>1, <3>2
  <2> HIDE DEF g, c
  <2>2. CASE x = c
    BY <2>1, <2>2
  <2>3. CASE x # c
    <3>1. g[t \ {c}] = a[x] + g[(t \ {c}) \ {x}]
      BY <1>1, <2>1, <2>3
    <3>2. g[t \ {x}] = a[c] + g[(t \ {x}) \ {c}]
      BY <1>1, <2>1, <2>3
    <3>3. (t \ {c}) \ {x} = (t \ {x}) \ {c}
      OBVIOUS
    <3>4. /\ a[x] \in Int /\ a[c] \in Int /\ g[(t \ {x}) \ {c}] \in Int
      BY <2>1, PartialSumType DEF g
    <3>5. \A i, j, k \in Int : i + (j + k) = j + (i + k)
      OBVIOUS
    <3>6. a[c] + (a[x] + g[(t \ {x}) \ {c}]) = a[x] + (a[c] + g[(t \ {x}) \ {c}])
      BY <3>4, <3>5
    <3> QED BY <2>1, <3>1, <3>2, <3>3, <3>6
  <2> QED BY <2>2, <2>3
<1> HIDE DEF g
<1>2. \A t \in SUBSET S : (\A u \in SUBSET t : u # t => u \in K) => t \in K
  BY <1>1
<1> HIDE DEF K
<1>3. \A t \in SUBSET S : t \in K
  BY <1>2, SubsetInduction
<1> QED BY <1>3 DEF g, K

\* Functions that agree on a set have the same sum over it.
LEMMA PartialSumLocal ==
  ASSUME NEW S, IsFiniteSet(S), NEW a \in [S -> Int], NEW b \in [S -> Int],
         NEW s0 \in SUBSET S, \A x \in s0 : a[x] = b[x]
  PROVE  PartialSum(a)[s0] = PartialSum(b)[s0]
<1> DEFINE K == {s \in SUBSET S : (\A x \in s : a[x] = b[x]) =>
                                    PartialSum(a)[s] = PartialSum(b)[s]}
<1>1. ASSUME NEW t \in SUBSET S, \A u \in SUBSET t : u # t => u \in K PROVE t \in K
  <2> SUFFICES ASSUME \A x \in t : a[x] = b[x] PROVE PartialSum(a)[t] = PartialSum(b)[t]
    OBVIOUS
  <2>1. CASE t = {}
    <3>1. PartialSum(a)[t] = 0 /\ PartialSum(b)[t] = 0
      BY <2>1, PartialSumStep
    <3> QED BY <3>1
  <2>2. CASE t # {}
    <3>1. any(t) \in t
      BY <2>2, AnyIsMember
    <3>2. PartialSum(a)[t] = a[any(t)] + PartialSum(a)[t \ {any(t)}]
      BY <2>2, PartialSumStep
    <3>3. PartialSum(b)[t] = b[any(t)] + PartialSum(b)[t \ {any(t)}]
      BY <2>2, PartialSumStep
    <3>4. t \ {any(t)} \in K
      BY <1>1, <3>1
    <3> QED BY <3>1, <3>2, <3>3, <3>4
  <2> QED BY <2>1, <2>2
<1>2. \A t \in SUBSET S : (\A u \in SUBSET t : u # t => u \in K) => t \in K
  BY <1>1
<1> HIDE DEF K
<1>3. \A t \in SUBSET S : t \in K
  BY <1>2, SubsetInduction
<1> QED BY <1>3 DEF K

-----------------------------------------------------------------------------
(***************************************************************************)
(* What the models use                                                     *)
(***************************************************************************)

\* A total of integers is an integer.
THEOREM TotalType ==
  ASSUME NEW S, IsFiniteSet(S), NEW a \in [S -> Int]
  PROVE  Total(a) \in Int
  BY TotalIsPartialSum, PartialSumType

\* Replacing one value changes the total by the difference.
THEOREM TotalExcept ==
  ASSUME NEW S, IsFiniteSet(S), NEW a \in [S -> Int], NEW x \in S, NEW n \in Int
  PROVE  Total([a EXCEPT ![x] = n]) = Total(a) - a[x] + n
<1> DEFINE b == [a EXCEPT ![x] = n]
<1>1. b \in [S -> Int] /\ b[x] = n /\ \A y \in S \ {x} : b[y] = a[y]
  OBVIOUS
<1>2. DOMAIN a = S /\ DOMAIN b = S
  OBVIOUS
<1> HIDE DEF b
<1>3. Total(a) = a[x] + PartialSum(a)[S \ {x}] /\ Total(b) = n + PartialSum(b)[S \ {x}]
  <2>1. PartialSum(a)[S] = a[x] + PartialSum(a)[S \ {x}]
    BY PartialSumAny
  <2>2. PartialSum(b)[S] = b[x] + PartialSum(b)[S \ {x}]
    BY <1>1, PartialSumAny
  <2>3. Total(a) = PartialSum(a)[S] /\ Total(b) = PartialSum(b)[S]
    BY <1>2, TotalIsPartialSum
  <2> QED BY <1>1, <2>1, <2>2, <2>3
<1>4. PartialSum(a)[S \ {x}] = PartialSum(b)[S \ {x}]
  BY <1>1, PartialSumLocal
<1>5. PartialSum(a)[S \ {x}] \in Int /\ a[x] \in Int
  BY PartialSumType
<1> QED BY <1>3, <1>4, <1>5 DEF b

\* A total of naturals is a natural number that covers each of them.
THEOREM TotalCovers ==
  ASSUME NEW S, IsFiniteSet(S), NEW a \in [S -> Int], \A x \in S : a[x] >= 0
  PROVE  Total(a) \in Nat /\ \A x \in S : Total(a) >= a[x]
<1> DEFINE K == {s \in SUBSET S : PartialSum(a)[s] \in Nat}
<1>1. ASSUME NEW t \in SUBSET S, \A u \in SUBSET t : u # t => u \in K PROVE t \in K
  <2>1. CASE t = {}
    <3>1. PartialSum(a)[t] = 0
      BY <2>1, PartialSumStep
    <3> QED BY <3>1
  <2>2. CASE t # {}
    <3>1. any(t) \in t
      BY <2>2, AnyIsMember
    <3>2. PartialSum(a)[t] = a[any(t)] + PartialSum(a)[t \ {any(t)}]
      BY <2>2, PartialSumStep
    <3>3. t \ {any(t)} \in K
      BY <1>1, <3>1
    <3> QED BY <3>1, <3>2, <3>3
  <2> QED BY <2>1, <2>2
<1>2. \A t \in SUBSET S : PartialSum(a)[t] \in Nat
  <2>1. \A t \in SUBSET S : (\A u \in SUBSET t : u # t => u \in K) => t \in K
    BY <1>1
  <2> HIDE DEF K
  <2>2. \A t \in SUBSET S : t \in K
    BY <2>1, SubsetInduction
  <2> QED BY <2>2 DEF K
<1>3. Total(a) = PartialSum(a)[S]
  BY TotalIsPartialSum
<1>4. ASSUME NEW x \in S PROVE Total(a) >= a[x]
  <2>1. PartialSum(a)[S] = a[x] + PartialSum(a)[S \ {x}]
    BY PartialSumAny
  <2>2. PartialSum(a)[S \ {x}] \in Nat /\ a[x] \in Int
    BY <1>2
  <2> QED BY <1>3, <2>1, <2>2
<1> QED BY <1>2, <1>3, <1>4

\* Values that are not positive naturals add nothing.
THEOREM TotalOfPositive ==
  ASSUME NEW S, IsFiniteSet(S), NEW a \in [S -> Nat],
         NEW Q, Q = {x \in S : a[x] > 0}
  PROVE  Total([x \in Q |-> a[x]]) = Total(a)
<1> DEFINE b == [x \in Q |-> a[x]]
           f == PartialSum(a)
           g == PartialSum(b)
           K == {s \in SUBSET S : f[s] = g[s \cap Q]}
<1>1. /\ Q \subseteq S /\ IsFiniteSet(Q) /\ a \in [S -> Int] /\ b \in [Q -> Int]
      /\ \A x \in Q : b[x] = a[x]
  BY FS_Subset
<1> HIDE DEF b
<1>2. f[{}] = 0 /\ g[{}] = 0
  BY <1>1, PartialSumStep
<1>3. /\ \A s \in SUBSET S : \A x \in s : f[s] = a[x] + f[s \ {x}]
      /\ \A s \in SUBSET Q : \A x \in s : g[s] = b[x] + g[s \ {x}]
  BY <1>1, PartialSumAny
<1>4. \A s \in SUBSET S : f[s] \in Int
  BY <1>1, PartialSumType
<1>5. DOMAIN a = S /\ DOMAIN b = Q
  BY <1>1
<1>6. Total(a) = f[S] /\ Total(b) = g[Q]
  BY <1>5, TotalIsPartialSum
<1> HIDE DEF f, g
<1>7. ASSUME NEW t \in SUBSET S, \A u \in SUBSET t : u # t => u \in K PROVE t \in K
  <2>1. CASE t = {}
    <3>1. t \cap Q = {}
      BY <2>1
    <3> QED BY <2>1, <3>1, <1>2
  <2>2. CASE t # {}
    <3>1. PICK x \in t : TRUE
      BY <2>2
    <3>2. t \ {x} \in K
      BY <1>7
    <3>3. f[t] = a[x] + g[(t \ {x}) \cap Q] /\ f[t \ {x}] = g[(t \ {x}) \cap Q]
      BY <3>2, <1>3
    <3>4. CASE x \in Q
      <4>1. (t \ {x}) \cap Q = (t \cap Q) \ {x} /\ x \in t \cap Q /\ t \cap Q \in SUBSET Q
        BY <3>4
      <4>2. g[t \cap Q] = b[x] + g[(t \cap Q) \ {x}] /\ b[x] = a[x]
        BY <4>1, <3>4, <1>1, <1>3
      <4>3. f[t] = g[t \cap Q]
        BY <4>1, <4>2, <3>3
      <4> QED BY <4>3
    <3>5. CASE x \notin Q
      <4>1. (t \ {x}) \cap Q = t \cap Q
        BY <3>5
      <4>2. a[x] = 0
        BY <3>5
      <4>3. f[t \ {x}] \in Int
        BY <1>4
      <4> QED BY <4>1, <4>2, <4>3, <3>3
    <3> QED BY <3>4, <3>5
  <2> QED BY <2>1, <2>2
<1>8. \A t \in SUBSET S : (\A u \in SUBSET t : u # t => u \in K) => t \in K
  BY <1>7
<1> HIDE DEF K
<1>9. S \in K
  BY <1>8, SubsetInduction
<1>10. S \cap Q = Q
  BY <1>1
<1> QED BY <1>6, <1>9, <1>10 DEF K, b

\* Multiplication over a sum, as the shares need it.
LEMMA SharesAddUp ==
  ASSUME NEW t \in Nat, NEW p \in Nat, NEW x \in Nat, NEW y \in Nat, NEW u \in Nat, NEW v \in Nat,
         NEW c \in Nat
  PROVE  /\ t * x <= p * u /\ t * y <= p * v => t * (x + y) <= p * (u + v)
         /\ p * u < t * (x + 1) /\ p * v <= t * (y + c) => p * (u + v) < t * ((x + y) + (c + 1))
<1>1. t * (x + y) = t * x + t * y /\ p * (u + v) = p * u + p * v
  OBVIOUS
<1>2. t * ((x + y) + (c + 1)) = t * (x + 1) + t * (y + c)
  OBVIOUS
<1>3. {t * x, t * y, p * u, p * v, t * (x + 1), t * (y + c)} \subseteq Nat
  OBVIOUS
<1>4. t * x <= p * u /\ t * y <= p * v => t * x + t * y <= p * u + p * v
  BY <1>3
<1>5. p * u < t * (x + 1) /\ p * v <= t * (y + c) => p * u + p * v < t * (x + 1) + t * (y + c)
  BY <1>3
<1> QED BY <1>1, <1>2, <1>4, <1>5

\* A share, rounded down.
LEMMA ShareRounds ==
  ASSUME NEW n \in Nat, NEW t \in Nat \ {0}
  PROVE  n \div t \in Nat /\ t * (n \div t) <= n /\ n < t * ((n \div t) + 1)
<1>1. n \div t \in Nat /\ n = t * (n \div t) + (n % t) /\ n % t \in 0..(t - 1)
  OBVIOUS
<1>2. t * ((n \div t) + 1) = t * (n \div t) + t
  BY <1>1
<1> QED BY <1>1, <1>2

\* Shares of a pool in proportion to positive amounts, rounded down: they fit into
\* it, and less than one unit for each is left.
THEOREM SharesFit ==
  ASSUME NEW S, IsFiniteSet(S), S # {}, NEW a \in [S -> Nat \ {0}], NEW pool \in Nat,
         NEW share, share = [x \in S |-> (pool * a[x]) \div Total(a)]
  PROVE  /\ Total(a) \in Nat \ {0} /\ share \in [S -> Nat]
         /\ Total(share) <= pool /\ pool < Total(share) + Cardinality(S)
<1> DEFINE t == Total(a)
           f == PartialSum(a)
           g == PartialSum(share)
           K == {s \in SUBSET S : /\ f[s] \in Nat /\ g[s] \in Nat
                                  /\ t * g[s] <= pool * f[s]
                                  /\ pool * f[s] <= t * (g[s] + Cardinality(s))
                                  /\ s # {} => pool * f[s] < t * (g[s] + Cardinality(s))}
<1>1. t \in Nat \ {0}
  <2>1. t \in Nat /\ \A x \in S : t >= a[x]
    BY TotalCovers
  <2> QED BY <2>1
<1>2. \A x \in S : /\ share[x] \in Nat /\ t * share[x] <= pool * a[x]
                   /\ pool * a[x] < t * (share[x] + 1)
  <2> SUFFICES ASSUME NEW x \in S
               PROVE  /\ share[x] \in Nat /\ t * share[x] <= pool * a[x]
                      /\ pool * a[x] < t * (share[x] + 1)
    OBVIOUS
  <2>1. pool * a[x] \in Nat /\ share[x] = (pool * a[x]) \div t
    OBVIOUS
  <2> HIDE DEF t
  <2> QED BY <2>1, <1>1, ShareRounds
<1>3. share \in [S -> Nat]
  BY <1>2
<1>4. share \in [S -> Int] /\ a \in [S -> Int]
  BY <1>3
<1>5. f[{}] = 0 /\ g[{}] = 0
  BY <1>4, PartialSumStep
<1>6. \A s \in SUBSET S : \A x \in s : f[s] = a[x] + f[s \ {x}] /\ g[s] = share[x] + g[s \ {x}]
  <2> SUFFICES ASSUME NEW s \in SUBSET S, NEW x \in s
               PROVE  /\ PartialSum(a)[s] = a[x] + PartialSum(a)[s \ {x}]
                      /\ PartialSum(share)[s] = share[x] + PartialSum(share)[s \ {x}]
    OBVIOUS
  <2>1. PartialSum(a)[s] = a[x] + PartialSum(a)[s \ {x}]
    BY <1>4, PartialSumAny
  <2>2. PartialSum(share)[s] = share[x] + PartialSum(share)[s \ {x}]
    BY <1>4, PartialSumAny
  <2> QED BY <2>1, <2>2
<1>7. \A s \in SUBSET S : \A x \in s : /\ Cardinality(s \ {x}) \in Nat
                                       /\ Cardinality(s) = Cardinality(s \ {x}) + 1
  <2> SUFFICES ASSUME NEW s \in SUBSET S, NEW x \in s
               PROVE  /\ Cardinality(s \ {x}) \in Nat
                      /\ Cardinality(s) = Cardinality(s \ {x}) + 1
    OBVIOUS
  <2>1. IsFiniteSet(s) /\ IsFiniteSet(s \ {x})
    BY FS_Subset
  <2>2. Cardinality(s) \in Nat /\ Cardinality(s \ {x}) \in Nat
    BY <2>1, FS_CardinalityType
  <2>3. Cardinality(s \ {x}) = Cardinality(s) - 1
    BY <2>1, FS_RemoveElement
  <2> QED BY <2>2, <2>3
<1>8. Total(a) = f[S] /\ Total(share) = g[S]
  <2>1. DOMAIN a = S /\ DOMAIN share = S
    OBVIOUS
  <2> QED BY <2>1, TotalIsPartialSum
<1> HIDE DEF f, g, t
<1>9. ASSUME NEW s \in SUBSET S, \A u \in SUBSET s : u # s => u \in K PROVE s \in K
  <2>1. CASE s = {}
    <3>1. Cardinality(s) = 0 /\ f[s] = 0 /\ g[s] = 0
      BY <2>1, <1>5, FS_EmptySet
    <3>2. t * 0 <= pool * 0 /\ pool * 0 <= t * (0 + 0)
      BY <1>1
    <3> QED BY <2>1, <3>1, <3>2
  <2>2. CASE s # {}
    <3>1. PICK x \in s : TRUE
      BY <2>2
    <3>2. s \ {x} \in K
      BY <1>9
    <3> DEFINE y == share[x]
               z == g[s \ {x}]
               u == a[x]
               v == f[s \ {x}]
               c == Cardinality(s \ {x})
    <3>3. /\ y \in Nat /\ z \in Nat /\ u \in Nat /\ v \in Nat /\ c \in Nat /\ t \in Nat
          /\ t * z <= pool * v /\ pool * v <= t * (z + c)
          /\ t * y <= pool * u /\ pool * u < t * (y + 1)
      BY <3>1, <3>2, <1>1, <1>2, <1>7
    <3>4. f[s] = u + v /\ g[s] = y + z /\ Cardinality(s) = c + 1
      BY <3>1, <1>6, <1>7
    <3> HIDE DEF y, z, u, v, c
    <3>5. t * (y + z) <= pool * (u + v) /\ pool * (u + v) < t * ((y + z) + (c + 1))
      BY <3>3, SharesAddUp
    <3>6. pool * (u + v) <= t * ((y + z) + (c + 1))
      BY <3>3, <3>5
    <3>7. u + v \in Nat /\ y + z \in Nat
      BY <3>3
    <3> QED BY <3>4, <3>5, <3>6, <3>7
  <2> QED BY <2>1, <2>2
<1>10. \A s \in SUBSET S : (\A u \in SUBSET s : u # s => u \in K) => s \in K
  BY <1>9
<1> HIDE DEF K
<1>11. S \in K
  BY <1>10, SubsetInduction
<1>12. /\ f[S] = t /\ g[S] \in Nat /\ t * g[S] <= pool * t
       /\ pool * t < t * (g[S] + Cardinality(S)) /\ Cardinality(S) \in Nat
  BY <1>8, <1>11, FS_CardinalityType DEF K, t
<1>13. \A n, m \in Nat : (t * n <= m * t => n <= m) /\ (m * t < t * n => m < n)
  BY <1>1
<1>14. g[S] <= pool /\ pool < g[S] + Cardinality(S)
  BY <1>12, <1>13
<1> QED BY <1>1, <1>3, <1>8, <1>14 DEF t
=============================================================================
