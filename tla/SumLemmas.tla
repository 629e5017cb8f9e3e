----------------------------- MODULE SumLemmas ------------------------------
(***************************************************************************)
(* Sums over finite sets, as MPI_SUM and the loops over the tasks of a     *)
(* communicator form them, for sets of any size.  What FiniteSetsExt sums  *)
(* with a recursive function is shown to exist, to be an integer and not   *)
(* to depend on the order of the summands; and that FlattenSeq, too, puts  *)
(* together what it says.                                                  *)
(*                                                                         *)
(* The inductions are by a least counterexample: a set of numbers, or of   *)
(* subsets, stands where an induction rule has a predicate.                *)
(***************************************************************************)
EXTENDS Integers, Sequences, FiniteSets, FiniteSetsExt, SequencesExt, FiniteSetTheorems,
        SequenceTheorems, WellFoundedInduction, TLAPS

LEMMA LeastNat ==
  ASSUME NEW T, T \subseteq Nat, T # {}
  PROVE  \E n \in T : \A m \in T : n <= m
<1> DEFINE R == OpToRel(<, Nat)
<1>1. IsWellFoundedOn(R, Nat)
  BY NatLessThanWellFounded
<1>2. \A x, y \in Nat : x < y => <<x, y>> \in R
  BY DEF OpToRel
<1> HIDE DEF R
<1>3. PICK n \in T : \A m \in T : ~(<<m, n>> \in R)
  BY <1>1, WFMin
<1>4. ASSUME NEW m \in T PROVE n <= m
  <2>1. m \in Nat /\ n \in Nat
    OBVIOUS
  <2>2. ~(m < n)
    BY <1>2, <1>3, <2>1
  <2> QED BY <2>1, <2>2
<1> QED BY <1>4

\* Induction over the numbers up to a bound.
LEMMA UpTo ==
  ASSUME NEW b \in Nat, NEW P, 0 \in P, \A n \in 0 .. b - 1 : n \in P => n + 1 \in P
  PROVE  \A n \in 0 .. b : n \in P
<1> SUFFICES ASSUME NEW k \in 0 .. b, k \notin P PROVE FALSE
  OBVIOUS
<1> DEFINE T == {n \in Nat : n <= b /\ n \notin P}
<1>1. T \subseteq Nat /\ k \in T
  OBVIOUS
<1>2. PICK n \in T : \A m \in T : n <= m
  BY <1>1, LeastNat
<1>3. n # 0 /\ n \in Nat /\ n <= b
  OBVIOUS
<1>4. n - 1 \in 0 .. b - 1 /\ n - 1 \in Nat /\ n - 1 <= b /\ ~(n <= n - 1)
  BY <1>3
<1>5. n - 1 \in P
  BY <1>2, <1>4
<1>6. n \in P
  BY <1>3, <1>4, <1>5
<1> QED BY <1>6

\* Induction over the subsets of a finite set.
LEMMA SubsetsOf ==
  ASSUME NEW S, IsFiniteSet(S), NEW P,
         \A s \in SUBSET S : (\A x \in s : s \ {x} \in P) => s \in P
  PROVE  \A s \in SUBSET S : s \in P
<1> SUFFICES ASSUME NEW u \in SUBSET S, u \notin P PROVE FALSE
  OBVIOUS
<1> DEFINE T == {Cardinality(s) : s \in {t \in SUBSET S : t \notin P}}
<1>1. \A s \in SUBSET S : IsFiniteSet(s) /\ Cardinality(s) \in Nat
  BY FS_Subset, FS_CardinalityType
<1>2. T \subseteq Nat /\ T # {}
  BY <1>1
<1>3. PICK n \in T : \A m \in T : n <= m
  BY <1>2, LeastNat
<1>4. PICK s \in SUBSET S : s \notin P /\ Cardinality(s) = n
  OBVIOUS
<1>5. ASSUME NEW x \in s PROVE s \ {x} \in P
  <2>1. s \ {x} \in SUBSET S
    OBVIOUS
  <2>2. Cardinality(s \ {x}) = n - 1 /\ n \in Nat
    BY <1>1, <1>2, <1>4, FS_RemoveElement
  <2>3. CASE s \ {x} \notin P
    <3>1. Cardinality(s \ {x}) \in T
      BY <2>1, <2>3
    <3> HIDE DEF T
    <3>2. n <= n - 1
      BY <1>3, <2>2, <3>1
    <3> QED BY <2>2, <3>2
  <2> QED BY <2>3
<1> QED BY <1>4, <1>5

-----------------------------------------------------------------------------
(* The recursive function behind a sum                                       *)

Pick(s) == CHOOSE x \in s : TRUE
Added(F, it, s) == IF s = {} THEN 0 ELSE F[Pick(s)] + it[s \ {Pick(s)}]
IsSum(it, S, F) == it = [s \in SUBSET S |-> Added(F, it, s)]

LEMMA PickIs ==
  ASSUME NEW s, s # {}
  PROVE  Pick(s) \in s
BY DEF Pick

LEMMA SumExists ==
  ASSUME NEW S, IsFiniteSet(S), NEW F
  PROVE  \E it : IsSum(it, S, F)
<1> DEFINE A(g, k) == \A s \in SUBSET S : Cardinality(s) <= k => g[s] = Added(F, g, s)
           P == {k \in Nat : \E g : A(g, k)}
<1>1. \A s \in SUBSET S : IsFiniteSet(s) /\ Cardinality(s) \in Nat
  BY FS_Subset, FS_CardinalityType
<1>2. \A s \in SUBSET S : s # {} => /\ s \ {Pick(s)} \in SUBSET S
                                    /\ Cardinality(s \ {Pick(s)}) = Cardinality(s) - 1
  BY <1>1, PickIs, FS_RemoveElement
<1>3. \A s \in SUBSET S : Cardinality(s) = 0 => s = {}
  BY <1>1, FS_EmptySet
<1>4. 0 \in P
  <2> DEFINE g == [s \in SUBSET S |-> 0]
  <2>1. A(g, 0)
    BY <1>1, <1>3 DEF Added
  <2> QED BY <2>1
<1>5. ASSUME NEW k \in Nat, k \in P PROVE k + 1 \in P
  <2>1. PICK g : A(g, k)
    BY <1>5
  <2>2. PICK h : \A s \in SUBSET S : h[s] = IF Cardinality(s) <= k THEN g[s] ELSE Added(F, g, s)
    <3> WITNESS [s \in SUBSET S |-> IF Cardinality(s) <= k THEN g[s] ELSE Added(F, g, s)]
    <3> QED OBVIOUS
  <2>3. ASSUME NEW s \in SUBSET S, Cardinality(s) <= k + 1 PROVE h[s] = Added(F, h, s)
    <3>1. h[s] = Added(F, g, s)
      BY <2>1, <2>2
    <3>2. CASE s = {}
      BY <3>1, <3>2 DEF Added
    <3>3. CASE s # {}
      <4>1. /\ s \ {Pick(s)} \in SUBSET S
            /\ Cardinality(s \ {Pick(s)}) <= k
        BY <1>1, <1>2, <2>3, <3>3
      <4>2. h[s \ {Pick(s)}] = g[s \ {Pick(s)}]
        BY <2>2, <4>1
      <4> QED BY <3>1, <3>3, <4>2 DEF Added
    <3> QED BY <3>2, <3>3
  <2>4. A(h, k + 1)
    BY <2>3
  <2> QED BY <2>4
<1>6. Cardinality(S) \in Nat
  BY <1>1
<1> HIDE DEF P
<1>7. \A k \in 0 .. Cardinality(S) : k \in P
  BY <1>4, <1>5, <1>6, UpTo
<1>8. Cardinality(S) \in P
  BY <1>6, <1>7
<1>9. PICK g : A(g, Cardinality(S))
  BY <1>8 DEF P
<1>10. \A s \in SUBSET S : g[s] = Added(F, g, s)
  BY <1>9, FS_Subset
<1> DEFINE it == [s \in SUBSET S |-> g[s]]
<1>11. \A s \in SUBSET S : Added(F, it, s) = Added(F, g, s)
  BY <1>2 DEF Added
<1>12. it = [s \in SUBSET S |-> Added(F, it, s)]
  BY <1>10, <1>11
<1> QED BY <1>12 DEF IsSum

\* The equation such a function obeys.
Obeys(it, S, F) ==
  /\ it[{}] = 0
  /\ \A s \in SUBSET S : s # {} => \E x \in s : /\ x = Pick(s)
                                               /\ it[s] = F[x] + it[s \ {x}]

LEMMA SumObeys ==
  ASSUME NEW S, NEW F, NEW it, IsSum(it, S, F)
  PROVE  Obeys(it, S, F)
<1> DEFINE jt == [s \in SUBSET S |-> Added(F, it, s)]
<1>1. it = jt
  BY DEF IsSum
<1>2. \A s \in SUBSET S : jt[s] = Added(F, it, s)
  OBVIOUS
<1> HIDE DEF jt
<1>3. \A s \in SUBSET S : it[s] = Added(F, it, s)
  BY <1>1, <1>2
<1>4. it[{}] = 0
  BY <1>3 DEF Added
<1>5. \A s \in SUBSET S : s # {} => it[s] = F[Pick(s)] + it[s \ {Pick(s)}]
  BY <1>3 DEF Added
<1> QED BY <1>4, <1>5, PickIs DEF Obeys

LEMMA SumOfSubset ==
  ASSUME NEW S, IsFiniteSet(S), NEW T, T \subseteq S, NEW F, NEW G, NEW it, NEW jt,
         \A x \in T : F[x] = G[x],
         IsSum(it, S, F), IsSum(jt, T, G)
  PROVE  \A s \in SUBSET T : it[s] = jt[s]
<1>1. IsFiniteSet(T)
  BY FS_Subset
<1>2. Obeys(it, S, F) /\ Obeys(jt, T, G)
  BY SumObeys
<1> DEFINE P == {s \in SUBSET T : it[s] = jt[s]}
<1>3. ASSUME NEW s \in SUBSET T, \A x \in s : s \ {x} \in P PROVE s \in P
  <2>1. CASE s = {}
    BY <1>2, <2>1 DEF Obeys
  <2>2. CASE s # {}
    <3>1. PICK x \in s : x = Pick(s) /\ it[s] = F[x] + it[s \ {x}]
      BY <1>2, <2>2 DEF Obeys
    <3>2. PICK y \in s : y = Pick(s) /\ jt[s] = G[y] + jt[s \ {y}]
      BY <1>2, <2>2 DEF Obeys
    <3>3. x = y /\ F[x] = G[x] /\ it[s \ {x}] = jt[s \ {x}]
      BY <1>3, <3>1, <3>2
    <3> QED BY <3>1, <3>2, <3>3
  <2> QED BY <2>1, <2>2
<1> HIDE DEF P
<1>4. \A s \in SUBSET T : s \in P
  BY <1>1, <1>3, SubsetsOf
<1> QED BY <1>4 DEF P

LEMMA SumIsInt ==
  ASSUME NEW S, IsFiniteSet(S), NEW F, \A x \in S : F[x] \in Int, NEW it, IsSum(it, S, F)
  PROVE  \A s \in SUBSET S : it[s] \in Int
<1>1. Obeys(it, S, F)
  BY SumObeys
<1> DEFINE P == {s \in SUBSET S : it[s] \in Int}
<1>2. ASSUME NEW s \in SUBSET S, \A x \in s : s \ {x} \in P PROVE s \in P
  <2>1. CASE s = {}
    BY <1>1, <2>1 DEF Obeys
  <2>2. CASE s # {}
    <3>1. PICK x \in s : it[s] = F[x] + it[s \ {x}]
      BY <1>1, <2>2 DEF Obeys
    <3>2. it[s \ {x}] \in Int
      BY <1>2
    <3> QED BY <3>1, <3>2
  <2> QED BY <2>1, <2>2
<1> HIDE DEF P
<1>3. \A s \in SUBSET S : s \in P
  BY <1>2, SubsetsOf
<1> QED BY <1>3 DEF P

\* Any summand may be taken first.
LEMMA SumAnyOrder ==
  ASSUME NEW S, IsFiniteSet(S), NEW F, \A x \in S : F[x] \in Int, NEW it, IsSum(it, S, F)
  PROVE  \A s \in SUBSET S : \A x \in s : it[s] = F[x] + it[s \ {x}]
<1>0. Obeys(it, S, F)
  BY SumObeys
<1> DEFINE P == {s \in SUBSET S : \A x \in s : it[s] = F[x] + it[s \ {x}]}
<1>1. ASSUME NEW s \in SUBSET S, \A x \in s : s \ {x} \in P PROVE s \in P
  <2> SUFFICES ASSUME NEW x \in s PROVE it[s] = F[x] + it[s \ {x}]
    OBVIOUS
  <2>1. PICK p \in s : it[s] = F[p] + it[s \ {p}]
    BY <1>0 DEF Obeys
  <2>2. CASE x = p
    BY <2>1, <2>2
  <2>3. CASE x # p
    <3>1. x \in s \ {p} /\ p \in s \ {x}
      BY <2>3
    <3>2. it[s \ {p}] = F[x] + it[(s \ {p}) \ {x}]
      BY <1>1, <3>1
    <3>3. it[s \ {x}] = F[p] + it[(s \ {x}) \ {p}]
      BY <1>1, <3>1
    <3>4. (s \ {p}) \ {x} = (s \ {x}) \ {p} /\ (s \ {p}) \ {x} \in SUBSET S
      OBVIOUS
    <3>5. it[(s \ {p}) \ {x}] \in Int /\ F[x] \in Int /\ F[p] \in Int
      BY <3>4, SumIsInt
    <3>6. it[s] = F[p] + (F[x] + it[(s \ {p}) \ {x}])
      BY <2>1, <3>2
    <3>7. it[s \ {x}] = F[p] + it[(s \ {p}) \ {x}]
      BY <3>3, <3>4
    <3> HIDE DEF P
    <3> QED BY <3>5, <3>6, <3>7
  <2> QED BY <2>2, <2>3
<1> HIDE DEF P
<1>2. \A s \in SUBSET S : s \in P
  BY <1>1, SubsetsOf
<1> QED BY <1>2 DEF P

-----------------------------------------------------------------------------
(* Sums                                                                      *)

SumOf(F, S) == MapThenSumSet(LAMBDA x : F[x], S)

LEMMA SumOfIs ==
  ASSUME NEW S, IsFiniteSet(S), NEW F
  PROVE  \E it : IsSum(it, S, F) /\ SumOf(F, S) = it[S]
<1> DEFINE it == CHOOSE h : IsSum(h, S, F)
<1>1. IsSum(it, S, F)
  BY SumExists
<1>2. SumOf(F, S) = it[S]
  BY DEF SumOf, MapThenSumSet, MapThenFoldSet, IsSum, Added, Pick
<1> QED BY <1>1, <1>2

LEMMA SumOfNone ==
  ASSUME NEW F
  PROVE  SumOf(F, {}) = 0
<1>1. IsFiniteSet({})
  BY FS_EmptySet
<1>2. PICK it : IsSum(it, {}, F) /\ SumOf(F, {}) = it[{}]
  BY <1>1, SumOfIs
<1>3. Obeys(it, {}, F)
  BY <1>2, SumObeys
<1> QED BY <1>2, <1>3 DEF Obeys

LEMMA SumOfInt ==
  ASSUME NEW S, IsFiniteSet(S), NEW F, \A x \in S : F[x] \in Int
  PROVE  SumOf(F, S) \in Int
<1>1. PICK it : IsSum(it, S, F) /\ SumOf(F, S) = it[S]
  BY SumOfIs
<1>2. it[S] \in Int
  BY <1>1, SumIsInt
<1> QED BY <1>1, <1>2

LEMMA SumOfRemove ==
  ASSUME NEW S, IsFiniteSet(S), NEW F, \A x \in S : F[x] \in Int, NEW x \in S
  PROVE  SumOf(F, S) = F[x] + SumOf(F, S \ {x})
<1>1. IsFiniteSet(S \ {x}) /\ S \ {x} \in SUBSET S
  BY FS_RemoveElement
<1>2. PICK it : IsSum(it, S, F) /\ SumOf(F, S) = it[S]
  BY SumOfIs
<1>3. PICK jt : IsSum(jt, S \ {x}, F) /\ SumOf(F, S \ {x}) = jt[S \ {x}]
  BY <1>1, SumOfIs
<1>4. it[S] = F[x] + it[S \ {x}]
  BY <1>2, SumAnyOrder
<1>5. it[S \ {x}] = jt[S \ {x}]
  BY <1>1, <1>2, <1>3, SumOfSubset
<1> QED BY <1>2, <1>3, <1>4, <1>5

LEMMA SumOfSame ==
  ASSUME NEW S, IsFiniteSet(S), NEW F, NEW G, \A x \in S : F[x] = G[x]
  PROVE  SumOf(F, S) = SumOf(G, S)
<1>1. PICK it : IsSum(it, S, F) /\ SumOf(F, S) = it[S]
  BY SumOfIs
<1>2. PICK jt : IsSum(jt, S, G) /\ SumOf(G, S) = jt[S]
  BY SumOfIs
<1>3. \A s \in SUBSET S : it[s] = jt[s]
  <2>1. S \subseteq S
    OBVIOUS
  <2> QED BY <1>1, <1>2, <2>1, SumOfSubset
<1> QED BY <1>1, <1>2, <1>3

LEMMA SumOfZeros ==
  ASSUME NEW S, IsFiniteSet(S), NEW F, \A x \in S : F[x] = 0
  PROVE  SumOf(F, S) = 0
<1> DEFINE P == {s \in SUBSET S : SumOf(F, s) = 0}
<1>1. ASSUME NEW s \in SUBSET S, \A x \in s : s \ {x} \in P PROVE s \in P
  <2>1. CASE s = {}
    BY <2>1, SumOfNone
  <2>2. CASE s # {}
    <3>1. PICK x \in s : TRUE
      BY <2>2
    <3>2. IsFiniteSet(s) /\ (\A y \in s : F[y] \in Int)
      BY FS_Subset
    <3>3. SumOf(F, s) = F[x] + SumOf(F, s \ {x})
      BY <3>2, SumOfRemove
    <3> QED BY <1>1, <3>3
  <2> QED BY <2>1, <2>2
<1> HIDE DEF P
<1>2. \A s \in SUBSET S : s \in P
  BY <1>1, SubsetsOf
<1> QED BY <1>2 DEF P

LEMMA SumOfNats ==
  ASSUME NEW S, IsFiniteSet(S), NEW F, \A x \in S : F[x] \in Nat
  PROVE  SumOf(F, S) \in Nat
<1> DEFINE P == {s \in SUBSET S : SumOf(F, s) \in Nat}
<1>1. ASSUME NEW s \in SUBSET S, \A x \in s : s \ {x} \in P PROVE s \in P
  <2>1. CASE s = {}
    BY <2>1, SumOfNone
  <2>2. CASE s # {}
    <3>1. PICK x \in s : TRUE
      BY <2>2
    <3>2. IsFiniteSet(s) /\ (\A y \in s : F[y] \in Int)
      BY FS_Subset
    <3>3. SumOf(F, s) = F[x] + SumOf(F, s \ {x})
      BY <3>2, SumOfRemove
    <3> QED BY <1>1, <3>3
  <2> QED BY <2>1, <2>2
<1> HIDE DEF P
<1>2. \A s \in SUBSET S : s \in P
  BY <1>1, SubsetsOf
<1> QED BY <1>2 DEF P

\* A sum of one summand, the others being zero.
LEMMA SumOfOne ==
  ASSUME NEW S, IsFiniteSet(S), NEW F, NEW x \in S, F[x] \in Int,
         \A y \in S : y # x => F[y] = 0
  PROVE  SumOf(F, S) = F[x]
<1>1. IsFiniteSet(S \ {x})
  BY FS_RemoveElement
<1>2. SumOf(F, S \ {x}) = 0
  BY <1>1, SumOfZeros
<1>3. SumOf(F, S) = F[x] + SumOf(F, S \ {x})
  <2>1. \A y \in S : F[y] \in Int
    OBVIOUS
  <2> QED BY <2>1, SumOfRemove
<1> QED BY <1>2, <1>3

LEMMA SumOfPositive ==
  ASSUME NEW S, IsFiniteSet(S), S # {}, NEW F, \A x \in S : F[x] \in Nat \ {0}
  PROVE  SumOf(F, S) \in Nat \ {0}
<1>1. PICK x \in S : TRUE
  OBVIOUS
<1>2. IsFiniteSet(S \ {x}) /\ (\A y \in S : F[y] \in Int)
  BY FS_RemoveElement
<1>3. SumOf(F, S \ {x}) \in Nat
  BY <1>2, SumOfNats
<1>4. SumOf(F, S) = F[x] + SumOf(F, S \ {x})
  BY <1>2, SumOfRemove
<1> QED BY <1>3, <1>4

\* The partial sums of a sequence of numbers.
LEMMA SumOfInterval ==
  ASSUME NEW k \in Nat, NEW F, \A i \in 0 .. k : F[i] \in Int
  PROVE  SumOf(F, 0 .. k) = F[k] + SumOf(F, 0 .. k - 1)
<1>1. IsFiniteSet(0 .. k)
  BY FS_Interval
<1>2. k \in 0 .. k /\ (0 .. k) \ {k} = 0 .. k - 1
  OBVIOUS
<1>3. SumOf(F, 0 .. k) = F[k] + SumOf(F, (0 .. k) \ {k})
  BY <1>1, <1>2, SumOfRemove
<1> QED BY <1>2, <1>3

-----------------------------------------------------------------------------
(* Sequences put together, by the recursive function of FlattenSeq           *)

Joins(it, f, i) == IF i = 1 THEN f[i] ELSE it[i - 1] \o f[i]
IsJoin(it, f, n) == it = [i \in 1 .. n |-> Joins(it, f, i)]

LEMMA JoinExists ==
  ASSUME NEW n \in Nat, NEW f
  PROVE  \E it : IsJoin(it, f, n)
<1> DEFINE A(g, k) == \A i \in 1 .. k : g[i] = Joins(g, f, i)
           P == {k \in Nat : \E g : A(g, k)}
<1>1. 0 \in P
  OBVIOUS
<1>2. ASSUME NEW k \in 0 .. n - 1, k \in P PROVE k + 1 \in P
  <2>1. PICK g : A(g, k)
    BY <1>2
  <2>2. PICK h : \A i \in 1 .. k + 1 : h[i] = IF i <= k THEN g[i] ELSE Joins(g, f, i)
    <3> WITNESS [i \in 1 .. k + 1 |-> IF i <= k THEN g[i] ELSE Joins(g, f, i)]
    <3> QED OBVIOUS
  <2>3. ASSUME NEW i \in 1 .. k + 1 PROVE h[i] = Joins(h, f, i)
    <3>1. h[i] = Joins(g, f, i)
      BY <2>1, <2>2
    <3>2. CASE i = 1
      BY <3>1, <3>2 DEF Joins
    <3>3. CASE i # 1
      <4>1. i - 1 \in 1 .. k + 1 /\ i - 1 <= k
        BY <3>3
      <4>2. h[i - 1] = g[i - 1]
        BY <2>2, <4>1
      <4> QED BY <3>1, <3>3, <4>2 DEF Joins
    <3> QED BY <3>2, <3>3
  <2>4. A(h, k + 1) /\ k + 1 \in Nat
    BY <2>3
  <2> QED BY <2>4
<1> HIDE DEF P
<1>3. n \in P
  <2>1. \A k \in 0 .. n : k \in P
    BY <1>1, <1>2, UpTo
  <2> QED BY <2>1
<1>4. PICK g : A(g, n)
  BY <1>3 DEF P
<1> DEFINE it == [i \in 1 .. n |-> g[i]]
<1>5. ASSUME NEW i \in 1 .. n PROVE Joins(it, f, i) = Joins(g, f, i)
  <2>1. i # 1 => i - 1 \in 1 .. n
    OBVIOUS
  <2> QED BY <2>1 DEF Joins
<1>6. it = [i \in 1 .. n |-> Joins(it, f, i)]
  BY <1>4, <1>5
<1> QED BY <1>6 DEF IsJoin

LEMMA JoinAgrees ==
  ASSUME NEW n \in Nat, NEW m \in 1 .. n, NEW f, NEW g, \A i \in 1 .. m : f[i] = g[i],
         NEW it, NEW jt, IsJoin(it, f, m), IsJoin(jt, g, n)
  PROVE  it[m] = jt[m]
<1> DEFINE P == {k \in Nat : k + 1 <= m => it[k + 1] = jt[k + 1]}
<1>0. /\ \A i \in 1 .. m : it[i] = Joins(it, f, i)
      /\ \A i \in 1 .. n : jt[i] = Joins(jt, g, i)
  <2>1. PICK a : a = [i \in 1 .. m |-> Joins(it, f, i)]
    OBVIOUS
  <2>2. PICK b : b = [i \in 1 .. n |-> Joins(jt, g, i)]
    OBVIOUS
  <2>3. it = a /\ jt = b
    BY <2>1, <2>2 DEF IsJoin
  <2>4. \A i \in 1 .. m : a[i] = Joins(it, f, i)
    BY <2>1
  <2>5. \A i \in 1 .. n : b[i] = Joins(jt, g, i)
    BY <2>2
  <2> QED BY <2>3, <2>4, <2>5
<1>1. 0 \in P
  BY <1>0 DEF Joins
<1>2. ASSUME NEW k \in 0 .. m - 1, k \in P PROVE k + 1 \in P
  <2> SUFFICES ASSUME (k + 1) + 1 <= m PROVE it[(k + 1) + 1] = jt[(k + 1) + 1]
    OBVIOUS
  <2>1. PICK i \in 1 .. m : i = (k + 1) + 1 /\ i # 1 /\ i - 1 = k + 1
    OBVIOUS
  <2>2. it[i - 1] = jt[i - 1]
    BY <1>2, <2>1
  <2>3. it[i] = Joins(it, f, i) /\ jt[i] = Joins(jt, g, i) /\ f[i] = g[i]
    BY <1>0
  <2>4. it[i] = it[i - 1] \o f[i] /\ jt[i] = jt[i - 1] \o g[i]
    BY <2>1, <2>3 DEF Joins
  <2> QED BY <2>1, <2>2, <2>3, <2>4
<1> HIDE DEF P
<1>3. m \in Nat /\ m - 1 \in 0 .. m
  OBVIOUS
<1>4. m - 1 \in P
  <2>1. \A k \in 0 .. m : k \in P
    BY <1>1, <1>2, <1>3, UpTo
  <2> QED BY <1>3, <2>1
<1> QED BY <1>3, <1>4 DEF P

\* The last sequence is put to the end of the others.
LEMMA JoinLast ==
  ASSUME NEW n \in Nat \ {0, 1}, NEW f, NEW g, \A i \in 1 .. n - 1 : f[i] = g[i],
         NEW it, NEW jt, IsJoin(it, f, n), IsJoin(jt, g, n - 1)
  PROVE  it[n] = jt[n - 1] \o f[n]
<1>1. n - 1 \in 1 .. n /\ n \in 1 .. n /\ n # 1 /\ n \in Nat
  OBVIOUS
<1>2. PICK a : a = [i \in 1 .. n |-> Joins(it, f, i)]
  OBVIOUS
<1>3. it = a /\ a[n] = Joins(it, f, n)
  BY <1>1, <1>2 DEF IsJoin
<1>4. it[n - 1] = jt[n - 1]
  BY <1>1, JoinAgrees
<1> QED BY <1>1, <1>3, <1>4 DEF Joins

-----------------------------------------------------------------------------
(* What FlattenSeq puts together, row after row                              *)

LEMMA FlattenIs ==
  ASSUME NEW n \in Nat \ {0}, NEW f, Len(f) = n
  PROVE  \E it : IsJoin(it, f, n) /\ FlattenSeq(f) = it[n]
<1> DEFINE it == CHOOSE h : IsJoin(h, f, n)
<1>1. IsJoin(it, f, n)
  BY JoinExists
<1>2. FlattenSeq(f) = it[n]
  BY DEF FlattenSeq, IsJoin, Joins
<1> QED BY <1>1, <1>2

LEMMA FlattenNone ==
  ASSUME NEW f, Len(f) = 0
  PROVE  FlattenSeq(f) = f
  BY DEF FlattenSeq

\* The sequences of a column, put together row after row.
Column(f, n) == FlattenSeq([i \in 1 .. n |-> f[i]])

LEMMA ColumnNone ==
  ASSUME NEW f
  PROVE  Column(f, 0) = <<>>
<1>1. [i \in 1 .. 0 |-> f[i]] = <<>>
  OBVIOUS
<1> QED BY <1>1, FlattenNone DEF Column

LEMMA ColumnNext ==
  ASSUME NEW S, NEW n \in Nat, NEW f, \A i \in 1 .. n + 1 : f[i] \in Seq(S),
         Column(f, n) \in Seq(S)
  PROVE  Column(f, n + 1) = Column(f, n) \o f[n + 1]
<1> DEFINE a == [i \in 1 .. n + 1 |-> f[i]]
           b == [i \in 1 .. n |-> f[i]]
<1>1. Len(a) = n + 1 /\ Len(b) = n /\ a[n + 1] = f[n + 1] /\ \A i \in 1 .. n : a[i] = b[i]
  OBVIOUS
<1>2. Column(f, n + 1) = FlattenSeq(a) /\ Column(f, n) = FlattenSeq(b)
  BY DEF Column
<1> HIDE DEF a, b
<1>3. PICK it : IsJoin(it, a, n + 1) /\ FlattenSeq(a) = it[n + 1]
  BY <1>1, FlattenIs
<1>4. CASE n = 0
  <2>1. it[1] = a[1]
    BY <1>3, <1>4 DEF IsJoin, Joins
  <2>2. Column(f, n) = <<>>
    BY <1>4, ColumnNone
  <2>3. f[1] \in Seq(S)
    OBVIOUS
  <2> QED BY <1>1, <1>2, <1>3, <1>4, <2>1, <2>2, <2>3
<1>5. CASE n # 0
  <2>1. PICK jt : IsJoin(jt, b, n) /\ FlattenSeq(b) = jt[n]
    BY <1>1, <1>5, FlattenIs
  <2>2. PICK m \in Nat \ {0, 1} : m = n + 1 /\ m - 1 = n
    BY <1>5
  <2>3. it[m] = jt[m - 1] \o a[m]
    <3>1. IsJoin(it, a, m) /\ IsJoin(jt, b, m - 1) /\ \A i \in 1 .. m - 1 : a[i] = b[i]
      BY <1>1, <1>3, <2>1, <2>2
    <3> QED BY <3>1, JoinLast, ZenonT(40)
  <2> QED BY <1>1, <1>2, <1>3, <2>1, <2>2, <2>3
<1> QED BY <1>4, <1>5

LEMMA ColumnType ==
  ASSUME NEW S, NEW n \in Nat, NEW f, \A i \in 1 .. n : f[i] \in Seq(S)
  PROVE  \A k \in 0 .. n : Column(f, k) \in Seq(S)
<1> DEFINE P == {k \in Nat : Column(f, k) \in Seq(S)}
<1>1. 0 \in P
  <2>1. <<>> \in Seq(S)
    OBVIOUS
  <2> QED BY <2>1, ColumnNone
<1>2. ASSUME NEW k \in 0 .. n - 1, k \in P PROVE k + 1 \in P
  <2>1. \A i \in 1 .. k + 1 : f[i] \in Seq(S)
    OBVIOUS
  <2>2. Column(f, k + 1) = Column(f, k) \o f[k + 1]
    BY <1>2, <2>1, ColumnNext
  <2>3. f[k + 1] \in Seq(S) /\ Column(f, k) \in Seq(S) /\ k + 1 \in Nat
    BY <1>2, <2>1
  <2>4. Column(f, k) \o f[k + 1] \in Seq(S)
    BY <2>3
  <2> QED BY <2>2, <2>3, <2>4
<1> HIDE DEF P
<1>3. \A k \in 0 .. n : k \in P
  BY <1>1, <1>2, UpTo
<1> QED BY <1>3 DEF P

\* Two sequences put together.
LEMMA ConcatIs ==
  ASSUME NEW S, NEW s \in Seq(S), NEW t \in Seq(S)
  PROVE  /\ Len(s \o t) = Len(s) + Len(t)
         /\ \A j \in 1 .. Len(s) : (s \o t)[j] = s[j]
         /\ \A j \in 1 .. Len(t) : (s \o t)[Len(s) + j] = t[j]
<1>1. Len(s) \in Nat /\ Len(t) \in Nat /\ Len(s \o t) = Len(s) + Len(t)
  BY ConcatProperties, LenProperties
<1>2. \A j \in 1 .. Len(s) + Len(t) :
        (s \o t)[j] = IF j <= Len(s) THEN s[j] ELSE t[j - Len(s)]
  BY ConcatProperties
<1>3. ASSUME NEW j \in 1 .. Len(s) PROVE (s \o t)[j] = s[j]
  BY <1>1, <1>2
<1>4. ASSUME NEW j \in 1 .. Len(t) PROVE (s \o t)[Len(s) + j] = t[j]
  <2> DEFINE k == Len(s) + j
  <2>1. k \in 1 .. Len(s) + Len(t) /\ ~(k <= Len(s)) /\ k - Len(s) = j
    BY <1>1
  <2> HIDE DEF k
  <2>2. (s \o t)[k] = t[j]
    BY <1>2, <2>1
  <2> QED BY <2>2 DEF k
<1> QED BY <1>1, <1>3, <1>4

\* A row of b entries is put to the end of the a entries before it.
Appends(f, k, a, b) ==
  /\ a \in Nat /\ b \in Nat /\ a = Len(Column(f, k)) /\ b = Len(f[k + 1])
  /\ Len(Column(f, k + 1)) = a + b
  /\ \A i \in 1 .. a : Column(f, k + 1)[i] = Column(f, k)[i]
  /\ \A i \in 1 .. b : Column(f, k + 1)[a + i] = f[k + 1][i]

LEMMA ColumnStep ==
  ASSUME NEW S, NEW n \in Nat, NEW f, \A i \in 1 .. n : f[i] \in Seq(S), NEW k \in 0 .. n - 1
  PROVE  \E a, b \in Nat : Appends(f, k, a, b)
<1>1. Column(f, k) \in Seq(S)
  <2>1. k \in 0 .. n
    OBVIOUS
  <2>2. \A j \in 0 .. n : Column(f, j) \in Seq(S)
    BY ColumnType
  <2> QED BY <2>1, <2>2
<1>2. f[k + 1] \in Seq(S)
  OBVIOUS
<1>3. Column(f, k + 1) = Column(f, k) \o f[k + 1]
  <2>1. \A i \in 1 .. k + 1 : f[i] \in Seq(S)
    OBVIOUS
  <2> QED BY <1>1, <2>1, ColumnNext
<1>4. Appends(f, k, Len(Column(f, k)), Len(f[k + 1]))
  <2>1. Len(Column(f, k)) \in Nat /\ Len(f[k + 1]) \in Nat
    BY <1>1, <1>2
  <2> QED BY <1>1, <1>2, <1>3, <2>1, ConcatIs DEF Appends
<1>5. Len(Column(f, k)) \in Nat /\ Len(f[k + 1]) \in Nat
  BY <1>4 DEF Appends
<1> QED BY <1>4, <1>5

\* Every entry comes from a row.
InRow(f, n, x) == \E i \in 1 .. n : \E l \in 1 .. Len(f[i]) : x = f[i][l]

LEMMA ColumnFrom ==
  ASSUME NEW S, NEW n \in Nat, NEW f, \A i \in 1 .. n : f[i] \in Seq(S)
  PROVE  \A j \in 1 .. Len(Column(f, n)) : InRow(f, n, Column(f, n)[j])
<1> DEFINE From(k) == \A j \in 1 .. Len(Column(f, k)) :
                        \E i \in 1 .. n : \E l \in 1 .. Len(f[i]) : Column(f, k)[j] = f[i][l]
           P == {k \in Nat : From(k)}
<1>1. 0 \in P
  <2>1. Len(Column(f, 0)) = 0
    BY ColumnNone
  <2> QED BY <2>1
<1>2. ASSUME NEW k \in 0 .. n - 1, k \in P PROVE k + 1 \in P
  <2> SUFFICES ASSUME NEW j \in 1 .. Len(Column(f, k + 1))
               PROVE  \E i \in 1 .. n : \E l \in 1 .. Len(f[i]) : Column(f, k + 1)[j] = f[i][l]
    OBVIOUS
  <2>0. PICK a \in Nat, b \in Nat : Appends(f, k, a, b)
    BY ColumnStep
  <2>1. /\ a = Len(Column(f, k)) /\ b = Len(f[k + 1]) /\ Len(Column(f, k + 1)) = a + b
        /\ \A i \in 1 .. a : Column(f, k + 1)[i] = Column(f, k)[i]
        /\ \A i \in 1 .. b : Column(f, k + 1)[a + i] = f[k + 1][i]
    BY <2>0 DEF Appends
  <2>2. CASE j \in 1 .. a
    BY <1>2, <2>1, <2>2
  <2>3. CASE j \notin 1 .. a
    <3>1. PICK i \in 1 .. b : j = a + i
      <4>1. j - a \in 1 .. b /\ j = a + (j - a)
        BY <2>1, <2>3
      <4> QED BY <4>1
    <3>2. k + 1 \in 1 .. n /\ i \in 1 .. Len(f[k + 1]) /\ Column(f, k + 1)[j] = f[k + 1][i]
      BY <2>1, <3>1
    <3> QED BY <3>2
  <2> QED BY <2>2, <2>3
<1> HIDE DEF P
<1>3. n \in P
  <2>1. \A k \in 0 .. n : k \in P
    BY <1>1, <1>2, UpTo
  <2> QED BY <2>1
<1> QED BY <1>3 DEF P, InRow

\* The first row that is not empty is the beginning.
LEMMA ColumnHead ==
  ASSUME NEW S, NEW n \in Nat, NEW f, \A i \in 1 .. n : f[i] \in Seq(S),
         NEW m \in 1 .. n, \A i \in 1 .. m - 1 : Len(f[i]) = 0
  PROVE  /\ Len(f[m]) <= Len(Column(f, n))
         /\ \A j \in 1 .. Len(f[m]) : Column(f, n)[j] = f[m][j]
<1> DEFINE Heads(k) == /\ k < m => Len(Column(f, k)) = 0
                       /\ k >= m =>
                            /\ Len(f[m]) <= Len(Column(f, k))
                            /\ \A j \in 1 .. Len(f[m]) : Column(f, k)[j] = f[m][j]
           P == {k \in Nat : Heads(k)}
<1>1. 0 \in P
  <2>1. Len(Column(f, 0)) = 0
    BY ColumnNone
  <2> QED BY <2>1
<1>2. ASSUME NEW k \in 0 .. n - 1, k \in P PROVE k + 1 \in P
  <2>0. PICK a \in Nat, b \in Nat : Appends(f, k, a, b)
    BY ColumnStep
  <2>1. /\ a = Len(Column(f, k)) /\ b = Len(f[k + 1]) /\ Len(Column(f, k + 1)) = a + b
        /\ \A i \in 1 .. a : Column(f, k + 1)[i] = Column(f, k)[i]
        /\ \A i \in 1 .. b : Column(f, k + 1)[a + i] = f[k + 1][i]
    BY <2>0 DEF Appends
  <2>2. Heads(k) /\ Len(f[m]) \in Nat
    BY <1>2
  <2>3. CASE k + 1 < m
    <3>1. b = 0 /\ a = 0
      BY <2>1, <2>2, <2>3
    <3> QED BY <2>1, <2>3, <3>1
  <2>4. CASE k + 1 = m
    <3>1. a = 0
      BY <2>1, <2>2, <2>4
    <3>2. \A j \in 1 .. b : Column(f, k + 1)[j] = f[m][j]
      BY <2>1, <2>4, <3>1
    <3>3. Len(Column(f, k + 1)) = b /\ b = Len(f[m])
      BY <2>1, <2>4, <3>1
    <3> QED BY <2>4, <3>2, <3>3
  <2>5. CASE k >= m
    <3>1. Len(f[m]) <= a /\ \A j \in 1 .. Len(f[m]) : Column(f, k)[j] = f[m][j]
      BY <2>1, <2>2, <2>5
    <3>2. \A j \in 1 .. Len(f[m]) : j \in 1 .. a /\ Column(f, k + 1)[j] = f[m][j]
      BY <2>1, <2>2, <3>1
    <3> QED BY <2>1, <2>2, <2>5, <3>1, <3>2
  <2> QED BY <2>3, <2>4, <2>5
<1> HIDE DEF P
<1>3. n \in P
  <2>1. \A k \in 0 .. n : k \in P
    BY <1>1, <1>2, UpTo
  <2> QED BY <2>1
<1>4. Heads(n)
  BY <1>3 DEF P
<1> QED BY <1>4

\* Rows of one entry, and empty ones behind them.
Singles(f, n, m) == \A i \in 1 .. n : Len(f[i]) = IF i <= m THEN 1 ELSE 0
Firsts(f, n, m) == Len(Column(f, n)) = m /\ \A j \in 1 .. m : Column(f, n)[j] = f[j][1]

LEMMA ColumnPrefix ==
  ASSUME NEW S, NEW n \in Nat, NEW f, \A i \in 1 .. n : f[i] \in Seq(S),
         NEW m \in 0 .. n, Singles(f, n, m)
  PROVE  Firsts(f, n, m)
<1> DEFINE Rows(k) == /\ Len(Column(f, k)) = IF k <= m THEN k ELSE m
                      /\ \A j \in 1 .. k : j <= m => Column(f, k)[j] = f[j][1]
           P == {k \in Nat : Rows(k)}
<1>1. 0 \in P
  <2>1. Len(Column(f, 0)) = 0
    BY ColumnNone
  <2> QED BY <2>1
<1>2. ASSUME NEW k \in 0 .. n - 1, k \in P PROVE k + 1 \in P
  <2>0. PICK a \in Nat, b \in Nat : Appends(f, k, a, b)
    BY ColumnStep
  <2>1. /\ a = Len(Column(f, k)) /\ b = Len(f[k + 1]) /\ Len(Column(f, k + 1)) = a + b
        /\ \A i \in 1 .. a : Column(f, k + 1)[i] = Column(f, k)[i]
        /\ \A i \in 1 .. b : Column(f, k + 1)[a + i] = f[k + 1][i]
    BY <2>0 DEF Appends
  <2>2. Rows(k) /\ b = IF k + 1 <= m THEN 1 ELSE 0
    BY <1>2, <2>1 DEF Singles
  <2>3. CASE k + 1 <= m
    <3>1. a = k /\ b = 1
      BY <2>1, <2>2, <2>3
    <3>2. Column(f, k + 1)[k + 1] = f[k + 1][1]
      BY <2>1, <3>1
    <3>3. \A j \in 1 .. k : Column(f, k + 1)[j] = f[j][1]
      BY <2>1, <2>2, <2>3, <3>1
    <3>4. \A j \in 1 .. k + 1 : Column(f, k + 1)[j] = f[j][1]
      BY <3>2, <3>3
    <3> QED BY <2>1, <2>3, <3>1, <3>4
  <2>4. CASE ~(k + 1 <= m)
    <3>1. a = m /\ b = 0
      BY <2>1, <2>2, <2>4
    <3>2. \A j \in 1 .. k + 1 : j <= m => j \in 1 .. k /\ j \in 1 .. a
      BY <2>4, <3>1
    <3>3. \A j \in 1 .. k + 1 : j <= m => Column(f, k + 1)[j] = f[j][1]
      BY <2>1, <2>2, <3>2
    <3> QED BY <2>1, <2>4, <3>1, <3>3
  <2> QED BY <2>3, <2>4
<1> HIDE DEF P
<1>3. n \in P
  <2>1. \A k \in 0 .. n : k \in P
    BY <1>1, <1>2, UpTo
  <2> QED BY <2>1
<1>4. Rows(n)
  BY <1>3 DEF P
<1> QED BY <1>4 DEF Firsts

\* What is behind the first row that is not empty comes from later rows.
Behind(f, n, m) ==
  \A j \in Len(f[m]) + 1 .. Len(Column(f, n)) :
    \E i \in m + 1 .. n : \E l \in 1 .. Len(f[i]) : Column(f, n)[j] = f[i][l]

LEMMA ColumnRest ==
  ASSUME NEW S, NEW n \in Nat, NEW f, \A i \in 1 .. n : f[i] \in Seq(S),
         NEW m \in 1 .. n, \A i \in 1 .. m - 1 : Len(f[i]) = 0
  PROVE  Behind(f, n, m)
<1> DEFINE Rest(k, j) == \E i \in m + 1 .. n : \E l \in 1 .. Len(f[i]) : Column(f, k)[j] = f[i][l]
           Rests(k) == /\ k < m => Len(Column(f, k)) = 0
                       /\ k >= m => /\ Len(f[m]) <= Len(Column(f, k))
                                    /\ \A j \in Len(f[m]) + 1 .. Len(Column(f, k)) : Rest(k, j)
           P == {k \in Nat : Rests(k)}
<1>0. PICK z \in Nat : z = Len(f[m])
  OBVIOUS
<1>1. 0 \in P
  <2>1. Len(Column(f, 0)) = 0
    BY ColumnNone
  <2> QED BY <2>1
<1>2. ASSUME NEW k \in 0 .. n - 1, k \in P PROVE k + 1 \in P
  <2>0. PICK a \in Nat, b \in Nat : Appends(f, k, a, b)
    BY ColumnStep
  <2>1. /\ a = Len(Column(f, k)) /\ b = Len(f[k + 1]) /\ Len(Column(f, k + 1)) = a + b
        /\ \A i \in 1 .. a : Column(f, k + 1)[i] = Column(f, k)[i]
        /\ \A i \in 1 .. b : Column(f, k + 1)[a + i] = f[k + 1][i]
    BY <2>0 DEF Appends
  <2>2. Rests(k)
    BY <1>2
  <2>3. CASE k + 1 < m
    <3>1. k < m /\ k + 1 \in 1 .. m - 1
      BY <2>3
    <3>2. b = 0 /\ a = 0
      BY <2>1, <2>2, <3>1
    <3>3. Len(Column(f, k + 1)) = 0
      BY <2>1, <3>2
    <3> QED BY <2>3, <3>3
  <2>4. CASE k + 1 = m
    <3>0. k < m /\ f[k + 1] = f[m]
      BY <2>4
    <3>1. a = 0 /\ b = z
      BY <1>0, <2>1, <2>2, <3>0
    <3>2. Len(Column(f, k + 1)) = z
      BY <2>1, <3>1
    <3> HIDE DEF Rest
    <3>3. \A j \in z + 1 .. z : Rest(k + 1, j)
      OBVIOUS
    <3>4. k + 1 \in Nat /\ ~(k + 1 < m) /\ z <= z
      BY <2>4
    <3> QED BY <1>0, <3>2, <3>3, <3>4
  <2>5. CASE k >= m
    <3>1. z <= a /\ \A j \in z + 1 .. a : Rest(k, j)
      BY <1>0, <2>1, <2>2, <2>5
    <3>2. ASSUME NEW j \in z + 1 .. a + b PROVE Rest(k + 1, j)
      <4>1. CASE j \in 1 .. a
        <5>1. Column(f, k + 1)[j] = Column(f, k)[j] /\ j \in z + 1 .. a
          BY <2>1, <4>1
        <5> QED BY <3>1, <5>1
      <4>2. CASE j \notin 1 .. a
        <5>1. PICK i \in 1 .. b : j = a + i
          <6>1. j - a \in 1 .. b /\ j = a + (j - a)
            BY <4>2
          <6> QED BY <6>1
        <5>2. k + 1 \in m + 1 .. n /\ i \in 1 .. Len(f[k + 1]) /\ Column(f, k + 1)[j] = f[k + 1][i]
          BY <2>1, <2>5, <5>1
        <5> QED BY <5>2
      <4> QED BY <4>1, <4>2
    <3> HIDE DEF Rest
    <3>3. z <= a + b /\ ~(k + 1 < m) /\ k + 1 \in Nat
      BY <2>5, <3>1
    <3> QED BY <1>0, <2>1, <3>2, <3>3
  <2> QED BY <2>3, <2>4, <2>5
<1> HIDE DEF P
<1>3. n \in P
  <2>1. \A k \in 0 .. n : k \in P
    BY <1>1, <1>2, UpTo
  <2> QED BY <2>1
<1>4. Rests(n)
  BY <1>3 DEF P
<1> QED BY <1>4 DEF Behind

\* The members of a set of numbers below k.
LessThan(T, k) == {c \in T : c < k}

LEMMA LessThanIs ==
  ASSUME NEW n \in Nat, NEW T, T \subseteq 0 .. n - 1
  PROVE  /\ IsFiniteSet(T) /\ LessThan(T, 0) = {} /\ LessThan(T, n) = T
         /\ \A k \in 0 .. n - 1 : k \notin T => LessThan(T, k + 1) = LessThan(T, k)
         /\ \A k \in 0 .. n - 1 : k \in T => /\ LessThan(T, k + 1) \ {k} = LessThan(T, k)
                                           /\ k \in LessThan(T, k + 1)
         /\ \A k : IsFiniteSet(LessThan(T, k)) /\ LessThan(T, k) \subseteq T
<1>0. \A c \in T : c \in Int /\ 0 <= c /\ c < n
  OBVIOUS
<1>1. IsFiniteSet(T)
  <2>1. 0 \in Int /\ n - 1 \in Int
    OBVIOUS
  <2>2. IsFiniteSet(0 .. n - 1)
    BY <2>1, FS_Interval
  <2> QED BY <2>2, FS_Subset
<1>2. \A k : IsFiniteSet(LessThan(T, k)) /\ LessThan(T, k) \subseteq T
  BY <1>1, FS_Subset DEF LessThan
<1>3. LessThan(T, 0) = {} /\ LessThan(T, n) = T
  <2>1. \A c \in T : ~(c < 0)
    BY <1>0
  <2>2. LessThan(T, 0) = {}
    BY <2>1, Zenon DEF LessThan
  <2>3. LessThan(T, n) = T
    BY <1>0, Zenon DEF LessThan
  <2> QED BY <2>2, <2>3
<1>4. ASSUME NEW k \in 0 .. n - 1, k \notin T PROVE LessThan(T, k + 1) = LessThan(T, k)
  <2>1. \A c \in T : c < k + 1 <=> c < k
    <3>1. \A c \in T : c \in Int /\ c # k
      BY <1>0, <1>4
    <3> QED BY <3>1
  <2> QED BY <2>1, Zenon DEF LessThan
<1>5. ASSUME NEW k \in 0 .. n - 1, k \in T
      PROVE  LessThan(T, k + 1) \ {k} = LessThan(T, k) /\ k \in LessThan(T, k + 1)
  <2>1. \A c \in T : (c < k + 1 /\ c # k) <=> c < k
    <3>1. \A c \in T : c \in Int
      BY <1>0
    <3> QED BY <3>1
  <2>2. k < k + 1
    OBVIOUS
  <2>3. k \in LessThan(T, k + 1)
    BY <1>5, <2>2, Zenon DEF LessThan
  <2>4. \A c : c \in LessThan(T, k + 1) \ {k} <=> c \in LessThan(T, k)
    BY <2>1, Zenon DEF LessThan
  <2> QED BY <2>3, <2>4, Zenon
<1> QED BY <1>1, <1>2, <1>3, <1>4, <1>5

\* Rows f that are of the members of a set T, of length L, or empty.
Measured(f, n, S, T, L) ==
  /\ \A i \in 1 .. n : f[i] \in Seq(S)
  /\ T \subseteq 0 .. n - 1 /\ \A c \in T : L[c] \in Int
  /\ \A i \in 1 .. n : Len(f[i]) = IF i - 1 \in T THEN L[i - 1] ELSE 0

LEMMA ColumnLength ==
  ASSUME NEW S, NEW n \in Nat, NEW f, NEW T, NEW L, Measured(f, n, S, T, L)
  PROVE  Len(Column(f, n)) = SumOf(L, T)
<1>m. /\ \A i \in 1 .. n : f[i] \in Seq(S)
      /\ T \subseteq 0 .. n - 1 /\ \A c \in T : L[c] \in Int
      /\ \A i \in 1 .. n : Len(f[i]) = IF i - 1 \in T THEN L[i - 1] ELSE 0
  BY DEF Measured
<1> DEFINE P == {k \in 0 .. n : Len(Column(f, k)) = SumOf(L, LessThan(T, k))}
<1>0. /\ IsFiniteSet(T) /\ LessThan(T, 0) = {} /\ LessThan(T, n) = T
      /\ \A k \in 0 .. n - 1 : k \notin T => LessThan(T, k + 1) = LessThan(T, k)
      /\ \A k \in 0 .. n - 1 : k \in T => /\ LessThan(T, k + 1) \ {k} = LessThan(T, k)
                                        /\ k \in LessThan(T, k + 1)
      /\ \A k : IsFiniteSet(LessThan(T, k)) /\ LessThan(T, k) \subseteq T
  BY <1>m, LessThanIs
<1>1. 0 \in P
  <2>1. LessThan(T, 0) = {}
    BY <1>0
  <2>2. Len(Column(f, 0)) = 0
    BY <1>m, ColumnNone
  <2>3. Len(Column(f, 0)) = SumOf(L, LessThan(T, 0))
    BY <2>1, <2>2, SumOfNone, Zenon
  <2>4. 0 \in 0 .. n
    OBVIOUS
  <2> QED BY <2>3, <2>4
<1>2. ASSUME NEW k \in 0 .. n - 1, k \in P PROVE k + 1 \in P
  <2>1. PICK a, b \in Nat : Appends(f, k, a, b)
    BY <1>m, ColumnStep
  <2>2. a = SumOf(L, LessThan(T, k)) /\ Len(Column(f, k + 1)) = a + b /\ b = Len(f[k + 1])
    BY <1>2, <2>1 DEF Appends
  <2>3. k + 1 \in 1 .. n /\ (k + 1) - 1 = k
    OBVIOUS
  <2>4. b = IF k \in T THEN L[k] ELSE 0
    BY <1>m, <2>2, <2>3
  <2>5. SumOf(L, LessThan(T, k + 1)) = a + b
    <3>1. CASE k \in T
      <4>1. PICK B : B = LessThan(T, k + 1)
        OBVIOUS
      <4>2. B \ {k} = LessThan(T, k) /\ k \in B /\ IsFiniteSet(B) /\ B \subseteq T
        BY <1>0, <3>1, <4>1, Zenon
      <4>3. SumOf(L, B) = L[k] + SumOf(L, B \ {k})
        <5>1. \A x \in B : L[x] \in Int
          BY <1>m, <4>2
        <5> QED BY <4>2, <5>1, SumOfRemove
      <4>4. SumOf(L, LessThan(T, k + 1)) = L[k] + SumOf(L, LessThan(T, k))
        BY <4>1, <4>2, <4>3, Zenon
      <4>5. L[k] = b
        BY <2>4, <3>1, Zenon
      <4> QED BY <2>2, <4>4, <4>5
    <3>2. CASE k \notin T
      <4>1. LessThan(T, k + 1) = LessThan(T, k) /\ b = 0
        BY <1>0, <2>4, <3>2, Zenon
      <4>2. SumOf(L, LessThan(T, k + 1)) = a
        BY <2>2, <4>1, Zenon
      <4> QED BY <4>1, <4>2
    <3> QED BY <3>1, <3>2
  <2> QED BY <2>2, <2>3, <2>5
<1>3. \A k \in 0 .. n : k \in P
  <2> HIDE DEF P
  <2> QED BY <1>1, <1>2, UpTo
<1>4. LessThan(T, n) = T
  BY <1>m, LessThanIs
<1>5. n \in 0 .. n
  OBVIOUS
<1> QED BY <1>3, <1>4, <1>5

=============================================================================
