---------------------------- MODULE QueriesProofs ---------------------------
(***************************************************************************)
(* Theorems about stored telemetry queries, for any store, any records     *)
(* that arrive late, any predicates and page sizes, and about what is      *)
(* reduced from their pages.                                               *)
(***************************************************************************)
EXTENDS Queries, FiniteSetTheorems, WellFoundedInduction, TLAPS

-----------------------------------------------------------------------------
(* Sorting.  Sorted says by counting which index has which place: two       *)
(* indices in the wrong places would count each other.                      *)

\* v has finitely many indices, which are numbers as its values are.
Listed(v) ==
  /\ DOMAIN v \subseteq Int /\ IsFiniteSet(DOMAIN v)
  /\ \A i \in DOMAIN v : v[i] \in Int

Lower(v, j, i) == v[j] < v[i] \/ (v[j] = v[i] /\ j < i)

LEMMA LowerIsOrder ==
  ASSUME NEW v, Listed(v), NEW i \in DOMAIN v, NEW j \in DOMAIN v
  PROVE  /\ ~Lower(v, i, i)
         /\ i # j => Lower(v, i, j) \/ Lower(v, j, i)
         /\ ~(Lower(v, i, j) /\ Lower(v, j, i))
         /\ \A k \in DOMAIN v : Lower(v, i, j) /\ Lower(v, j, k) => Lower(v, i, k)
BY DEF Listed, Lower

Before(v, i) == {j \in DOMAIN v : Lower(v, j, i)}

LEMMA BeforeIsFinite ==
  ASSUME NEW v, Listed(v), NEW i
  PROVE  IsFiniteSet(Before(v, i)) /\ Cardinality(Before(v, i)) \in Nat
<1>1. IsFiniteSet(Before(v, i))
  BY FS_Subset DEF Listed, Before
<1> QED
  BY <1>1, FS_CardinalityType

LEMMA BeforeGrows ==
  ASSUME NEW v, Listed(v), NEW i \in DOMAIN v, NEW j \in DOMAIN v, Lower(v, i, j)
  PROVE  Cardinality(Before(v, i)) < Cardinality(Before(v, j))
<1> DEFINE A == Before(v, i)
           B == Before(v, j)
<1>1. A \subseteq B /\ i \in B /\ i \notin A
  BY LowerIsOrder DEF Before
<1>2. IsFiniteSet(B) /\ Cardinality(A) \in Nat /\ Cardinality(B) \in Nat
  BY BeforeIsFinite
<1>3. Cardinality(A) <= Cardinality(B) /\ (Cardinality(B) = Cardinality(A) => B = A)
  BY <1>1, <1>2, FS_Subset
<1> QED
  BY <1>1, <1>2, <1>3

LEMMA BeforeBounds ==
  ASSUME NEW v, Listed(v), NEW i \in DOMAIN v
  PROVE  Cardinality(Before(v, i)) + 1 \in 1..Cardinality(DOMAIN v)
<1> DEFINE A == Before(v, i)
           S == DOMAIN v
<1>1. A \subseteq S /\ i \notin A /\ IsFiniteSet(S)
  BY LowerIsOrder DEF Before, Listed
<1>2. Cardinality(A) <= Cardinality(S) /\ (Cardinality(S) = Cardinality(A) => S = A)
  BY <1>1, FS_Subset
<1>3. Cardinality(A) \in Nat /\ Cardinality(S) \in Nat
  BY <1>1, BeforeIsFinite, FS_CardinalityType
<1> QED
  BY <1>1, <1>2, <1>3

\* Every place is the place of one index.
LEMMA PlacesAreTaken ==
  ASSUME NEW v, Listed(v), NEW n \in 1..Cardinality(DOMAIN v)
  PROVE  \E i \in DOMAIN v : Cardinality(Before(v, i)) = n - 1
<1> DEFINE S == DOMAIN v
           place == [i \in S |-> Cardinality(Before(v, i)) + 1]
           P == 1..Cardinality(S)
<1>1. IsFiniteSet(S) /\ Cardinality(S) \in Nat
  BY FS_CardinalityType DEF Listed
<1>2. IsFiniteSet(P) /\ Cardinality(P) = Cardinality(S)
  BY <1>1, FS_Interval
<1>3. place \in [S -> P]
  BY BeforeBounds
<1>4. ASSUME NEW i \in S, NEW j \in S, place[i] = place[j] PROVE i = j
  <2>1. Cardinality(Before(v, i)) \in Nat /\ Cardinality(Before(v, j)) \in Nat
    BY BeforeIsFinite
  <2> QED
    BY <1>4, <2>1, BeforeGrows, LowerIsOrder
<1>5. place \in Injection(S, P)
  BY <1>3, <1>4 DEF Injection, IsInjective
<1>6. place \in Surjection(S, P)
  BY <1>2, <1>5, FS_Injection
<1>7. PICK i \in S : place[i] = n
  BY <1>6 DEF Surjection
<1>8. Cardinality(Before(v, i)) \in Nat
  BY BeforeIsFinite
<1> QED
  BY <1>7, <1>8

\* Sorted gives all indices, and only those, in order.
LEMMA SortedIsOrder ==
  ASSUME NEW v, Listed(v)
  PROVE  /\ Cardinality(DOMAIN v) \in Nat
         /\ Sorted(v) \in Seq(DOMAIN v) /\ Len(Sorted(v)) = Cardinality(DOMAIN v)
         /\ \A n \in 1..Cardinality(DOMAIN v) :
              Sorted(v)[n] \in DOMAIN v /\ Cardinality(Before(v, Sorted(v)[n])) = n - 1
         /\ \A m, n \in 1..Cardinality(DOMAIN v) :
              m < n => Lower(v, Sorted(v)[m], Sorted(v)[n])
         /\ \A i \in DOMAIN v : \E n \in 1..Cardinality(DOMAIN v) : Sorted(v)[n] = i
<1> DEFINE s == Sorted(v)
           N == Cardinality(DOMAIN v)
<1>1. IsFiniteSet(DOMAIN v) /\ N \in Nat
  BY FS_CardinalityType DEF Listed
<1>2. ASSUME NEW n \in 1..N
      PROVE  s[n] \in DOMAIN v /\ Cardinality(Before(v, s[n])) = n - 1
  <2>1. s[n] = CHOOSE i \in DOMAIN v : Cardinality(Before(v, i)) = n - 1
    BY <1>2 DEF Sorted, Before, Lower
  <2> QED
    BY <1>2, <2>1, PlacesAreTaken
<1>3. s = [n \in 1..N |-> s[n]]
  BY DEF Sorted
<1>4. s \in Seq(DOMAIN v) /\ Len(s) = N
  BY <1>1, <1>2, <1>3
<1>5. ASSUME NEW m \in 1..N, NEW n \in 1..N, m < n PROVE Lower(v, s[m], s[n])
  <2>1. ~Lower(v, s[n], s[m])
    BY <1>1, <1>2, <1>5, BeforeGrows
  <2> QED
    BY <1>2, <1>5, <2>1, LowerIsOrder
<1>6. ASSUME NEW i \in DOMAIN v PROVE \E n \in 1..N : s[n] = i
  <2> DEFINE n == Cardinality(Before(v, i)) + 1
  <2>1. n \in 1..N
    BY BeforeBounds
  <2>2. Cardinality(Before(v, s[n])) = n - 1 /\ s[n] \in DOMAIN v
    BY <1>2, <2>1
  <2>3. Cardinality(Before(v, i)) = n - 1
    BY BeforeIsFinite
  <2>4. s[n] = i
    <3>1. n - 1 \in Int /\ ~(n - 1 < n - 1)
      BY <2>1, <1>1
    <3> QED
      BY <2>2, <2>3, <3>1, BeforeGrows, LowerIsOrder
  <2> QED
    BY <2>1, <2>4
<1> QED
  BY <1>1, <1>2, <1>4, <1>5, <1>6

-----------------------------------------------------------------------------
(* Sums.  SumFunctionOnSet is a recursive function on subsets: that there   *)
(* is one, what it gives, and that the order of its choices is no matter.   *)

\* A set that has every subset whose proper subsets it has, has them all.
LEMMA SubsetInduction ==
  ASSUME NEW S, IsFiniteSet(S), NEW Good,
         \A T \in SUBSET S : (\A U \in SUBSET T : U # T => U \in Good) => T \in Good
  PROVE  \A T \in SUBSET S : T \in Good
<1> DEFINE Bad == (SUBSET S) \ Good
<1>1. IsWellFoundedOn(StrictSubsetOrdering(S), SUBSET S)
  BY FS_StrictSubsetOrderingWellFounded, FS_FiniteSubsetsOfFinite
<1>2. SUFFICES ASSUME Bad # {} PROVE FALSE
  OBVIOUS
<1>3. PICK T \in Bad : \A U \in Bad : <<U, T>> \notin StrictSubsetOrdering(S)
  <2>1. Bad \subseteq SUBSET S
    OBVIOUS
  <2> HIDE DEF Bad
  <2> QED
    BY <1>1, <1>2, <2>1, WFMin
<1>4. \A U \in SUBSET T : U # T => U \in Good
  BY <1>3 DEF StrictSubsetOrdering
<1> QED
  BY <1>3, <1>4

Picked(s) == CHOOSE x \in s : TRUE

PickedSum(f, v, s) == IF s = {} THEN 0 ELSE v[Picked(s)] + f[s \ {Picked(s)}]

IsSum(f, v, S) == f = [s \in SUBSET S |-> PickedSum(f, v, s)]

LEMMA SmallerByOne ==
  ASSUME NEW S, IsFiniteSet(S), NEW x \in S
  PROVE  /\ IsFiniteSet(S \ {x}) /\ Cardinality(S \ {x}) = Cardinality(S) - 1
         /\ Cardinality(S) \in Nat /\ Cardinality(S \ {x}) \in Nat
BY FS_RemoveElement, FS_CardinalityType

LEMMA SumIsDefined ==
  ASSUME NEW v, NEW S, IsFiniteSet(S)
  PROVE  \E f : IsSum(f, v, S)
<1> DEFINE UpTo(f, n) == \A s \in SUBSET S : Cardinality(s) <= n => f[s] = PickedSum(f, v, s)
           Good == {T \in SUBSET S : \E f : UpTo(f, Cardinality(T))}
<1>f. \A s \in SUBSET S : IsFiniteSet(s) /\ Cardinality(s) \in Nat
  BY FS_Subset, FS_CardinalityType
<1>1. ASSUME NEW T \in SUBSET S, \A U \in SUBSET T : U # T => U \in Good
      PROVE  T \in Good
  <2>1. CASE T = {}
    <3> DEFINE zero == [s \in SUBSET S |-> 0]
    <3>1. ASSUME NEW s \in SUBSET S, Cardinality(s) <= Cardinality(T)
          PROVE  zero[s] = PickedSum(zero, v, s)
      <4>1. s = {}
        BY <1>f, <2>1, <3>1, FS_EmptySet
      <4> QED
        BY <4>1 DEF PickedSum
    <3> HIDE DEF zero
    <3> QED
      BY <3>1
  <2>2. CASE T # {}
    <3>1. PICK x : x \in T
      BY <2>2
    <3>2. T \ {x} \in Good /\ Cardinality(T \ {x}) = Cardinality(T) - 1
      BY <1>1, <1>f, <3>1, SmallerByOne
    <3>3. PICK f : UpTo(f, Cardinality(T) - 1)
      BY <3>2
    <3> DEFINE g == [s \in SUBSET S |-> PickedSum(f, v, s)]
    <3>4. ASSUME NEW s \in SUBSET S, Cardinality(s) <= Cardinality(T)
          PROVE  g[s] = PickedSum(g, v, s)
      <4>1. CASE s = {}
        BY <4>1 DEF PickedSum
      <4>2. CASE s # {}
        <5> DEFINE p == Picked(s)
        <5>1. p \in s
          BY <4>2 DEF Picked
        <5>2. Cardinality(s \ {p}) <= Cardinality(T) - 1 /\ s \ {p} \in SUBSET S
          BY <1>1, <1>f, <3>4, <5>1, SmallerByOne
        <5>3. g[s \ {p}] = f[s \ {p}]
          BY <3>3, <5>2
        <5>4. g[s] = v[p] + f[s \ {p}]
          BY <4>2 DEF PickedSum
        <5> QED
          BY <4>2, <5>3, <5>4 DEF PickedSum
      <4> QED
        BY <4>1, <4>2
    <3> HIDE DEF g
    <3> QED
      BY <3>4
  <2> QED
    BY <2>1, <2>2
<1>2. S \in Good
  <2> HIDE DEF Good
  <2>1. \A T \in SUBSET S : T \in Good
    BY <1>1, SubsetInduction
  <2> QED
    BY <2>1
<1>3. PICK f : UpTo(f, Cardinality(S))
  BY <1>2
<1> DEFINE g == [s \in SUBSET S |-> f[s]]
<1>4. ASSUME NEW s \in SUBSET S
      PROVE  f[s] = PickedSum(g, v, s)
  <2>1. f[s] = PickedSum(f, v, s)
    BY <1>3, FS_Subset
  <2>2. s # {} => s \ {Picked(s)} \in SUBSET S
    OBVIOUS
  <2> QED
    BY <2>1, <2>2 DEF PickedSum
<1> QED
  BY <1>4 DEF IsSum

LEMMA SumIsUnique ==
  ASSUME NEW v, NEW S, NEW T \in SUBSET S, IsFiniteSet(T),
         NEW f, IsSum(f, v, S), NEW g, IsSum(g, v, T)
  PROVE  f[T] = g[T]
<1> DEFINE Good == {U \in SUBSET T : f[U] = g[U]}
<1>1. ASSUME NEW U \in SUBSET T, \A V \in SUBSET U : V # U => V \in Good
      PROVE  U \in Good
  <2>1. f[U] = PickedSum(f, v, U) /\ g[U] = PickedSum(g, v, U)
    BY DEF IsSum
  <2>2. U # {} => f[U \ {Picked(U)}] = g[U \ {Picked(U)}]
    BY <1>1 DEF Picked
  <2> QED
    BY <2>1, <2>2 DEF PickedSum
<1> HIDE DEF Good
<1>2. \A U \in SUBSET T : U \in Good
  BY <1>1, SubsetInduction
<1> QED
  BY <1>2 DEF Good

LEMMA SumUnfolds ==
  ASSUME NEW v
  PROVE  /\ SumFunctionOnSet(v, {}) = 0
         /\ \A S : IsFiniteSet(S) /\ S # {} =>
              SumFunctionOnSet(v, S) = v[Picked(S)] + SumFunctionOnSet(v, S \ {Picked(S)})
<1> DEFINE sum(S) == CHOOSE f : IsSum(f, v, S)
<1>1. \A S : SumFunctionOnSet(v, S) = sum(S)[S]
  BY DEF SumFunctionOnSet, FoldFunctionOnSet, MapThenFoldSet, IsSum, PickedSum, Picked
<1>2. ASSUME NEW S, IsFiniteSet(S) PROVE IsSum(sum(S), v, S)
  BY <1>2, SumIsDefined
<1> HIDE DEF sum
<1>3. ASSUME NEW S, IsFiniteSet(S) PROVE SumFunctionOnSet(v, S) = PickedSum(sum(S), v, S)
  BY <1>1, <1>2, <1>3 DEF IsSum
<1>4. SumFunctionOnSet(v, {}) = 0
  BY <1>3, FS_EmptySet DEF PickedSum
<1>5. ASSUME NEW S, IsFiniteSet(S), S # {}
      PROVE  SumFunctionOnSet(v, S) = v[Picked(S)] + SumFunctionOnSet(v, S \ {Picked(S)})
  <2> DEFINE T == S \ {Picked(S)}
  <2>1. T \in SUBSET S /\ IsFiniteSet(T)
    BY <1>5, FS_Subset
  <2>2. sum(S)[T] = sum(T)[T]
    BY <1>2, <1>5, <2>1, SumIsUnique
  <2> QED
    BY <1>1, <1>3, <1>5, <2>2 DEF PickedSum
<1> QED
  BY <1>4, <1>5

\* Any element may be the first one.
LEMMA SumOfOneMore ==
  ASSUME NEW v, NEW S, IsFiniteSet(S), \A i \in S : v[i] \in Int
  PROVE  /\ SumFunctionOnSet(v, S) \in Int
         /\ \A x \in S : SumFunctionOnSet(v, S) = v[x] + SumFunctionOnSet(v, S \ {x})
<1> DEFINE sum(T) == SumFunctionOnSet(v, T)
           Good == {T \in SUBSET S : /\ sum(T) \in Int
                                     /\ \A x \in T : sum(T) = v[x] + sum(T \ {x})}
<1>0. sum({}) = 0 /\ \A T : IsFiniteSet(T) /\ T # {} => sum(T) = v[Picked(T)] + sum(T \ {Picked(T)})
  BY SumUnfolds
<1> HIDE DEF sum
<1>1. ASSUME NEW T \in SUBSET S, \A U \in SUBSET T : U # T => U \in Good
      PROVE  T \in Good
  <2>1. CASE T = {}
    BY <1>0, <2>1
  <2>2. CASE T # {}
    <3> DEFINE p == Picked(T)
    <3>1. p \in T /\ v[p] \in Int
      BY <2>2 DEF Picked
    <3>2. IsFiniteSet(T)
      BY FS_Subset
    <3>3. sum(T) = v[p] + sum(T \ {p})
      BY <1>0, <2>2, <3>2
    <3> HIDE DEF p
    <3>4. T \ {p} \in Good
      BY <1>1, <3>1
    <3>5. sum(T) \in Int
      BY <3>1, <3>3, <3>4
    <3>6. ASSUME NEW x \in T, x # p
          PROVE  sum(T) = v[x] + sum(T \ {x})
      <4>1. T \ {x} \in Good /\ v[x] \in Int
        BY <1>1
      <4> DEFINE W == (T \ {p}) \ {x}
      <4>2. (T \ {x}) \ {p} = W /\ W \in Good
        BY <1>1, <3>1
      <4>3. sum(T \ {x}) = v[p] + sum(W)
        BY <3>1, <3>6, <4>1, <4>2
      <4>4. sum(T \ {p}) = v[x] + sum(W)
        BY <3>4, <3>6
      <4>5. sum(W) \in Int
        BY <4>2
      <4> HIDE DEF W
      <4> QED
        BY <3>1, <3>3, <4>1, <4>3, <4>4, <4>5
    <3> QED
      BY <3>3, <3>5, <3>6
  <2> QED
    BY <2>1, <2>2
<1>2. S \in Good
  <2> HIDE DEF Good
  <2>1. \A T \in SUBSET S : T \in Good
    BY <1>1, SubsetInduction
  <2> QED
    BY <2>1
<1> QED
  BY <1>2 DEF sum

LEMMA ImageIsFinite ==
  ASSUME NEW h, NEW S, IsFiniteSet(S)
  PROVE  IsFiniteSet({h[i] : i \in S})
<1> DEFINE f == [i \in S |-> h[i]]
<1>1. f \in Surjection(S, {h[i] : i \in S})
  BY DEF Surjection
<1> QED
  BY <1>1, FS_Surjection

\* A sum moves along with its terms, each to a place of its own.
LEMMA SumMoves ==
  ASSUME NEW v, NEW w, NEW h, NEW S, IsFiniteSet(S),
         \A i \in S : v[i] \in Int /\ v[i] = w[h[i]],
         \A i, j \in S : h[i] = h[j] => i = j
  PROVE  SumFunctionOnSet(v, S) = SumFunctionOnSet(w, {h[i] : i \in S})
<1> DEFINE H(T) == {h[i] : i \in T}
           a(T) == SumFunctionOnSet(v, T)
           b(T) == SumFunctionOnSet(w, H(T))
           Good == {T \in SUBSET S : a(T) = b(T)}
<1>1. ASSUME NEW T \in SUBSET S, \A U \in SUBSET T : U # T => U \in Good
      PROVE  T \in Good
  <2>1. CASE T = {}
    <3>1. H(T) = {}
      BY <2>1
    <3> QED
      BY <2>1, <3>1, SumUnfolds
  <2>2. CASE T # {}
    <3>1. PICK x : x \in T
      BY <2>2
    <3>2. IsFiniteSet(T)
      BY FS_Subset
    <3>3. IsFiniteSet(H(T))
      BY <3>2, ImageIsFinite
    <3>4. H(T) \ {h[x]} = H(T \ {x}) /\ h[x] \in H(T) /\ \A y \in H(T) : w[y] \in Int
      BY <3>1
    <3> HIDE DEF H
    <3>5. a(T) = v[x] + a(T \ {x})
      BY <3>1, <3>2, SumOfOneMore
    <3>6. b(T) = w[h[x]] + b(T \ {x})
      <4>1. b(T) = w[h[x]] + SumFunctionOnSet(w, H(T) \ {h[x]})
        BY <3>3, <3>4, SumOfOneMore
      <4> QED
        BY <3>4, <4>1
    <3>7. a(T \ {x}) = b(T \ {x})
      BY <1>1, <3>1
    <3> QED
      BY <3>1, <3>5, <3>6, <3>7
  <2> QED
    BY <2>1, <2>2
<1>2. S \in Good
  <2> HIDE DEF Good
  <2>1. \A T \in SUBSET S : T \in Good
    BY <1>1, SubsetInduction
  <2> QED
    BY <2>1
<1> QED
  BY <1>2

\* Equal terms have equal sums.
LEMMA SumSame ==
  ASSUME NEW v, NEW w, NEW S, IsFiniteSet(S), \A i \in S : v[i] \in Int /\ v[i] = w[i]
  PROVE  SumFunctionOnSet(v, S) = SumFunctionOnSet(w, S)
<1> DEFINE h == [i \in S |-> i]
<1>1. {h[i] : i \in S} = S
  OBVIOUS
<1>2. \A i \in S : h[i] = i
  OBVIOUS
<1> HIDE DEF h
<1>3. SumFunctionOnSet(v, S) = SumFunctionOnSet(w, {h[i] : i \in S})
  BY <1>2, SumMoves
<1> QED
  BY <1>1, <1>3

\* A sum lies between the extremes of its terms, as often as it has terms.
LEMMA SumBetween ==
  ASSUME NEW v, NEW S, IsFiniteSet(S), NEW lo \in Int, NEW hi \in Int,
         \A i \in S : v[i] \in Int /\ lo <= v[i] /\ v[i] <= hi
  PROVE  /\ lo * Cardinality(S) <= SumFunctionOnSet(v, S)
         /\ SumFunctionOnSet(v, S) <= hi * Cardinality(S)
<1> DEFINE sum(T) == SumFunctionOnSet(v, T)
           n(T) == Cardinality(T)
           Good == {T \in SUBSET S : lo * n(T) <= sum(T) /\ sum(T) <= hi * n(T)}
<1>1. ASSUME NEW T \in SUBSET S, \A U \in SUBSET T : U # T => U \in Good
      PROVE  T \in Good
  <2>1. CASE T = {}
    <3>1. sum(T) = 0 /\ n(T) = 0
      BY <2>1, SumUnfolds, FS_EmptySet
    <3> HIDE DEF sum, n
    <3> QED
      BY <3>1
  <2>2. CASE T # {}
    <3>1. PICK x : x \in T
      BY <2>2
    <3> DEFINE U == T \ {x}
    <3>2. IsFiniteSet(T) /\ IsFiniteSet(U)
      BY FS_Subset
    <3>3. n(U) = n(T) - 1 /\ n(T) \in Nat /\ n(U) \in Nat
      BY <3>1, <3>2, SmallerByOne
    <3>4. sum(T) = v[x] + sum(U) /\ sum(T) \in Int /\ sum(U) \in Int
      BY <3>1, <3>2, SumOfOneMore
    <3>5. lo * n(U) <= sum(U) /\ sum(U) <= hi * n(U)
      BY <1>1, <3>1
    <3>6. v[x] \in Int /\ lo <= v[x] /\ v[x] <= hi
      BY <3>1
    <3> HIDE DEF sum, n, U
    <3>7. lo * n(T) = lo * n(U) + lo /\ hi * n(T) = hi * n(U) + hi
      BY <3>3
    <3>8. lo * n(U) \in Int /\ hi * n(U) \in Int
      BY <3>3
    <3> QED
      BY <3>4, <3>5, <3>6, <3>7, <3>8
  <2> QED
    BY <2>1, <2>2
<1>2. S \in Good
  <2> HIDE DEF Good
  <2>1. \A T \in SUBSET S : T \in Good
    BY <1>1, SubsetInduction
  <2> QED
    BY <2>1
<1> QED
  BY <1>2

LEMMA SumOfOnes ==
  ASSUME NEW v, NEW S, IsFiniteSet(S), \A i \in S : v[i] = 1
  PROVE  SumFunctionOnSet(v, S) = Cardinality(S)
<1>1. 1 * Cardinality(S) <= SumFunctionOnSet(v, S) /\ SumFunctionOnSet(v, S) <= 1 * Cardinality(S)
  BY SumBetween
<1>2. SumFunctionOnSet(v, S) \in Int /\ Cardinality(S) \in Nat
  BY SumOfOneMore, FS_CardinalityType
<1> QED
  BY <1>1, <1>2

\* The parts that the labels l divide S in add up to it.
LEMMA SumOfParts ==
  ASSUME NEW v, NEW l, NEW S, IsFiniteSet(S), \A i \in S : v[i] \in Int
  PROVE  LET part(g) == {i \in S : l[i] = g}
             labels == {l[i] : i \in S}
         IN  SumFunctionOnSet([g \in labels |-> SumFunctionOnSet(v, part(g))], labels)
               = SumFunctionOnSet(v, S)
<1> DEFINE part(T, g) == {i \in T : l[i] = g}
           labels(T) == {l[i] : i \in T}
           parts(T) == [g \in labels(T) |-> SumFunctionOnSet(v, part(T, g))]
           total(T) == SumFunctionOnSet(parts(T), labels(T))
           Good == {T \in SUBSET S : total(T) = SumFunctionOnSet(v, T)}
<1>f. ASSUME NEW T \in SUBSET S
      PROVE  /\ IsFiniteSet(T) /\ IsFiniteSet(labels(T))
             /\ \A g : IsFiniteSet(part(T, g)) /\ SumFunctionOnSet(v, part(T, g)) \in Int
             /\ \A g \in labels(T) : parts(T)[g] = SumFunctionOnSet(v, part(T, g))
  <2>1. IsFiniteSet(T)
    BY FS_Subset
  <2>2. IsFiniteSet(labels(T))
    BY <2>1, ImageIsFinite
  <2>3. ASSUME NEW g PROVE IsFiniteSet(part(T, g)) /\ SumFunctionOnSet(v, part(T, g)) \in Int
    <3>1. IsFiniteSet(part(T, g)) /\ part(T, g) \subseteq S
      BY <2>1, FS_Subset
    <3> HIDE DEF part
    <3> QED
      BY <3>1, SumOfOneMore
  <2> QED
    BY <2>1, <2>2, <2>3
<1>1. ASSUME NEW T \in SUBSET S, \A U \in SUBSET T : U # T => U \in Good
      PROVE  T \in Good
  <2>1. CASE T = {}
    <3>1. labels(T) = {}
      BY <2>1
    <3> HIDE DEF labels, parts
    <3> QED
      BY <2>1, <3>1, SumUnfolds
  <2>2. CASE T # {}
    <3>1. PICK x : x \in T
      BY <2>2
    <3> DEFINE U == T \ {x}
               g == l[x]
               R == labels(U) \ {g}
    <3>2. labels(T) \ {g} = R /\ g \in labels(T) /\ U \in SUBSET S
      BY <3>1
    <3>3. part(T, g) \ {x} = part(U, g) /\ x \in part(T, g) /\ part(T, g) \subseteq S
      BY <3>1
    <3>4. \A k \in R : part(T, k) = part(U, k) /\ k \in labels(T) /\ k \in labels(U)
      OBVIOUS
    <3>5. g \notin labels(U) => part(U, g) = {}
      OBVIOUS
    <3>6. U \in Good
      BY <1>1, <3>1
    <3> HIDE DEF U, R, part, labels, parts, g
    <3>7. total(T) = SumFunctionOnSet(v, part(T, g)) + SumFunctionOnSet(parts(T), R)
      BY <1>f, <3>2, SumOfOneMore
    <3>8. SumFunctionOnSet(v, part(T, g)) = v[x] + SumFunctionOnSet(v, part(U, g))
      <4> DEFINE P == part(T, g)
      <4>1. IsFiniteSet(P) /\ x \in P /\ \A i \in P : v[i] \in Int
        BY <1>f, <3>3
      <4> HIDE DEF P
      <4>2. SumFunctionOnSet(v, P) = v[x] + SumFunctionOnSet(v, P \ {x})
        BY <4>1, SumOfOneMore
      <4> USE DEF P
      <4> QED
        BY <3>3, <4>2
    <3>9. /\ SumFunctionOnSet(parts(T), R) = SumFunctionOnSet(parts(U), R)
          /\ SumFunctionOnSet(parts(U), R) \in Int
      <4>1. IsFiniteSet(R)
        BY <1>f, <3>2, FS_RemoveElement
      <4>2. \A k \in R : parts(T)[k] = parts(U)[k] /\ parts(T)[k] \in Int
        BY <1>f, <3>2, <3>4
      <4> QED
        BY <4>1, <4>2, SumSame, SumOfOneMore
    <3>10. total(U) = SumFunctionOnSet(v, part(U, g)) + SumFunctionOnSet(parts(U), R)
      <4>1. CASE g \in labels(U)
        BY <1>f, <3>2, <4>1, SumOfOneMore DEF R
      <4>2. CASE g \notin labels(U)
        <5>1. R = labels(U)
          BY <4>2 DEF R
        <5> QED
          BY <3>5, <3>9, <4>2, <5>1, SumUnfolds
      <4> QED
        BY <4>1, <4>2
    <3>11. SumFunctionOnSet(v, T) = v[x] + SumFunctionOnSet(v, U)
      BY <1>f, <3>1, SumOfOneMore DEF U
    <3>12. total(U) = SumFunctionOnSet(v, U)
      BY <3>6
    <3>13. v[x] \in Int /\ SumFunctionOnSet(v, part(U, g)) \in Int
      BY <1>f, <3>1, <3>2
    <3> HIDE DEF total
    <3> QED
      BY <3>7, <3>8, <3>9, <3>10, <3>11, <3>12, <3>13
  <2> QED
    BY <2>1, <2>2
<1>2. S \in Good
  <2> HIDE DEF Good
  <2>1. \A T \in SUBSET S : T \in Good
    BY <1>1, SubsetInduction
  <2> QED
    BY <2>1
<1> QED
  BY <1>2

-----------------------------------------------------------------------------
(* Lists of values.                                                         *)

LEMMA Extremes ==
  ASSUME NEW S, IsFiniteSet(S), S \subseteq Int, S # {}
  PROVE  /\ Min(S) \in S /\ \A y \in S : Min(S) <= y
         /\ Max(S) \in S /\ \A y \in S : y <= Max(S)
<1> DEFINE v == [i \in S |-> i]
           s == Sorted(v)
           N == Cardinality(S)
<1>1. Listed(v) /\ DOMAIN v = S /\ \A i \in S : v[i] = i
  BY DEF Listed
<1> HIDE DEF v
<1>2. /\ N \in Nat /\ \A n \in 1..N : s[n] \in S
      /\ \A m, n \in 1..N : m < n => Lower(v, s[m], s[n])
      /\ \A i \in S : \E n \in 1..N : s[n] = i
  BY <1>1, SortedIsOrder
<1> HIDE DEF s
<1>3. N >= 1
  <2>1. PICK x \in S : TRUE
    OBVIOUS
  <2>2. PICK n \in 1..N : s[n] = x
    BY <1>2
  <2> QED
    BY <1>2, <2>2
<1>4. ASSUME NEW m \in 1..N, NEW n \in 1..N, m < n PROVE s[m] <= s[n]
  <2>1. Lower(v, s[m], s[n]) /\ s[m] \in S /\ s[n] \in S
    BY <1>2, <1>4
  <2>2. v[s[m]] = s[m] /\ v[s[n]] = s[n] /\ s[m] \in Int /\ s[n] \in Int
    BY <1>1, <2>1
  <2> QED
    BY <2>1, <2>2 DEF Lower
<1>5. ASSUME NEW y \in S PROVE s[1] <= y /\ y <= s[N]
  <2>1. PICK n \in 1..N : s[n] = y
    BY <1>2
  <2>2. 1 \in 1..N /\ N \in 1..N /\ (n = 1 \/ 1 < n) /\ (n = N \/ n < N)
    BY <1>2, <1>3
  <2> QED
    BY <1>4, <2>1, <2>2
<1>6. s[1] \in S /\ s[N] \in S
  BY <1>2, <1>3
<1>7. \E x \in S : \A y \in S : x <= y
  BY <1>5, <1>6
<1>8. \E x \in S : \A y \in S : y <= x
  BY <1>5, <1>6
<1> QED
  BY <1>7, <1>8 DEF Min, Max

LEMMA MinIsMin ==
  ASSUME NEW a \in Int, NEW b \in Int
  PROVE  Min({a, b}) = IF a <= b THEN a ELSE b
BY DEF Min

\* The values in ascending order: the n-th one is the n-th by counting.
LEMMA AscendingIsOrdered ==
  ASSUME NEW v, Listed(v)
  PROVE  LET vs == Ascending(v)
             N == Cardinality(DOMAIN v)
         IN  /\ N \in Nat /\ vs \in Seq(Int) /\ Len(vs) = N /\ DOMAIN vs = 1..N
             /\ \A n \in 1..N : vs[n] \in Range(v) /\ IsOrderStatistic(v, n, vs[n])
             /\ \A m, n \in 1..N : m <= n => vs[m] <= vs[n]
<1> DEFINE vs == Ascending(v)
           s == Sorted(v)
           N == Cardinality(DOMAIN v)
<1>1. /\ N \in Nat /\ s \in Seq(DOMAIN v) /\ Len(s) = N
      /\ \A n \in 1..N : s[n] \in DOMAIN v /\ Cardinality(Before(v, s[n])) = n - 1
      /\ \A m, n \in 1..N : m < n => Lower(v, s[m], s[n])
  BY SortedIsOrder
<1>2. vs = [n \in 1..N |-> v[s[n]]]
  BY <1>1 DEF Ascending
<1> HIDE DEF s
<1>3. \A n \in 1..N : vs[n] = v[s[n]] /\ vs[n] \in Int /\ vs[n] \in Range(v)
  BY <1>1, <1>2 DEF Listed, Range
<1>4. vs \in Seq(Int) /\ Len(vs) = N /\ DOMAIN vs = 1..N
  BY <1>1, <1>2, <1>3
<1> HIDE DEF vs
<1>5. ASSUME NEW m \in 1..N, NEW n \in 1..N, m <= n PROVE vs[m] <= vs[n]
  BY <1>1, <1>3, <1>5 DEF Lower
<1>6. ASSUME NEW n \in 1..N PROVE IsOrderStatistic(v, n, vs[n])
  <2> DEFINE A == {i \in DOMAIN v : v[i] < vs[n]}
             B == {i \in DOMAIN v : v[i] <= vs[n]}
             C == Before(v, s[n])
  <2>1. A \subseteq C /\ C \subseteq B /\ s[n] \in B /\ s[n] \notin C
    BY <1>1, <1>3 DEF Before, Lower, Listed
  <2>2. IsFiniteSet(C) /\ IsFiniteSet(B) /\ Cardinality(B) \in Nat /\ Cardinality(C) = n - 1
    BY <1>1, BeforeIsFinite, FS_Subset, FS_CardinalityType DEF Listed
  <2> HIDE DEF A, B, C
  <2>3. Cardinality(A) <= n - 1 /\ Cardinality(A) \in Nat
    BY <2>1, <2>2, FS_Subset, FS_CardinalityType
  <2>4. n - 1 <= Cardinality(B) /\ n - 1 # Cardinality(B)
    BY <2>1, <2>2, FS_Subset
  <2> QED
    BY <1>1, <2>2, <2>3, <2>4 DEF IsOrderStatistic, A, B
<1> QED
  BY <1>1, <1>3, <1>4, <1>5, <1>6 DEF vs

\* h takes the values of v to places in w, each to one of its own.
Moved(v, w, h) ==
  /\ DOMAIN w = {h[i] : i \in DOMAIN v}
  /\ \A i \in DOMAIN v : w[h[i]] = v[i]
  /\ \A i, j \in DOMAIN v : h[i] = h[j] => i = j

LEMMA SubsetMoves ==
  ASSUME NEW h, NEW S, NEW T, IsFiniteSet(S),
         T = {h[i] : i \in S}, \A i, j \in S : h[i] = h[j] => i = j
  PROVE  Cardinality(S) = Cardinality(T)
<1> DEFINE f == [i \in S |-> h[i]]
<1>1. f \in Bijection(S, T)
  BY DEF Bijection, Injection, Surjection, IsInjective
<1>2. ExistsBijection(S, T)
  BY <1>1 DEF ExistsBijection
<1> QED
  BY <1>2, FS_Bijection

LEMMA CountsMove ==
  ASSUME NEW v, NEW w, NEW h, Listed(v), Moved(v, w, h), NEW x
  PROVE  /\ Cardinality(DOMAIN v) = Cardinality(DOMAIN w)
         /\ Cardinality({i \in DOMAIN v : v[i] < x}) = Cardinality({i \in DOMAIN w : w[i] < x})
         /\ Cardinality({i \in DOMAIN v : v[i] <= x}) = Cardinality({i \in DOMAIN w : w[i] <= x})
<1>1. ASSUME NEW S \in SUBSET DOMAIN v, NEW T, T = {h[i] : i \in S}
      PROVE  Cardinality(S) = Cardinality(T)
  <2>1. IsFiniteSet(S) /\ \A i, j \in S : h[i] = h[j] => i = j
    BY FS_Subset DEF Listed, Moved
  <2> QED
    BY <1>1, <2>1, SubsetMoves
<1>2. {i \in DOMAIN w : w[i] < x} = {h[i] : i \in {j \in DOMAIN v : v[j] < x}}
  BY DEF Moved
<1>3. {i \in DOMAIN w : w[i] <= x} = {h[i] : i \in {j \in DOMAIN v : v[j] <= x}}
  BY DEF Moved
<1>4. DOMAIN w = {h[i] : i \in DOMAIN v}
  BY DEF Moved
<1> QED
  BY <1>1, <1>2, <1>3, <1>4

\* Sorting does not see where the values were.
LEMMA AscendingMoves ==
  ASSUME NEW v, NEW w, NEW h, Listed(v), Listed(w), Moved(v, w, h)
  PROVE  Ascending(v) = Ascending(w)
<1> DEFINE N == Cardinality(DOMAIN v)
           vs == Ascending(v)
           ws == Ascending(w)
           lower(u, x) == Cardinality({i \in DOMAIN u : u[i] < x})
           upto(u, x) == Cardinality({i \in DOMAIN u : u[i] <= x})
<1>1. /\ N = Cardinality(DOMAIN w)
      /\ \A x : lower(v, x) = lower(w, x) /\ upto(v, x) = upto(w, x)
  <2>1. ASSUME NEW x
        PROVE  N = Cardinality(DOMAIN w) /\ lower(v, x) = lower(w, x) /\ upto(v, x) = upto(w, x)
    BY CountsMove
  <2> HIDE DEF lower, upto, N
  <2> QED
    BY <2>1
<1>2. \A x \in Int, y \in Int : x < y => upto(v, x) <= lower(v, y)
  <2> TAKE x \in Int, y \in Int
  <2> DEFINE A == {i \in DOMAIN v : v[i] <= x}
             B == {i \in DOMAIN v : v[i] < y}
  <2>1. x < y => A \subseteq B
    BY DEF Listed
  <2>2. IsFiniteSet(B)
    BY FS_Subset DEF Listed
  <2> QED
    BY <2>1, <2>2, FS_Subset
<1>3. \A x : lower(v, x) \in Nat /\ upto(v, x) \in Nat
  <2> TAKE x
  <2>1. \A S \in SUBSET DOMAIN v : Cardinality(S) \in Nat
    BY FS_Subset, FS_CardinalityType DEF Listed
  <2> QED
    BY <2>1
<1>4. /\ N \in Nat /\ vs \in Seq(Int) /\ Len(vs) = N /\ ws \in Seq(Int) /\ Len(ws) = N
      /\ \A n \in 1..N : IsOrderStatistic(v, n, vs[n]) /\ IsOrderStatistic(w, n, ws[n])
  BY <1>1, AscendingIsOrdered
<1>5. ASSUME NEW n \in 1..N PROVE vs[n] = ws[n]
  <2>1. lower(v, vs[n]) < n /\ n <= upto(v, vs[n]) /\ lower(v, ws[n]) < n /\ n <= upto(v, ws[n])
    BY <1>1, <1>4 DEF IsOrderStatistic
  <2>2. vs[n] \in Int /\ ws[n] \in Int /\ n \in Int
    BY <1>4
  <2> HIDE DEF lower, upto, vs, ws
  <2> QED
    BY <1>2, <1>3, <2>1, <2>2
<1> HIDE DEF vs, ws, N
<1>6. vs = ws
  BY <1>4, <1>5
<1> QED
  BY <1>6 DEF vs, ws

-----------------------------------------------------------------------------
(* The reductions of a page, whatever items it has.                         *)

\* Where the field f of an item is there, it is a number.
Reducible(items, f) ==
  /\ Len(items) \in Nat /\ DOMAIN items = 1..Len(items)
  /\ \A i \in DOMAIN items : Get(items[i], f) \in Int \cup {None}

LEMMA ColumnIsListed ==
  ASSUME NEW items, NEW f, Reducible(items, f), NEW S \in SUBSET Numeric(items, f)
  PROVE  /\ S \subseteq Numeric(items, f) /\ S \subseteq DOMAIN items
         /\ IsFiniteSet(S) /\ S \subseteq Int /\ Cardinality(S) \in Nat
         /\ DOMAIN Column(items, f, S) = S /\ Listed(Column(items, f, S))
         /\ \A i \in S : Column(items, f, S)[i] = items[i][f] /\ items[i][f] \in Int
<1>1. S \subseteq DOMAIN items /\ S \subseteq Int /\ IsFiniteSet(DOMAIN items)
  BY FS_Interval DEF Reducible, Numeric
<1>2. IsFiniteSet(S) /\ Cardinality(S) \in Nat
  BY <1>1, FS_Subset, FS_CardinalityType
<1>3. \A i \in S : items[i][f] \in Int
  BY <1>1 DEF Reducible, Numeric, Get
<1> QED
  BY <1>1, <1>2, <1>3 DEF Listed, Column

\* The items of the group g that a reduction looks at.
Members(items, key, g) == {i \in DOMAIN items : GroupName(items[i], key) = g}

Groups(items, key) == {GroupName(items[i], key) : i \in DOMAIN items}

LEMMA GroupsOfCount ==
  ASSUME NEW items, NEW key, NEW f, Reducible(items, f)
  PROVE  LET by == group_by(items, key, "count", f) IN
         /\ DOMAIN by = Groups(items, key)
         /\ \A g \in DOMAIN by : by[g][1] = Cardinality(Members(items, key, g))
<1> DEFINE values(g) == Grouped(items, key, g, "count", f)
           S == {h \in Groups(items, key) : DOMAIN values(h) # {}}
           by == group_by(items, key, "count", f)
<1>1. \A g : DOMAIN values(g) = Members(items, key, g) /\ \A i \in DOMAIN values(g) : values(g)[i] = 1
  BY DEF Grouped, Members
<1>2. by = [g \in S |-> Reduced("count", values(g))]
  BY DEF group_by, Groups
<1>3. \A g \in Groups(items, key) : Members(items, key, g) # {}
  BY DEF Groups, Members
<1> HIDE DEF values
<1>4. S = Groups(items, key)
  BY <1>1, <1>3
<1>5. ASSUME NEW g \in DOMAIN by PROVE by[g][1] = Cardinality(Members(items, key, g))
  <2> DEFINE u == values(g)
  <2>1. by[g] = <<SumFunction(u), 1>>
    BY <1>2, <1>4 DEF Reduced
  <2>2. IsFiniteSet(Members(items, key, g))
    <3>1. IsFiniteSet(DOMAIN items)
      BY FS_Interval DEF Reducible
    <3> QED
      BY <3>1, FS_Subset DEF Members
  <2>3. DOMAIN u = Members(items, key, g) /\ \A i \in DOMAIN u : u[i] = 1
    BY <1>1
  <2> HIDE DEF u, by
  <2>4. SumFunction(u) = Cardinality(Members(items, key, g))
    BY <2>2, <2>3, SumOfOnes DEF SumFunction
  <2> QED
    BY <2>1, <2>4
<1> QED
  BY <1>2, <1>4, <1>5

LEMMA GroupOfValues ==
  ASSUME NEW items, NEW key, NEW f, NEW aggregation, aggregation # "count", NEW g
  PROVE  LET by == group_by(items, key, aggregation, f)
             at == Members(items, key, g) \cap Numeric(items, f)
         IN  /\ g \in DOMAIN by <=> g \in Groups(items, key) /\ at # {}
             /\ g \in DOMAIN by => by[g] = Reduced(aggregation, Column(items, f, at))
<1> DEFINE values(h) == Grouped(items, key, h, aggregation, f)
           at == Members(items, key, g) \cap Numeric(items, f)
           S == {h \in Groups(items, key) : DOMAIN values(h) # {}}
           by == group_by(items, key, aggregation, f)
<1>1. values(g) = Column(items, f, at) /\ DOMAIN values(g) = at
  BY DEF Grouped, Members, Column
<1>2. by = [h \in S |-> Reduced(aggregation, values(h))]
  BY DEF group_by, Groups
<1> HIDE DEF values
<1>3. g \in DOMAIN by <=> g \in Groups(items, key) /\ at # {}
  BY <1>1, <1>2
<1>4. g \in DOMAIN by => by[g] = Reduced(aggregation, Column(items, f, at))
  BY <1>1, <1>2
<1> QED
  BY <1>3, <1>4

\* A function and the same function elsewhere have the same sum.
LEMMA SumOfFunction ==
  ASSUME NEW v, NEW w, IsFiniteSet(DOMAIN v), \A i \in DOMAIN v : v[i] \in Int /\ v[i] = w[i]
  PROVE  SumFunction(v) = SumFunctionOnSet(w, DOMAIN v)
BY SumSame DEF SumFunction

LEMMA CountsAddUp ==
  ASSUME NEW items, NEW key, NEW f, Reducible(items, f)
  PROVE  LET by == group_by(items, key, "count", f)
         IN  SumFunction([g \in DOMAIN by |-> by[g][1]]) = Len(items)
<1> DEFINE by == group_by(items, key, "count", f)
           S == DOMAIN items
           v == [i \in S |-> 1]
           l == [i \in S |-> GroupName(items[i], key)]
           part(g) == {i \in S : l[i] = g}
           labels == {l[i] : i \in S}
           parts == [g \in labels |-> SumFunctionOnSet(v, part(g))]
           firsts == [g \in DOMAIN by |-> by[g][1]]
<1>1. IsFiniteSet(S) /\ Cardinality(S) = Len(items) /\ Len(items) \in Nat
  BY FS_Interval DEF Reducible
<1>2. labels = Groups(items, key) /\ \A g : part(g) = Members(items, key, g)
  BY DEF Groups, Members
<1>3. ASSUME NEW g \in labels
      PROVE  SumFunctionOnSet(v, part(g)) = Cardinality(part(g))
  <2>1. IsFiniteSet(part(g)) /\ \A i \in part(g) : v[i] = 1
    BY <1>1, FS_Subset
  <2> HIDE DEF v, part
  <2> QED
    BY <2>1, SumOfOnes
<1>4. firsts = parts
  <2>0. /\ DOMAIN by = Groups(items, key)
        /\ \A g \in DOMAIN by : by[g][1] = Cardinality(Members(items, key, g))
    BY GroupsOfCount
  <2> HIDE DEF by, labels, v, part
  <2>1. DOMAIN by = labels /\ \A g \in labels : by[g][1] = Cardinality(part(g))
    BY <1>2, <2>0
  <2>2. \A g \in labels : by[g][1] = SumFunctionOnSet(v, part(g))
    BY <1>3, <2>1
  <2>3. firsts = [g \in labels |-> by[g][1]]
    BY <2>1
  <2>4. parts = [g \in labels |-> by[g][1]]
    BY <2>2, Zenon
  <2> HIDE DEF firsts, parts
  <2> QED
    BY <2>3, <2>4
<1>5. SumFunctionOnSet(parts, labels) = SumFunctionOnSet(v, S)
  <2>1. \A i \in S : v[i] \in Int
    OBVIOUS
  <2> HIDE DEF v, l, S
  <2> QED
    BY <1>1, <2>1, SumOfParts
<1>6. SumFunctionOnSet(v, S) = Cardinality(S)
  <2>1. \A i \in S : v[i] = 1
    OBVIOUS
  <2> QED
    BY <1>1, <2>1, SumOfOnes
<1>7. DOMAIN parts = labels
  OBVIOUS
<1> HIDE DEF parts, labels, v, S
<1>8. SumFunction(firsts) = SumFunctionOnSet(parts, labels)
  BY <1>4, <1>7 DEF SumFunction
<1> QED
  BY <1>1, <1>5, <1>6, <1>8

LEMMA SumsAddUp ==
  ASSUME NEW items, NEW key, NEW f, Reducible(items, f)
  PROVE  LET by == group_by(items, key, "sum", f)
         IN  SumFunction([g \in DOMAIN by |-> by[g][1]])
               = SumFunction(Column(items, f, Numeric(items, f)))
<1> DEFINE by == group_by(items, key, "sum", f)
           S == Numeric(items, f)
           v == Column(items, f, S)
           l == [i \in S |-> GroupName(items[i], key)]
           part(g) == {i \in S : l[i] = g}
           labels == {l[i] : i \in S}
           parts == [g \in labels |-> SumFunctionOnSet(v, part(g))]
           firsts == [g \in DOMAIN by |-> by[g][1]]
           at(g) == Members(items, key, g) \cap S
<1>1. IsFiniteSet(S) /\ DOMAIN v = S /\ S \subseteq DOMAIN items
      /\ \A i \in S : v[i] = items[i][f] /\ v[i] \in Int
  BY ColumnIsListed
<1>2. \A g : part(g) = at(g)
  BY <1>1 DEF Members
<1>3. labels = {g \in Groups(items, key) : at(g) # {}}
  BY <1>1 DEF Groups, Members
<1>4. ASSUME NEW g
      PROVE  SumFunction(Column(items, f, at(g))) = SumFunctionOnSet(v, part(g))
  <2> DEFINE u == Column(items, f, at(g))
  <2>1. DOMAIN u = at(g) /\ IsFiniteSet(at(g)) /\ \A i \in at(g) : u[i] = items[i][f] /\ v[i] = items[i][f] /\ u[i] \in Int
    BY <1>1, ColumnIsListed
  <2> HIDE DEF u, v, at, part
  <2>2. SumFunction(u) = SumFunctionOnSet(v, at(g))
    BY <2>1, SumOfFunction
  <2> QED
    BY <1>2, <2>2 DEF u
<1>5. DOMAIN by = labels /\ \A g \in labels : by[g] = <<SumFunction(Column(items, f, at(g))), 1>>
  <2>1. ASSUME NEW g
        PROVE  /\ g \in DOMAIN by <=> g \in Groups(items, key) /\ at(g) # {}
               /\ g \in DOMAIN by => by[g] = Reduced("sum", Column(items, f, at(g)))
    BY GroupOfValues
  <2>2. DOMAIN by = {g \in DOMAIN by : TRUE} /\ DOMAIN by \subseteq Groups(items, key)
    BY DEF group_by, Groups
  <2> HIDE DEF by, at, labels
  <2>3. DOMAIN by = labels
    BY <1>3, <2>1, <2>2
  <2> QED
    BY <2>1, <2>3 DEF Reduced
<1>6. firsts = parts
  <2> HIDE DEF by, at, labels, v, part
  <2>1. \A g \in labels : by[g][1] = SumFunctionOnSet(v, part(g))
    BY <1>4, <1>5
  <2>2. firsts = [g \in labels |-> by[g][1]]
    BY <1>5
  <2>3. parts = [g \in labels |-> by[g][1]]
    BY <2>1, Zenon
  <2> HIDE DEF firsts, parts
  <2> QED
    BY <2>2, <2>3
<1>7. SumFunctionOnSet(parts, labels) = SumFunctionOnSet(v, S)
  <2> HIDE DEF v, l, S
  <2> QED
    BY <1>1, SumOfParts
<1>8. DOMAIN parts = labels
  OBVIOUS
<1> HIDE DEF parts, labels, v, S, firsts
<1> QED
  BY <1>1, <1>6, <1>7, <1>8 DEF SumFunction, firsts, v, S

LEMMA AveragesLieBetween ==
  ASSUME NEW items, NEW key, NEW f, Reducible(items, f),
         NEW g \in DOMAIN group_by(items, key, "avg", f)
  PROVE  LET by(aggregation) == group_by(items, key, aggregation, f)[g] IN
         /\ by("min")[1] * by("avg")[2] <= by("avg")[1]
         /\ by("avg")[1] <= by("max")[1] * by("avg")[2]
         /\ by("avg")[2] <= by("count")[1]
<1> DEFINE by(aggregation) == group_by(items, key, aggregation, f)[g]
           S == Members(items, key, g) \cap Numeric(items, f)
           v == Column(items, f, S)
           n == Cardinality(S)
<1>1. /\ g \in Groups(items, key) /\ S # {}
      /\ by("avg") = Reduced("avg", v) /\ by("min") = Reduced("min", v) /\ by("max") = Reduced("max", v)
  <2>1. /\ g \in Groups(items, key) /\ S # {}
        /\ group_by(items, key, "avg", f)[g] = Reduced("avg", v)
    BY GroupOfValues
  <2>2. group_by(items, key, "min", f)[g] = Reduced("min", v)
    BY <2>1, GroupOfValues
  <2>3. group_by(items, key, "max", f)[g] = Reduced("max", v)
    BY <2>1, GroupOfValues
  <2> QED
    BY <2>1, <2>2, <2>3
<1>2. IsFiniteSet(S) /\ n \in Nat /\ DOMAIN v = S /\ \A i \in S : v[i] \in Int
  BY ColumnIsListed
<1>3. IsFiniteSet(Members(items, key, g)) /\ S \subseteq Members(items, key, g)
  <2>1. IsFiniteSet(DOMAIN items)
    BY FS_Interval DEF Reducible
  <2> QED
    BY <2>1, FS_Subset DEF Members
<1>4. by("count")[1] = Cardinality(Members(items, key, g))
  BY <1>1, GroupsOfCount
<1>5. n <= Cardinality(Members(items, key, g))
  BY <1>3, FS_Subset
<1> HIDE DEF v, S
<1>6. Range(v) \subseteq Int /\ Range(v) # {} /\ IsFiniteSet(Range(v)) /\ \A i \in S : v[i] \in Range(v)
  BY <1>1, <1>2, ImageIsFinite DEF Range
<1> DEFINE lo == Min(Range(v))
           hi == Max(Range(v))
<1>7. lo \in Int /\ hi \in Int /\ \A i \in S : v[i] \in Int /\ lo <= v[i] /\ v[i] <= hi
  BY <1>2, <1>6, Extremes
<1>8. /\ by("avg")[1] = SumFunctionOnSet(v, S) /\ by("avg")[2] = n
      /\ by("min")[1] = lo /\ by("max")[1] = hi
  BY <1>1, <1>2 DEF Reduced, SumFunction
<1> HIDE DEF lo, hi, by, n
<1>9. lo * n <= SumFunctionOnSet(v, S) /\ SumFunctionOnSet(v, S) <= hi * n
  BY <1>2, <1>7, SumBetween DEF n
<1> QED
  BY <1>4, <1>5, <1>8, <1>9 DEF by

\* Of two orders by the same numbers the first and the last are the same.
LEMMA FirstAndLast ==
  ASSUME NEW v, Listed(v), DOMAIN v # {},
         \A i, j \in DOMAIN v : i < j => v[i] <= v[j]
  PROVE  LET S == DOMAIN v
             order == Sorted(v)
         IN  /\ Len(order) = Cardinality(S) /\ Cardinality(S) \in Nat /\ Cardinality(S) >= 1
             /\ order[1] = Min(S) /\ order[Len(order)] = Max(S)
<1> DEFINE S == DOMAIN v
           s == Sorted(v)
           N == Cardinality(S)
<1>1. /\ N \in Nat /\ Len(s) = N /\ \A n \in 1..N : s[n] \in S
      /\ \A m, n \in 1..N : m < n => Lower(v, s[m], s[n])
      /\ \A i \in S : \E n \in 1..N : s[n] = i
  BY SortedIsOrder
<1> HIDE DEF s, N
<1>2. S \subseteq Int /\ IsFiniteSet(S) /\ \A i \in S : v[i] \in Int
  BY DEF Listed
<1>3. ASSUME NEW m \in 1..N, NEW n \in 1..N, m < n PROVE s[m] < s[n]
  <2>1. Lower(v, s[m], s[n]) /\ s[m] \in S /\ s[n] \in S
    BY <1>1, <1>3
  <2> QED
    BY <1>2, <2>1 DEF Lower
<1>4. N >= 1
  <2>1. PICK i \in S : TRUE
    OBVIOUS
  <2>2. PICK n \in 1..N : s[n] = i
    BY <1>1
  <2> QED
    BY <1>1, <2>2
<1>5. 1 \in 1..N /\ N \in 1..N /\ s[1] \in S /\ s[N] \in S
  BY <1>1, <1>4
<1>6. ASSUME NEW i \in S PROVE s[1] <= i /\ i <= s[N]
  <2>1. PICK n \in 1..N : s[n] = i
    BY <1>1
  <2>2. (n = 1 \/ 1 < n) /\ (n = N \/ n < N)
    BY <1>1
  <2> QED
    BY <1>2, <1>3, <1>5, <2>1, <2>2
<1>7. Min(S) \in S /\ Max(S) \in S /\ \A i \in S : Min(S) <= i /\ i <= Max(S)
  BY <1>2, Extremes
<1>8. s[1] = Min(S)
  <2>1. s[1] <= Min(S) /\ Min(S) <= s[1]
    BY <1>5, <1>6, <1>7
  <2>2. s[1] \in Int /\ Min(S) \in Int
    BY <1>2, <1>5, <1>7
  <2> QED
    BY <2>1, <2>2
<1>9. s[N] = Max(S)
  <2>1. s[N] <= Max(S) /\ Max(S) <= s[N]
    BY <1>5, <1>6, <1>7
  <2>2. s[N] \in Int /\ Max(S) \in Int
    BY <1>2, <1>5, <1>7
  <2> QED
    BY <2>1, <2>2
<1> QED
  BY <1>1, <1>4, <1>8, <1>9 DEF s, N

\* On items in the order of their times, delta and rate look at the same two.
LEMMA DeltaTellsRate ==
  ASSUME NEW items, NEW f, NEW tf, Reducible(items, f),
         \A i \in DOMAIN items : tf \in DOMAIN items[i] /\ items[i][tf] \in Int,
         \A i, j \in DOMAIN items : i < j => items[i][tf] <= items[j][tf]
  PROVE  LET change == delta(items, f)
             speed == rate(items, f, tf)
         IN  /\ speed # None => speed[1] = change /\ speed[2] > 0
             /\ change # None /\ speed = None =>
                  Cardinality({items[i][tf] : i \in Numeric(items, f)}) = 1
<1> DEFINE at == Numeric(items, f)
           timed == at \cap Numeric(items, tf)
           v == Column(items, tf, at)
           s == Sorted(v)
           N == Cardinality(at)
           low == Min(at)
           high == Max(at)
           change == delta(items, f)
           speed == rate(items, f, tf)
<1>1. /\ IsFiniteSet(at) /\ at \subseteq Int /\ at \subseteq DOMAIN items
      /\ \A i \in at : items[i][f] \in Int
  BY ColumnIsListed
<1>2. timed = at
  <2>1. \A i \in DOMAIN items : Get(items[i], tf) # None
    BY QueriesAssumption DEF Get
  <2> QED
    BY <1>1, <2>1 DEF Numeric
<1>3. /\ DOMAIN v = at /\ \A i \in at : v[i] = items[i][tf] /\ v[i] \in Int
      /\ \A i, j \in at : i < j => v[i] <= v[j]
  BY <1>1 DEF Column
<1>4. /\ change = (IF N < 2 THEN None ELSE items[high][f] - items[low][f])
      /\ speed = (IF Len(s) < 2 \/ items[s[Len(s)]][tf] <= items[s[1]][tf] THEN None
                  ELSE <<items[s[Len(s)]][f] - items[s[1]][f],
                         items[s[Len(s)]][tf] - items[s[1]][tf]>>)
  BY <1>2 DEF delta, rate
<1> HIDE DEF v, s, change, speed, low, high, at, N
<1>5. Listed(v)
  BY <1>1, <1>3 DEF Listed
<1>6. CASE at = {}
  <2>1. N = 0 /\ Len(s) = 0
    BY <1>3, <1>5, <1>6, FS_EmptySet, SortedIsOrder DEF N, s
  <2>2. change = None /\ speed = None
    BY <1>4, <2>1
  <2> QED
    BY <2>2 DEF change, speed
<1>7. CASE at # {}
  <2>1. Len(s) = N /\ N \in Nat /\ s[1] = low /\ s[Len(s)] = high
    BY <1>3, <1>5, <1>7, FirstAndLast DEF N, s, low, high
  <2>2. low \in at /\ high \in at /\ \A i \in at : low <= i /\ i <= high
    BY <1>1, <1>7, Extremes DEF low, high
  <2> DEFINE first == items[low]
             final == items[high]
  <2>3. {first[f], final[f], first[tf], final[tf]} \subseteq Int
    BY <1>1, <2>2
  <2>4. CASE N < 2
    BY <1>4, <2>1, <2>4 DEF change, speed
  <2>5. CASE N >= 2 /\ final[tf] <= first[tf]
    <3>1. speed = None
      BY <1>4, <2>1, <2>5
    <3>2. ASSUME NEW i \in at PROVE items[i][tf] = first[tf]
      <4>1. v[low] <= v[i] /\ v[i] <= v[high]
        BY <1>1, <1>3, <2>2
      <4> QED
        BY <1>3, <2>2, <2>3, <2>5, <4>1
    <3>3. {items[i][tf] : i \in at} = {first[tf]}
      BY <2>2, <3>2
    <3>4. Cardinality({items[i][tf] : i \in at}) = 1
      BY <3>3, FS_Singleton
    <3> QED
      BY <3>1, <3>4 DEF speed, at
  <2>6. CASE N >= 2 /\ ~(final[tf] <= first[tf])
    <3>1. /\ speed = <<final[f] - first[f], final[tf] - first[tf]>>
          /\ change = final[f] - first[f]
      BY <1>4, <2>1, <2>6
    <3>2. speed \in Int \X Int
      BY <2>3, <3>1
    <3>3. speed # None /\ speed[1] = change /\ speed[2] > 0
      BY <2>3, <2>6, <3>1, <3>2, QueriesAssumption
    <3> QED
      BY <3>3 DEF speed, change
  <2> QED
    BY <2>1, <2>4, <2>5, <2>6
<1> QED
  BY <1>6, <1>7

\* The value at position s of gaps of four steps between the values vs.
Between(vs, s) ==
  LET lower == s \div 4 + 1
      upper == Min({lower + 1, Len(vs)})
  IN  vs[lower] * 4 + (vs[upper] - vs[lower]) * (s % 4)

\* The values are in ascending order.
Ascends(vs) ==
  /\ vs \in Seq(Int) /\ Len(vs) >= 1
  /\ \A m, n \in 1..Len(vs) : m <= n => vs[m] <= vs[n]

LEMMA StepsBetween ==
  ASSUME NEW a \in Int, NEW b \in Int, a <= b, NEW r \in 0..3, NEW t \in 0..3
  PROVE  /\ a * 4 + (b - a) * r \in Int
         /\ a * 4 <= a * 4 + (b - a) * r /\ a * 4 + (b - a) * r <= b * 4
         /\ r <= t => a * 4 + (b - a) * r <= a * 4 + (b - a) * t
<1>1. (r = 0 \/ r = 1 \/ r = 2 \/ r = 3) /\ (t = 0 \/ t = 1 \/ t = 2 \/ t = 3)
  OBVIOUS
<1>2. PICK d \in Nat : b = a + d
  <2>1. b - a \in Nat /\ b = a + (b - a)
    OBVIOUS
  <2> QED
    BY <2>1
<1>3. b - a = d
  BY <1>2
<1>4. /\ d * 0 = 0 /\ d * 1 = d /\ d * 2 = d + d /\ d * 3 = d + d + d
  OBVIOUS
<1> QED
  BY <1>1, <1>2, <1>3, <1>4

LEMMA Quarters ==
  ASSUME NEW s \in Nat
  PROVE  s \div 4 \in Nat /\ s % 4 \in 0..3 /\ s = 4 * (s \div 4) + (s % 4)
OBVIOUS

LEMMA QuartersGrow ==
  ASSUME NEW a \in Int, NEW c \in Int, NEW r \in 0..3, NEW q \in 0..3,
         4 * (a - 1) + r <= 4 * (c - 1) + q
  PROVE  a <= c /\ (a = c => r <= q)
OBVIOUS

LEMMA FourTimes ==
  ASSUME NEW x \in Int, NEW y \in Int, x <= y
  PROVE  x * 4 <= y * 4 /\ x * 4 \in Int /\ y * 4 \in Int
OBVIOUS

\* It lies between the two values around it.
LEMMA BetweenBounds ==
  ASSUME NEW vs, Ascends(vs),
         NEW s \in 0..4 * (Len(vs) - 1)
  PROVE  \E lower \in 1..Len(vs), upper \in 1..Len(vs), r \in 0..3 :
           /\ lower = s \div 4 + 1 /\ r = s % 4 /\ s = 4 * (lower - 1) + r
           /\ upper = (IF lower = Len(vs) THEN lower ELSE lower + 1)
           /\ vs[lower] \in Int /\ vs[upper] \in Int /\ vs[lower] <= vs[upper]
           /\ Between(vs, s) = vs[lower] * 4 + (vs[upper] - vs[lower]) * r
<1>1. PICK N \in Nat : N = Len(vs) /\ N >= 1 /\ s \in Nat /\ s <= 4 * (N - 1)
  BY DEF Ascends
<1>2. PICK r \in 0..3, lower \in Nat :
        lower = s \div 4 + 1 /\ r = s % 4 /\ s = 4 * (lower - 1) + r
  <2>1. s \div 4 + 1 \in Nat /\ s = 4 * (s \div 4 + 1 - 1) + (s % 4) /\ s % 4 \in 0..3
    BY <1>1, Quarters
  <2> QED
    BY <2>1
<1>3. lower \in 1..N
  <2>1. lower >= 1
    BY <1>1, <1>2, Quarters
  <2> QED
    BY <1>1, <1>2, <2>1
<1>4. PICK upper \in 1..N : upper = (IF lower = N THEN lower ELSE lower + 1)
  BY <1>1, <1>3
<1>5. Min({lower + 1, N}) = upper
  <2>1. lower + 1 \in Int /\ N \in Int
    BY <1>1, <1>3
  <2>2. Min({lower + 1, N}) = IF lower + 1 <= N THEN lower + 1 ELSE N
    BY <2>1, MinIsMin
  <2> QED
    BY <1>1, <1>3, <1>4, <2>2
<1>6. vs[lower] \in Int /\ vs[upper] \in Int /\ vs[lower] <= vs[upper]
  <2>1. lower <= upper
    BY <1>3, <1>4
  <2> QED
    BY <1>1, <1>3, <1>4, <2>1 DEF Ascends
<1>7. Between(vs, s) = vs[lower] * 4 + (vs[upper] - vs[lower]) * r
  BY <1>1, <1>2, <1>5 DEF Between
<1> QED
  BY <1>1, <1>2, <1>3, <1>4, <1>6, <1>7

\* A later position has no lower value.
LEMMA BetweenGrows ==
  ASSUME NEW vs, Ascends(vs),
         NEW s \in 0..4 * (Len(vs) - 1), NEW t \in 0..4 * (Len(vs) - 1), s <= t
  PROVE  Between(vs, s) <= Between(vs, t)
<1>1. PICK a \in 1..Len(vs), b \in 1..Len(vs), r \in 0..3 :
        /\ s = 4 * (a - 1) + r /\ b = (IF a = Len(vs) THEN a ELSE a + 1)
        /\ vs[a] \in Int /\ vs[b] \in Int /\ vs[a] <= vs[b]
        /\ Between(vs, s) = vs[a] * 4 + (vs[b] - vs[a]) * r
  BY BetweenBounds
<1>2. PICK c \in 1..Len(vs), d \in 1..Len(vs), q \in 0..3 :
        /\ t = 4 * (c - 1) + q /\ d = (IF c = Len(vs) THEN c ELSE c + 1)
        /\ vs[c] \in Int /\ vs[d] \in Int /\ vs[c] <= vs[d]
        /\ Between(vs, t) = vs[c] * 4 + (vs[d] - vs[c]) * q
  BY BetweenBounds
<1>3. CASE a = c
  <2>1. b = d /\ r <= q
    BY <1>1, <1>2, <1>3, QuartersGrow
  <2>2. /\ Between(vs, s) = vs[a] * 4 + (vs[b] - vs[a]) * r
        /\ Between(vs, t) = vs[a] * 4 + (vs[b] - vs[a]) * q
    BY <1>1, <1>2, <1>3, <2>1
  <2>3. vs[a] \in Int /\ vs[b] \in Int /\ vs[a] <= vs[b]
    BY <1>1
  <2>4. vs[a] * 4 + (vs[b] - vs[a]) * r <= vs[a] * 4 + (vs[b] - vs[a]) * q
    BY <2>1, <2>3, StepsBetween
  <2> QED
    BY <2>2, <2>4
<1>4. CASE a # c
  <2>1. Len(vs) \in Nat
    BY DEF Ascends
  <2>2. a < c
    <3>1. 4 * (a - 1) + r <= 4 * (c - 1) + q
      BY <1>1, <1>2
    <3>2. a <= c
      BY <3>1, QuartersGrow
    <3> QED
      BY <1>4, <3>2
  <2>3. b <= c
    BY <1>1, <1>2, <2>1, <2>2
  <2>4. vs[b] <= vs[c]
    BY <2>3 DEF Ascends
  <2>5. Between(vs, s) <= vs[b] * 4 /\ Between(vs, s) \in Int
    BY <1>1, StepsBetween
  <2>6. vs[c] * 4 <= Between(vs, t) /\ Between(vs, t) \in Int
    BY <1>2, StepsBetween
  <2>7. vs[b] * 4 <= vs[c] * 4 /\ vs[b] * 4 \in Int /\ vs[c] * 4 \in Int
    BY <1>1, <1>2, <2>4, FourTimes
  <2> QED
    BY <2>5, <2>6, <2>7
<1> QED
  BY <1>3, <1>4

\* The quantiles of the values of a page, by quarters.
LEMMA QuantileOfValues ==
  ASSUME NEW items, NEW f, Reducible(items, f), NEW k \in 0..4
  PROVE  LET at == Numeric(items, f)
             values == Column(items, f, at)
             vs == Ascending(values)
             N == Cardinality(at)
             s == (N - 1) * k
             quantile == histogram_quantile(items, k, 4, f)
         IN  /\ N \in Nat /\ (at = {} <=> N = 0)
             /\ IF N = 0 THEN quantile = None
                ELSE /\ s \in 0..4 * (N - 1)
                     /\ quantile = <<Between(vs, s), 4>> /\ quantile # None
                     /\ Between(vs, s) \in Int
                     /\ IsQuantile(values, k, 4, quantile)
<1> DEFINE at == Numeric(items, f)
           values == Column(items, f, at)
           vs == Ascending(values)
           N == Cardinality(at)
           s == (N - 1) * k
           quantile == histogram_quantile(items, k, 4, f)
<1>1. IsFiniteSet(at) /\ N \in Nat /\ DOMAIN values = at /\ Listed(values)
  BY ColumnIsListed
<1>2. at = {} <=> N = 0
  BY <1>1, FS_EmptySet
<1> HIDE DEF at, values
<1>3. /\ vs \in Seq(Int) /\ Len(vs) = N
      /\ \A n \in 1..N : vs[n] \in Range(values) /\ IsOrderStatistic(values, n, vs[n])
      /\ \A m, n \in 1..N : m <= n => vs[m] <= vs[n]
  BY <1>1, AscendingIsOrdered
<1>4. quantile = IF N = 0 THEN None ELSE <<Between(vs, s), 4>>
  BY <1>3 DEF histogram_quantile, Between, at, values
<1> HIDE DEF vs, N, quantile
<1>5. CASE N = 0
  BY <1>1, <1>2, <1>4, <1>5 DEF at, values, vs, N, quantile
<1>6. CASE N # 0
  <2>1. N - 1 \in Nat /\ s \in 0..4 * (N - 1)
    <3>1. k = 0 \/ k = 1 \/ k = 2 \/ k = 3 \/ k = 4
      OBVIOUS
    <3> QED
      BY <1>1, <1>6, <3>1
  <2> HIDE DEF s
  <2>2. PICK lower \in 1..N, upper \in 1..N, r \in 0..3 :
          /\ lower = s \div 4 + 1 /\ r = s % 4
          /\ upper = (IF lower = N THEN lower ELSE lower + 1)
          /\ vs[lower] \in Int /\ vs[upper] \in Int /\ vs[lower] <= vs[upper]
          /\ Between(vs, s) = vs[lower] * 4 + (vs[upper] - vs[lower]) * r
    <3>1. s \in 0..4 * (Len(vs) - 1) /\ Ascends(vs) /\ Len(vs) = N
      BY <1>1, <1>3, <1>6, <2>1 DEF Ascends
    <3>2. \E lower \in 1..Len(vs), upper \in 1..Len(vs), r \in 0..3 :
            /\ lower = s \div 4 + 1 /\ r = s % 4
            /\ upper = (IF lower = Len(vs) THEN lower ELSE lower + 1)
            /\ vs[lower] \in Int /\ vs[upper] \in Int /\ vs[lower] <= vs[upper]
            /\ Between(vs, s) = vs[lower] * 4 + (vs[upper] - vs[lower]) * r
      BY <3>1, BetweenBounds
    <3> QED
      BY <3>1, <3>2
  <2>3. Between(vs, s) \in Int /\ Between(vs, s) = (4 - r) * vs[lower] + r * vs[upper]
    <3>1. r = 0 \/ r = 1 \/ r = 2 \/ r = 3
      OBVIOUS
    <3> QED
      BY <2>2, <3>1
  <2>4. quantile # None
    <3>1. <<Between(vs, s), 4>> \in Int \X Int
      BY <2>3
    <3> QED
      BY <1>4, <1>6, <3>1, QueriesAssumption
  <2>5. IsQuantile(values, k, 4, quantile)
    <3>1. /\ vs[lower] \in Range(values) /\ IsOrderStatistic(values, s \div 4 + 1, vs[lower])
          /\ vs[upper] \in Range(values) /\ IsOrderStatistic(values, upper, vs[upper])
      BY <1>3, <2>2
    <3>2. Min({s \div 4 + 2, N}) = upper
      <4>1. s \in Int /\ s \div 4 \in Int /\ lower = s \div 4 + 1
        BY <1>1, <2>1, <2>2
      <4>2. s \div 4 + 2 = lower + 1 /\ N \in Int /\ lower + 1 \in Int
        BY <1>1, <4>1
      <4> QED
        BY <1>1, <2>2, <4>2, MinIsMin
    <3>3. quantile = <<(4 - r) * vs[lower] + r * vs[upper], 4>>
      BY <1>4, <1>6, <2>3
    <3>4. r = s % 4 /\ s = (Cardinality(DOMAIN values) - 1) * k /\ N = Cardinality(DOMAIN values)
      BY <1>1, <2>2 DEF s, N
    <3> QED
      BY <3>1, <3>2, <3>3, <3>4, Zenon DEF IsQuantile
  <2> QED
    BY <1>1, <1>2, <1>4, <1>6, <2>1, <2>3, <2>4, <2>5 DEF at, values, vs, N, quantile, s
<1> QED
  BY <1>5, <1>6

\* The same page the other way round has the same quantiles.
LEMMA ReversedQuantile ==
  ASSUME NEW items, NEW f, Reducible(items, f), NEW k, NEW parts
  PROVE  histogram_quantile(items, k, parts, f) = histogram_quantile(Reverse(items), k, parts, f)
<1> DEFINE back == Reverse(items)
           S == Numeric(items, f)
           T == Numeric(back, f)
           v == Column(items, f, S)
           w == Column(back, f, T)
           h == [i \in Int |-> Len(items) + 1 - i]
<1>1. /\ Len(items) \in Nat /\ DOMAIN items = 1..Len(items)
      /\ DOMAIN back = DOMAIN items /\ \A i \in DOMAIN items : back[i] = items[h[i]]
  BY DEF Reducible, Reverse
<1>2. /\ \A i \in DOMAIN items : h[i] \in DOMAIN items /\ h[h[i]] = i
      /\ \A i, j \in DOMAIN items : h[i] = h[j] => i = j
  BY <1>1
<1> HIDE DEF h, back
<1>3. S \subseteq DOMAIN items /\ T \subseteq DOMAIN items
  BY <1>1 DEF Numeric
<1>4. \A i \in DOMAIN items : i \in S <=> h[i] \in T
  BY <1>1, <1>2 DEF Numeric
<1>5. T = {h[i] : i \in S}
  BY <1>2, <1>3, <1>4
<1>6. /\ DOMAIN v = S /\ DOMAIN w = T
      /\ \A i \in S : v[i] = items[i][f]
      /\ \A i \in T : w[i] = items[h[i]][f]
  BY <1>1, <1>3 DEF Column
<1>7. Listed(v) /\ IsFiniteSet(T) /\ T \subseteq Int
  <2>1. Listed(v) /\ IsFiniteSet(S)
    BY ColumnIsListed
  <2> HIDE DEF S, T
  <2>2. IsFiniteSet(T)
    BY <1>5, <2>1, ImageIsFinite
  <2>3. DOMAIN items \subseteq Int
    BY <1>1
  <2> HIDE DEF v
  <2> QED
    BY <1>3, <2>1, <2>2, <2>3
<1> HIDE DEF S, T, v, w
<1>8. \A i \in S : h[i] \in T /\ w[h[i]] = v[i]
  BY <1>2, <1>3, <1>4, <1>6
<1>9. Moved(v, w, h)
  BY <1>2, <1>3, <1>5, <1>6, <1>8 DEF Moved
<1>10. Listed(w)
  BY <1>5, <1>6, <1>7, <1>8 DEF Listed
<1>11. Ascending(v) = Ascending(w)
  BY <1>7, <1>9, <1>10, AscendingMoves
<1> QED
  BY <1>11 DEF histogram_quantile, S, T, v, w, back

LEMMA RankBounds ==
  ASSUME NEW n \in Nat, n >= 1
  PROVE  LET k == Rank(n)
             m == TailPercent * n
         IN  /\ k \in 1..n /\ m \in Nat
             /\ m <= 100 * k /\ 100 * (k - 1) < m
<1>1. PICK m \in Nat : m = TailPercent * n
  BY PercentAssumption
<1>2. TailPercent \in Nat /\ TailPercent >= 1 /\ TailPercent <= 100
  BY PercentAssumption
<1>3. n <= m /\ m <= 100 * n
  <2>1. PICK d \in Nat : TailPercent = d + 1
    <3>1. TailPercent - 1 \in Nat /\ TailPercent = TailPercent - 1 + 1
      BY <1>2
    <3> QED
      BY <3>1
  <2>2. PICK e \in Nat : 100 = TailPercent + e
    <3>1. 100 - TailPercent \in Nat /\ 100 = TailPercent + (100 - TailPercent)
      BY <1>2
    <3> QED
      BY <3>1
  <2>3. m = d * n + n /\ d * n \in Nat
    BY <1>1, <2>1
  <2>4. 100 * n = m + e * n /\ e * n \in Nat
    BY <1>1, <1>2, <2>2
  <2> QED
    BY <2>3, <2>4
<1>4. PICK k \in Int : k = (m + 99) \div 100
  OBVIOUS
<1>5. m <= 100 * k /\ 100 * (k - 1) < m
  BY <1>4
<1>6. k \in 1..n
  BY <1>3, <1>5
<1> QED
  BY <1>1, <1>4, <1>5, <1>6 DEF Rank

\* The value at the rank of a tail is its percentile.
LEMMA TailIsPercentile ==
  ASSUME NEW v, Listed(v), DOMAIN v # {}
  PROVE  LET vs == Ascending(v) IN
         Len(vs) # 0 /\ IsPercentile(v, TailPercent, vs[Rank(Len(vs))])
<1> DEFINE S == DOMAIN v
           upto(w) == Cardinality({i \in S : v[i] <= w})
<1>1. PICK N \in Nat : N = Cardinality(S) /\ Len(Ascending(v)) = N
  BY AscendingIsOrdered
<1>2. N >= 1 /\ IsFiniteSet(S)
  BY <1>1, FS_EmptySet DEF Listed
<1>3. PICK k \in 1..N :
        k = Rank(N) /\ TailPercent * N <= 100 * k /\ 100 * (k - 1) < TailPercent * N
  BY <1>2, RankBounds
<1>4. PICK m \in Nat : m = TailPercent * N
  BY PercentAssumption
<1>5. PICK x \in Int : x = Ascending(v)[k] /\ x \in Range(v) /\ IsOrderStatistic(v, k, x)
  BY <1>1, AscendingIsOrdered
<1>6. \A T \in SUBSET S : IsFiniteSet(T) /\ Cardinality(T) \in Nat
  BY <1>2, FS_Subset, FS_CardinalityType
<1>7. k <= upto(x) /\ upto(x) \in Nat
  BY <1>5, <1>6 DEF IsOrderStatistic
<1>8. 100 * upto(x) >= m
  <2> HIDE DEF upto
  <2> QED
    BY <1>3, <1>4, <1>7
<1>9. ASSUME NEW w \in Range(v), 100 * upto(w) >= m PROVE x <= w
  <2>1. w \in Int
    BY DEF Range, Listed
  <2>2. CASE w < x
    <3> DEFINE A == {i \in S : v[i] <= w}
               B == {i \in S : v[i] < x}
    <3>1. A \subseteq B
      BY <2>1, <2>2 DEF Listed
    <3>2. Cardinality(A) <= Cardinality(B) /\ Cardinality(A) \in Nat /\ Cardinality(B) \in Nat
      BY <1>6, <3>1, FS_Subset
    <3>3. Cardinality(B) < k
      BY <1>5 DEF IsOrderStatistic
    <3>4. 100 * Cardinality(A) >= m
      BY <1>9
    <3> HIDE DEF A, B
    <3> QED
      BY <1>3, <1>4, <3>2, <3>3, <3>4
  <2> QED
    BY <2>1, <2>2
<1>10. IsPercentile(v, TailPercent, x)
  BY <1>1, <1>4, <1>5, <1>8, <1>9 DEF IsPercentile
<1> QED
  BY <1>1, <1>2, <1>3, <1>5, <1>10

-----------------------------------------------------------------------------
(* The order of a query puts the ids of a table in one sequence.            *)

\* Every id in S has a time in the field `order`.
Timed(S, order) ==
  /\ S \subseteq Int /\ IsFiniteSet(S)
  /\ \A id \in S : Record[id][order] \in Int

LEMMA PrecedesIsOrder ==
  ASSUME NEW S, NEW order, Timed(S, order), NEW i \in S, NEW j \in S
  PROVE  /\ ~Precedes(i, i, order)
         /\ i # j => Precedes(i, j, order) \/ Precedes(j, i, order)
         /\ ~(Precedes(i, j, order) /\ Precedes(j, i, order))
         /\ \A k \in S : Precedes(i, j, order) /\ Precedes(j, k, order) => Precedes(i, k, order)
BY DEF Timed, Precedes

Times(S, order) == [id \in S |-> Record[id][order]]

\* The ids of S by their times: all of S, and only S, in order.
LEMMA IdsAreSorted ==
  ASSUME NEW S, NEW order, Timed(S, order)
  PROVE  LET s == Sorted(Times(S, order)) IN
         /\ s \in Seq(S) /\ Len(s) = Cardinality(S)
         /\ \A m, n \in 1..Cardinality(S) : m < n => Precedes(s[m], s[n], order)
         /\ \A id \in S : \E n \in 1..Cardinality(S) : s[n] = id
<1> DEFINE v == Times(S, order)
<1>1. Listed(v) /\ DOMAIN v = S /\ \A id \in S : v[id] = Record[id][order]
  BY DEF Times, Timed, Listed
<1>2. \A i, j \in S : Lower(v, i, j) <=> Precedes(i, j, order)
  BY <1>1 DEF Lower, Precedes
<1> HIDE DEF v
<1>3. \A n \in 1..Cardinality(S) : Sorted(v)[n] \in S
  BY <1>1, SortedIsOrder
<1>4. \A m, n \in 1..Cardinality(S) : m < n => Lower(v, Sorted(v)[m], Sorted(v)[n])
  BY <1>1, SortedIsOrder
<1>5. \A m, n \in 1..Cardinality(S) : m < n => Precedes(Sorted(v)[m], Sorted(v)[n], order)
  BY <1>2, <1>3, <1>4
<1> QED
  BY <1>1, <1>5, SortedIsOrder DEF v

-----------------------------------------------------------------------------
(* A plan means what its expression means.                                  *)

LEMMA AtomMeansOperator ==
  ASSUME NEW v, NEW op, NEW x
  PROVE  LET a == Atom(op, x) IN
         (IF a.negated THEN v # None /\ ~Test(a.op, v, a.operand) ELSE Test(a.op, v, a.operand))
         <=> Test(op, v, x)
<1>1. CASE op = "notIn"
  BY <1>1 DEF Atom, Test, Compare
<1>2. CASE op # "notIn"
  BY <1>2 DEF Atom
<1> QED
  BY <1>1, <1>2

LEMMA FilterMeansWhere ==
  ASSUME NEW item, NEW where
  PROVE  Passes(item, Filter(where)) <=> Meets(item, where)
<1> DEFINE filter == Filter(where)
<1>1. /\ DOMAIN filter = DOMAIN where
      /\ \A f \in DOMAIN where :
           /\ DOMAIN filter[f] = DOMAIN where[f]
           /\ \A op \in DOMAIN where[f] : filter[f][op] = Atom(op, where[f][op])
  BY DEF Filter
<1>2. \A f \in DOMAIN where : \A op \in DOMAIN where[f] :
        (LET a == filter[f][op] IN
         IF a.negated THEN Get(item, f) # None /\ ~Test(a.op, Get(item, f), a.operand)
         ELSE Test(a.op, Get(item, f), a.operand))
        <=> Test(op, Get(item, f), where[f][op])
  BY <1>1, AtomMeansOperator
<1> HIDE DEF filter
<1>3. Passes(item, filter) <=> Meets(item, where)
  BY <1>1, <1>2 DEF Passes, Meets
<1> QED
  BY <1>3 DEF filter

\* The logical plan of any query selects what its expression selects: the
\* comparisons of _logical_predicate are those of the where mapping.
THEOREM PlansMeanExpressions == QueriesSpec => []PlanMeansExpression
<1>1. PlanMeansExpression
  BY FilterMeansWhere DEF PlanMeansExpression, logical_plan
<1> QED
  BY <1>1, PTL

-----------------------------------------------------------------------------
(* Predicates that helpers add to the caller's.                             *)

\* The predicates on fields outside of X hold of an item.
MeetsBut(item, where, X) ==
  \A f \in DOMAIN where \ X : \A op \in DOMAIN where[f] : Test(op, Get(item, f), where[f][op])

LEMMA MeetsAll ==
  ASSUME NEW item, NEW where
  PROVE  Meets(item, where) <=> MeetsBut(item, where, {})
BY DEF Meets, MeetsBut

LEMMA ButOver ==
  ASSUME NEW item, NEW f, NEW ops, NEW where, NEW X
  PROVE  MeetsBut(item, Over(Only(f, ops), where), X) <=>
           /\ f \notin X => \A op \in DOMAIN ops : Test(op, Get(item, f), ops[op])
           /\ MeetsBut(item, where, X \cup {f})
<1> DEFINE w == Over(Only(f, ops), where)
<1>1. DOMAIN w = {f} \cup DOMAIN where /\ w[f] = ops /\ \A g \in DOMAIN where \ {f} : w[g] = where[g]
  BY DEF Over, Only
<1> HIDE DEF w
<1>2. ASSUME MeetsBut(item, w, X)
      PROVE  /\ f \notin X => \A op \in DOMAIN ops : Test(op, Get(item, f), ops[op])
             /\ MeetsBut(item, where, X \cup {f})
  BY <1>1, <1>2 DEF MeetsBut
<1>3. ASSUME f \notin X => \A op \in DOMAIN ops : Test(op, Get(item, f), ops[op]),
             MeetsBut(item, where, X \cup {f}), NEW g \in DOMAIN w \ X, NEW op \in DOMAIN w[g]
      PROVE  Test(op, Get(item, g), w[g][op])
  <2>1. CASE g = f
    BY <1>1, <1>3, <2>1
  <2>2. CASE g # f
    BY <1>1, <1>3, <2>2 DEF MeetsBut
  <2> QED
    BY <2>1, <2>2
<1>4. MeetsBut(item, w, X) <=>
        /\ f \notin X => \A op \in DOMAIN ops : Test(op, Get(item, f), ops[op])
        /\ MeetsBut(item, where, X \cup {f})
  BY <1>2, <1>3 DEF MeetsBut
<1> QED
  BY <1>4 DEF w

LEMMA ButSet ==
  ASSUME NEW item, NEW f, NEW op, NEW x, NEW where, NEW X
  PROVE  MeetsBut(item, Set(where, f, op, x), X) <=>
           /\ f \notin X => Test(op, Get(item, f), x)
           /\ MeetsBut(item, where, X \cup {f})
<1>1. MeetsBut(item, Over(Only(f, Only(op, x)), where), X) <=>
        /\ f \notin X => \A o \in DOMAIN Only(op, x) : Test(o, Get(item, f), Only(op, x)[o])
        /\ MeetsBut(item, where, X \cup {f})
  BY ButOver
<1>2. (\A o \in DOMAIN Only(op, x) : Test(o, Get(item, f), Only(op, x)[o])) <=> Test(op, Get(item, f), x)
  BY DEF Only
<1> QED
  BY <1>1, <1>2 DEF Set

LEMMA TraceMeans ==
  ASSUME NEW item, NEW id \in TraceIds
  PROVE  Test("eq", Get(item, "traceId"), id) <=> Get(item, "traceId") = id
BY QueriesAssumption DEF Test, Compare

LEMMA ButTraced ==
  ASSUME NEW item, NEW where, NEW traceId \in TraceIds \cup {None}, NEW X, "traceId" \notin X
  PROVE  MeetsBut(item, Traced(where, traceId), X) <=>
           /\ traceId # None => Get(item, "traceId") = traceId
           /\ MeetsBut(item, where, X \cup (IF traceId = None THEN {} ELSE {"traceId"}))
<1>1. CASE traceId = None
  <2>1. X \cup (IF traceId = None THEN {} ELSE {"traceId"}) = X
    BY <1>1
  <2> QED
    BY <1>1, <2>1 DEF Traced
<1>2. CASE traceId # None
  <2>1. X \cup (IF traceId = None THEN {} ELSE {"traceId"}) = X \cup {"traceId"}
    BY <1>2
  <2>2. Traced(where, traceId) = Set(where, "traceId", "eq", traceId)
    BY <1>2 DEF Traced
  <2>3. MeetsBut(item, Set(where, "traceId", "eq", traceId), X) <=>
          Test("eq", Get(item, "traceId"), traceId) /\ MeetsBut(item, where, X \cup {"traceId"})
    BY ButSet
  <2> QED
    BY <1>2, <2>1, <2>2, <2>3, TraceMeans
<1> QED
  BY <1>1, <1>2

LEMMA RangeMeans ==
  ASSUME NEW v \in Int, NEW start, NEW end
  PROVE  LET ops == [gte |-> start, lt |-> end] IN
         (\A op \in DOMAIN ops : Test(op, v, ops[op])) <=> start <= v /\ v < end
<1> DEFINE ops == [gte |-> start, lt |-> end]
<1>1. DOMAIN ops = {"gte", "lt"} /\ ops["gte"] = start /\ ops["lt"] = end
  OBVIOUS
<1>2. v # None
  BY QueriesAssumption
<1>3. (Test("gte", v, start) <=> v >= start) /\ (Test("lt", v, end) <=> v < end)
  BY <1>2 DEF Test, Compare
<1>4. v >= start <=> start <= v
  OBVIOUS
<1> HIDE DEF ops
<1>5. (\A op \in DOMAIN ops : Test(op, v, ops[op])) <=> start <= v /\ v < end
  BY <1>1, <1>3, <1>4
<1> QED
  BY <1>5 DEF ops

\* The fields of a stored record that its table has for sure.
LEMMA ItemHas ==
  ASSUME NEW id \in Ids
  PROVE  /\ Item(id).table = Record[id].table /\ Item(id).table \in Tables
         /\ Item(id).observedTime \in Int
         /\ Get(Item(id), "observedTime") = Item(id).observedTime
         /\ Item(id).table = "metrics" =>
               Get(Item(id), "name") = Item(id).name /\ Item(id).name # None
<1>s. /\ {"table", "observedTime"} \subseteq DOMAIN Record[id]
      /\ Record[id].table \in Tables /\ Record[id].observedTime \in Int
      /\ Record[id].table = "metrics" =>
           "name" \in DOMAIN Record[id] /\ Record[id].name # None
  BY StoreAssumption
<1>1. CASE Record[id].table = "metrics"
  <2> DEFINE item == Item(id)
  <2>1. item = Over(Only("value", value[id]), Record[id])
    BY <1>1 DEF Item
  <2>2. /\ DOMAIN item = {"value"} \cup DOMAIN Record[id]
        /\ \A f \in DOMAIN Record[id] \ {"value"} : item[f] = Record[id][f]
    BY <2>1 DEF Over, Only
  <2> HIDE DEF item
  <2>3. /\ item.table = Record[id].table /\ item.observedTime = Record[id].observedTime
        /\ item.name = Record[id].name /\ {"observedTime", "name"} \subseteq DOMAIN item
    BY <1>s, <1>1, <2>2
  <2>4. Get(item, "observedTime") = item.observedTime /\ Get(item, "name") = item.name
    BY <2>3 DEF Get
  <2> QED
    BY <1>s, <1>1, <2>3, <2>4 DEF item
<1>2. CASE Record[id].table # "metrics"
  BY <1>s, <1>2 DEF Item, Get
<1> QED
  BY <1>1, <1>2

LEMMA BoundedMeans ==
  ASSUME NEW id \in Ids, NEW table, NEW start, NEW end, NEW where, NEW order
  PROVE  LET q == Bounded(table, start, end, where, order) IN
         Meets(Item(id), q.where) <=>
           /\ start <= Item(id).observedTime /\ Item(id).observedTime < end
           /\ MeetsBut(Item(id), where, {"observedTime"})
<1> DEFINE ops == [gte |-> start, lt |-> end]
           v == Get(Item(id), "observedTime")
<1>1. Bounded(table, start, end, where, order).where = Over(Only("observedTime", ops), where)
  BY DEF Bounded
<1>2. (\A op \in DOMAIN ops : Test(op, v, ops[op])) <=> start <= v /\ v < end
  BY ItemHas, RangeMeans
<1> HIDE DEF ops
<1>3. Meets(Item(id), Over(Only("observedTime", ops), where)) <=>
        /\ \A op \in DOMAIN ops : Test(op, v, ops[op])
        /\ MeetsBut(Item(id), where, {"observedTime"})
  BY MeetsAll, ButOver
<1> QED
  BY <1>1, <1>2, <1>3, ItemHas

-----------------------------------------------------------------------------
(* What a helper builds says what its caller has asked for.                 *)

\* What the helpers have in common: the new query, and what it is to mean.
LEMMA AskedMeans ==
  ASSUME QueriesInv, NEW question, NEW table \in Tables, NEW start, NEW end, NEW where, NEW q,
         Ask(question, q), question.table = table, DOMAIN q = QueryFields,
         q.table = table, q.order = PromisedOrder[table], q.cursor = NoCursor,
         \A id \in Ids :
           Wanted(id)' <=> Record[id].table = q.table /\ Meets(Item(id)', q.where)
  PROVE  QueriesInv'
<1>1. /\ asked' = question /\ query' = q /\ query = NoQuery
      /\ result = NoResult /\ read = <<>> /\ stored \subseteq Ids /\ begun \subseteq stored
      /\ UNCHANGED <<stored, value, result, read, begun>>
  BY DEF Ask, QueriesInv
<1>2. q # NoQuery
  BY DEF NoQuery, Tables
<1>3. SaysWanted'
  <2>1. q.limit \in 1..MaxPageSize
    BY DEF Ask, ValidQuery
  <2> QED
    BY <1>1, <2>1 DEF SaysWanted, Meets
<1>4. InOrderSoFar'
  BY <1>1 DEF InOrderSoFar
<1>5. GoesOn'
  BY <1>1 DEF GoesOn
<1> QED
  BY <1>1, <1>2, <1>3, <1>4, <1>5 DEF QueriesInv

LEMMA BoundedHas ==
  ASSUME NEW table, NEW start, NEW end, NEW where, NEW order
  PROVE  LET q == Bounded(table, start, end, where, order) IN
         /\ DOMAIN q = QueryFields /\ q.table = table /\ q.order = order /\ q.cursor = NoCursor
BY DEF Bounded, QueryFields

LEMMA FloorMeans ==
  ASSUME NEW item, NEW floor \in Severities
  PROVE  Test("in", Get(item, "severity"), AtLeast(floor)) <=>
           Get(item, "severity") \in Severities /\ item.severity >= floor
BY QueriesAssumption DEF Test, Compare, AtLeast, Get

LEMMA LogsMean ==
  ASSUME QueriesInv, NEW start, NEW end, NEW floor, NEW traceId, NEW where,
         logs(start, end, floor, traceId, where)
  PROVE  QueriesInv'
<1> DEFINE severe == IF floor = None THEN where ELSE Set(where, "severity", "in", AtLeast(floor))
           question == [NoQuestion EXCEPT !.table = "logs", !.start = start, !.end = end,
                                          !.floor = floor, !.trace = traceId, !.where = where]
           q == Bounded("logs", start, end, Traced(severe, traceId), "observedTime")
<1>1. Ask(question, q) /\ floor \in Severities \cup {None} /\ traceId \in TraceIds \cup {None}
  BY DEF logs
<1>2. /\ question.table = "logs" /\ question.start = start /\ question.end = end
      /\ question.floor = floor /\ question.trace = traceId /\ question.names = {}
      /\ question.where = where
  BY DEF NoQuestion
<1>3. asked' = question /\ value' = value
  BY <1>1 DEF Ask
<1>4. /\ DOMAIN q = QueryFields /\ q.table = "logs" /\ q.order = "observedTime"
      /\ q.cursor = NoCursor
  BY BoundedHas
<1>5. ASSUME NEW id \in Ids
      PROVE  Wanted(id)' <=> Record[id].table = "logs" /\ Meets(Item(id)', q.where)
  <2> DEFINE item == Item(id)
             X == {"observedTime"}
             Y == X \cup (IF traceId = None THEN {} ELSE {"traceId"})
             Z == Y \cup (IF floor = None THEN {} ELSE {"severity"})
  <2>1. Meets(item, q.where) <=>
          /\ start <= item.observedTime /\ item.observedTime < end
          /\ MeetsBut(item, Traced(severe, traceId), X)
    BY BoundedMeans
  <2>2. MeetsBut(item, Traced(severe, traceId), X) <=>
          /\ traceId # None => Get(item, "traceId") = traceId
          /\ MeetsBut(item, severe, Y)
    <3>1. "traceId" \notin X
      OBVIOUS
    <3> HIDE DEF item, X
    <3> QED
      BY <1>1, <3>1, ButTraced
  <2>3. MeetsBut(item, severe, Y) <=>
          /\ floor # None => Get(item, "severity") \in Severities /\ item.severity >= floor
          /\ MeetsBut(item, where, Z)
    <3>1. CASE floor = None
      BY <3>1
    <3>2. CASE floor # None
      <4>1. "severity" \notin Y
        OBVIOUS
      <4> QED
        BY <1>1, <3>2, <4>1, ButSet, FloorMeans
    <3> QED
      BY <3>1, <3>2
  <2>4. \A f : f \in Z <=> Replaced(f)'
    BY <1>2, <1>3 DEF Replaced
  <2>5. MeetsBut(item, where, Z) <=>
          \A f \in DOMAIN where : ~Replaced(f)' =>
            \A op \in DOMAIN where[f] : Test(op, Get(item, f), where[f][op])
    BY <2>4 DEF MeetsBut
  <2>6. item' = item /\ item.table = Record[id].table
    BY <1>3, ItemHas DEF Item
  <2> HIDE DEF item, X, Y, Z, question, q, severe
  <2>7. Wanted(id)' <=>
          /\ item.table = "logs"
          /\ start <= item.observedTime /\ item.observedTime < end
          /\ floor # None => Get(item, "severity") \in Severities /\ item.severity >= floor
          /\ traceId # None => Get(item, "traceId") = traceId
          /\ \A f \in DOMAIN where : ~Replaced(f)' =>
               \A op \in DOMAIN where[f] : Test(op, Get(item, f), where[f][op])
    BY <1>2, <1>3, <2>6 DEF Wanted, About, item
  <2> QED
    BY <2>1, <2>2, <2>3, <2>5, <2>6, <2>7 DEF item
<1>6. "logs" \in Tables /\ PromisedOrder["logs"] = "observedTime"
  BY DEF Tables, PromisedOrder
<1> HIDE DEF question, q
<1> QED
  BY <1>1, <1>2, <1>4, <1>5, <1>6, AskedMeans

LEMMA SpansMean ==
  ASSUME QueriesInv, NEW start, NEW end, NEW traceId, NEW where,
         spans(start, end, traceId, where)
  PROVE  QueriesInv'
<1> DEFINE question == [NoQuestion EXCEPT !.table = "spans", !.start = start, !.end = end,
                                          !.trace = traceId, !.where = where]
           q == Bounded("spans", start, end, Traced(where, traceId), "startTime")
<1>1. Ask(question, q) /\ traceId \in TraceIds \cup {None}
  BY DEF spans
<1>2. /\ question.table = "spans" /\ question.start = start /\ question.end = end
      /\ question.floor = None /\ question.trace = traceId /\ question.names = {}
      /\ question.where = where
  BY DEF NoQuestion
<1>3. asked' = question /\ value' = value
  BY <1>1 DEF Ask
<1>4. /\ DOMAIN q = QueryFields /\ q.table = "spans" /\ q.order = "startTime"
      /\ q.cursor = NoCursor
  BY BoundedHas
<1>5. ASSUME NEW id \in Ids
      PROVE  Wanted(id)' <=> Record[id].table = "spans" /\ Meets(Item(id)', q.where)
  <2> DEFINE item == Item(id)
             X == {"observedTime"}
             Y == X \cup (IF traceId = None THEN {} ELSE {"traceId"})
  <2>1. Meets(item, q.where) <=>
          /\ start <= item.observedTime /\ item.observedTime < end
          /\ MeetsBut(item, Traced(where, traceId), X)
    BY BoundedMeans
  <2>2. MeetsBut(item, Traced(where, traceId), X) <=>
          /\ traceId # None => Get(item, "traceId") = traceId
          /\ MeetsBut(item, where, Y)
    <3>1. "traceId" \notin X
      OBVIOUS
    <3> HIDE DEF item, X
    <3> QED
      BY <1>1, <3>1, ButTraced
  <2>3. \A f : f \in Y <=> Replaced(f)'
    BY <1>2, <1>3 DEF Replaced
  <2>4. MeetsBut(item, where, Y) <=>
          \A f \in DOMAIN where : ~Replaced(f)' =>
            \A op \in DOMAIN where[f] : Test(op, Get(item, f), where[f][op])
    BY <2>3 DEF MeetsBut
  <2>5. item' = item /\ item.table = Record[id].table
    BY <1>3, ItemHas DEF Item
  <2> HIDE DEF item, X, Y, question, q
  <2>6. Wanted(id)' <=>
          /\ item.table = "spans"
          /\ start <= item.observedTime /\ item.observedTime < end
          /\ traceId # None => Get(item, "traceId") = traceId
          /\ \A f \in DOMAIN where : ~Replaced(f)' =>
               \A op \in DOMAIN where[f] : Test(op, Get(item, f), where[f][op])
    BY <1>2, <1>3, <2>5 DEF Wanted, About, item
  <2> QED
    BY <2>1, <2>2, <2>4, <2>5, <2>6 DEF item
<1>6. "spans" \in Tables /\ PromisedOrder["spans"] = "startTime"
  BY DEF Tables, PromisedOrder
<1> HIDE DEF question, q
<1> QED
  BY <1>1, <1>2, <1>4, <1>5, <1>6, AskedMeans

\* A point meets the prefixed predicates if its dimensions meet the caller's.
LEMMA DimensionsMean ==
  ASSUME NEW item, NEW dimensions \in Dimensions, DOMAIN dimensions \subseteq SafeFields
  PROVE  MeetsBut(item, Prefixed(dimensions), {"observedTime", "name"}) <=>
           \A k \in DOMAIN dimensions : \A op \in DOMAIN dimensions[k] :
             Test(op, Get(item, DimensionField[k]), dimensions[k][op])
<1> DEFINE w == Prefixed(dimensions)
           X == {"observedTime", "name"}
<1>1. DOMAIN w = {DimensionField[k] : k \in DOMAIN dimensions}
  BY DEF Prefixed
<1>2. DOMAIN dimensions \subseteq DOMAIN DimensionField
  BY DimensionsAssumption
<1>3. \A k, l \in DOMAIN dimensions : DimensionField[k] = DimensionField[l] => k = l
  BY <1>2, DimensionsAssumption DEF IsInjective
<1>4. \A k \in DOMAIN dimensions : DimensionField[k] \in DOMAIN w \ X
  BY <1>1, <1>2, DimensionsAssumption
<1>5. ASSUME NEW k \in DOMAIN dimensions PROVE w[DimensionField[k]] = dimensions[k]
  <2>1. w[DimensionField[k]] =
          dimensions[CHOOSE l \in DOMAIN dimensions : DimensionField[l] = DimensionField[k]]
    BY DEF Prefixed
  <2>2. (CHOOSE l \in DOMAIN dimensions : DimensionField[l] = DimensionField[k]) = k
    BY <1>3
  <2> QED
    BY <2>1, <2>2
<1> HIDE DEF w, X
<1>6. MeetsBut(item, w, X) <=>
        \A k \in DOMAIN dimensions : \A op \in DOMAIN dimensions[k] :
          Test(op, Get(item, DimensionField[k]), dimensions[k][op])
  <2>1. MeetsBut(item, w, X) <=>
          \A k \in DOMAIN dimensions : \A op \in DOMAIN w[DimensionField[k]] :
            Test(op, Get(item, DimensionField[k]), w[DimensionField[k]][op])
    BY <1>1, <1>4 DEF MeetsBut
  <2> QED
    BY <1>5, <2>1
<1> QED
  BY <1>6 DEF w, X

LEMMA SeriesMean ==
  ASSUME QueriesInv, NEW name, NEW start, NEW end, NEW dimensions \in Dimensions,
         metric_series(name, start, end, dimensions)
  PROVE  QueriesInv'
<1> DEFINE question == [NoQuestion EXCEPT !.table = "metrics", !.start = start, !.end = end,
                                          !.names = {name}, !.where = dimensions]
           named == Set(Prefixed(dimensions), "name", "eq", name)
           q == Bounded("metrics", start, end, named, SeriesOrder)
<1>1. Ask(question, q) /\ DOMAIN dimensions \subseteq SafeFields
  BY DEF metric_series
<1>2. /\ question.table = "metrics" /\ question.start = start /\ question.end = end
      /\ question.floor = None /\ question.trace = None /\ question.names = {name}
      /\ question.where = dimensions
  BY DEF NoQuestion
<1>3. asked' = question /\ value' = value
  BY <1>1 DEF Ask
<1>4. /\ DOMAIN q = QueryFields /\ q.table = "metrics" /\ q.order = "endTime"
      /\ q.cursor = NoCursor
  BY BoundedHas DEF SeriesOrder
<1>5. ASSUME NEW id \in Ids
      PROVE  Wanted(id)' <=> Record[id].table = "metrics" /\ Meets(Item(id)', q.where)
  <2> DEFINE item == Item(id)
             X == {"observedTime"}
             Y == {"observedTime", "name"}
  <2>1. Meets(item, q.where) <=>
          /\ start <= item.observedTime /\ item.observedTime < end
          /\ MeetsBut(item, named, X)
    BY BoundedMeans
  <2>2. MeetsBut(item, named, X) <=>
          /\ Test("eq", Get(item, "name"), name)
          /\ MeetsBut(item, Prefixed(dimensions), Y)
    <3>1. MeetsBut(item, named, X) <=>
            /\ Test("eq", Get(item, "name"), name)
            /\ MeetsBut(item, Prefixed(dimensions), X \cup {"name"})
      BY ButSet
    <3>2. Y = X \cup {"name"}
      OBVIOUS
    <3> QED
      BY <3>1, <3>2
  <2>3. MeetsBut(item, Prefixed(dimensions), Y) <=>
          \A k \in DOMAIN dimensions : \A op \in DOMAIN dimensions[k] :
            Test(op, Get(item, DimensionField[k]), dimensions[k][op])
    BY <1>1, DimensionsMean
  <2>4. item' = item /\ item.table = Record[id].table
    BY <1>3, ItemHas DEF Item
  <2>5. item.table = "metrics" => Get(item, "name") = item.name /\ item.name # None
    BY ItemHas
  <2>6. item.table = "metrics" => (Test("eq", Get(item, "name"), name) <=> item.name \in {name})
    BY <2>5 DEF Test, Compare
  <2> HIDE DEF item, X, Y, question, q, named
  <2>7. Wanted(id)' <=>
          /\ item.table = "metrics"
          /\ start <= item.observedTime /\ item.observedTime < end
          /\ item.name \in {name}
          /\ \A k \in DOMAIN dimensions : \A op \in DOMAIN dimensions[k] :
               Test(op, Get(item, DimensionField[k]), dimensions[k][op])
    BY <1>2, <1>3, <2>4 DEF Wanted, About, item
  <2> QED
    BY <2>1, <2>2, <2>3, <2>4, <2>6, <2>7 DEF item
<1>6. "metrics" \in Tables /\ PromisedOrder["metrics"] = "endTime"
  BY DEF Tables, PromisedOrder
<1> HIDE DEF question, q
<1> QED
  BY <1>1, <1>2, <1>4, <1>5, <1>6, AskedMeans

LEMMA MembersExist ==
  ASSUME NEW S, ValidOperand("in", S)
  PROVE  S # {}
<1>1. Cardinality(S) \in 1..MaxMembers
  BY DEF ValidOperand
<1>2. Cardinality({}) = 0 /\ 0 \notin 1..MaxMembers
  BY FS_EmptySet
<1> QED
  BY <1>1, <1>2

LEMMA HealthMean ==
  ASSUME QueriesInv, NEW names, NEW start, NEW end, service_health(names, start, end)
  PROVE  QueriesInv'
<1> DEFINE S == ToSet(names)
           question == [NoQuestion EXCEPT !.table = "metrics", !.start = start, !.end = end,
                                          !.names = S, !.health = TRUE]
           named == Set(<<>>, "name", "in", S)
           bounded == Bounded("metrics", start, end, named, SeriesOrder)
           q == [bounded EXCEPT !.limit = HealthPage]
<1>1. Ask(question, q)
  BY DEF service_health
<1>2. /\ question.table = "metrics" /\ question.start = start /\ question.end = end
      /\ question.floor = None /\ question.trace = None /\ question.names = S
      /\ question.where = <<>>
  BY DEF NoQuestion
<1>3. asked' = question /\ value' = value
  BY <1>1 DEF Ask
<1>4. /\ DOMAIN q = QueryFields /\ q.table = "metrics" /\ q.order = "endTime"
      /\ q.cursor = NoCursor /\ q.where = bounded.where
  <2>1. /\ DOMAIN bounded = QueryFields /\ bounded.table = "metrics"
        /\ bounded.order = "endTime" /\ bounded.cursor = NoCursor
    BY BoundedHas DEF SeriesOrder
  <2> HIDE DEF bounded
  <2> QED
    BY <2>1 DEF QueryFields
<1>5. S # {}
  <2>1. ValidWhere(bounded.where)
    BY <1>1, <1>4 DEF Ask, ValidQuery
  <2>2. /\ "name" \in DOMAIN bounded.where /\ "in" \in DOMAIN bounded.where["name"]
        /\ bounded.where["name"]["in"] = S
    BY DEF Bounded, Set, Over, Only
  <2> HIDE DEF bounded, S
  <2> QED
    BY <2>1, <2>2, MembersExist DEF ValidWhere
<1>6. ASSUME NEW id \in Ids
      PROVE  Wanted(id)' <=> Record[id].table = "metrics" /\ Meets(Item(id)', q.where)
  <2> DEFINE item == Item(id)
             X == {"observedTime"}
  <2>1. Meets(item, q.where) <=>
          /\ start <= item.observedTime /\ item.observedTime < end
          /\ MeetsBut(item, named, X)
    BY <1>4, BoundedMeans
  <2>2. MeetsBut(item, named, X) <=> Test("in", Get(item, "name"), S)
    <3>1. MeetsBut(item, named, X) <=>
            Test("in", Get(item, "name"), S) /\ MeetsBut(item, <<>>, X \cup {"name"})
      BY ButSet
    <3>2. MeetsBut(item, <<>>, X \cup {"name"})
      BY DEF MeetsBut
    <3> QED
      BY <3>1, <3>2
  <2>3. item' = item /\ item.table = Record[id].table
    BY <1>3, ItemHas DEF Item
  <2>4. item.table = "metrics" => Get(item, "name") = item.name /\ item.name # None
    BY ItemHas
  <2>5. item.table = "metrics" => (Test("in", Get(item, "name"), S) <=> item.name \in S)
    BY <2>4 DEF Test, Compare
  <2> HIDE DEF item, X, question, q, named, S
  <2>6. Wanted(id)' <=>
          /\ item.table = "metrics"
          /\ start <= item.observedTime /\ item.observedTime < end
          /\ item.name \in S
    BY <1>2, <1>3, <1>5, <2>3 DEF Wanted, About, item
  <2> QED
    BY <2>1, <2>2, <2>3, <2>5, <2>6 DEF item
<1>7. "metrics" \in Tables /\ PromisedOrder["metrics"] = "endTime"
  BY DEF Tables, PromisedOrder
<1> HIDE DEF question, q
<1> QED
  BY <1>1, <1>2, <1>4, <1>6, <1>7, AskedMeans

LEMMA AskStep ==
  ASSUME QueriesInv, AskSomething
  PROVE  QueriesInv'
BY LogsMean, SpansMean, SeriesMean, HealthMean DEF AskSomething, trace, related_logs

-----------------------------------------------------------------------------
(* Reading page by page.                                                    *)

\* What the caller wants is wanted whatever has arrived or was read.
LEMMA WantedStays ==
  ASSUME UNCHANGED <<value, asked>>
  PROVE  \A id : (Wanted(id)' <=> Wanted(id)) /\ Item(id)' = Item(id)
BY DEF Wanted, Item, About, Replaced

\* Ids of one table can be put in the order of its queries.
LEMMA TableIsTimed ==
  ASSUME NEW S \in SUBSET Ids, NEW table \in Tables, \A id \in S : Record[id].table = table
  PROVE  Timed(S, PromisedOrder[table])
<1>1. IsFiniteSet(S)
  BY FS_Subset, StoreAssumption
<1> QED
  BY <1>1, StoreAssumption DEF Timed

LEMMA ReadIsTimed ==
  ASSUME SaysWanted, InOrderSoFar
  PROVE  /\ ToSet(read) \subseteq Ids
         /\ \A S \in SUBSET Ids : (\A id \in S : Record[id].table = asked.table)
              => Timed(S, PromisedOrder[asked.table])
         /\ \A id \in ToSet(read) : Record[id].table = asked.table
<1>1. asked.table \in Tables
  BY DEF SaysWanted
<1>2. \A S \in SUBSET Ids : (\A id \in S : Record[id].table = asked.table)
        => Timed(S, PromisedOrder[asked.table])
  BY <1>1, TableIsTimed
<1>3. ToSet(read) \subseteq Ids /\ \A id \in ToSet(read) : Record[id].table = asked.table
  BY DEF InOrderSoFar, ToSet
<1> QED
  BY <1>2, <1>3

LEMMA ArriveStep ==
  ASSUME QueriesInv, NEW id \in Late, Arrive(id)
  PROVE  QueriesInv'
<1>1. stored' \subseteq Ids /\ begun \subseteq stored' /\ UNCHANGED <<value, asked, query, result, read, begun>>
  BY StoreAssumption DEF Arrive, QueriesInv
<1>2. SaysWanted => SaysWanted'
  BY <1>1, WantedStays DEF SaysWanted, Meets
<1>3. InOrderSoFar => InOrderSoFar'
  BY <1>1, WantedStays DEF InOrderSoFar
<1>4. GoesOn => GoesOn'
  BY <1>1 DEF GoesOn
<1>5. PageWanted => PageWanted'
  BY <1>1, WantedStays DEF PageWanted
<1> QED
  BY <1>1, <1>2, <1>3, <1>4, <1>5 DEF QueriesInv

\* What a replaced query keeps of its meaning.
LEMMA ReplacedSays ==
  ASSUME SaysWanted, NEW q, NEW before, Replace(q, before), DOMAIN q = QueryFields,
         q.table = query.table, q.order = query.order, q.where = query.where
  PROVE  SaysWanted' /\ q # NoQuery
<1>1. q.limit \in 1..MaxPageSize
  BY DEF Replace, ValidQuery
<1>2. query' = q /\ UNCHANGED <<value, asked>>
  BY DEF Replace
<1>3. q # NoQuery
  BY DEF SaysWanted, NoQuery, Tables
<1>4. \A id \in Ids : Meets(Item(id), q.where)' <=> Meets(Item(id), query.where)
  BY <1>2, WantedStays DEF Meets
<1> QED
  BY <1>1, <1>2, <1>3, <1>4, WantedStays DEF SaysWanted

LEMMA PageStep ==
  ASSUME QueriesInv, NEW limit, NEW cursor \in Cursors, page(limit, cursor)
  PROVE  QueriesInv'
<1> DEFINE q == [query EXCEPT !.limit = limit, !.cursor = cursor]
           before == IF cursor = NoCursor THEN <<>> ELSE read
<1>1. Replace(q, before) /\ query # NoQuery /\ SaysWanted /\ InOrderSoFar /\ GoesOn
  BY DEF page, Replace, QueriesInv
<1>2. /\ DOMAIN q = QueryFields /\ q.table = query.table /\ q.order = query.order
      /\ q.where = query.where /\ q.cursor = cursor
  BY <1>1 DEF SaysWanted, QueryFields
<1> HIDE DEF q
<1>3. SaysWanted' /\ q # NoQuery
  BY <1>1, <1>2, ReplacedSays
<1>4. /\ query' = q /\ result' = NoResult /\ read' = before /\ cursor # BadCursor
      /\ UNCHANGED <<stored, value, asked, begun>>
  BY <1>1, <1>2 DEF Replace, ValidQuery
<1>5. InOrderSoFar'
  BY <1>1, <1>4, WantedStays DEF InOrderSoFar
<1>6. GoesOn'
  <2>1. CASE cursor = NoCursor
    BY <1>2, <1>4, <2>1 DEF GoesOn
  <2>2. CASE cursor # NoCursor
    <3>1. result # NoResult /\ cursor = result.cursor
      BY <1>4, <2>2 DEF Cursors
    <3>2. read # <<>> /\ cursor.last = Last(read)
      BY <2>2, <3>1 DEF QueriesInv, PageWanted
    <3>3. Last(read) \in ToSet(read)
      BY <1>1, <3>2 DEF InOrderSoFar, Last, ToSet
    <3> QED
      BY <1>2, <1>4, <2>2, <3>2, <3>3 DEF GoesOn
  <2> QED
    BY <2>1, <2>2
<1> QED
  BY <1>3, <1>4, <1>5, <1>6 DEF QueriesInv

\* A caller that reads a page again has read what comes before it.
LEMMA CutAtCursor ==
  ASSUME SaysWanted, InOrderSoFar, begun \subseteq Ids, NEW last \in ToSet(read)
  PROVE  LET cut == SubSeq(read, 1, CHOOSE n \in DOMAIN read : read[n] = last)
             order == PromisedOrder[asked.table]
         IN  /\ cut \in Seq(Ids) /\ cut # <<>> /\ Last(cut) = last
             /\ DOMAIN cut \subseteq DOMAIN read /\ \A i \in DOMAIN cut : cut[i] = read[i]
             /\ last \in ToSet(cut)
             /\ \A id \in begun : Wanted(id) /\ ~Precedes(last, id, order) => id \in ToSet(cut)
<1> DEFINE n == CHOOSE n \in DOMAIN read : read[n] = last
           cut == SubSeq(read, 1, n)
           order == PromisedOrder[asked.table]
<1>1. n \in DOMAIN read /\ read[n] = last
  BY DEF ToSet
<1>2. read \in Seq(Ids)
  BY DEF InOrderSoFar
<1> HIDE DEF n
<1>3. /\ cut \in Seq(Ids) /\ Len(cut) = n /\ n \in 1..Len(read)
      /\ \A i \in 1..n : cut[i] = read[i]
  BY <1>1, <1>2
<1> HIDE DEF cut
<1>4. /\ cut # <<>> /\ Last(cut) = last /\ DOMAIN cut = 1..n
      /\ DOMAIN cut \subseteq DOMAIN read /\ last \in ToSet(cut)
  BY <1>1, <1>2, <1>3 DEF Last, ToSet
<1>5. ASSUME NEW id \in begun, Wanted(id), ~Precedes(last, id, order)
      PROVE  id \in ToSet(cut)
  <2> DEFINE S == {id} \cup ToSet(read)
  <2>1. Record[id].table = asked.table /\ id \in Ids
    BY <1>5, ItemHas DEF Wanted
  <2>2. Timed(S, order)
    BY <2>1, ReadIsTimed
  <2>3. Last(read) \in S /\ last \in S /\ read # <<>>
    BY <1>2, <1>3 DEF Last, ToSet
  <2>4. last = Last(read) \/ Precedes(last, Last(read), order)
    BY <1>1, <1>2, <1>3 DEF InOrderSoFar, Last
  <2>5. ~Precedes(Last(read), id, order)
    BY <1>5, <2>2, <2>3, <2>4, PrecedesIsOrder
  <2>6. id \in ToSet(read)
    BY <1>5, <2>3, <2>5 DEF InOrderSoFar
  <2>7. PICK m \in DOMAIN read : read[m] = id
    BY <2>6 DEF ToSet
  <2>8. ~(n < m)
    BY <1>1, <1>5, <2>7 DEF InOrderSoFar
  <2>9. m \in 1..n
    BY <1>2, <1>3, <2>7, <2>8
  <2> QED
    BY <1>3, <1>4, <2>7, <2>9 DEF ToSet
<1> QED
  BY <1>3, <1>4, <1>5 DEF cut, n

LEMMA SelectingStep ==
  ASSUME QueriesInv, NEW fields, selecting(fields)
  PROVE  QueriesInv'
<1> DEFINE q == [query EXCEPT !.select = fields]
           cut == SubSeq(read, 1, CHOOSE n \in DOMAIN read : read[n] = query.cursor.last)
           before == IF query.cursor = NoCursor THEN <<>> ELSE cut
<1>1. /\ Replace(q, before) /\ query # NoQuery /\ SaysWanted /\ InOrderSoFar /\ GoesOn
      /\ begun \subseteq Ids
  BY DEF selecting, Replace, QueriesInv
<1>2. /\ DOMAIN q = QueryFields /\ q.table = query.table /\ q.order = query.order
      /\ q.where = query.where /\ q.cursor = query.cursor
  BY <1>1 DEF SaysWanted, QueryFields
<1> HIDE DEF q
<1>3. SaysWanted' /\ q # NoQuery
  BY <1>1, <1>2, ReplacedSays
<1>4. /\ query' = q /\ result' = NoResult /\ read' = before
      /\ UNCHANGED <<stored, value, asked, begun>>
  BY <1>1 DEF Replace
<1>5. CASE query.cursor = NoCursor
  <2>1. InOrderSoFar' /\ GoesOn'
    BY <1>2, <1>4, <1>5 DEF InOrderSoFar, GoesOn
  <2> QED
    BY <1>3, <1>4, <2>1 DEF QueriesInv
<1>6. CASE query.cursor # NoCursor
  <2> DEFINE last == query.cursor.last
             order == PromisedOrder[asked.table]
  <2>1. last \in ToSet(read)
    BY <1>1, <1>6 DEF GoesOn
  <2>2. /\ cut \in Seq(Ids) /\ cut # <<>> /\ Last(cut) = last
        /\ DOMAIN cut \subseteq DOMAIN read /\ \A i \in DOMAIN cut : cut[i] = read[i]
        /\ last \in ToSet(cut)
        /\ \A id \in begun : Wanted(id) /\ ~Precedes(last, id, order) => id \in ToSet(cut)
    BY <1>1, <2>1, CutAtCursor
  <2>3. read' = cut
    BY <1>4, <1>6
  <2> HIDE DEF cut
  <2>4. InOrderSoFar'
    BY <1>1, <1>4, <2>2, <2>3, WantedStays DEF InOrderSoFar
  <2>5. GoesOn'
    BY <1>2, <1>4, <1>6, <2>2, <2>3 DEF GoesOn
  <2> QED
    BY <1>3, <1>4, <2>4, <2>5 DEF QueriesInv
<1> QED
  BY <1>5, <1>6

-----------------------------------------------------------------------------
(* A page.                                                                  *)

\* The rows of a query are what its caller wants of what is stored, beyond the
\* cursor, in order.
LEMMA RowsAreWanted ==
  ASSUME SaysWanted, stored \subseteq Ids
  PROVE  LET rows == Rows(query)
             order == PromisedOrder[asked.table]
             beyond(id) == query.cursor # NoCursor => Precedes(query.cursor.last, id, order)
         IN  /\ rows \in Seq(Ids)
             /\ \A n \in DOMAIN rows : Wanted(rows[n]) /\ beyond(rows[n])
             /\ \A m, n \in DOMAIN rows : m < n => Precedes(rows[m], rows[n], order)
             /\ \A id \in stored : Wanted(id) /\ beyond(id) => \E n \in DOMAIN rows : rows[n] = id
             /\ Len(rows) = Cardinality({id \in stored : Wanted(id) /\ beyond(id)})
<1> DEFINE rows == Rows(query)
           order == PromisedOrder[asked.table]
           beyond(id) == query.cursor # NoCursor => Precedes(query.cursor.last, id, order)
           S == {id \in stored : Matches(id, query)}
<1>1. rows = Sorted(Times(S, order))
  BY DEF Rows, SaysWanted, Times
<1>2. \A id \in stored : id \in S <=> Wanted(id) /\ beyond(id)
  BY DEF Matches, SaysWanted
<1>3. Timed(S, order)
  <2>1. S \in SUBSET Ids /\ asked.table \in Tables /\ \A id \in S : Record[id].table = asked.table
    BY DEF SaysWanted, Matches
  <2> HIDE DEF S
  <2> QED
    BY <2>1, TableIsTimed
<1>4. S \subseteq stored
  OBVIOUS
<1>8. S = {id \in stored : Wanted(id) /\ beyond(id)}
  <2> HIDE DEF beyond
  <2> QED
    BY <1>2, <1>4
<1> HIDE DEF S, beyond, order
<1>5. /\ rows \in Seq(S) /\ Len(rows) = Cardinality(S)
      /\ \A m, n \in 1..Cardinality(S) : m < n => Precedes(rows[m], rows[n], order)
      /\ \A id \in S : \E n \in 1..Cardinality(S) : rows[n] = id
  BY <1>1, <1>3, IdsAreSorted
<1> HIDE DEF rows
<1>6. DOMAIN rows = 1..Cardinality(S) /\ \A n \in DOMAIN rows : rows[n] \in S
  BY <1>5
<1>7. rows \in Seq(Ids)
  BY <1>4, <1>5, <1>6
<1> QED
  BY <1>2, <1>4, <1>5, <1>6, <1>7, <1>8 DEF rows, beyond, order

LEMMA Appended ==
  ASSUME NEW S, NEW s \in Seq(S), NEW t \in Seq(S)
  PROVE  /\ s \o t \in Seq(S)
         /\ \A i \in DOMAIN (s \o t) :
              \/ i \in DOMAIN s /\ (s \o t)[i] = s[i]
              \/ i - Len(s) \in DOMAIN t /\ (s \o t)[i] = t[i - Len(s)]
         /\ ToSet(s \o t) = ToSet(s) \cup ToSet(t)
         /\ IF t = <<>> THEN s \o t = s ELSE s \o t # <<>> /\ Last(s \o t) = Last(t)
<1> DEFINE u == s \o t
<1>1. /\ u \in Seq(S) /\ Len(u) = Len(s) + Len(t)
      /\ \A i \in 1..Len(u) : u[i] = IF i <= Len(s) THEN s[i] ELSE t[i - Len(s)]
      /\ Len(s) \in Nat /\ Len(t) \in Nat
      /\ DOMAIN s = 1..Len(s) /\ DOMAIN t = 1..Len(t) /\ DOMAIN u = 1..Len(u)
  OBVIOUS
<1>2. t = <<>> => u = s
  OBVIOUS
<1>3. t # <<>> => Len(t) > 0
  OBVIOUS
<1>e. Len(<<>>) = 0
  OBVIOUS
<1> HIDE DEF u
<1>4. \A i \in DOMAIN u : \/ i \in DOMAIN s /\ u[i] = s[i]
                          \/ i - Len(s) \in DOMAIN t /\ u[i] = t[i - Len(s)]
  BY <1>1
<1>5. ASSUME NEW i \in DOMAIN s PROVE i \in DOMAIN u /\ u[i] = s[i]
  BY <1>1
<1>6. ASSUME NEW i \in DOMAIN t PROVE i + Len(s) \in DOMAIN u /\ u[i + Len(s)] = t[i]
  BY <1>1
<1>7. ToSet(u) = ToSet(s) \cup ToSet(t)
  BY <1>4, <1>5, <1>6 DEF ToSet
<1>8. CASE t # <<>>
  <2>1. Len(t) \in DOMAIN t /\ Len(t) + Len(s) = Len(u)
    BY <1>1, <1>3, <1>8
  <2>2. u[Len(u)] = t[Len(t)] /\ u # <<>>
    BY <1>1, <1>3, <1>6, <1>8, <1>e, <2>1
  <2> QED
    BY <1>1, <1>4, <1>7, <1>8, <2>2 DEF u, Last
<1>9. CASE t = <<>>
  BY <1>1, <1>2, <1>4, <1>7, <1>9 DEF u
<1> QED
  BY <1>8, <1>9

\* The page of an execute: the first of the rows, all of them or at least one.
LEMMA PageOfRows ==
  ASSUME QueriesInv, NEW more \in 0..1, execute(more)
  PROVE  \E m \in Nat : LET rows == Rows(query) IN
           /\ result'.ids \in Seq(Ids) /\ result' # NoResult /\ Len(result'.ids) = m
           /\ m <= Len(rows) /\ m <= query.limit /\ (m = 0 => Len(rows) = 0)
           /\ m = Len(rows) \/ query.limit < Len(rows)
           /\ \A n \in 1..m : result'.ids[n] = rows[n]
           /\ read' = read \o result'.ids
           /\ IF m = Len(rows) THEN result'.cursor = NoCursor
              ELSE result'.cursor # NoCursor /\ result'.cursor.last = Last(result'.ids)
<1> DEFINE rows == Rows(query)
           m == Min({query.limit + more, Len(rows)})
           returned == SubSeq(rows, 1, m)
<1>1. query # NoQuery /\ SaysWanted /\ stored \subseteq Ids
  BY DEF execute, QueriesInv
<1>2. rows \in Seq(Ids)
  BY <1>1, RowsAreWanted
<1>3. /\ result' = [kind |-> "page", ids |-> returned,
                    cursor |-> IF Len(rows) = Len(returned) THEN NoCursor
                               ELSE [kind |-> "token", plan |-> Plan(query), last |-> Last(returned)]]
      /\ Len(returned) <= query.limit /\ read' = read \o returned
  BY DEF execute, Fits
<1>4. query.limit \in Nat /\ query.limit >= 1
  BY <1>1, QueriesAssumption DEF SaysWanted
<1> HIDE DEF rows
<1>5. /\ m \in Nat /\ m <= Len(rows) /\ (m = 0 => Len(rows) = 0)
      /\ Len(rows) \in Nat /\ (m = Len(rows) \/ (m = query.limit + more /\ m < Len(rows)))
  <2>1. PICK n \in Nat, l \in Nat : n = query.limit + more /\ n >= 1 /\ l = Len(rows)
    BY <1>2, <1>4
  <2>2. m = IF n <= l THEN n ELSE l
    BY <2>1, MinIsMin
  <2> HIDE DEF m
  <2> QED
    BY <2>1, <2>2
<1> HIDE DEF m
<1>6. returned \in Seq(Ids) /\ Len(returned) = m /\ \A n \in 1..m : returned[n] = rows[n]
  BY <1>2, <1>5
<1> HIDE DEF returned
<1>7. result'.ids = returned /\ result' # NoResult
  BY <1>3 DEF NoResult
<1>8. IF m = Len(rows) THEN result'.cursor = NoCursor
      ELSE result'.cursor # NoCursor /\ result'.cursor.last = Last(returned)
  BY <1>3, <1>6 DEF NoCursor
<1>9. m = Len(rows) \/ query.limit < Len(rows)
  BY <1>3, <1>4, <1>5, <1>6
<1> QED
  BY <1>3, <1>5, <1>6, <1>7, <1>8, <1>9 DEF rows

LEMMA ExecuteStep ==
  ASSUME QueriesInv, NEW more \in 0..1, execute(more)
  PROVE  QueriesInv'
<1> DEFINE rows == Rows(query)
           order == PromisedOrder[asked.table]
           beyond(id) == query.cursor # NoCursor => Precedes(query.cursor.last, id, order)
           ids == result'.ids
<1>1. /\ query # NoQuery /\ SaysWanted /\ InOrderSoFar /\ GoesOn /\ result = NoResult
      /\ stored \subseteq Ids /\ begun \subseteq stored
      /\ begun' = (IF query.cursor = NoCursor THEN stored ELSE begun)
      /\ UNCHANGED <<stored, value, asked, query>>
  BY DEF execute, QueriesInv
<1>2. /\ rows \in Seq(Ids)
      /\ \A n \in DOMAIN rows : Wanted(rows[n]) /\ beyond(rows[n])
      /\ \A i, j \in DOMAIN rows : i < j => Precedes(rows[i], rows[j], order)
      /\ \A id \in stored : Wanted(id) /\ beyond(id) => \E n \in DOMAIN rows : rows[n] = id
  BY <1>1, RowsAreWanted
<1>3. PICK m \in Nat :
        /\ ids \in Seq(Ids) /\ result' # NoResult /\ Len(ids) = m
        /\ m <= Len(rows) /\ m <= query.limit /\ (m = 0 => Len(rows) = 0)
        /\ \A n \in 1..m : ids[n] = rows[n]
        /\ read' = read \o ids
        /\ IF m = Len(rows) THEN result'.cursor = NoCursor
           ELSE result'.cursor # NoCursor /\ result'.cursor.last = Last(ids)
  BY PageOfRows
<1> HIDE DEF rows, ids
<1>4. /\ DOMAIN ids = 1..m /\ DOMAIN ids \subseteq DOMAIN rows /\ DOMAIN rows = 1..Len(rows)
      /\ Len(rows) \in Nat /\ \A n \in DOMAIN ids : ids[n] = rows[n]
      /\ (ids = <<>> <=> m = 0)
  BY <1>2, <1>3
<1>5. read \in Seq(Ids) /\ \A id : Wanted(id)' <=> Wanted(id)
  BY <1>1, WantedStays DEF InOrderSoFar
<1>6. /\ read' \in Seq(Ids)
      /\ \A i \in DOMAIN read' :
           \/ i \in DOMAIN read /\ read'[i] = read[i]
           \/ i - Len(read) \in DOMAIN ids /\ read'[i] = ids[i - Len(read)]
      /\ ToSet(read') = ToSet(read) \cup ToSet(ids)
      /\ IF ids = <<>> THEN read' = read ELSE read' # <<>> /\ Last(read') = Last(ids)
  BY <1>3, <1>5, Appended
\* Where the pages before end, what is before the cursor has been read.
<1>7. IF query.cursor = NoCursor THEN read = <<>>
      ELSE read # <<>> /\ Last(read) = query.cursor.last
  BY <1>1 DEF GoesOn, ToSet
<1>8. ASSUME NEW id \in begun', Wanted(id), id \notin ToSet(read)
      PROVE  \E n \in DOMAIN rows : rows[n] = id
  BY <1>1, <1>2, <1>7, <1>8 DEF InOrderSoFar
<1>9. SaysWanted'
  BY <1>1, WantedStays DEF SaysWanted, Meets
<1>10. \A i \in DOMAIN read' : Record[read'[i]].table = asked.table
  BY <1>1, <1>2, <1>4, <1>5, <1>6, ItemHas DEF InOrderSoFar, Wanted
<1>11. ASSUME NEW i \in DOMAIN read', NEW j \in DOMAIN read', i < j
       PROVE  Precedes(read'[i], read'[j], order)
  <2>1. i \in Int /\ j \in Int /\ Len(read) \in Nat /\ DOMAIN read = 1..Len(read)
    BY <1>5, <1>6
  <2>2. CASE j \in DOMAIN read /\ read'[j] = read[j]
    <3>1. i \in DOMAIN read /\ read'[i] = read[i]
      BY <1>4, <1>6, <1>11, <2>1, <2>2
    <3> QED
      BY <1>1, <1>11, <2>2, <3>1 DEF InOrderSoFar
  <2>3. CASE /\ i - Len(read) \in DOMAIN ids /\ read'[i] = ids[i - Len(read)]
             /\ j - Len(read) \in DOMAIN ids /\ read'[j] = ids[j - Len(read)]
    BY <1>2, <1>4, <1>11, <2>1, <2>3
  <2>4. CASE /\ i \in DOMAIN read /\ read'[i] = read[i]
             /\ j - Len(read) \in DOMAIN ids /\ read'[j] = ids[j - Len(read)]
    <3> DEFINE last == Last(read)
               S == ToSet(read')
    <3>1. query.cursor # NoCursor /\ last = query.cursor.last
      BY <1>7, <2>4
    <3>2. Precedes(last, read'[j], order)
      BY <1>2, <1>4, <2>4, <3>1
    <3>3. i = Len(read) \/ Precedes(read'[i], last, order)
      BY <1>1, <2>1, <2>4 DEF InOrderSoFar, Last
    <3>4. read'[i] \in S /\ read'[j] \in S /\ last \in S
      BY <1>6, <1>7, <2>1, <2>4, <3>1 DEF ToSet, Last
    <3>5. Timed(S, order)
      <4>1. S \subseteq Ids /\ \A id \in S : Record[id].table = asked.table
        BY <1>6, <1>10 DEF ToSet
      <4> HIDE DEF S
      <4> QED
        BY <1>1, <4>1, TableIsTimed DEF SaysWanted
    <3> HIDE DEF S
    <3> QED
      BY <2>4, <3>2, <3>3, <3>4, <3>5, PrecedesIsOrder DEF Last
  <2> QED
    BY <1>6, <2>2, <2>3, <2>4
<1>12. ASSUME NEW id \in begun', Wanted(id), read' # <<>>, ~Precedes(Last(read'), id, order)
       PROVE  id \in ToSet(read')
  <2>1. CASE id \in ToSet(read)
    BY <1>6, <2>1
  <2>2. CASE id \notin ToSet(read)
    <3>1. PICK n \in DOMAIN rows : rows[n] = id
      BY <1>8, <1>12, <2>2
    <3>2. m # 0 /\ ids # <<>>
      <4>1. n \in 1..Len(rows) /\ Len(rows) \in Nat
        BY <1>4, <3>1
      <4>2. Len(rows) # 0
        BY <4>1
      <4> QED
        BY <1>3, <1>4, <4>2
    <3>3. Last(read') = rows[m] /\ m \in DOMAIN rows
      <4>1. m \in 1..m
        BY <3>2
      <4>2. m \in DOMAIN ids
        BY <1>4, <4>1
      <4>3. Last(ids) = ids[m]
        BY <1>3 DEF Last
      <4> QED
        BY <1>4, <1>6, <3>2, <4>2, <4>3
    <3>4. n \in 1..m
      BY <1>2, <1>4, <1>12, <3>1, <3>3
    <3> QED
      BY <1>4, <1>6, <3>1, <3>4 DEF ToSet
  <2> QED
    BY <2>1, <2>2
<1>13. InOrderSoFar'
  BY <1>1, <1>5, <1>6, <1>10, <1>11, <1>12 DEF InOrderSoFar
<1>14. GoesOn'
  BY <1>1, <1>3, <1>6 DEF GoesOn
<1>15. PageWanted'
  <2>1. \A i \in DOMAIN ids : Wanted(ids[i])
    BY <1>2, <1>4
  <2>2. ASSUME m = Len(rows), NEW id \in begun', Wanted(id) PROVE id \in ToSet(read')
    BY <1>4, <1>6, <1>8, <2>2 DEF ToSet
  <2>3. m # Len(rows) => read' # <<>> /\ result'.cursor.last = Last(read')
    BY <1>3, <1>4, <1>6
  <2> QED
    BY <1>1, <1>3, <1>5, <2>1, <2>2, <2>3 DEF PageWanted, ids
<1> QED
  BY <1>1, <1>3, <1>9, <1>13, <1>14, <1>15 DEF QueriesInv

-----------------------------------------------------------------------------
(* What holds of every query.                                               *)

LEMMA QueriesInvInit == QueriesInit => QueriesInv
BY StoreAssumption DEF QueriesInit, QueriesInv

LEMMA QueriesInvStutters ==
  ASSUME QueriesInv, UNCHANGED queryVars
  PROVE  QueriesInv'
<1>1. UNCHANGED <<stored, value, asked, query, result, read, begun>>
  BY DEF queryVars
<1>2. SaysWanted => SaysWanted'
  BY <1>1, WantedStays DEF SaysWanted, Meets
<1>3. InOrderSoFar => InOrderSoFar'
  BY <1>1, WantedStays DEF InOrderSoFar
<1>4. GoesOn => GoesOn'
  BY <1>1 DEF GoesOn
<1>5. PageWanted => PageWanted'
  BY <1>1, WantedStays DEF PageWanted
<1> QED
  BY <1>1, <1>2, <1>3, <1>4, <1>5 DEF QueriesInv

\* A query goes on saying what was asked for, and its cursor standing where
\* what has been read ends, however the caller pages and records arrive.
THEOREM QueriesInvariant == QueriesSpec => []QueriesInv
<1>1. QueriesInit => QueriesInv
  BY QueriesInvInit
<1>2. QueriesInv /\ [QueriesNext]_queryVars => QueriesInv'
  <2> SUFFICES ASSUME QueriesInv, [QueriesNext]_queryVars PROVE QueriesInv'
    OBVIOUS
  <2>1. CASE UNCHANGED queryVars
    BY <2>1, QueriesInvStutters
  <2>2. CASE QueriesNext
    BY <2>2, ArriveStep, AskStep, PageStep, SelectingStep, ExecuteStep DEF QueriesNext
  <2> QED
    BY <2>1, <2>2
<1> QED
  BY <1>1, <1>2, PTL DEF QueriesSpec

\* A page has what its caller asked for and nothing else, and is no longer than
\* was asked: the predicates that a helper sets in _bounded, logs, spans and
\* metric_series cannot be widened, and _items refuses what is too long.
THEOREM AnswersGetAsked == QueriesSpec => []AnswersAreAsked
<1>1. QueriesInv => AnswersAreAsked
  BY DEF QueriesInv, PageWanted, AnswersAreAsked
<1> QED
  BY <1>1, QueriesInvariant, PTL

\* Following the cursors of page and execute, a caller reads each record once,
\* in the promised order, and misses none that was stored when it began.
THEOREM PagesReadOnce == QueriesSpec => []ReadOnce
<1>1. QueriesInv => ReadOnce
  <2> SUFFICES ASSUME QueriesInv PROVE ReadOnce
    OBVIOUS
  <2>1. CASE query = NoQuery
    BY <2>1 DEF QueriesInv, ReadOnce
  <2>2. CASE query # NoQuery
    BY <2>2 DEF QueriesInv, InOrderSoFar, PageWanted, ReadOnce
  <2> QED
    BY <2>1, <2>2
<1> QED
  BY <1>1, QueriesInvariant, PTL

-----------------------------------------------------------------------------
(* What the reductions rely on.                                             *)

\* A question that is not one for a snapshot has no page yet to speak of.
LEMMA PlainAskKeepsPage ==
  ASSUME QueriesInv, PageInv, NEW question, NEW q, Ask(question, q), ~question.health
  PROVE  PageInv'
<1>1. result' = NoResult /\ value' = value /\ asked' = question
  BY DEF Ask, QueriesInv
<1> QED
  BY <1>1 DEF PageInv

LEMMA HealthAskKeepsPage ==
  ASSUME QueriesInv, PageInv, NEW names, NEW start, NEW end, service_health(names, start, end)
  PROVE  PageInv'
<1> DEFINE question == [NoQuestion EXCEPT !.table = "metrics", !.start = start, !.end = end,
                                          !.names = ToSet(names), !.health = TRUE]
           bounded == Bounded("metrics", start, end, Set(<<>>, "name", "in", ToSet(names)), SeriesOrder)
           q == [bounded EXCEPT !.limit = HealthPage]
<1>1. Ask(question, q)
  BY DEF service_health
<1>2. result' = NoResult /\ value' = value /\ asked' = question /\ query' = q
  BY <1>1 DEF Ask, QueriesInv
<1>3. question.table = "metrics"
  BY DEF NoQuestion
<1>4. q.select = <<>> /\ q.cursor = NoCursor /\ q.limit = MaxPageSize
  <2>1. /\ {"select", "cursor", "limit"} \subseteq DOMAIN bounded
        /\ bounded.select = <<>> /\ bounded.cursor = NoCursor
    BY DEF Bounded
  <2> HIDE DEF bounded
  <2> QED
    BY <2>1 DEF HealthPage
<1> HIDE DEF question, q
<1> QED
  BY <1>2, <1>3, <1>4 DEF PageInv

LEMMA AskKeepsPage ==
  ASSUME QueriesInv, PageInv, AskSomething
  PROVE  PageInv'
<1>1. ASSUME NEW start, NEW end, NEW floor, NEW id, NEW where, logs(start, end, floor, id, where)
      PROVE  PageInv'
  <2> DEFINE question == [NoQuestion EXCEPT !.table = "logs", !.start = start, !.end = end,
                                            !.floor = floor, !.trace = id, !.where = where]
  <2>1. ~question.health
    BY DEF NoQuestion
  <2>2. \E q : Ask(question, q)
    BY <1>1 DEF logs
  <2> HIDE DEF question
  <2> QED
    BY <2>1, <2>2, PlainAskKeepsPage
<1>2. ASSUME NEW start, NEW end, NEW id, NEW where, spans(start, end, id, where)
      PROVE  PageInv'
  <2> DEFINE question == [NoQuestion EXCEPT !.table = "spans", !.start = start, !.end = end,
                                            !.trace = id, !.where = where]
  <2>1. ~question.health
    BY DEF NoQuestion
  <2>2. \E q : Ask(question, q)
    BY <1>2 DEF spans
  <2> HIDE DEF question
  <2> QED
    BY <2>1, <2>2, PlainAskKeepsPage
<1>3. ASSUME NEW name, NEW start, NEW end, NEW dimensions, metric_series(name, start, end, dimensions)
      PROVE  PageInv'
  <2> DEFINE question == [NoQuestion EXCEPT !.table = "metrics", !.start = start, !.end = end,
                                            !.names = {name}, !.where = dimensions]
  <2>1. ~question.health
    BY DEF NoQuestion
  <2>2. \E q : Ask(question, q)
    BY <1>3 DEF metric_series
  <2> HIDE DEF question
  <2> QED
    BY <2>1, <2>2, PlainAskKeepsPage
<1> QED
  BY <1>1, <1>2, <1>3, HealthAskKeepsPage DEF AskSomething, trace, related_logs

\* A replaced query has no page either, and a snapshot's is not replaced.
LEMMA ReplaceKeepsPage ==
  ASSUME PageInv, NEW q, NEW before, Replace(q, before)
  PROVE  PageInv'
BY DEF Replace, PageInv

LEMMA ExecuteKeepsPage ==
  ASSUME QueriesInv, PageInv, NEW more \in 0..1, execute(more)
  PROVE  PageInv'
<1> DEFINE rows == Rows(query)
           ids == result'.ids
           S == {id \in stored : Wanted(id)}
<1>1. /\ query # NoQuery /\ SaysWanted /\ InOrderSoFar /\ GoesOn /\ result = NoResult
      /\ stored \subseteq Ids /\ begun \subseteq stored
      /\ begun' = (IF query.cursor = NoCursor THEN stored ELSE begun)
      /\ UNCHANGED <<stored, value, asked, query>>
  BY DEF execute, QueriesInv
<1>2. /\ rows \in Seq(Ids)
      /\ \A i, j \in DOMAIN rows : i < j => Precedes(rows[i], rows[j], PromisedOrder[asked.table])
  BY <1>1, RowsAreWanted
<1>3. query.cursor = NoCursor => Len(rows) = Cardinality(S)
  BY <1>1, RowsAreWanted
<1>4. PICK m \in Nat :
        /\ ids \in Seq(Ids) /\ Len(ids) = m /\ m <= Len(rows)
        /\ (m = Len(rows) \/ query.limit < Len(rows))
        /\ \A n \in 1..m : ids[n] = rows[n]
        /\ read' = read \o ids
        /\ (m = Len(rows) => result'.cursor = NoCursor)
  BY PageOfRows
<1>5. \A n \in DOMAIN rows : rows[n] \in stored
  <2>1. Rows(query) = Sorted(Times({id \in stored : Matches(id, query)}, query.order))
    BY DEF Rows, Times
  <2>2. Timed({id \in stored : Matches(id, query)}, query.order)
    <3>1. {id \in stored : Matches(id, query)} \in SUBSET Ids /\ asked.table \in Tables
          /\ \A id \in {i \in stored : Matches(i, query)} : Record[id].table = asked.table
      BY <1>1 DEF SaysWanted, Matches
    <3> QED
      BY <1>1, <3>1, TableIsTimed DEF SaysWanted
  <2>3. rows \in Seq({id \in stored : Matches(id, query)})
    BY <2>1, <2>2, IdsAreSorted
  <2> QED
    BY <2>3
<1> HIDE DEF rows, ids
<1>6. DOMAIN ids = 1..m /\ DOMAIN ids \subseteq DOMAIN rows
  BY <1>2, <1>4
<1>7. \A id : Wanted(id)' <=> Wanted(id)
  BY <1>1, WantedStays
<1>8. \A i, j \in DOMAIN ids : i < j => Precedes(ids[i], ids[j], PromisedOrder[asked.table])
  BY <1>2, <1>4, <1>6
<1>9. ASSUME asked.health
      PROVE  /\ read' = ids /\ ToSet(read') \subseteq begun'
             /\ result'.cursor # NoCursor => MaxPageSize < Cardinality({id \in begun' : Wanted(id)'})
  <2>1. query.cursor = NoCursor /\ query.limit = MaxPageSize
    BY <1>1, <1>9 DEF PageInv
  <2>2. begun' = stored /\ read = <<>> /\ read' = ids
    BY <1>1, <1>4, <2>1 DEF GoesOn
  <2>3. ToSet(ids) \subseteq stored
    BY <1>4, <1>5, <1>6 DEF ToSet
  <2>4. {id \in begun' : Wanted(id)'} = S
    BY <1>7, <2>2
  <2> HIDE DEF S
  <2> QED
    BY <1>3, <1>4, <2>1, <2>2, <2>3, <2>4
<1> QED
  BY <1>1, <1>8, <1>9 DEF PageInv, ids

\* A page is in the promised order, and the page of a snapshot has all that was
\* stored or is full, whatever arrives while it is read.
THEOREM PagesInvariant == QueriesSpec => []PageInv
<1>1. QueriesInit => PageInv
  BY DEF QueriesInit, PageInv
<1>2. QueriesInv /\ PageInv /\ [QueriesNext]_queryVars => PageInv'
  <2> SUFFICES ASSUME QueriesInv, PageInv, [QueriesNext]_queryVars PROVE PageInv'
    OBVIOUS
  <2>1. CASE UNCHANGED queryVars
    BY <2>1, WantedStays DEF queryVars, PageInv
  <2>2. CASE \E id \in Late : Arrive(id)
    BY <2>2, WantedStays DEF Arrive, PageInv
  <2>3. CASE AskSomething
    BY <2>3, AskKeepsPage
  <2>4. CASE \E limit \in Limits, cursor \in Cursors : page(limit, cursor)
    BY <2>4, ReplaceKeepsPage DEF page
  <2>5. CASE \E fields \in Selects : selecting(fields)
    BY <2>5, ReplaceKeepsPage DEF selecting
  <2>6. CASE \E more \in 0..1 : execute(more)
    BY <2>6, ExecuteKeepsPage
  <2> QED
    BY <2>1, <2>2, <2>3, <2>4, <2>5, <2>6 DEF QueriesNext
<1> QED
  BY <1>1, <1>2, QueriesInvariant, PTL DEF QueriesSpec

-----------------------------------------------------------------------------
(* The reductions of the pages that a caller reads.                         *)

\* The fields of a point: its value, and what its record has.
LEMMA PointHas ==
  ASSUME value \in Amounts, NEW id \in Ids, Record[id].table = "metrics", NEW select
  PROVE  LET item == Projected(id, select) IN
         /\ Get(item, "value") \in {None, value[id]} /\ value[id] \in Int \cup {None}
         /\ \A f \in DOMAIN item \ {"value"} : item[f] = Record[id][f]
         /\ select = <<>> => /\ "value" \in DOMAIN item /\ item["value"] = value[id]
                             /\ "name" \in DOMAIN item /\ item["name"] = Record[id].name
<1> DEFINE item == Item(id)
           projected == Projected(id, select)
<1>1. /\ DOMAIN item = {"value"} \cup DOMAIN Record[id] /\ item["value"] = value[id]
      /\ \A f \in DOMAIN item \ {"value"} : item[f] = Record[id][f]
  BY DEF Item, Over, Only
<1>2. value[id] \in Int \cup {None}
  BY PointsAssumption
<1>3. "name" \in DOMAIN Record[id]
  BY StoreAssumption
<1> HIDE DEF item
<1>4. CASE select = <<>>
  <2>1. projected = item
    BY <1>4 DEF Projected, item
  <2> QED
    BY <1>1, <1>2, <1>3, <2>1 DEF Get
<1>5. CASE select # <<>>
  <2>1. /\ DOMAIN projected \subseteq DOMAIN item
        /\ \A f \in DOMAIN projected : projected[f] = item[f]
    BY <1>5 DEF Projected, Restrict, item
  <2> HIDE DEF projected
  <2>2. Get(projected, "value") \in {None, value[id]}
    BY <1>1, <2>1 DEF Get
  <2> QED
    BY <1>1, <1>2, <1>5, <2>1, <2>2 DEF projected
<1> QED
  BY <1>4, <1>5

LEMMA PageHas ==
  ASSUME QueriesInv, PageInv
  PROVE  /\ Reducible(Page, "value")
         /\ Page # <<>> =>
              /\ result # NoResult /\ result.ids \in Seq(Ids) /\ DOMAIN Page = DOMAIN result.ids
              /\ asked.table = "metrics" /\ SaysWanted
              /\ \A i \in DOMAIN Page :
                   /\ Page[i] = Projected(result.ids[i], query.select)
                   /\ result.ids[i] \in Ids /\ Record[result.ids[i]].table = "metrics"
                   /\ Wanted(result.ids[i])
<1>1. CASE result = NoResult \/ asked.table # "metrics"
  <2>1. Page = <<>>
    BY <1>1 DEF Page
  <2>2. Reducible(<<>>, "value")
    BY DEF Reducible
  <2> QED
    BY <2>1, <2>2
<1>2. CASE result # NoResult /\ asked.table = "metrics"
  <2>1. SaysWanted /\ PageWanted /\ value \in Amounts
    BY <1>2 DEF QueriesInv, PageInv
  <2>2. result.ids \in Seq(Ids) /\ DOMAIN result.ids = 1..Len(result.ids) /\ Len(result.ids) \in Nat
    BY <2>1 DEF PageWanted
  <2>3. Page = [i \in 1..Len(result.ids) |-> Projected(result.ids[i], query.select)]
    BY <1>2, <2>2 DEF Page
  <2>4. ASSUME NEW i \in DOMAIN result.ids
        PROVE  /\ result.ids[i] \in Ids /\ Wanted(result.ids[i])
               /\ Record[result.ids[i]].table = "metrics"
    <3>1. result.ids[i] \in Ids /\ Wanted(result.ids[i])
      BY <2>1, <2>2 DEF PageWanted
    <3> QED
      BY <1>2, <3>1, ItemHas DEF Wanted
  <2>5. \A i \in DOMAIN result.ids :
          Get(Projected(result.ids[i], query.select), "value") \in Int \cup {None}
    BY <2>1, <2>4, PointHas
  <2>6. Len(Page) = Len(result.ids) /\ DOMAIN Page = 1..Len(result.ids)
    BY <2>2, <2>3
  <2>7. Reducible(Page, "value")
    BY <2>2, <2>3, <2>5, <2>6 DEF Reducible
  <2> QED
    BY <1>2, <2>1, <2>2, <2>3, <2>4, <2>6, <2>7
<1> QED
  BY <1>1, <1>2

\* The groups of a page that group_by makes miss no item and no value of it, and
\* an average lies between the extremes that the same group has.
THEOREM GroupsAlwaysAddUp == QueriesSpec => []GroupsAddUp
<1>1. QueriesInv /\ PageInv => GroupsAddUp
  <2> SUFFICES ASSUME QueriesInv, PageInv PROVE GroupsAddUp
    OBVIOUS
  <2>1. Reducible(Page, "value")
    BY PageHas
  <2> QED
    BY <2>1, CountsAddUp, SumsAddUp, AveragesLieBetween DEF GroupsAddUp, Points, Values
<1> QED
  BY <1>1, QueriesInvariant, PagesInvariant, PTL

\* On the points of a metric series, in the order that metric_series promises,
\* delta and rate measure the same change.
THEOREM DeltaIsAlwaysRate == QueriesSpec => []DeltaIsRate
<1>1. QueriesInv /\ PageInv => DeltaIsRate
  <2> SUFFICES ASSUME QueriesInv, PageInv, \A i \in DOMAIN Page : "endTime" \in DOMAIN Page[i]
               PROVE  LET change == delta(Page, "value")
                          speed == rate(Page, "value", "endTime")
                      IN  /\ speed # None => speed[1] = change /\ speed[2] > 0
                          /\ change # None /\ speed = None =>
                               Cardinality({Page[i].endTime : i \in Points}) = 1
    BY DEF DeltaIsRate
  <2>1. Reducible(Page, "value")
    BY PageHas
  <2>2. ASSUME NEW i \in DOMAIN Page
        PROVE  Page[i]["endTime"] = Record[result.ids[i]]["endTime"] /\ Page[i]["endTime"] \in Int
    <3>1. /\ Page[i] = Projected(result.ids[i], query.select)
          /\ result.ids[i] \in Ids /\ Record[result.ids[i]].table = "metrics"
      BY <2>2, PageHas
    <3>2. Page[i]["endTime"] = Record[result.ids[i]]["endTime"]
      <4>1. \A f \in DOMAIN Page[i] \ {"value"} : Page[i][f] = Record[result.ids[i]][f]
        BY <3>1, PointHas DEF PageInv
      <4>2. "endTime" \in DOMAIN Page[i] \ {"value"}
        BY <2>2
      <4> QED
        BY <4>1, <4>2
    <3>3. PromisedOrder["metrics"] = "endTime"
      BY DEF PromisedOrder
    <3>4. Record[result.ids[i]][PromisedOrder[Record[result.ids[i]].table]] \in Int
      BY <3>1, StoreAssumption
    <3> QED
      BY <3>1, <3>2, <3>3, <3>4
  <2>3. ASSUME NEW i \in DOMAIN Page, NEW j \in DOMAIN Page, i < j
        PROVE  Page[i]["endTime"] <= Page[j]["endTime"]
    <3>1. /\ result # NoResult /\ DOMAIN Page = DOMAIN result.ids
          /\ PromisedOrder[asked.table] = "endTime"
      BY <2>3, PageHas DEF PromisedOrder
    <3>2. Precedes(result.ids[i], result.ids[j], "endTime")
      BY <2>3, <3>1 DEF PageInv
    <3> QED
      BY <2>2, <3>2 DEF Precedes
  <2> QED
    BY <2>1, <2>2, <2>3, DeltaTellsRate DEF Points
<1> QED
  BY <1>1, QueriesInvariant, PagesInvariant, PTL

\* A quantile is a value of the page, or divides the gap between two neighbours in
\* the order of all of them as its position does; it grows with the quantile asked
\* for and forgets the order of the page (lines 371-384), for pages of any length.
THEOREM QuantilesAreAlwaysOrdered == QueriesSpec => []QuantilesAreOrdered
<1>1. QueriesInv /\ PageInv => QuantilesAreOrdered
  <2> SUFFICES ASSUME QueriesInv, PageInv PROVE QuantilesAreOrdered
    OBVIOUS
  <2> DEFINE at(items, k) == histogram_quantile(items, k, 4, "value")
             N == Cardinality(Points)
             scaled(k) == (N - 1) * k
             vs == Ascending(Values)
  <2>1. Reducible(Page, "value")
    BY PageHas
  <2>2. ASSUME NEW k \in 0..4
        PROVE  /\ N \in Nat /\ (Points = {} <=> N = 0)
               /\ IF N = 0 THEN at(Page, k) = None
                  ELSE /\ scaled(k) \in 0..4 * (N - 1)
                       /\ at(Page, k) = <<Between(vs, scaled(k)), 4>> /\ at(Page, k) # None
                       /\ IsQuantile(Values, k, 4, at(Page, k))
    BY <2>1, QuantileOfValues DEF Points, Values
  <2>3. \A k \in 0..4 : at(Page, k) = at(Reverse(Page), k)
    BY <2>1, ReversedQuantile
  <2>4. ASSUME N # 0 PROVE Ascends(vs) /\ Len(vs) = N
    <3>1. Listed(Values) /\ DOMAIN Values = Points
      BY <2>1, ColumnIsListed DEF Points, Values
    <3>2. /\ N \in Nat /\ vs \in Seq(Int) /\ Len(vs) = N
          /\ \A m, n \in 1..N : m <= n => vs[m] <= vs[n]
      BY <3>1, AscendingIsOrdered
    <3> QED
      BY <2>4, <3>2 DEF Ascends
  <2>5. ASSUME N # 0, NEW k \in 0..3 PROVE at(Page, k)[1] <= at(Page, k + 1)[1]
    <3>1. k \in 0..4 /\ k + 1 \in 0..4
      OBVIOUS
    <3> HIDE DEF at, vs, N, scaled
    <3>2. /\ scaled(k) \in 0..4 * (N - 1) /\ scaled(k + 1) \in 0..4 * (N - 1)
          /\ at(Page, k)[1] = Between(vs, scaled(k)) /\ at(Page, k + 1)[1] = Between(vs, scaled(k + 1))
      BY <2>2, <2>5, <3>1
    <3>3. scaled(k) <= scaled(k + 1)
      <4>1. N - 1 \in Nat
        BY <2>2, <2>5, <3>1
      <4> QED
        BY <4>1 DEF scaled
    <3> HIDE DEF vs, scaled, N, at
    <3> QED
      BY <2>4, <2>5, <3>2, <3>3, BetweenGrows
  <2> HIDE DEF vs, N, at
  <2>6. \A k \in 0..4 : k < 4 => k \in 0..3
    OBVIOUS
  <2> QED
    BY <2>2, <2>3, <2>5, <2>6 DEF QuantilesAreOrdered, at, N
<1> QED
  BY <1>1, QueriesInvariant, PagesInvariant, PTL

LEMMA MovedSum ==
  ASSUME NEW v, NEW w, NEW h, Listed(v), Moved(v, w, h)
  PROVE  SumFunction(v) = SumFunction(w)
<1>1. SumFunctionOnSet(v, DOMAIN v) = SumFunctionOnSet(w, {h[i] : i \in DOMAIN v})
  <2>1. \A i \in DOMAIN v : v[i] \in Int /\ v[i] = w[h[i]]
    BY DEF Listed, Moved
  <2>2. IsFiniteSet(DOMAIN v) /\ \A i, j \in DOMAIN v : h[i] = h[j] => i = j
    BY DEF Listed, Moved
  <2> QED
    BY <2>1, <2>2, SumMoves
<1> QED
  BY <1>1 DEF SumFunction, Moved

\* The page of a snapshot that fits: the points that the caller wants, each
\* of them once.
LEMMA SnapshotHasAll ==
  ASSUME QueriesInv, PageInv, asked.health, result # NoResult,
         Cardinality({id \in begun : Wanted(id)}) <= MaxPageSize
  PROVE  LET ids == result.ids IN
         /\ DOMAIN Page = DOMAIN ids /\ DOMAIN ids = 1..Len(ids) /\ Len(ids) \in Nat
         /\ \A i, j \in DOMAIN ids : ids[i] = ids[j] => i = j
         /\ {id \in begun : Wanted(id)} = {ids[i] : i \in DOMAIN ids}
         /\ \A i \in DOMAIN ids :
              /\ ids[i] \in Ids /\ value[ids[i]] \in Int \cup {None}
              /\ "value" \in DOMAIN Page[i] /\ Page[i]["value"] = value[ids[i]]
              /\ "name" \in DOMAIN Page[i] /\ Page[i]["name"] = Record[ids[i]].name
<1> DEFINE ids == result.ids
           W == {id \in begun : Wanted(id)}
<1>1. /\ query # NoQuery /\ SaysWanted /\ PageWanted
      /\ asked.table = "metrics" /\ query.select = <<>> /\ value \in Amounts
      /\ read = ids /\ ToSet(read) \subseteq begun
      /\ \A i, j \in DOMAIN ids : i < j => Precedes(ids[i], ids[j], PromisedOrder["metrics"])
  BY DEF QueriesInv, PageInv
<1>2. result.cursor = NoCursor
  <2>1. IsFiniteSet(W)
    BY StoreAssumption, FS_Subset DEF QueriesInv
  <2>2. Cardinality(W) \in Nat /\ MaxPageSize \in Nat
    BY <2>1, FS_CardinalityType, QueriesAssumption
  <2>3. result.cursor # NoCursor => MaxPageSize < Cardinality(W)
    BY DEF PageInv
  <2> HIDE DEF W
  <2> QED
    BY <2>2, <2>3 DEF W
<1>3. ids \in Seq(Ids) /\ DOMAIN ids = 1..Len(ids) /\ Len(ids) \in Nat
  BY <1>1 DEF PageWanted
<1>4. \A i \in DOMAIN ids : ids[i] \in Ids /\ Wanted(ids[i]) /\ Record[ids[i]].table = "metrics"
  <2> TAKE i \in DOMAIN ids
  <2>1. ids[i] \in Ids /\ Wanted(ids[i])
    BY <1>1, <1>3 DEF PageWanted
  <2> QED
    BY <1>1, <2>1, ItemHas DEF Wanted
<1>5. W = {ids[i] : i \in DOMAIN ids}
  <2>1. ToSet(ids) = {ids[i] : i \in DOMAIN ids}
    BY DEF ToSet
  <2>2. \A id \in begun : Wanted(id) => id \in ToSet(ids)
    BY <1>1, <1>2 DEF PageWanted
  <2>3. \A id \in ToSet(ids) : id \in begun /\ Wanted(id)
    BY <1>1, <1>4 DEF ToSet
  <2> HIDE DEF ids
  <2> QED
    BY <2>1, <2>2, <2>3
<1>6. ASSUME NEW i \in DOMAIN ids, NEW j \in DOMAIN ids, ids[i] = ids[j] PROVE i = j
  <2>1. Timed({ids[i]}, PromisedOrder["metrics"])
    <3>1. {ids[i]} \in SUBSET Ids /\ \A id \in {ids[i]} : Record[id].table = "metrics"
      BY <1>4
    <3> QED
      BY <3>1, TableIsTimed DEF Tables
  <2>2. ~Precedes(ids[i], ids[i], PromisedOrder["metrics"])
    BY <2>1, PrecedesIsOrder
  <2>3. i \in Int /\ j \in Int
    BY <1>3
  <2>4. ~(i < j) /\ ~(j < i)
    BY <1>1, <1>6, <2>2
  <2> QED
    BY <2>3, <2>4
<1>7. DOMAIN Page = DOMAIN ids /\ \A i \in DOMAIN ids : Page[i] = Projected(ids[i], <<>>)
  BY <1>1 DEF Page
<1>8. ASSUME NEW i \in DOMAIN ids
      PROVE  /\ ids[i] \in Ids /\ value[ids[i]] \in Int \cup {None}
             /\ "value" \in DOMAIN Page[i] /\ Page[i]["value"] = value[ids[i]]
             /\ "name" \in DOMAIN Page[i] /\ Page[i]["name"] = Record[ids[i]].name
  <2>1. Page[i] = Projected(ids[i], <<>>) /\ ids[i] \in Ids /\ Record[ids[i]].table = "metrics"
    BY <1>4, <1>7
  <2> HIDE DEF ids
  <2> QED
    BY <1>1, <2>1, PointHas
<1> QED
  BY <1>3, <1>5, <1>6, <1>7, <1>8

\* What a snapshot takes for one of its metrics, by place on the page, are the
\* values that the points of that metric have, by id.
LEMMA SnapshotMoves ==
  ASSUME QueriesInv, PageInv, asked.health, result # NoResult,
         Cardinality({id \in begun : Wanted(id)}) <= MaxPageSize, NEW n
  PROVE  LET v == Column(Page, "value", {i \in Numeric(Page, "value") :
                                           CountsFor(Get(Page[i], "name"), HealthMetrics, n)})
             w == Restrict(value, {id \in begun : /\ Wanted(id) /\ value[id] # None
                                                  /\ CountsFor(Record[id].name, HealthMetrics, n)})
         IN  Listed(v) /\ Listed(w) /\ Moved(v, w, result.ids)
<1> DEFINE ids == result.ids
           S == {i \in Numeric(Page, "value") : CountsFor(Get(Page[i], "name"), HealthMetrics, n)}
           T == {id \in begun : /\ Wanted(id) /\ value[id] # None
                                /\ CountsFor(Record[id].name, HealthMetrics, n)}
           v == Column(Page, "value", S)
           w == Restrict(value, T)
<1>1. /\ DOMAIN Page = DOMAIN ids /\ DOMAIN ids = 1..Len(ids) /\ Len(ids) \in Nat
      /\ \A i, j \in DOMAIN ids : ids[i] = ids[j] => i = j
      /\ {id \in begun : Wanted(id)} = {ids[i] : i \in DOMAIN ids}
  BY SnapshotHasAll
<1>2. \A i \in DOMAIN ids :
        /\ ids[i] \in Ids /\ value[ids[i]] \in Int \cup {None}
        /\ "value" \in DOMAIN Page[i] /\ Page[i]["value"] = value[ids[i]]
        /\ "name" \in DOMAIN Page[i] /\ Page[i]["name"] = Record[ids[i]].name
  BY SnapshotHasAll
<1>3. \A i \in DOMAIN ids : Get(Page[i], "value") = value[ids[i]] /\ Get(Page[i], "name") = Record[ids[i]].name
  BY <1>2 DEF Get
<1>4. S = {i \in DOMAIN ids : value[ids[i]] # None /\ CountsFor(Record[ids[i]].name, HealthMetrics, n)}
  BY <1>1, <1>3 DEF Numeric
<1>5. T = {id \in {ids[i] : i \in DOMAIN ids} :
             value[id] # None /\ CountsFor(Record[id].name, HealthMetrics, n)}
  BY <1>1
<1>6. DOMAIN v = S /\ \A i \in S : v[i] = Page[i]["value"]
  BY DEF Column
<1>7. DOMAIN w = T /\ \A id \in T : w[id] = value[id]
  BY DEF Restrict
<1> HIDE DEF ids, S, T, v, w
<1>8. T = {ids[i] : i \in S}
  BY <1>4, <1>5
<1>9. S \subseteq DOMAIN ids /\ T \subseteq Ids
  BY <1>2, <1>4, <1>5
<1>10. \A i \in S : v[i] \in Int /\ v[i] = w[ids[i]] /\ ids[i] \in T
  BY <1>2, <1>4, <1>6, <1>7, <1>8
<1>11. Moved(v, w, ids)
  BY <1>1, <1>6, <1>7, <1>8, <1>9, <1>10 DEF Moved
<1>12. Listed(v)
  <2>1. IsFiniteSet(DOMAIN ids) /\ DOMAIN ids \subseteq Int
    <3>1. \A m \in Nat : IsFiniteSet(1..m) /\ 1..m \subseteq Int
      BY FS_Interval
    <3> QED
      BY <1>1, <3>1
  <2>2. IsFiniteSet(S)
    BY <1>9, <2>1, FS_Subset
  <2> QED
    BY <1>6, <1>9, <1>10, <2>1, <2>2 DEF Listed
<1>13. Listed(w)
  <2>1. IsFiniteSet(T) /\ T \subseteq Int
    BY <1>9, StoreAssumption, FS_Subset
  <2> QED
    BY <1>7, <1>8, <1>10, <2>1 DEF Listed
<1> QED
  BY <1>11, <1>12, <1>13 DEF ids, S, T, v, w

\* A snapshot of service_health has all the requests, errors and latencies of
\* its interval, as long as their points fit in the largest page; its latency is
\* the percentile of all latencies, wherever on the page they are.
THEOREM SnapshotsAreWhole == QueriesSpec => []HealthIsWhole
<1>1. QueriesInv /\ PageInv => HealthIsWhole
  <2> SUFFICES ASSUME QueriesInv, PageInv, asked.health, result # NoResult,
                      Cardinality({id \in begun : Wanted(id)}) <= MaxPageSize
               PROVE  LET of(n) == Restrict(value, {id \in begun :
                                      /\ Wanted(id) /\ value[id] # None
                                      /\ CountsFor(Record[id].name, HealthMetrics, n)})
                      IN  /\ Health.requests = SumFunction(of(1))
                          /\ Health.errors = SumFunction(of(2))
                          /\ IF DOMAIN of(3) = {} THEN Health.latency_p95 = None
                             ELSE IsPercentile(of(3), TailPercent, Health.latency_p95)
    BY DEF HealthIsWhole
  <2> DEFINE of(n) == Restrict(value, {id \in begun : /\ Wanted(id) /\ value[id] # None
                                                      /\ CountsFor(Record[id].name, HealthMetrics, n)})
             on(n) == Column(Page, "value", {i \in Numeric(Page, "value") :
                                               CountsFor(Get(Page[i], "name"), HealthMetrics, n)})
             latencies == Ascending(on(3))
  <2>1. /\ Health.requests = SumFunction(on(1)) /\ Health.errors = SumFunction(on(2))
        /\ Health.latency_p95 = IF Len(latencies) = 0 THEN None ELSE latencies[Rank(Len(latencies))]
    BY DEF Health, Snapshot
  <2>2. \A n : Listed(on(n)) /\ Listed(of(n)) /\ Moved(on(n), of(n), result.ids)
    BY SnapshotMoves
  <2> HIDE DEF on, of
  <2>3. SumFunction(on(1)) = SumFunction(of(1)) /\ SumFunction(on(2)) = SumFunction(of(2))
    BY <2>2, MovedSum
  <2>4. latencies = Ascending(of(3))
    BY <2>2, AscendingMoves
  <2>5. DOMAIN of(3) = {} => Len(Ascending(of(3))) = 0
    BY <2>2, AscendingIsOrdered, FS_EmptySet
  <2>6. DOMAIN of(3) # {} => LET vs == Ascending(of(3)) IN
          Len(vs) # 0 /\ IsPercentile(of(3), TailPercent, vs[Rank(Len(vs))])
    BY <2>2, TailIsPercentile
  <2>7. IF DOMAIN of(3) = {} THEN Health.latency_p95 = None
        ELSE IsPercentile(of(3), TailPercent, Health.latency_p95)
    BY <2>1, <2>4, <2>5, <2>6
  <2> QED
    BY <2>1, <2>3, <2>7 DEF of
<1> QED
  BY <1>1, QueriesInvariant, PagesInvariant, PTL

=============================================================================
