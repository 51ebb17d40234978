----------------------------- MODULE DataLemmas -----------------------------
(* Facts about data that the provers' theories leave out: least and greatest *)
(* elements, induction over naturals and over finite sets, and what the      *)
(* sums of FiniteSetsExt compute.                                            *)
(*                                                                           *)
(* The induction theorems of the library take a predicate, which the provers *)
(* cannot instantiate.  Here it is a set: that of the values for which the   *)
(* predicate holds.  What is not in it has a least element.                  *)
EXTENDS Integers, FiniteSets, FiniteSetsExt, FiniteSetTheorems, NaturalsInduction,
        WellFoundedInduction, TLAPS

-----------------------------------------------------------------------------
(* Least and greatest elements.                                              *)

\* A set of naturals that is not empty has a least element, and Min names it.
LEMMA MinIsLeast ==
  ASSUME NEW S \in SUBSET Nat, S # {}
  PROVE  Min(S) \in S /\ \A x \in S : Min(S) <= x
  <1>1. PICK x \in S : \A y \in S : ~(<<y, x>> \in OpToRel(<, Nat))
    BY WFMin, NatLessThanWellFounded, Zenon
  <1>2. \A y \in S : x <= y
    <2> DEFINE R == {p \in Nat \X Nat : p[1] < p[2]}
    <2>1. OpToRel(<, Nat) = R
      BY Zenon DEF OpToRel
    <2>2. \A y \in S : ~(<<y, x>> \in R)
      BY <1>1, <2>1, Zenon
    <2>3. ASSUME NEW y \in S, y < x PROVE <<y, x>> \in R
      BY <2>3
    <2> HIDE DEF R
    <2>4. \A y \in S : ~(y < x)
      BY <2>2, <2>3
    <2> QED
      BY <2>4
  <1> QED
    BY <1>2, Zenon DEF Min

\* The least upper bound of a set of naturals is one of its elements.
LEMMA BoundedHasMax ==
  ASSUME NEW S \in SUBSET Nat, S # {}, NEW b \in Nat, \A x \in S : x <= b
  PROVE  Max(S) \in S /\ \A x \in S : x <= Max(S)
  <1> DEFINE Bounds == {u \in Nat : \A x \in S : x <= u}
  <1> DEFINE u == Min(Bounds)
  <1>1. u \in Bounds /\ \A v \in Bounds : u <= v
    <2>1. Bounds \in SUBSET Nat /\ Bounds # {}
      OBVIOUS
    <2> HIDE DEF Bounds
    <2> QED
      BY <2>1, MinIsLeast
  <1> HIDE DEF u
  <1>2. u \in S
    <2> SUFFICES ASSUME u \notin S PROVE FALSE
      OBVIOUS
    <2>1. u # 0
      <3>1. PICK x \in S : TRUE
        OBVIOUS
      <3>2. x <= u /\ x # u /\ x \in Nat /\ u \in Nat
        BY <1>1
      <3> QED
        BY <3>2
    <2>2. u - 1 \in Bounds
      BY <1>1, <2>1
    <2> QED
      BY <1>1, <2>2
  <1>3. \E x \in S : \A y \in S : x >= y
    BY <1>1, <1>2
  <1> QED
    BY <1>3, Zenon DEF Max

\* So is a finite one's: of the finite sets without a bound none has the least cardinality.
LEMMA FiniteHasMax ==
  ASSUME NEW S \in SUBSET Nat, S # {}, IsFiniteSet(S)
  PROVE  Max(S) \in S /\ \A x \in S : x <= Max(S)
  <1> DEFINE Bounded(T) == \E b \in Nat : \A x \in T : x <= b
  <1> DEFINE Sizes == {Cardinality(T) : T \in {U \in SUBSET S : ~Bounded(U)}}
  <1>1. Bounded(S)
    <2> SUFFICES ASSUME ~Bounded(S) PROVE FALSE
      OBVIOUS
    <2>1. Sizes \in SUBSET Nat /\ Sizes # {}
      <3>1. \A T \in SUBSET S : Cardinality(T) \in Nat
        BY FS_Subset, FS_CardinalityType
      <3>2. S \in {U \in SUBSET S : ~Bounded(U)}
        OBVIOUS
      <3> HIDE DEF Bounded
      <3> QED
        BY <3>1, <3>2
    <2>2. PICK T \in SUBSET S : ~Bounded(T) /\ Cardinality(T) = Min(Sizes)
      <3> HIDE DEF Bounded
      <3>1. Min(Sizes) \in Sizes
        <4> HIDE DEF Sizes
        <4> QED
          BY <2>1, MinIsLeast
      <3> QED
        BY <3>1
    <2>3. PICK x \in T : TRUE
      BY <2>2
    <2>4. IsFiniteSet(T)
      BY FS_Subset
    <2>5. Cardinality(T \ {x}) = Cardinality(T) - 1
      BY <2>3, <2>4, FS_RemoveElement
    <2>6. Bounded(T \ {x})
      <3> SUFFICES ASSUME ~Bounded(T \ {x}) PROVE FALSE
        OBVIOUS
      <3>1. Cardinality(T \ {x}) \in Sizes
        OBVIOUS
      <3>2. Min(Sizes) <= Cardinality(T \ {x})
        <4> HIDE DEF Sizes
        <4> QED
          BY <2>1, <3>1, MinIsLeast
      <3>3. Cardinality(T) \in Nat
        BY <2>4, FS_CardinalityType
      <3> QED
        BY <2>2, <2>5, <3>2, <3>3
    <2>7. PICK b \in Nat : \A y \in T \ {x} : y <= b
      BY <2>6
    <2>8. \A y \in T : y <= b + x
      BY <2>3, <2>7
    <2>9. b + x \in Nat
      BY <2>3
    <2> QED
      BY <2>2, <2>8, <2>9
  <1> QED
    BY <1>1, BoundedHasMax

\* What a function makes of a finite set is finite.
LEMMA FiniteImage ==
  ASSUME NEW S, IsFiniteSet(S), NEW f
  PROVE  IsFiniteSet({f[x] : x \in S})
  <1> DEFINE T == {f[x] : x \in S}
             g == [x \in S |-> f[x]]
  <1>1. g \in Surjection(S, T)
    BY DEF Surjection
  <1> HIDE DEF g, T
  <1>2. IsFiniteSet(T)
    BY <1>1, FS_Surjection
  <1> QED
    BY <1>2 DEF T

-----------------------------------------------------------------------------
(* Induction, and recursive functions on the subsets of a finite set.        *)

\* Induction over the naturals.
LEMMA NatSetInduction ==
  ASSUME NEW Q, 0 \in Q, \A n \in Nat : n \in Q => n + 1 \in Q
  PROVE  \A n \in Nat : n \in Q
  <1> SUFFICES ASSUME NEW n \in Nat, n \notin Q PROVE FALSE
    OBVIOUS
  <1> DEFINE Out == {k \in Nat : k \notin Q}
             m == Min(Out)
  <1>1. m \in Out /\ \A k \in Out : m <= k
    <2>1. Out \in SUBSET Nat /\ Out # {}
      OBVIOUS
    <2> HIDE DEF Out
    <2> QED
      BY <2>1, MinIsLeast
  <1> HIDE DEF m
  <1>2. m # 0 /\ m \in Nat
    BY <1>1
  <1>3. m - 1 \in Q
    BY <1>1, <1>2
  <1>4. (m - 1) + 1 \in Q
    BY <1>2, <1>3
  <1> QED
    BY <1>1, <1>2, <1>4


\* pick names an element of each subset of S; what holds of the empty set, and of a set if it
\* holds without the element picked from it; a function computed in this order.
Picks(pick, S) == \A s \in SUBSET S : s # {} => pick[s] \in s
Inductive(Q, S, pick) ==
  {} \in Q /\ \A s \in SUBSET S : s # {} /\ s \ {pick[s]} \in Q => s \in Q
StepsIn(step, S, R) == \A s \in SUBSET S, v \in R : s # {} => step[<<s, v>>] \in R
FoldsTo(f, S, base, pick, step) ==
  f[{}] = base /\ \A s \in SUBSET S : s # {} => f[s] = step[<<s, f[s \ {pick[s]}]>>]

\* Induction over the subsets of a finite set.
LEMMA SubsetInduction ==
  ASSUME NEW S, IsFiniteSet(S), NEW pick, Picks(pick, S), NEW Q, Inductive(Q, S, pick)
  PROVE  \A s \in SUBSET S : s \in Q
  <1> DEFINE Sizes == {n \in Nat : \A s \in SUBSET S : Cardinality(s) = n => s \in Q}
  <1> USE DEF Picks, Inductive
  <1>1. 0 \in Sizes
    BY FS_Subset, FS_EmptySet
  <1>2. ASSUME NEW n \in Nat, n \in Sizes PROVE n + 1 \in Sizes
    <2> SUFFICES ASSUME NEW s \in SUBSET S, Cardinality(s) = n + 1 PROVE s \in Q
      OBVIOUS
    <2>1. IsFiniteSet(s)
      BY FS_Subset
    <2>2. s # {}
      BY <2>1, FS_EmptySet
    <2>3. Cardinality(s \ {pick[s]}) = n
      <3>1. pick[s] \in s
        BY <2>2
      <3>2. Cardinality(s \ {pick[s]}) = Cardinality(s) - 1
        BY <2>1, <3>1, FS_RemoveElement
      <3> QED
        BY <3>2
    <2> QED
      BY <1>2, <2>2, <2>3
  <1>3. \A n \in Nat : n \in Sizes
    <2> HIDE DEF Sizes
    <2> QED
      BY <1>1, <1>2, NatSetInduction
  <1>4. \A s \in SUBSET S : Cardinality(s) \in Nat
    BY FS_Subset, FS_CardinalityType
  <1> QED
    BY <1>3, <1>4

\* A recursive function on the subsets of a finite set exists.
LEMMA FoldExists ==
  ASSUME NEW S, IsFiniteSet(S), NEW R, NEW base \in R, NEW pick, Picks(pick, S),
         NEW step, StepsIn(step, S, R)
  PROVE  \E f \in [SUBSET S -> R] : FoldsTo(f, S, base, pick, step)
  <1> DEFINE Value(f, s) == IF s = {} THEN base ELSE step[<<s, f[s \ {pick[s]}]>>]
             Good(f, n) == \A s \in SUBSET S : Cardinality(s) <= n => f[s] = Value(f, s)
             Q == {n \in Nat : \E f \in [SUBSET S -> R] : Good(f, n)}
  <1> USE DEF Picks, StepsIn
  <1>0. \A s \in SUBSET S :
          /\ Cardinality(s) \in Nat /\ Cardinality(s) <= Cardinality(S)
          /\ Cardinality(s) = 0 => s = {}
          /\ s # {} => Cardinality(s \ {pick[s]}) = Cardinality(s) - 1
    BY FS_Subset, FS_CardinalityType, FS_EmptySet, FS_RemoveElement
  <1>1. 0 \in Q
    <2> DEFINE f == [s \in SUBSET S |-> base]
    <2>1. f \in [SUBSET S -> R]
      OBVIOUS
    <2>2. ASSUME NEW s \in SUBSET S, Cardinality(s) <= 0 PROVE f[s] = Value(f, s)
      <3>1. Cardinality(s) \in Nat
        BY <1>0
      <3>2. Cardinality(s) = 0
        BY <2>2, <3>1
      <3>3. s = {}
        BY <1>0, <3>2
      <3> QED
        BY <3>3
    <2> HIDE DEF f, Value
    <2> QED
      BY <2>1, <2>2
  <1>2. ASSUME NEW n \in Nat, n \in Q PROVE n + 1 \in Q
    <2>1. PICK f \in [SUBSET S -> R] : Good(f, n)
      BY <1>2
    <2> DEFINE g == [s \in SUBSET S |-> Value(f, s)]
    <2>2. g \in [SUBSET S -> R]
      OBVIOUS
    <2>3. \A s \in SUBSET S : Cardinality(s) <= n => g[s] = f[s]
      BY <2>1
    <2>4. ASSUME NEW s \in SUBSET S, Cardinality(s) <= n + 1 PROVE g[s] = Value(g, s)
      <3>1. CASE s = {}
        BY <3>1
      <3>2. CASE s # {}
        <4>1. s \ {pick[s]} \in SUBSET S /\ Cardinality(s \ {pick[s]}) <= n
          <5>1. Cardinality(s \ {pick[s]}) = Cardinality(s) - 1 /\ Cardinality(s) \in Nat
            BY <3>2, <1>0
          <5> QED
            BY <5>1, <2>4
        <4>2. g[s \ {pick[s]}] = f[s \ {pick[s]}]
          BY <4>1, <2>3
        <4>3. g[s] = step[<<s, f[s \ {pick[s]}]>>]
          BY <3>2
        <4> HIDE DEF g
        <4> QED
          BY <3>2, <4>2, <4>3
      <3> QED
        BY <3>1, <3>2
    <2> HIDE DEF g, Value
    <2> QED
      BY <2>2, <2>4
  <1>3. Cardinality(S) \in Q
    <2> HIDE DEF Q
    <2> QED
      BY <1>1, <1>2, NatSetInduction, FS_CardinalityType
  <1>4. PICK f \in [SUBSET S -> R] : Good(f, Cardinality(S))
    BY <1>3
  <1>5. \A s \in SUBSET S : f[s] = Value(f, s)
    BY <1>0, <1>4
  <1> QED
    BY <1>5 DEF FoldsTo

\* ... and has its values in R.
LEMMA FoldType ==
  ASSUME NEW S, IsFiniteSet(S), NEW R, NEW base \in R, NEW pick, Picks(pick, S),
         NEW step, StepsIn(step, S, R), NEW f, FoldsTo(f, S, base, pick, step)
  PROVE  \A s \in SUBSET S : f[s] \in R
  <1> DEFINE Q == {s \in SUBSET S : f[s] \in R}
  <1>1. Inductive(Q, S, pick)
    BY DEF Inductive, FoldsTo, StepsIn
  <1> HIDE DEF Q
  <1>2. \A s \in SUBSET S : s \in Q
    BY <1>1, SubsetInduction
  <1> QED
    BY <1>2 DEF Q

-----------------------------------------------------------------------------
(* Sums over finite sets.                                                    *)

SumOver(w, S) == MapThenSumSet(LAMBDA x : w[x], S)

\* The element of each subset that the folds take first, and the fold of a sum.
AnyOf(S) == [s \in SUBSET S |-> CHOOSE x \in s : TRUE]
Adding(w, S) == [p \in (SUBSET S) \X Int |-> w[AnyOf(S)[p[1]]] + p[2]]

LEMMA AnyOfPicks ==
  \A S : /\ Picks(AnyOf(S), S)
         /\ \A s \in SUBSET S : AnyOf(S)[s] = CHOOSE x \in s : TRUE
  BY DEF Picks, AnyOf

SumsUp(f, w, S) ==
  /\ f[{}] = 0
  /\ \A s \in SUBSET S : s # {} => f[s] = w[AnyOf(S)[s]] + f[s \ {AnyOf(S)[s]}]

\* MapThenSumSet is what its recursive function says.
LEMMA SumUnfolds ==
  ASSUME NEW S, IsFiniteSet(S), NEW w \in [S -> Int]
  PROVE  \E f \in [SUBSET S -> Int] : SumOver(w, S) = f[S] /\ SumsUp(f, w, S)
  <1> DEFINE Value(f, s) == IF s = {} THEN 0
                            ELSE w[CHOOSE x \in s : TRUE] + f[s \ {CHOOSE x \in s : TRUE}]
             IsFold(f) == f = [s \in SUBSET S |-> Value(f, s)]
             g == CHOOSE h : IsFold(h)
  <1>0. Picks(AnyOf(S), S) /\ \A s \in SUBSET S : AnyOf(S)[s] = CHOOSE x \in s : TRUE
    BY AnyOfPicks
  <1>1. StepsIn(Adding(w, S), S, Int) /\ 0 \in Int
    BY <1>0 DEF StepsIn, Adding, Picks
  <1>2. PICK f \in [SUBSET S -> Int] : FoldsTo(f, S, 0, AnyOf(S), Adding(w, S))
    <2>1. \A base, pick, step :
             base \in Int /\ Picks(pick, S) /\ StepsIn(step, S, Int)
             => \E f \in [SUBSET S -> Int] : FoldsTo(f, S, base, pick, step)
      BY FoldExists
    <2> QED
      BY <1>0, <1>1, <2>1
  <1>3. IsFold(f)
    <2>1. ASSUME NEW s \in SUBSET S PROVE f[s] = Value(f, s)
      BY <1>0, <1>2 DEF FoldsTo, Adding
    <2> HIDE DEF Value
    <2> QED
      BY <2>1
  <1>4. IsFold(g)
    <2> HIDE DEF IsFold
    <2> QED
      BY <1>3
  <1>5. SumOver(w, S) = g[S]
    BY DEF SumOver, MapThenSumSet, MapThenFoldSet
  <1> HIDE DEF g
  <1>6. SumsUp(g, w, S) /\ SumsUp(f, w, S)
    BY <1>0, <1>3, <1>4 DEF SumsUp
  <1>7. \A s \in SUBSET S : g[s] = f[s]
    <2> DEFINE Q == {s \in SUBSET S : g[s] = f[s]}
    <2>1. Inductive(Q, S, AnyOf(S))
      BY <1>6 DEF Inductive, SumsUp
    <2> HIDE DEF Q
    <2>2. \A s \in SUBSET S : s \in Q
      BY <2>1, AnyOfPicks, SubsetInduction
    <2> QED
      BY <2>2 DEF Q
  <1> QED
    BY <1>5, <1>6, <1>7

\* A sum of integers is one, of naturals too.
LEMMA SumType ==
  ASSUME NEW S, IsFiniteSet(S), NEW w \in [S -> Int]
  PROVE  SumOver(w, S) \in Int
  <1>1. PICK f \in [SUBSET S -> Int] : SumOver(w, S) = f[S]
    BY SumUnfolds
  <1> QED
    BY <1>1

LEMMA SumMonotone ==
  ASSUME NEW S, IsFiniteSet(S), NEW v \in [S -> Int], NEW w \in [S -> Int],
         \A x \in S : v[x] <= w[x]
  PROVE  SumOver(v, S) <= SumOver(w, S)
  <1>1. PICK f \in [SUBSET S -> Int] : SumOver(v, S) = f[S] /\ SumsUp(f, v, S)
    BY SumUnfolds
  <1>2. PICK g \in [SUBSET S -> Int] : SumOver(w, S) = g[S] /\ SumsUp(g, w, S)
    BY SumUnfolds
  <1> DEFINE Q == {s \in SUBSET S : f[s] <= g[s]}
  <1>3. Inductive(Q, S, AnyOf(S))
    <2>1. {} \in Q
      BY <1>1, <1>2 DEF SumsUp
    <2>2. ASSUME NEW s \in SUBSET S, s # {}, s \ {AnyOf(S)[s]} \in Q PROVE s \in Q
      <3>1. AnyOf(S)[s] \in S
        BY <2>2, AnyOfPicks DEF Picks
      <3>2. /\ f[s] = v[AnyOf(S)[s]] + f[s \ {AnyOf(S)[s]}]
            /\ g[s] = w[AnyOf(S)[s]] + g[s \ {AnyOf(S)[s]}]
        BY <1>1, <1>2, <2>2 DEF SumsUp
      <3> QED
        BY <2>2, <3>1, <3>2
    <2> HIDE DEF Q
    <2> QED
      BY <2>1, <2>2 DEF Inductive
  <1> HIDE DEF Q
  <1>4. S \in Q
    BY <1>3, AnyOfPicks, SubsetInduction
  <1> QED
    BY <1>1, <1>2, <1>4 DEF Q

\* Sums are added term by term.
LEMMA SumAdds ==
  ASSUME NEW S, IsFiniteSet(S), NEW u \in [S -> Int], NEW v \in [S -> Int], NEW w \in [S -> Int],
         \A x \in S : w[x] = u[x] + v[x]
  PROVE  SumOver(w, S) = SumOver(u, S) + SumOver(v, S)
  <1>1. PICK e \in [SUBSET S -> Int] : SumOver(u, S) = e[S] /\ SumsUp(e, u, S)
    BY SumUnfolds
  <1>2. PICK f \in [SUBSET S -> Int] : SumOver(v, S) = f[S] /\ SumsUp(f, v, S)
    BY SumUnfolds
  <1>3. PICK g \in [SUBSET S -> Int] : SumOver(w, S) = g[S] /\ SumsUp(g, w, S)
    BY SumUnfolds
  <1> DEFINE Q == {s \in SUBSET S : g[s] = e[s] + f[s]}
  <1>4. Inductive(Q, S, AnyOf(S))
    <2>1. {} \in Q
      BY <1>1, <1>2, <1>3 DEF SumsUp
    <2>2. ASSUME NEW s \in SUBSET S, s # {}, s \ {AnyOf(S)[s]} \in Q PROVE s \in Q
      <3>1. AnyOf(S)[s] \in S
        BY <2>2, AnyOfPicks DEF Picks
      <3>2. /\ e[s] = u[AnyOf(S)[s]] + e[s \ {AnyOf(S)[s]}]
            /\ f[s] = v[AnyOf(S)[s]] + f[s \ {AnyOf(S)[s]}]
            /\ g[s] = w[AnyOf(S)[s]] + g[s \ {AnyOf(S)[s]}]
        BY <1>1, <1>2, <1>3, <2>2 DEF SumsUp
      <3> QED
        BY <2>2, <3>1, <3>2
    <2> HIDE DEF Q
    <2> QED
      BY <2>1, <2>2 DEF Inductive
  <1> HIDE DEF Q
  <1>5. S \in Q
    BY <1>4, AnyOfPicks, SubsetInduction
  <1> QED
    BY <1>1, <1>2, <1>3, <1>5 DEF Q

\* Nothing is summed up from nothing, and every natural is part of its sum.
LEMMA SumOfZeros ==
  ASSUME NEW S, IsFiniteSet(S), NEW w \in [S -> Int], \A x \in S : w[x] = 0
  PROVE  SumOver(w, S) = 0
  <1>1. SumOver(w, S) = SumOver(w, S) + SumOver(w, S)
    BY SumAdds
  <1> QED
    BY <1>1, SumType

LEMMA SumOfNats ==
  ASSUME NEW S, IsFiniteSet(S), NEW w \in [S -> Nat]
  PROVE  SumOver(w, S) \in Nat /\ \A y \in S : w[y] <= SumOver(w, S)
  <1>0. w \in [S -> Int]
    OBVIOUS
  <1>1. PICK f \in [SUBSET S -> Int] : SumOver(w, S) = f[S] /\ SumsUp(f, w, S)
    BY <1>0, SumUnfolds
  <1> DEFINE Q == {s \in SUBSET S : f[s] >= 0 /\ \A y \in s : w[y] <= f[s]}
  <1>2. Inductive(Q, S, AnyOf(S))
    <2>1. {} \in Q
      BY <1>1 DEF SumsUp
    <2>2. ASSUME NEW s \in SUBSET S, s # {}, s \ {AnyOf(S)[s]} \in Q PROVE s \in Q
      <3>1. AnyOf(S)[s] \in S
        BY <2>2, AnyOfPicks DEF Picks
      <3>2. f[s] = w[AnyOf(S)[s]] + f[s \ {AnyOf(S)[s]}]
        BY <1>1, <2>2 DEF SumsUp
      <3>3. f[s \ {AnyOf(S)[s]}] \in Int /\ f[s \ {AnyOf(S)[s]}] >= 0 /\ w[AnyOf(S)[s]] \in Nat
        BY <2>2, <3>1
      <3>4. ASSUME NEW y \in s PROVE w[y] <= f[s]
        <4>1. CASE y = AnyOf(S)[s]
          BY <3>2, <3>3, <4>1
        <4>2. CASE y # AnyOf(S)[s]
          <5>1. w[y] <= f[s \ {AnyOf(S)[s]}] /\ w[y] \in Nat
            BY <2>2, <4>2
          <5> QED
            BY <3>2, <3>3, <5>1
        <4> QED
          BY <4>1, <4>2
      <3>5. f[s] >= 0
        BY <3>2, <3>3
      <3> QED
        BY <3>4, <3>5
    <2> HIDE DEF Q
    <2> QED
      BY <2>1, <2>2 DEF Inductive
  <1> HIDE DEF Q
  <1>3. S \in Q
    BY <1>2, AnyOfPicks, SubsetInduction
  <1> QED
    BY <1>1, <1>3 DEF Q

-----------------------------------------------------------------------------
(* Greatest elements of an order, and the order of fractions.                *)

\* Of finitely many things of which any two compare, one is before all others.
IsTotal(R, S) == \A x, y \in S : <<x, y>> \in R \/ <<y, x>> \in R
IsTransitive(R, S) ==
  \A x, y, z \in S : <<x, y>> \in R /\ <<y, z>> \in R => <<x, z>> \in R

LEMMA FiniteHasFirst ==
  ASSUME NEW S, IsFiniteSet(S), S # {}, NEW R, IsTotal(R, S), IsTransitive(R, S)
  PROVE  \E x \in S : \A y \in S : <<x, y>> \in R
  <1> DEFINE First(s) == \E x \in s : \A y \in s : <<x, y>> \in R
             Q == {s \in SUBSET S : s = {} \/ First(s)}
  <1>1. Inductive(Q, S, AnyOf(S))
    <2>1. {} \in Q
      OBVIOUS
    <2>2. ASSUME NEW s \in SUBSET S, s # {}, s \ {AnyOf(S)[s]} \in Q PROVE s \in Q
      <3> DEFINE a == AnyOf(S)[s]
      <3>1. a \in s /\ a \in S
        BY <2>2, AnyOfPicks DEF Picks
      <3> HIDE DEF a
      <3>2. CASE s \ {a} = {}
        <4>1. s = {a}
          BY <3>1, <3>2
        <4> QED
          BY <3>1, <4>1 DEF IsTotal
      <3>3. CASE First(s \ {a})
        <4>1. PICK x \in s \ {a} : \A y \in s \ {a} : <<x, y>> \in R
          BY <3>3
        <4>2. CASE <<x, a>> \in R
          <5>1. \A y \in s : <<x, y>> \in R
            BY <4>1, <4>2
          <5> QED
            BY <5>1
        <4>3. CASE <<a, x>> \in R
          <5>1. <<a, a>> \in R
            BY <3>1 DEF IsTotal
          <5>2. \A y \in s : <<a, y>> \in R
            BY <3>1, <4>1, <4>3, <5>1 DEF IsTransitive
          <5> QED
            BY <3>1, <5>2
        <4> QED
          BY <3>1, <4>1, <4>2, <4>3 DEF IsTotal
      <3> QED
        BY <2>2, <3>2, <3>3 DEF a
    <2> HIDE DEF Q
    <2> QED
      BY <2>1, <2>2 DEF Inductive
  <1> HIDE DEF Q
  <1>2. S \in Q
    BY <1>1, AnyOfPicks, SubsetInduction
  <1> QED
    BY <1>2 DEF Q

\* n / d of positive denominators.
LEMMA Cancel ==
  ASSUME NEW k \in Nat \ {0}, NEW x \in Int, NEW y \in Int, k * x <= k * y
  PROVE  x <= y
  <1> SUFFICES ASSUME y < x PROVE FALSE
    OBVIOUS
  <1>1. PICK e \in Nat : e >= 1 /\ x = y + e
    <2>1. x - y \in Nat /\ x - y >= 1 /\ x = y + (x - y)
      OBVIOUS
    <2> QED
      BY <2>1
  <1>2. k * x = k * y + k * e
    BY <1>1
  <1>3. k * e >= 1
    BY <1>1
  <1> QED
    BY <1>2, <1>3

LEMMA Scale ==
  ASSUME NEW k \in Nat, NEW x \in Int, NEW y \in Int, x <= y
  PROVE  k * x <= k * y
  OBVIOUS

LEMMA FractionsTransitive ==
  ASSUME NEW n1 \in Int, NEW n2 \in Int, NEW n3 \in Int,
         NEW d1 \in Nat \ {0}, NEW d2 \in Nat \ {0}, NEW d3 \in Nat \ {0},
         n1 * d2 <= n2 * d1, n2 * d3 <= n3 * d2
  PROVE  n1 * d3 <= n3 * d1
  <1>1. d3 * (n1 * d2) <= d3 * (n2 * d1)
    BY Scale
  <1>2. d1 * (n2 * d3) <= d1 * (n3 * d2)
    BY Scale
  <1>3. d3 * (n1 * d2) = d2 * (n1 * d3)
    OBVIOUS
  <1>4. d3 * (n2 * d1) = d1 * (n2 * d3)
    OBVIOUS
  <1>5. d1 * (n3 * d2) = d2 * (n3 * d1)
    OBVIOUS
  <1>6. d2 * (n1 * d3) <= d2 * (n3 * d1)
    BY <1>1, <1>2, <1>3, <1>4, <1>5
  <1> QED
    BY <1>6, Cancel

-----------------------------------------------------------------------------
(* Folds over sequences, which take the last element first.                  *)

LastOf(n) == [s \in SUBSET (1 .. n) |-> Max(s)]

LEMMA LastPicks ==
  ASSUME NEW n \in Nat
  PROVE  /\ Picks(LastOf(n), 1 .. n) /\ IsFiniteSet(1 .. n)
         /\ \A s \in SUBSET (1 .. n) : LastOf(n)[s] = Max(s)
         /\ \A i \in 1 .. n : Max(1 .. i) = i /\ (1 .. i) \ {i} = 1 .. (i - 1)
  <1>1. IsFiniteSet(1 .. n)
    BY FS_Interval
  <1>2. \A s \in SUBSET (1 .. n) : LastOf(n)[s] = Max(s)
    BY DEF LastOf
  <1>3. ASSUME NEW s \in SUBSET (1 .. n), s # {} PROVE Max(s) \in s
    <2>1. IsFiniteSet(s)
      BY <1>1, FS_Subset
    <2>2. s \in SUBSET Nat
      OBVIOUS
    <2> QED
      BY <1>3, <2>1, <2>2, FiniteHasMax
  <1>4. ASSUME NEW i \in 1 .. n PROVE Max(1 .. i) = i /\ (1 .. i) \ {i} = 1 .. (i - 1)
    <2>1. Max(1 .. i) \in 1 .. i /\ \A x \in 1 .. i : x <= Max(1 .. i)
      <3>1. 1 .. i \in SUBSET Nat /\ 1 .. i # {}
        OBVIOUS
      <3>2. IsFiniteSet(1 .. i)
        BY FS_Interval
      <3> QED
        BY <3>1, <3>2, FiniteHasMax
    <2> QED
      BY <2>1
  <1> QED
    BY <1>1, <1>2, <1>3, <1>4 DEF Picks

\* So a fold goes through the prefixes.
LEMMA FoldOfPrefixes ==
  ASSUME NEW n \in Nat, NEW f, NEW base, NEW step, FoldsTo(f, 1 .. n, base, LastOf(n), step)
  PROVE  /\ f[1 .. 0] = base
         /\ \A i \in 1 .. n : f[1 .. i] = step[<<1 .. i, f[1 .. (i - 1)]>>]
  <1>1. f[1 .. 0] = base
    <2>1. 1 .. 0 = {}
      OBVIOUS
    <2> QED
      BY <2>1 DEF FoldsTo
  <1>2. ASSUME NEW i \in 1 .. n PROVE f[1 .. i] = step[<<1 .. i, f[1 .. (i - 1)]>>]
    <2>1. 1 .. i \in SUBSET (1 .. n) /\ 1 .. i # {}
      OBVIOUS
    <2>2. LastOf(n)[1 .. i] = i /\ (1 .. i) \ {i} = 1 .. (i - 1)
      BY <2>1, LastPicks
    <2> QED
      BY <2>1, <2>2 DEF FoldsTo
  <1> QED
    BY <1>1, <1>2
=============================================================================
