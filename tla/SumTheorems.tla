---------------------------- MODULE SumTheorems -----------------------------
(***************************************************************************)
(* Sums of the values of a function over a finite set: the total of a      *)
(* monthly report, the units of a product that orders hold.                *)
(*                                                                         *)
(* MapThenSumSet is a recursive function on the subsets of its argument.   *)
(* That there is one, and that it adds up the values in whatever order, is *)
(* by induction on finite sets: of the sets that are a counterexample, a   *)
(* least one is taken.                                                     *)
(***************************************************************************)
EXTENDS Naturals, FiniteSets, FiniteSetsExt, FiniteSetTheorems,
        WellFoundedInduction, TLAPS

SumOver(f, S) == MapThenSumSet(LAMBDA x : f[x], S)

First(s) == CHOOSE x \in s : TRUE
Rest(s) == s \ {First(s)}
Sums(g, f, S) ==
  g = [s \in SUBSET S |-> IF s = {} THEN 0 ELSE f[First(s)] + g[Rest(s)]]
Fold(f, S) == CHOOSE g : Sums(g, f, S)

LEMMA SumDef == \A f, S : SumOver(f, S) = Fold(f, S)[S]
BY DEF SumOver, MapThenSumSet, MapThenFoldSet, Fold, Sums, First, Rest

(* Induction: a set of subsets that is not empty has a least one.          *)
LEMMA Least ==
  ASSUME NEW X, IsFiniteSet(X), NEW T \in SUBSET SUBSET X, T # {}
  PROVE  \E S \in T : \A U \in SUBSET S : U # S => U \notin T
<1>1. IsWellFoundedOn(StrictSubsetOrdering(X), SUBSET X)
  BY FS_StrictSubsetOrderingWellFounded, FS_FiniteSubsetsOfFinite
<1>2. PICK S \in T : \A U \in T : ~(<<U, S>> \in StrictSubsetOrdering(X))
  BY <1>1, WFMin
<1>. QED
  BY <1>2 DEF StrictSubsetOrdering

(* A finite set is not climbed for ever.                                   *)
LEMMA Highest ==
  ASSUME NEW X, IsFiniteSet(X), NEW R \in SUBSET X, R # {},
         NEW w, \A c \in R : w[c] \in Nat
  PROVE  \E c \in R : \A d \in R : ~(w[c] < w[d])
<1>. DEFINE Climbs(P) == P # {} /\ \A c \in P : \E d \in P : w[c] < w[d]
            T == {P \in SUBSET R : Climbs(P)}
<1>. SUFFICES ASSUME Climbs(R) PROVE FALSE
  OBVIOUS
<1>1. T # {} /\ T \in SUBSET SUBSET X
  OBVIOUS
<1>2. PICK P \in T : \A U \in SUBSET P : U # P => U \notin T
  <2>. HIDE DEF T
  <2>. QED
    BY <1>1, Least
<1>3. PICK c \in P : TRUE
  OBVIOUS
<1>. DEFINE U == {d \in P : w[c] < w[d]}
<1>4. U \in SUBSET P /\ c \notin U
  BY <1>3
<1>5. \A d \in U : \E e \in U : w[d] < w[e]
  BY <1>2
<1>. QED
  BY <1>2, <1>3, <1>4, <1>5

LEMMA SumsAt ==
  ASSUME NEW f, NEW S, NEW g, Sums(g, f, S), NEW s \in SUBSET S
  PROVE  g[s] = IF s = {} THEN 0 ELSE f[First(s)] + g[Rest(s)]
<1>. DEFINE F(t) == IF t = {} THEN 0 ELSE f[First(t)] + g[Rest(t)]
<1>1. g = [t \in SUBSET S |-> F(t)]
  BY DEF Sums
<1>. HIDE DEF F
<1>2. g[s] = F(s)
  BY <1>1
<1>. QED
  BY <1>2 DEF F

LEMMA FirstIn ==
  \A s : s # {} => First(s) \in s /\ Rest(s) \subseteq s /\ Rest(s) # s
BY DEF First, Rest

(* Two foldings agree where both are defined and their functions agree.    *)
LEMMA SumsAgree ==
  ASSUME NEW X, IsFiniteSet(X), NEW S \in SUBSET X, NEW U \in SUBSET X,
         NEW f, NEW e, \A x \in S \cap U : f[x] = e[x],
         NEW g, Sums(g, f, S), NEW h, Sums(h, e, U)
  PROVE  \A s \in SUBSET (S \cap U) : g[s] = h[s]
<1>. DEFINE T == {s \in SUBSET (S \cap U) : g[s] # h[s]}
<1>. SUFFICES ASSUME T # {} PROVE FALSE
  OBVIOUS
<1>1. T \in SUBSET SUBSET X
  OBVIOUS
<1>. HIDE DEF T
<1>2. PICK s \in T : \A r \in SUBSET s : r # s => r \notin T
  BY <1>1, Least
<1>. USE DEF T
<1>3. g[s] = IF s = {} THEN 0 ELSE f[First(s)] + g[Rest(s)]
  BY SumsAt
<1>4. h[s] = IF s = {} THEN 0 ELSE e[First(s)] + h[Rest(s)]
  BY SumsAt
<1>5. s # {}
  BY <1>3, <1>4
<1>6. First(s) \in s /\ Rest(s) \in SUBSET s /\ Rest(s) # s
  BY <1>5, FirstIn
<1>7. g[Rest(s)] = h[Rest(s)] /\ f[First(s)] = e[First(s)]
  BY <1>2, <1>6
<1>. QED
  BY <1>3, <1>4, <1>5, <1>7

LEMMA SumsUnique ==
  ASSUME NEW X, IsFiniteSet(X), NEW S \in SUBSET X, NEW U \in SUBSET X,
         NEW f, NEW g, Sums(g, f, S), NEW h, Sums(h, f, U)
  PROVE  \A s \in SUBSET (S \cap U) : g[s] = h[s]
<1>1. \A x \in S \cap U : f[x] = f[x]
  OBVIOUS
<1>. QED
  BY <1>1, SumsAgree

LEMMA SumsExists ==
  ASSUME NEW X, IsFiniteSet(X), NEW f, NEW S \in SUBSET X
  PROVE  Sums(Fold(f, S), f, S)
<1>. DEFINE T == {U \in SUBSET X : ~Sums(Fold(f, U), f, U)}
<1>. SUFFICES ASSUME T # {} PROVE FALSE
  OBVIOUS
<1>1. PICK U \in T : \A r \in SUBSET U : r # U => r \notin T
  BY Least
<1>2. \A r \in SUBSET U : r # U => Sums(Fold(f, r), f, r)
  BY <1>1
<1>. DEFINE V(s) == IF s = {} THEN 0 ELSE f[First(s)] + Fold(f, Rest(s))[Rest(s)]
            new == [s \in SUBSET U |-> V(s)]
<1>. HIDE DEF T
<1>3. ASSUME NEW r \in SUBSET U, r # U
      PROVE  V(r) = Fold(f, r)[r]
  <2>1. Sums(Fold(f, r), f, r)
    BY <1>2, <1>3
  <2>2. Fold(f, r)[r] = IF r = {} THEN 0 ELSE f[First(r)] + Fold(f, r)[Rest(r)]
    BY <2>1, SumsAt
  <2>3. CASE r = {}
    BY <2>2, <2>3
  <2>4. CASE r # {}
    <3>1. Rest(r) \in SUBSET r /\ Rest(r) # U
      BY <1>3, <2>4, FirstIn
    <3>2. r \in SUBSET X /\ Rest(r) \in SUBSET X
      BY <3>1 DEF T
    <3>3. Sums(Fold(f, Rest(r)), f, Rest(r))
      BY <1>2, <3>1
    <3>4. Rest(r) \in SUBSET (r \cap Rest(r))
      BY <3>1
    <3>5. Fold(f, r)[Rest(r)] = Fold(f, Rest(r))[Rest(r)]
      BY <2>1, <3>2, <3>3, <3>4, SumsUnique
    <3>. QED
      BY <2>2, <2>4, <3>5
  <2>. QED
    BY <2>3, <2>4
<1>4. ASSUME NEW s \in SUBSET U
      PROVE  V(s) = IF s = {} THEN 0 ELSE f[First(s)] + new[Rest(s)]
  <2>1. CASE s = {}
    BY <2>1
  <2>2. CASE s # {}
    <3>1. Rest(s) \in SUBSET U /\ Rest(s) # U
      BY <2>2, FirstIn
    <3>. HIDE DEF V
    <3>2. new[Rest(s)] = Fold(f, Rest(s))[Rest(s)]
      BY <1>3, <3>1
    <3>3. V(s) = f[First(s)] + Fold(f, Rest(s))[Rest(s)]
      BY <2>2 DEF V
    <3>. QED
      BY <2>2, <3>2, <3>3
  <2>. QED
    BY <2>1, <2>2
<1>. HIDE DEF V
<1>5. Sums(new, f, U)
  BY <1>4 DEF Sums
<1>6. Sums(Fold(f, U), f, U)
  BY <1>5 DEF Fold
<1>. QED
  BY <1>6 DEF T

-----------------------------------------------------------------------------
LEMMA SumStep ==
  ASSUME NEW X, IsFiniteSet(X), NEW f, NEW S \in SUBSET X
  PROVE  SumOver(f, S) = IF S = {} THEN 0 ELSE f[First(S)] + SumOver(f, Rest(S))
<1>1. Fold(f, S)[S] = IF S = {} THEN 0 ELSE f[First(S)] + Fold(f, S)[Rest(S)]
  BY SumsExists, SumsAt
<1>2. Rest(S) \in SUBSET X /\ Rest(S) \in SUBSET (S \cap Rest(S))
  BY DEF Rest
<1>3. Fold(f, S)[Rest(S)] = Fold(f, Rest(S))[Rest(S)]
  BY <1>2, SumsExists, SumsUnique
<1>. QED
  BY <1>1, <1>3, SumDef

LEMMA SumEmpty == \A f : SumOver(f, {}) = 0
BY SumStep, FS_EmptySet

LEMMA SumType ==
  ASSUME NEW X, IsFiniteSet(X), NEW f \in [X -> Nat]
  PROVE  \A S \in SUBSET X : SumOver(f, S) \in Nat
<1>. DEFINE T == {S \in SUBSET X : SumOver(f, S) \notin Nat}
<1>. SUFFICES ASSUME T # {} PROVE FALSE
  OBVIOUS
<1>0. T \in SUBSET SUBSET X
  OBVIOUS
<1>. HIDE DEF T
<1>1. PICK S \in T : \A r \in SUBSET S : r # S => r \notin T
  BY <1>0, Least
<1>. USE DEF T
<1>2. SumOver(f, S) = IF S = {} THEN 0 ELSE f[First(S)] + SumOver(f, Rest(S))
  BY SumStep
<1>3. S # {} /\ First(S) \in S
  BY <1>2, FirstIn
<1>4. SumOver(f, Rest(S)) \in Nat /\ f[First(S)] \in Nat
  BY <1>1, <1>3, FirstIn
<1>. QED
  BY <1>2, <1>3, <1>4

(* Functions that agree on a set have the same sum over it.                *)
LEMMA SumAgrees ==
  ASSUME NEW X, IsFiniteSet(X), NEW f, NEW e, NEW S \in SUBSET X,
         \A x \in S : f[x] = e[x]
  PROVE  SumOver(f, S) = SumOver(e, S)
<1>1. Sums(Fold(f, S), f, S) /\ Sums(Fold(e, S), e, S)
  BY SumsExists
<1>2. \A s \in SUBSET (S \cap S) : Fold(f, S)[s] = Fold(e, S)[s]
  BY <1>1, SumsAgree
<1>. QED
  BY <1>2, SumDef

(* Any element may be taken out of a sum, not only the first.              *)
LEMMA SumRemove ==
  ASSUME NEW X, IsFiniteSet(X), NEW f \in [X -> Nat], NEW S \in SUBSET X, NEW o \in S
  PROVE  SumOver(f, S) = SumOver(f, S \ {o}) + f[o]
<1>. DEFINE Good(s) == \A x \in s : SumOver(f, s) = SumOver(f, s \ {x}) + f[x]
            T == {s \in SUBSET X : ~Good(s)}
<1>. SUFFICES ASSUME T # {} PROVE FALSE
  OBVIOUS
<1>0. T \in SUBSET SUBSET X
  OBVIOUS
<1>. HIDE DEF T
<1>1. PICK s \in T : \A r \in SUBSET s : r # s => r \notin T
  BY <1>0, Least
<1>. USE DEF T
<1>. DEFINE x == First(s)
<1>2. s # {} /\ x \in s
  BY <1>1, FirstIn
<1>3. SumOver(f, s) = f[x] + SumOver(f, s \ {x})
  BY <1>2, SumStep DEF Rest
<1>4. \A r \in SUBSET s : SumOver(f, r) \in Nat
  BY SumType
<1>5. \A y \in s : f[y] \in Nat
  OBVIOUS
<1>. HIDE DEF x
<1>6. ASSUME NEW y \in s
      PROVE  SumOver(f, s) = SumOver(f, s \ {y}) + f[y]
  <2>1. CASE y = x
    BY <1>3, <1>4, <1>5, <2>1
  <2>2. CASE y # x
    <3>1. SumOver(f, s \ {x}) = SumOver(f, (s \ {x}) \ {y}) + f[y]
      BY <1>1, <1>2, <2>2
    <3>2. SumOver(f, s \ {y}) = SumOver(f, (s \ {y}) \ {x}) + f[x]
      BY <1>1, <1>2, <2>2
    <3>3. (s \ {x}) \ {y} = (s \ {y}) \ {x}
      OBVIOUS
    <3>. HIDE DEF T
    <3>. DEFINE r == (s \ {x}) \ {y}
    <3>4. r \in SUBSET s /\ SumOver(f, s \ {x}) = SumOver(f, r) + f[y]
      BY <3>1
    <3>5. SumOver(f, s \ {y}) = SumOver(f, r) + f[x]
      BY <3>2, <3>3
    <3>6. SumOver(f, r) \in Nat /\ f[x] \in Nat /\ f[y] \in Nat
      BY <1>2, <1>4, <1>5, <3>4
    <3>. HIDE DEF r
    <3>. QED
      BY <1>3, <3>4, <3>5, <3>6
  <2>. QED
    BY <2>1, <2>2
<1>. QED
  BY <1>6

(* A sum changes by as much as the one value that changes.                 *)
LEMMA SumChange ==
  ASSUME NEW X, IsFiniteSet(X), NEW f \in [X -> Nat], NEW e \in [X -> Nat],
         NEW o \in X, \A x \in X \ {o} : f[x] = e[x]
  PROVE  SumOver(e, X) + f[o] = SumOver(f, X) + e[o]
<1>1. SumOver(f, X) = SumOver(f, X \ {o}) + f[o]
  BY SumRemove
<1>2. SumOver(e, X) = SumOver(e, X \ {o}) + e[o]
  BY SumRemove
<1>3. SumOver(f, X \ {o}) = SumOver(e, X \ {o}) /\ SumOver(f, X \ {o}) \in Nat
  BY SumAgrees, SumType
<1>4. f[o] \in Nat /\ e[o] \in Nat
  OBVIOUS
<1>. QED
  BY <1>1, <1>2, <1>3, <1>4
=============================================================================
