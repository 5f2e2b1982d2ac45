----------------------------- MODULE FoldLemmas -----------------------------
(***************************************************************************)
(* Facts about the folds the models use: the sum of a function             *)
(* (SumFunction) and a walk along a sequence (FoldLeft).  Both are defined *)
(* by recursion on a finite set, so each fact is an induction, and an      *)
(* induction here is about a set of numbers that contains zero and the     *)
(* successor of each of its members.                                       *)
(***************************************************************************)
EXTENDS Integers, Sequences, FiniteSets, FiniteSetsExt, Functions, SequencesExt,
        FiniteSetTheorems, WellFoundedInduction, TLAPS

-----------------------------------------------------------------------------
(* Induction *)

\* A set with 0 and the successor of each number in it holds every number.
LEMMA SetInduction ==
  ASSUME NEW T, 0 \in T, \A n \in Nat : n \in T => n + 1 \in T
  PROVE  Nat \subseteq T
<1>1. SUFFICES ASSUME Nat \ T # {} PROVE FALSE
  OBVIOUS
<1> DEFINE R == OpToRel(<, Nat)
<1>2. IsWellFoundedOn(R, Nat)
  BY NatLessThanWellFounded
<1>3. Nat \ T \subseteq Nat
  OBVIOUS
<1>4. \E x \in Nat \ T : \A y \in Nat \ T : ~ (<<y, x>> \in R)
  <2> HIDE DEF R
  <2> QED BY <1>1, <1>2, <1>3, WFMin
<1>5. PICK x \in Nat \ T : \A y \in Nat \ T : ~ (<<y, x>> \in R)
  BY <1>4
<1>6. x # 0 /\ x - 1 \in Nat
  OBVIOUS
<1>7. <<x - 1, x>> \in R
  BY <1>6 DEF OpToRel
<1>8. x - 1 \in T
  BY <1>5, <1>6, <1>7
<1>9. x - 1 + 1 \in T
  BY <1>6, <1>8
<1> QED BY <1>6, <1>9

\* What a fold over the finite set S is made of: pick names the element that comes
\* last, and F adds an element to a value in V.
Picks(pick, S) == \A s \in SUBSET S : s # {} => pick[s] \in s
Adds(F, S, V)  == \A x \in S, v \in V : F[<<x, v>>] \in V

\* g is the fold of F from b.
IsFold(g, S, b, pick, F) ==
  \A s \in SUBSET S : g[s] = IF s = {} THEN b ELSE F[<<pick[s], g[s \ {pick[s]}]>>]

\* A recursion that takes one element after the other out of a finite set has a
\* solution: the equation of every fold.
LEMMA FoldExists ==
  ASSUME NEW S, IsFiniteSet(S), NEW V, NEW b \in V,
         NEW pick, Picks(pick, S), NEW F, Adds(F, S, V)
  PROVE  \E g \in [SUBSET S -> V] : IsFold(g, S, b, pick, F)
<1> DEFINE Eq(g, s) == g[s] = IF s = {} THEN b ELSE F[<<pick[s], g[s \ {pick[s]}]>>]
           T == {n \in Nat : \E g \in [SUBSET S -> V] : \A s \in SUBSET S :
                               Cardinality(s) <= n => Eq(g, s)}
<1>0. /\ \A s \in SUBSET S : s # {} => pick[s] \in s
      /\ \A x \in S, v \in V : F[<<x, v>>] \in V
  BY DEF Picks, Adds
<1>1. \A s \in SUBSET S : IsFiniteSet(s) /\ Cardinality(s) \in Nat
  BY FS_Subset, FS_CardinalityType
<1>2. \A s \in SUBSET S : Cardinality(s) <= 0 => s = {}
  BY <1>1, FS_EmptySet
<1>3. 0 \in T
  <2>1. [s \in SUBSET S |-> b] \in [SUBSET S -> V]
    OBVIOUS
  <2>2. \A s \in SUBSET S : Cardinality(s) <= 0 => Eq([t \in SUBSET S |-> b], s)
    BY <1>2
  <2> QED BY <2>1, <2>2
<1>4. \A n \in Nat : n \in T => n + 1 \in T
  <2> SUFFICES ASSUME NEW n \in Nat, n \in T PROVE n + 1 \in T
    OBVIOUS
  <2>1. PICK g \in [SUBSET S -> V] : \A s \in SUBSET S : Cardinality(s) <= n => Eq(g, s)
    OBVIOUS
  <2> DEFINE h == [s \in SUBSET S |-> IF Cardinality(s) <= n THEN g[s]
                     ELSE IF s = {} THEN b ELSE F[<<pick[s], g[s \ {pick[s]}]>>]]
  <2>2. h \in [SUBSET S -> V]
    <3>1. \A s \in SUBSET S : s # {} => F[<<pick[s], g[s \ {pick[s]}]>>] \in V
      <4> SUFFICES ASSUME NEW s \in SUBSET S, s # {}
                   PROVE  F[<<pick[s], g[s \ {pick[s]}]>>] \in V
        OBVIOUS
      <4>1. pick[s] \in S /\ g[s \ {pick[s]}] \in V
        BY <1>0
      <4> QED BY <1>0, <4>1
    <3> QED BY <3>1
  <2>3. ASSUME NEW s \in SUBSET S, Cardinality(s) <= n + 1 PROVE Eq(h, s)
    <3>1. CASE s = {}
      <4>1. Cardinality(s) <= n
        BY <3>1, FS_EmptySet
      <4> QED BY <2>1, <3>1, <4>1
    <3>2. CASE s # {}
      <4> DEFINE r == s \ {pick[s]}
      <4>1. r \in SUBSET S /\ Cardinality(r) = Cardinality(s) - 1
        BY <1>0, <1>1, <3>2, FS_RemoveElement
      <4>2. Cardinality(r) <= n
        BY <1>1, <2>3, <4>1
      <4>3. h[r] = g[r]
        BY <4>1, <4>2
      <4>4. CASE Cardinality(s) <= n
        <5>1. g[s] = F[<<pick[s], g[r]>>]
          BY <2>1, <3>2, <4>4
        <5> QED BY <3>2, <4>3, <4>4, <5>1
      <4>5. CASE ~(Cardinality(s) <= n)
        BY <3>2, <4>3, <4>5
      <4> QED BY <4>4, <4>5
    <3> QED BY <3>1, <3>2
  <2>4. \E k \in [SUBSET S -> V] : \A s \in SUBSET S : Cardinality(s) <= n + 1 => Eq(k, s)
    <3> HIDE DEF h
    <3>1. \A s \in SUBSET S : Cardinality(s) <= n + 1 => Eq(h, s)
      <4> HIDE DEF Eq
      <4> QED BY <2>3
    <3> HIDE DEF Eq
    <3> WITNESS h \in [SUBSET S -> V]
    <3> QED BY <3>1
  <2> HIDE DEF h, Eq
  <2> QED BY <2>4
<1>5. Nat \subseteq T
  <2> HIDE DEF T
  <2> QED BY <1>3, <1>4, SetInduction
<1>6. Cardinality(S) \in T
  BY <1>1, <1>5
<1>7. PICK g \in [SUBSET S -> V] : \A s \in SUBSET S : Cardinality(s) <= Cardinality(S) => Eq(g, s)
  BY <1>6
<1>8. \A s \in SUBSET S : Cardinality(s) <= Cardinality(S)
  BY FS_Subset
<1> QED BY <1>7, <1>8 DEF IsFold

-----------------------------------------------------------------------------
(* The sum of a function *)

\* A finite function to the numbers: what the models sum up.
Summable(f) == IsFiniteSet(DOMAIN f) /\ \A x \in DOMAIN f : f[x] \in Nat

\* The partial sums of f, over the subsets of its domain.
IsSumOf(it, f) ==
  /\ it \in [SUBSET DOMAIN f -> Int]
  /\ it[{}] = 0
  /\ \A s \in SUBSET DOMAIN f : s # {} =>
       it[s] = f[CHOOSE x \in s : TRUE] + it[s \ {CHOOSE x \in s : TRUE}]

\* A sum over a finite domain is the last of the partial sums.
LEMMA SumsExist ==
  ASSUME NEW f, Summable(f)
  PROVE  \E it : IsSumOf(it, f) /\ SumFunction(f) = it[DOMAIN f]
<1> DEFINE D == DOMAIN f
           Eq(g) == g = [s \in SUBSET D |->
                           IF s = {} THEN 0
                           ELSE f[CHOOSE x \in s : TRUE] + g[s \ {CHOOSE x \in s : TRUE}]]
           pick == [s \in SUBSET D |-> CHOOSE x \in s : TRUE]
           F == [p \in D \X Int |-> f[p[1]] + p[2]]
           it == CHOOSE g : Eq(g)
<1>0. IsFiniteSet(DOMAIN f) /\ \A x \in DOMAIN f : f[x] \in Int
  BY DEF Summable
<1>1. \E g \in [SUBSET D -> Int] : IsFold(g, D, 0, pick, F)
  <2>1. Picks(pick, D)
    BY DEF Picks
  <2>2. Adds(F, D, Int)
    BY <1>0 DEF Adds
  <2>3. 0 \in Int /\ IsFiniteSet(D)
    BY <1>0
  <2> HIDE DEF D, pick, F
  <2> QED BY ONLY <2>1, <2>2, <2>3, FoldExists
<1>2. PICK g \in [SUBSET D -> Int] : \A s \in SUBSET D :
        g[s] = IF s = {} THEN 0 ELSE F[<<pick[s], g[s \ {pick[s]}]>>]
  <2> HIDE DEF D, pick, F
  <2> QED BY <1>1 DEF IsFold
<1>3. Eq(g)
  <2>1. \A s \in SUBSET D : s # {} =>
          F[<<pick[s], g[s \ {pick[s]}]>>]
            = f[CHOOSE x \in s : TRUE] + g[s \ {CHOOSE x \in s : TRUE}]
    <3> SUFFICES ASSUME NEW s \in SUBSET D, s # {}
                 PROVE  F[<<pick[s], g[s \ {pick[s]}]>>]
                          = f[CHOOSE x \in s : TRUE] + g[s \ {CHOOSE x \in s : TRUE}]
      OBVIOUS
    <3>1. pick[s] \in D /\ g[s \ {pick[s]}] \in Int
      OBVIOUS
    <3> QED BY <3>1
  <2> HIDE DEF F, pick
  <2> QED BY <1>2, <2>1
<1>4. Eq(it)
  <2> HIDE DEF Eq
  <2> QED BY <1>3
<1>5. it \in [SUBSET D -> Int]
  <2>1. \A s \in SUBSET D : it[s] \in Int
    <3> DEFINE T == {n \in Nat : \A s \in SUBSET D : Cardinality(s) <= n => it[s] \in Int}
    <3>0. \A s \in SUBSET D : IsFiniteSet(s) /\ Cardinality(s) \in Nat
      BY <1>0, FS_Subset, FS_CardinalityType
    <3>e. it[{}] = 0
      <4> HIDE DEF it
      <4> QED BY <1>4
    <3>1. 0 \in T
      <4>1. \A s \in SUBSET D : Cardinality(s) <= 0 => s = {}
        BY <3>0, FS_EmptySet
      <4> HIDE DEF it
      <4>2. \A s \in SUBSET D : Cardinality(s) <= 0 => it[s] \in Int
        BY ONLY <4>1, <3>e
      <4> QED BY ONLY <4>2
    <3>2. \A n \in Nat : n \in T => n + 1 \in T
      <4> SUFFICES ASSUME NEW n \in Nat, n \in T, NEW s \in SUBSET D, Cardinality(s) <= n + 1
                   PROVE  it[s] \in Int
        <5> HIDE DEF it
        <5> QED OBVIOUS
      <4>1. CASE s = {}
        BY <3>e, <4>1
      <4>2. CASE s # {}
        <5> DEFINE x == CHOOSE x \in s : TRUE
        <5>1. x \in s
          BY <4>2
        <5>2. it[s] = f[x] + it[s \ {x}]
          <6> HIDE DEF it
          <6> QED BY <1>4, <4>2
        <5> HIDE DEF x, it
        <5>3. s \ {x} \in SUBSET D /\ Cardinality(s \ {x}) <= n
          BY <3>0, <5>1, FS_RemoveElement
        <5>4. it[s \ {x}] \in Int
          BY <5>3
        <5> QED BY <1>0, <5>1, <5>2, <5>4
      <4> QED BY <4>1, <4>2
    <3>3. Nat \subseteq T
      <4> HIDE DEF T
      <4> QED BY <3>1, <3>2, SetInduction
    <3> HIDE DEF it
    <3> QED BY <3>0, <3>3
  <2> HIDE DEF it
  <2> QED BY <1>4, <2>1
<1>6. IsSumOf(it, f)
  <2> HIDE DEF it
  <2> QED BY <1>4, <1>5 DEF IsSumOf
<1>7. SumFunction(f) = it[DOMAIN f]
  BY DEF SumFunction, SumFunctionOnSet, FoldFunctionOnSet, MapThenFoldSet
<1> QED
  <2> HIDE DEF it
  <2> QED BY <1>6, <1>7

\* It does not matter which element is taken first.
AnyOrder(it, f) == \A s \in SUBSET DOMAIN f : \A x \in s : it[s] = f[x] + it[s \ {x}]

LEMMA AnyFirst ==
  ASSUME NEW f, Summable(f), NEW it, IsSumOf(it, f)
  PROVE  AnyOrder(it, f)
<1> DEFINE D == DOMAIN f
           T == {n \in Nat : \A s \in SUBSET D : Cardinality(s) <= n =>
                               \A x \in s : it[s] = f[x] + it[s \ {x}]}
<1>0. IsFiniteSet(DOMAIN f) /\ \A x \in DOMAIN f : f[x] \in Int
  BY DEF Summable
<1>1. \A s \in SUBSET D : IsFiniteSet(s) /\ Cardinality(s) \in Nat
  BY <1>0, FS_Subset, FS_CardinalityType
<1>2. 0 \in T
  <2>1. \A s \in SUBSET D : Cardinality(s) <= 0 => s = {}
    BY <1>1, FS_EmptySet
  <2> QED BY <2>1
<1>3. \A n \in Nat : n \in T => n + 1 \in T
  <2> SUFFICES ASSUME NEW n \in Nat, n \in T,
                      NEW s \in SUBSET D, Cardinality(s) <= n + 1, NEW x \in s
               PROVE  it[s] = f[x] + it[s \ {x}]
    OBVIOUS
  <2> DEFINE y == CHOOSE z \in s : TRUE
  <2>1. y \in s
    OBVIOUS
  <2>2. it[s] = f[y] + it[s \ {y}]
    BY DEF IsSumOf
  <2> HIDE DEF y
  <2>3. CASE x = y
    BY <2>2, <2>3
  <2>4. CASE x # y
    <3>a. IsFiniteSet(s) /\ Cardinality(s) \in Nat
      BY <1>1
    <3>b. Cardinality(s \ {y}) = Cardinality(s) - 1
      BY <2>1, <3>a, FS_RemoveElement
    <3>c. Cardinality(s \ {x}) = Cardinality(s) - 1
      BY <3>a, FS_RemoveElement
    <3>1. /\ s \ {y} \in SUBSET D /\ Cardinality(s \ {y}) <= n
          /\ s \ {x} \in SUBSET D /\ Cardinality(s \ {x}) <= n
      BY <3>a, <3>b, <3>c
    <3>2. it[s \ {y}] = f[x] + it[(s \ {y}) \ {x}]
      BY <2>4, <3>1
    <3>3. it[s \ {x}] = f[y] + it[(s \ {x}) \ {y}]
      BY <2>1, <2>4, <3>1
    <3>4. (s \ {y}) \ {x} = (s \ {x}) \ {y}
      OBVIOUS
    <3>d. (s \ {x}) \ {y} \in SUBSET DOMAIN f /\ x \in DOMAIN f /\ y \in DOMAIN f
      BY <2>1
    <3>5. it[(s \ {x}) \ {y}] \in Int /\ f[x] \in Int /\ f[y] \in Int
      BY <1>0, <3>d DEF IsSumOf
    <3>6. it[s \ {y}] = f[x] + it[(s \ {x}) \ {y}]
      BY <3>2, <3>4
    <3> HIDE DEF T
    <3> QED BY ONLY <2>2, <3>3, <3>5, <3>6
  <2> QED BY <2>3, <2>4
<1>4. Nat \subseteq T
  <2> HIDE DEF T
  <2> QED BY <1>2, <1>3, SetInduction
<1>5. SUFFICES ASSUME NEW s \in SUBSET D, NEW x \in s
               PROVE  it[s] = f[x] + it[s \ {x}]
  BY DEF AnyOrder
<1>6. Cardinality(s) \in T /\ Cardinality(s) <= Cardinality(s)
  <2> HIDE DEF T
  <2> QED BY <1>1, <1>4
<1> QED BY <1>6

\* A partial sum of a smaller function over fewer elements is not larger.
LEMMA PartialSumsGrow ==
  ASSUME NEW f, Summable(f), NEW g, Summable(g),
         NEW itf, IsSumOf(itf, f), NEW itg, IsSumOf(itg, g),
         NEW s, s \subseteq DOMAIN g, NEW e, e \subseteq s, e \subseteq DOMAIN f,
         \A x \in e : f[x] <= g[x]
  PROVE  itf[e] <= itg[s]
<1> DEFINE Ordered(t) == \A d \in SUBSET (t \cap e) : itf[d] <= itg[t]
           T == {n \in Nat : \A t \in SUBSET s : Cardinality(t) <= n => Ordered(t)}
<1>0. /\ IsFiniteSet(DOMAIN f) /\ \A x \in DOMAIN f : f[x] \in Int
      /\ IsFiniteSet(DOMAIN g) /\ \A x \in DOMAIN g : g[x] \in Int
      /\ \A x \in DOMAIN g : g[x] \in Nat
  BY DEF Summable
<1>1. IsFiniteSet(s)
  BY <1>0, FS_Subset
<1>2. \A t \in SUBSET s : IsFiniteSet(t) /\ Cardinality(t) \in Nat
  BY <1>1, FS_Subset, FS_CardinalityType
<1>3. \A d \in SUBSET DOMAIN f : itf[d] \in Int /\ \A x \in d : itf[d] = f[x] + itf[d \ {x}]
  <2>1. itf \in [SUBSET DOMAIN f -> Int]
    BY DEF IsSumOf
  <2>2. AnyOrder(itf, f)
    BY AnyFirst
  <2>3. \A d \in SUBSET DOMAIN f : \A x \in d : itf[d] = f[x] + itf[d \ {x}]
    BY <2>2 DEF AnyOrder
  <2> QED BY <2>1, <2>3
<1>4. \A t \in SUBSET DOMAIN g : itg[t] \in Int /\ \A x \in t : itg[t] = g[x] + itg[t \ {x}]
  <2>1. itg \in [SUBSET DOMAIN g -> Int]
    BY DEF IsSumOf
  <2>2. AnyOrder(itg, g)
    BY AnyFirst
  <2>3. \A t \in SUBSET DOMAIN g : \A x \in t : itg[t] = g[x] + itg[t \ {x}]
    BY <2>2 DEF AnyOrder
  <2> QED BY <2>1, <2>3
<1>5. 0 \in T
  <2>1. \A t \in SUBSET s : Cardinality(t) <= 0 => t = {}
    BY <1>2, FS_EmptySet
  <2>2. itf[{}] = 0 /\ itg[{}] = 0
    BY DEF IsSumOf
  <2>3. Ordered({})
    BY <2>2
  <2> QED BY <2>1, <2>3
<1>6. \A n \in Nat : n \in T => n + 1 \in T
  <2> SUFFICES ASSUME NEW n \in Nat, n \in T,
                      NEW t \in SUBSET s, Cardinality(t) <= n + 1,
                      NEW d \in SUBSET (t \cap e)
               PROVE  itf[d] <= itg[t]
    OBVIOUS
  <2>0. d \in SUBSET DOMAIN f /\ t \in SUBSET DOMAIN g
    OBVIOUS
  <2>1. CASE t = {}
    <3>1. d = {}
      BY <2>1
    <3> QED BY <2>1, <3>1 DEF IsSumOf
  <2>2. ASSUME NEW x \in t PROVE Ordered(t \ {x})
    <3>a. IsFiniteSet(t) /\ Cardinality(t) \in Nat
      BY <1>2
    <3>b. Cardinality(t \ {x}) = Cardinality(t) - 1
      BY <3>a, FS_RemoveElement
    <3>c. Cardinality(t \ {x}) <= n /\ t \ {x} \in SUBSET s
      BY <3>a, <3>b
    <3> HIDE DEF Ordered
    <3> QED BY <3>c
  <2>3. CASE \E x \in d : TRUE
    <3>1. PICK x \in d : TRUE
      BY <2>3
    <3>2. d \ {x} \in SUBSET ((t \ {x}) \cap e) /\ x \in t
      OBVIOUS
    <3>3. itf[d \ {x}] <= itg[t \ {x}]
      BY <2>2, <3>2
    <3>4. itf[d] = f[x] + itf[d \ {x}] /\ itg[t] = g[x] + itg[t \ {x}]
      BY <1>3, <1>4, <2>0, <3>2
    <3>5. f[x] <= g[x] /\ f[x] \in Int /\ g[x] \in Int
      BY <1>0
    <3>6. d \ {x} \in SUBSET DOMAIN f /\ t \ {x} \in SUBSET DOMAIN g
      BY <2>0
    <3>7. itf[d \ {x}] \in Int /\ itg[t \ {x}] \in Int
      BY <1>3, <1>4, <3>6
    <3> HIDE DEF T, Ordered
    <3> QED BY ONLY <3>3, <3>4, <3>5, <3>7
  <2>4. CASE d = {} /\ t # {}
    <3>1. PICK x \in t : TRUE
      BY <2>4
    <3>2. itf[d] <= itg[t \ {x}]
      BY <2>2, <2>4
    <3>3. itg[t] = g[x] + itg[t \ {x}] /\ g[x] \in Nat
      BY <1>0, <1>4, <2>0
    <3>4. itf[d] \in Int /\ itg[t \ {x}] \in Int
      BY <1>3, <1>4, <2>0
    <3> HIDE DEF T, Ordered
    <3> QED BY ONLY <3>2, <3>3, <3>4
  <2> QED BY <2>1, <2>3, <2>4
<1>7. Nat \subseteq T
  <2> HIDE DEF T
  <2> QED BY <1>5, <1>6, SetInduction
<1>8. Cardinality(s) \in T /\ Cardinality(s) <= Cardinality(s)
  <2> HIDE DEF T
  <2> QED BY <1>2, <1>7
<1>9. Ordered(s)
  <2> HIDE DEF Ordered
  <2> QED BY <1>8
<1> QED BY <1>9

\* A sum is a number.
LEMMA SumType ==
  ASSUME NEW f, Summable(f)
  PROVE  SumFunction(f) \in Nat
<1>1. PICK it : IsSumOf(it, f) /\ SumFunction(f) = it[DOMAIN f]
  BY SumsExist
<1>2. it[{}] <= it[DOMAIN f]
  <2>1. {} \subseteq DOMAIN f /\ DOMAIN f \subseteq DOMAIN f /\ \A x \in {} : f[x] <= f[x]
    OBVIOUS
  <2> QED BY <1>1, <2>1, PartialSumsGrow
<1>3. it[{}] = 0 /\ it[DOMAIN f] \in Int
  BY <1>1 DEF IsSumOf
<1> QED BY <1>1, <1>2, <1>3

\* The sum of a smaller function is not larger.
LEMMA SumMonotone ==
  ASSUME NEW f, Summable(f), NEW g, Summable(g), DOMAIN f \subseteq DOMAIN g,
         \A x \in DOMAIN f : f[x] <= g[x]
  PROVE  SumFunction(f) <= SumFunction(g)
<1>1. PICK itf : IsSumOf(itf, f) /\ SumFunction(f) = itf[DOMAIN f]
  BY SumsExist
<1>2. PICK itg : IsSumOf(itg, g) /\ SumFunction(g) = itg[DOMAIN g]
  BY SumsExist
<1>3. itf[DOMAIN f] <= itg[DOMAIN g]
  BY <1>1, <1>2, PartialSumsGrow
<1> QED BY <1>1, <1>2, <1>3

\* Nothing sums up to zero.
LEMMA SumOfNothing ==
  ASSUME NEW f, DOMAIN f = {}
  PROVE  SumFunction(f) = 0
<1>1. Summable(f)
  BY FS_EmptySet DEF Summable
<1>2. PICK it : IsSumOf(it, f) /\ SumFunction(f) = it[DOMAIN f]
  BY <1>1, SumsExist
<1> QED BY <1>2 DEF IsSumOf

\* Zeros sum up to zero.
LEMMA SumOfZeros ==
  ASSUME NEW f, Summable(f), \A x \in DOMAIN f : f[x] = 0
  PROVE  SumFunction(f) <= 0
<1>1. PICK it : IsSumOf(it, f) /\ SumFunction(f) = it[DOMAIN f]
  BY SumsExist
<1> DEFINE Zero(n) == \A s \in SUBSET DOMAIN f : Cardinality(s) <= n => it[s] = 0
           T == {n \in Nat : Zero(n)}
<1>2. \A s \in SUBSET DOMAIN f : IsFiniteSet(s) /\ Cardinality(s) \in Nat
  BY FS_Subset, FS_CardinalityType DEF Summable
<1>3. 0 \in T
  <2>1. \A s \in SUBSET DOMAIN f : Cardinality(s) <= 0 => s = {}
    BY <1>2, FS_EmptySet
  <2>2. Zero(0)
    BY <1>1, <2>1 DEF IsSumOf
  <2> HIDE DEF Zero
  <2> QED BY <2>2
<1>4. \A n \in Nat : n \in T => n + 1 \in T
  <2> SUFFICES ASSUME NEW n \in Nat, Zero(n) PROVE Zero(n + 1)
    <3> HIDE DEF Zero
    <3> QED OBVIOUS
  <2> SUFFICES ASSUME NEW s \in SUBSET DOMAIN f, Cardinality(s) <= n + 1, s # {}
               PROVE  it[s] = 0
    BY <1>1 DEF IsSumOf
  <2>1. PICK x \in s : TRUE
    OBVIOUS
  <2>2. s \ {x} \in SUBSET DOMAIN f /\ Cardinality(s \ {x}) = Cardinality(s) - 1
    BY <1>2, FS_RemoveElement
  <2>3. it[s \ {x}] = 0
    BY <1>2, <2>2
  <2>4. it[s] = f[x] + it[s \ {x}]
    BY <1>1, AnyFirst DEF AnyOrder
  <2> QED BY <2>3, <2>4
<1>5. Cardinality(DOMAIN f) \in T
  <2>1. Nat \subseteq T
    <3> HIDE DEF T
    <3> QED BY <1>3, <1>4, SetInduction
  <2> HIDE DEF T
  <2> QED BY <1>2, <2>1
<1>6. Zero(Cardinality(DOMAIN f))
  <2> HIDE DEF Zero
  <2> QED BY <1>5
<1> QED BY <1>1, <1>2, <1>6

\* Taking x out of f takes its value out of the sum.
LEMMA SumWithout ==
  ASSUME NEW f, Summable(f), NEW x \in DOMAIN f,
         NEW g, DOMAIN g = DOMAIN f \ {x}, \A y \in DOMAIN g : g[y] = f[y]
  PROVE  Summable(g) /\ SumFunction(g) = SumFunction(f) - f[x]
<1>0. Summable(g)
  <2>1. IsFiniteSet(DOMAIN g)
    BY FS_Subset DEF Summable
  <2> QED BY <2>1 DEF Summable
<1>1. PICK itf : IsSumOf(itf, f) /\ SumFunction(f) = itf[DOMAIN f]
  BY SumsExist
<1>2. PICK itg : IsSumOf(itg, g) /\ SumFunction(g) = itg[DOMAIN g]
  BY <1>0, SumsExist
<1>3. itf[DOMAIN f] = f[x] + itf[DOMAIN g]
  <2>1. DOMAIN f \in SUBSET DOMAIN f /\ DOMAIN f \ {x} = DOMAIN g
    OBVIOUS
  <2> QED BY <1>1, <2>1, AnyFirst DEF AnyOrder
<1>a. /\ DOMAIN g \subseteq DOMAIN g /\ DOMAIN g \subseteq DOMAIN f
      /\ \A y \in DOMAIN g : g[y] <= f[y] /\ f[y] <= g[y]
  BY <1>0 DEF Summable
<1>4. itg[DOMAIN g] <= itf[DOMAIN g]
  BY <1>0, <1>1, <1>2, <1>a, PartialSumsGrow
<1>5. itf[DOMAIN g] <= itg[DOMAIN g]
  BY <1>0, <1>1, <1>2, <1>a, PartialSumsGrow
<1>6. itg[DOMAIN g] \in Int /\ itf[DOMAIN g] \in Int /\ f[x] \in Int
  BY <1>1, <1>2 DEF IsSumOf, Summable
<1> QED BY <1>0, <1>1, <1>2, <1>3, <1>4, <1>5, <1>6

\* Giving x the value v replaces its old value in the sum, if it had one.
LEMMA SumWith ==
  ASSUME NEW f, Summable(f), NEW x, NEW v \in Nat,
         NEW g, DOMAIN g = DOMAIN f \cup {x}, g[x] = v,
         \A y \in DOMAIN f \ {x} : g[y] = f[y]
  PROVE  /\ Summable(g)
         /\ SumFunction(g) = SumFunction(f) - (IF x \in DOMAIN f THEN f[x] ELSE 0) + v
<1>1. Summable(g)
  <2>1. IsFiniteSet(DOMAIN g)
    BY FS_AddElement DEF Summable
  <2>2. \A y \in DOMAIN g : g[y] \in Nat
    BY DEF Summable
  <2> QED BY <2>1, <2>2 DEF Summable
<1>2. SumFunction(f) \in Nat /\ SumFunction(g) \in Nat
  BY <1>1, SumType
<1>3. CASE x \in DOMAIN f
  <2> DEFINE h == [y \in DOMAIN f \ {x} |-> f[y]]
  <2>1. SumFunction(h) = SumFunction(f) - f[x]
    <3>1. DOMAIN h = DOMAIN f \ {x} /\ \A y \in DOMAIN h : h[y] = f[y]
      OBVIOUS
    <3> HIDE DEF h
    <3> QED BY <1>3, <3>1, SumWithout
  <2>2. SumFunction(h) = SumFunction(g) - v
    <3>1. DOMAIN h = DOMAIN g \ {x} /\ \A y \in DOMAIN h : h[y] = g[y]
      BY <1>3
    <3>2. x \in DOMAIN g
      OBVIOUS
    <3> HIDE DEF h
    <3> QED BY <1>1, <3>1, <3>2, SumWithout
  <2>3. f[x] \in Nat
    BY <1>3 DEF Summable
  <2> HIDE DEF h
  <2> QED BY <1>1, <1>2, <1>3, <2>1, <2>2, <2>3
<1>4. CASE x \notin DOMAIN f
  <2>1. DOMAIN f = DOMAIN g \ {x} /\ (\A y \in DOMAIN f : f[y] = g[y]) /\ x \in DOMAIN g
    BY <1>4
  <2>2. SumFunction(f) = SumFunction(g) - g[x]
    BY <1>1, <2>1, SumWithout
  <2> QED BY <1>1, <1>2, <1>4, <2>2
<1> QED BY <1>3, <1>4

\* The sum over f is that over a part of it and that over the rest.
LEMMA SumOfParts ==
  ASSUME NEW f, Summable(f), NEW S \in SUBSET DOMAIN f,
         NEW g, DOMAIN g = S, \A y \in S : g[y] = f[y],
         NEW h, DOMAIN h = DOMAIN f \ S, \A y \in DOMAIN f \ S : h[y] = f[y]
  PROVE  /\ Summable(g) /\ Summable(h)
         /\ SumFunction(f) = SumFunction(g) + SumFunction(h)
<1> DEFINE D == DOMAIN f
           On(s) == [y \in s |-> f[y]]
           Parts(n) == \A s \in SUBSET D : Cardinality(s) = n =>
                         SumFunction(f) = SumFunction(On(s)) + SumFunction(On(D \ s))
           T == {n \in Nat : Parts(n)}
<1>0. IsFiniteSet(D) /\ \A x \in D : f[x] \in Nat
  BY DEF Summable
<1>1. \A s \in SUBSET D : IsFiniteSet(s) /\ Cardinality(s) \in Nat
  BY <1>0, FS_Subset, FS_CardinalityType
<1>2. ASSUME NEW s \in SUBSET D
      PROVE  Summable(On(s)) /\ SumFunction(On(s)) \in Nat /\ SumFunction(f) \in Nat
  <2>1. Summable(On(s))
    BY <1>0, <1>1 DEF Summable
  <2> HIDE DEF On
  <2> QED BY <2>1, SumType
<1>3. \A s \in SUBSET D : DOMAIN On(s) = s /\ \A y \in s : On(s)[y] = f[y]
  OBVIOUS
<1>4. ASSUME NEW k, Summable(k), DOMAIN k \in SUBSET D, \A y \in DOMAIN k : k[y] = f[y]
      PROVE  SumFunction(k) = SumFunction(On(DOMAIN k))
  <2> DEFINE o == On(DOMAIN k)
  <2>1. DOMAIN o = DOMAIN k /\ (\A y \in DOMAIN k : o[y] = k[y]) /\ Summable(o)
    BY <1>2, <1>3, <1>4
  <2> HIDE DEF o
  <2>2. \A y \in DOMAIN k : o[y] <= k[y] /\ k[y] <= o[y]
    BY <1>4, <2>1 DEF Summable
  <2>3. SumFunction(o) <= SumFunction(k) /\ SumFunction(k) <= SumFunction(o)
    BY <1>4, <2>1, <2>2, SumMonotone
  <2>4. SumFunction(o) \in Nat /\ SumFunction(k) \in Nat
    BY <1>4, <2>1, SumType
  <2> QED BY <2>3, <2>4 DEF o
<1> HIDE DEF On
<1>5. 0 \in T
  <2> SUFFICES ASSUME NEW s \in SUBSET D, Cardinality(s) = 0
               PROVE  SumFunction(f) = SumFunction(On(s)) + SumFunction(On(D \ s))
    OBVIOUS
  <2>1. s = {}
    BY <1>1, FS_EmptySet
  <2>2. SumFunction(On(s)) = 0
    BY <1>3, <2>1, SumOfNothing
  <2>3. SumFunction(f) = SumFunction(On(D))
    BY <1>4
  <2>4. D \ s = D
    BY <2>1
  <2> QED BY <1>2, <2>2, <2>3, <2>4
<1>6. \A n \in Nat : n \in T => n + 1 \in T
  <2> SUFFICES ASSUME NEW n \in Nat, Parts(n), NEW s \in SUBSET D, Cardinality(s) = n + 1
               PROVE  SumFunction(f) = SumFunction(On(s)) + SumFunction(On(D \ s))
    OBVIOUS
  <2>1. PICK x \in s : TRUE
    BY <1>1, FS_EmptySet
  <2>2. PICK t \in SUBSET D : t = s \ {x}
    OBVIOUS
  <2>3. Cardinality(t) = n
    <3>1. Cardinality(s \ {x}) = Cardinality(s) - 1
      BY <1>1, FS_RemoveElement
    <3> QED BY <2>2, <3>1
  <2>4. SumFunction(f) = SumFunction(On(t)) + SumFunction(On(D \ t))
    BY <2>3
  <2>5. SumFunction(On(t)) = SumFunction(On(s)) - f[x]
    <3>1. /\ DOMAIN On(t) = DOMAIN On(s) \ {x} /\ x \in DOMAIN On(s) /\ On(s)[x] = f[x]
          /\ \A y \in DOMAIN On(t) : On(t)[y] = On(s)[y]
      BY <1>3, <2>2
    <3> QED BY <1>2, <3>1, SumWithout
  <2>6. SumFunction(On(D \ s)) = SumFunction(On(D \ t)) - f[x]
    <3>0. PICK a \in SUBSET D, b \in SUBSET D : a = D \ s /\ b = D \ t
      OBVIOUS
    <3>1. a = b \ {x} /\ x \in b
      BY <2>2, <3>0
    <3> HIDE DEF D
    <3>2. /\ DOMAIN On(a) = DOMAIN On(b) \ {x} /\ x \in DOMAIN On(b) /\ On(b)[x] = f[x]
          /\ \A y \in DOMAIN On(a) : On(a)[y] = On(b)[y]
      BY <1>3, <3>1
    <3>3. Summable(On(b))
      BY <1>2
    <3>4. SumFunction(On(a)) = SumFunction(On(b)) - On(b)[x]
      BY <3>2, <3>3, SumWithout
    <3> QED BY <3>0, <3>2, <3>4
  <2>7. /\ SumFunction(On(s)) \in Nat /\ SumFunction(On(t)) \in Nat /\ f[x] \in Nat
        /\ SumFunction(On(D \ s)) \in Nat /\ SumFunction(On(D \ t)) \in Nat
    BY <1>0, <1>2
  <2> QED BY <2>4, <2>5, <2>6, <2>7
<1>7. Nat \subseteq T
  <2> HIDE DEF T
  <2> QED BY <1>5, <1>6, SetInduction
<1>8. SumFunction(f) = SumFunction(On(S)) + SumFunction(On(D \ S))
  <2>1. Cardinality(S) \in T
    <3> HIDE DEF T
    <3> QED BY <1>1, <1>7
  <2> QED BY <2>1
<1>9. Summable(g) /\ Summable(h)
  BY <1>0, <1>1 DEF Summable
<1>10. SumFunction(g) = SumFunction(On(S)) /\ SumFunction(h) = SumFunction(On(D \ S))
  BY <1>4, <1>9
<1> QED BY <1>8, <1>9, <1>10

-----------------------------------------------------------------------------
(* The sum of a sequence *)

\* A sequence of numbers can be summed up.
LEMMA SequencesAreSummable ==
  ASSUME NEW s \in Seq(Nat)
  PROVE  Summable(s)
<1>1. DOMAIN s = 1 .. Len(s) /\ Len(s) \in Nat
  OBVIOUS
<1>2. IsFiniteSet(DOMAIN s)
  BY <1>1, FS_Interval
<1> QED BY <1>1, <1>2 DEF Summable

\* One more number is added to the sum.
LEMMA SumOfAppend ==
  ASSUME NEW s \in Seq(Nat), NEW v \in Nat
  PROVE  SumFunction(Append(s, v)) = SumFunction(s) + v
<1>0. Append(s, v) \in Seq(Nat)
  OBVIOUS
<1>1. PICK g \in Seq(Nat) : g = Append(s, v)
  BY <1>0
<1>2. PICK x \in Nat : x = Len(s) + 1
  OBVIOUS
<1>3. DOMAIN s = DOMAIN g \ {x} /\ x \in DOMAIN g /\ g[x] = v /\ \A y \in DOMAIN s : s[y] = g[y]
  <2>1. Len(g) = x /\ DOMAIN g = 1 .. x /\ DOMAIN s = 1 .. x - 1
    BY <1>1, <1>2
  <2>2. g[x] = v /\ \A y \in 1 .. x - 1 : s[y] = g[y]
    BY <1>1, <1>2
  <2>3. x # 0
    BY <1>2
  <2> QED BY ONLY <2>1, <2>2, <2>3, x \in Nat
<1>4. Summable(g) /\ Summable(s)
  BY SequencesAreSummable
<1>5. SumFunction(s) = SumFunction(g) - g[x]
  BY <1>3, <1>4, SumWithout
<1>6. SumFunction(s) \in Nat /\ SumFunction(g) \in Nat
  BY <1>4, SumType
<1> QED BY <1>1, <1>3, <1>5, <1>6

\* The sum of a sequence is that of its parts.
LEMMA SumOfJoin ==
  ASSUME NEW s \in Seq(Nat), NEW t \in Seq(Nat)
  PROVE  SumFunction(s \o t) = SumFunction(s) + SumFunction(t)
<1> DEFINE Joins(n) == \A z \in Seq(Nat) : Len(z) = n =>
                         SumFunction(s \o z) = SumFunction(s) + SumFunction(z)
           T == {n \in Nat : Joins(n)}
<1>1. 0 \in T
  <2> SUFFICES ASSUME NEW z \in Seq(Nat), Len(z) = 0
               PROVE  SumFunction(s \o z) = SumFunction(s) + SumFunction(z)
    OBVIOUS
  <2>1. z = <<>> /\ s \o z = s /\ DOMAIN z = {}
    OBVIOUS
  <2>2. SumFunction(z) = 0
    BY <2>1, SumOfNothing
  <2>3. SumFunction(s) \in Nat
    BY SequencesAreSummable, SumType
  <2> QED BY <2>1, <2>2, <2>3
<1>2. \A n \in Nat : n \in T => n + 1 \in T
  <2> SUFFICES ASSUME NEW n \in Nat, Joins(n)
               PROVE  Joins(n + 1)
    <3> HIDE DEF Joins
    <3> QED OBVIOUS
  <2>a. \A z \in Seq(Nat) : Len(z) = n =>
          SumFunction(s \o z) = SumFunction(s) + SumFunction(z)
    OBVIOUS
  <2> HIDE DEF T
  <2> SUFFICES ASSUME NEW z \in Seq(Nat), Len(z) = n + 1
               PROVE  SumFunction(s \o z) = SumFunction(s) + SumFunction(z)
    OBVIOUS
  <2>1. PICK y \in Seq(Nat) : y = SubSeq(z, 1, n)
    <3>1. \A i \in 1 .. n : z[i] \in Nat
      OBVIOUS
    <3>2. SubSeq(z, 1, n) \in Seq(Nat)
      BY <3>1
    <3> QED BY <3>2
  <2>2. PICK v \in Nat : v = z[n + 1]
    OBVIOUS
  <2>3. Len(y) = n /\ z = Append(y, v)
    BY <2>1, <2>2
  <2>4. s \o z = Append(s \o y, v) /\ s \o y \in Seq(Nat)
    BY <2>3
  <2>5. SumFunction(s \o y) = SumFunction(s) + SumFunction(y)
    BY <2>a, <2>3
  <2>6. SumFunction(z) = SumFunction(y) + v
    BY <2>3, SumOfAppend
  <2>7. PICK r \in Seq(Nat) : r = s \o y
    BY <2>4
  <2>8. SumFunction(Append(r, v)) = SumFunction(r) + v
    BY SumOfAppend
  <2>9. SumFunction(s) \in Nat /\ SumFunction(y) \in Nat
    BY SequencesAreSummable, SumType
  <2> QED BY <2>4, <2>5, <2>6, <2>7, <2>8, <2>9
<1>3. Nat \subseteq T
  <2> HIDE DEF T
  <2> QED BY <1>1, <1>2, SetInduction
<1>4. Joins(Len(t))
  <2>1. Len(t) \in T
    <3> HIDE DEF T
    <3> QED BY <1>3
  <2> HIDE DEF Joins
  <2> QED BY <2>1
<1> QED BY <1>4

-----------------------------------------------------------------------------
(* The walk along a sequence *)

\* A set of positions that is not empty has a last one.
LEMMA LastPosition ==
  ASSUME NEW n \in Nat, NEW s \in SUBSET (1 .. n), s # {}
  PROVE  Max(s) \in s /\ \A y \in s : Max(s) >= y
<1> DEFINE HasLast(t) == \E x \in t : \A y \in t : x >= y
           T == {m \in Nat : \A t \in SUBSET (1 .. m) : t # {} => HasLast(t)}
<1>1. 0 \in T
  <2>1. \A t \in SUBSET (1 .. 0) : t = {}
    OBVIOUS
  <2> HIDE DEF HasLast
  <2> QED BY <2>1
<1>2. \A m \in Nat : m \in T => m + 1 \in T
  <2> SUFFICES ASSUME NEW m \in Nat, m \in T, NEW t \in SUBSET (1 .. m + 1), t # {}
               PROVE  HasLast(t)
    OBVIOUS
  <2>1. CASE m + 1 \in t
    BY <2>1
  <2>2. CASE m + 1 \notin t
    <3>1. t \in SUBSET (1 .. m)
      BY <2>2
    <3> HIDE DEF HasLast
    <3> QED BY <3>1
  <2> QED BY <2>1, <2>2
<1>3. n \in T
  <2> HIDE DEF T
  <2> QED BY <1>1, <1>2, SetInduction
<1>4. HasLast(s)
  <2> HIDE DEF HasLast
  <2> QED BY <1>3
<1> QED BY <1>4 DEF Max

\* The last position of the first n.
LEMMA LastOfInterval ==
  ASSUME NEW n \in Nat, n # 0
  PROVE  Max(1 .. n) = n
<1>1. n \in 1 .. n /\ 1 .. n # {} /\ 1 .. n \in SUBSET (1 .. n)
  OBVIOUS
<1>2. Max(1 .. n) \in 1 .. n /\ \A y \in 1 .. n : Max(1 .. n) >= y
  BY <1>1, LastPosition
<1> QED BY <1>1, <1>2

\* g walks the positions 1 .. n from b: F takes a position and the value before it.
IsWalk(g, n, b, F) ==
  \A s \in SUBSET (1 .. n) : g[s] = IF s = {} THEN b ELSE F[<<Max(s), g[s \ {Max(s)}]>>]

\* The recursion of FoldLeft has a solution.
LEMMA WalkExists ==
  ASSUME NEW n \in Nat, NEW V, NEW b \in V, NEW F, Adds(F, 1 .. n, V)
  PROVE  \E g \in [SUBSET (1 .. n) -> V] : IsWalk(g, n, b, F)
<1> DEFINE pick == [s \in SUBSET (1 .. n) |-> Max(s)]
<1>1. Picks(pick, 1 .. n)
  <2>1. \A s \in SUBSET (1 .. n) : s # {} => Max(s) \in s
    BY LastPosition
  <2> QED BY <2>1 DEF Picks
<1>2. IsFiniteSet(1 .. n)
  BY FS_Interval
<1>3. \E g \in [SUBSET (1 .. n) -> V] : IsFold(g, 1 .. n, b, pick, F)
  <2> HIDE DEF pick
  <2> QED BY <1>1, <1>2, FoldExists
<1>4. PICK g \in [SUBSET (1 .. n) -> V] : IsFold(g, 1 .. n, b, pick, F)
  BY <1>3
<1>5. IsWalk(g, n, b, F)
  <2> SUFFICES ASSUME NEW s \in SUBSET (1 .. n)
               PROVE  g[s] = IF s = {} THEN b ELSE F[<<Max(s), g[s \ {Max(s)}]>>]
    BY DEF IsWalk
  <2>1. pick[s] = Max(s)
    OBVIOUS
  <2> HIDE DEF pick
  <2> QED BY <1>4, <2>1 DEF IsFold
<1> QED BY <1>5

=============================================================================
