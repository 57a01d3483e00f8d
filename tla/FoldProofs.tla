------------------------------- MODULE FoldProofs -------------------------------
(***************************************************************************)
(* What the folds of the community modules compute, for the proofs about   *)
(* the modules that use them.  Their definitions recurse over subsets; the *)
(* induction is by a least counterexample, from the library's theorem that *)
(* a well-founded order has minimal elements.                              *)
(***************************************************************************)
EXTENDS Integers, Functions, FiniteSetsExt, FiniteSetTheorems, WellFoundedInduction, TLAPS

(* Induction over the natural numbers, for a set of them. *)
LEMMA NaturalsFrom0 ==
    ASSUME NEW T, 0 \in T, \A n \in Nat : n \in T => n + 1 \in T
    PROVE  \A n \in Nat : n \in T
<1> DEFINE Below == {p \in Nat \X Nat : p[1] < p[2]}
           Outside == Nat \ T
<1> SUFFICES ASSUME Outside # {} PROVE FALSE
  OBVIOUS
<1>1. IsWellFoundedOn(Below, Nat)
  BY NatLessThanWellFounded, Zenon DEF OpToRel
<1>2. PICK n \in Outside : \A m \in Outside : <<m, n>> \notin Below
  <2> HIDE DEF Below
  <2> QED BY <1>1, WFMin
<1>3. n # 0 /\ n - 1 \in Nat /\ <<n - 1, n>> \in Below
  BY <1>2
<1>4. n - 1 \in T
  BY <1>2, <1>3
<1> QED
  BY <1>2, <1>3, <1>4

-----------------------------------------------------------------------------
(* What is folded over the members of a family of sets, where next gives the *)
(* element of a set that is taken first.                                     *)
FoldsOn(folds, g, base, next, family) ==
    folds = [s \in family |-> IF s = {} THEN base ELSE g[<<next[s], folds[s \ {next[s]}]>>]]

TakesMembers(next, S) == \A s \in SUBSET S : s # {} => next[s] \in s

(* The recursion is sound: it has a solution, built up by the sets' sizes. *)
LEMMA FoldsExist ==
    ASSUME NEW S, IsFiniteSet(S), NEW g, NEW base, NEW next, TakesMembers(next, S)
    PROVE  \E folds : FoldsOn(folds, g, base, next, SUBSET S)
<1> DEFINE UpTo(n) == {s \in SUBSET S : Cardinality(s) <= n}
           Sizes == {n \in Nat : \E folds : FoldsOn(folds, g, base, next, UpTo(n))}
<1>1. \A s \in SUBSET S : IsFiniteSet(s) /\ Cardinality(s) \in Nat
  BY FS_Subset, FS_CardinalityType
<1>2. \A s \in SUBSET S : s # {} =>
        /\ next[s] \in s
        /\ s \ {next[s]} \in SUBSET S
        /\ Cardinality(s \ {next[s]}) = Cardinality(s) - 1
  BY <1>1, FS_RemoveElement DEF TakesMembers
<1>3. 0 \in Sizes
  <2>1. \A s \in UpTo(0) : s = {}
    BY <1>1, FS_EmptySet
  <2>2. FoldsOn([s \in UpTo(0) |-> base], g, base, next, UpTo(0))
    <3> HIDE DEF UpTo
    <3> QED BY <2>1 DEF FoldsOn
  <2> QED
    BY <2>2
<1>4. ASSUME NEW n \in Nat, n \in Sizes
      PROVE  n + 1 \in Sizes
  <2>1. PICK folds : FoldsOn(folds, g, base, next, UpTo(n))
    BY <1>4
  <2> DEFINE more == [s \in UpTo(n + 1) |->
                        IF s = {} THEN base ELSE g[<<next[s], folds[s \ {next[s]}]>>]]
  <2>2. \A s \in UpTo(n) : s \in UpTo(n + 1) /\ more[s] = folds[s]
    <3>1. \A s \in UpTo(n) : s \in UpTo(n + 1)
      BY <1>1
    <3> HIDE DEF UpTo
    <3> QED BY <2>1, <3>1 DEF FoldsOn
  <2>3. \A s \in UpTo(n + 1) : s # {} => s \ {next[s]} \in UpTo(n)
    BY <1>1, <1>2
  <2>4. FoldsOn(more, g, base, next, UpTo(n + 1))
    <3>1. \A s \in UpTo(n + 1) : s # {} => more[s \ {next[s]}] = folds[s \ {next[s]}]
      <4> HIDE DEF UpTo, more
      <4> QED BY <2>2, <2>3
    <3> HIDE DEF UpTo
    <3> QED BY <3>1 DEF FoldsOn
  <2>5. \E longer : FoldsOn(longer, g, base, next, UpTo(n + 1))
    <3> HIDE DEF more, UpTo
    <3> QED BY <2>4
  <2>6. n + 1 \in Nat
    OBVIOUS
  <2> HIDE DEF UpTo
  <2> QED
    BY <2>5, <2>6, Zenon
<1>5. Cardinality(S) \in Sizes
  <2>1. Cardinality(S) \in Nat
    BY FS_CardinalityType
  <2> HIDE DEF Sizes
  <2> QED BY <1>3, <1>4, <2>1, NaturalsFrom0
<1>6. UpTo(Cardinality(S)) = SUBSET S
  BY FS_Subset
<1> QED
  BY <1>5, <1>6

(* A property holds of every set if it holds of a set whenever it holds of   *)
(* the set without the element that is taken first.                          *)
GrowsByOne(T, next, S) == \A s \in SUBSET S : s = {} \/ s \ {next[s]} \in T => s \in T

LEMMA SubsetsByOne ==
    ASSUME NEW S, IsFiniteSet(S), NEW next, TakesMembers(next, S),
           NEW T, GrowsByOne(T, next, S)
    PROVE  \A s \in SUBSET S : s \in T
<1> DEFINE Of(n) == {s \in SUBSET S : Cardinality(s) = n}
           Sizes == {n \in Nat : Of(n) \subseteq T}
<1>1. \A s \in SUBSET S : IsFiniteSet(s) /\ Cardinality(s) \in Nat
  BY FS_Subset, FS_CardinalityType
<1>2. 0 \in Sizes
  <2>1. {} \in T /\ \A s \in Of(0) : s = {}
    BY <1>1, FS_EmptySet DEF GrowsByOne
  <2> QED
    BY <2>1
<1>3. ASSUME NEW n \in Nat, n \in Sizes
      PROVE  n + 1 \in Sizes
  <2>1. ASSUME NEW s \in Of(n + 1)
        PROVE  s \in T
    <3>1. s # {} /\ next[s] \in s
      BY <1>1, FS_EmptySet DEF TakesMembers
    <3>2. s \ {next[s]} \in Of(n)
      BY <1>1, <3>1, FS_RemoveElement
    <3> QED
      BY <1>3, <3>2 DEF GrowsByOne
  <2> QED
    BY <2>1
<1>4. \A n \in Nat : n \in Sizes
  <2> HIDE DEF Sizes
  <2> QED BY <1>2, <1>3, NaturalsFrom0
<1> QED
  BY <1>1, <1>4

LEMMA FoldsType ==
    ASSUME NEW S, IsFiniteSet(S), NEW next, TakesMembers(next, S),
           NEW A, NEW base \in A, NEW g \in [S \X A -> A],
           NEW folds, FoldsOn(folds, g, base, next, SUBSET S)
    PROVE  folds \in [SUBSET S -> A]
<1> DEFINE T == {s \in SUBSET S : folds[s] \in A}
<1>1. ASSUME NEW s \in SUBSET S, s = {} \/ s \ {next[s]} \in T
      PROVE  s \in T
  <2>1. folds[s] = IF s = {} THEN base ELSE g[<<next[s], folds[s \ {next[s]}]>>]
    BY DEF FoldsOn
  <2>2. s # {} => next[s] \in S
    BY DEF TakesMembers
  <2> QED
    BY <1>1, <2>1, <2>2
<1>2. GrowsByOne(T, next, S)
  <2> HIDE DEF T
  <2> QED BY <1>1 DEF GrowsByOne
<1> HIDE DEF T
<1>3. \A s \in SUBSET S : s \in T
  BY <1>2, SubsetsByOne
<1>4. DOMAIN folds = SUBSET S /\ folds = [s \in SUBSET S |-> folds[s]]
  BY DEF FoldsOn
<1> QED
  BY <1>3, <1>4 DEF T

-----------------------------------------------------------------------------
(* Folds over sequences, whose sets are intervals and lose their maximum. *)
LEMMA UpToN ==
    ASSUME NEW n \in Nat, NEW T, 0 \in T, \A i \in 1 .. n : i - 1 \in T => i \in T
    PROVE  \A i \in 0 .. n : i \in T
<1> DEFINE V == {i \in Nat : i <= n => i \in T}
<1>1. 0 \in V
  OBVIOUS
<1>2. ASSUME NEW i \in Nat, i \in V
      PROVE  i + 1 \in V
  <2>1. CASE i + 1 <= n
    <3>1. i + 1 \in 1 .. n /\ (i + 1) - 1 = i /\ i \in T
      BY <1>2, <2>1
    <3> QED
      BY <3>1
  <2> QED
    BY <2>1
<1> HIDE DEF V
<1>3. \A i \in Nat : i \in V
  BY <1>1, <1>2, NaturalsFrom0
<1> QED
  BY <1>3 DEF V

LEMMA MaxOfNumbers ==
    ASSUME NEW n \in Nat
    PROVE  \A s \in SUBSET (1 .. n) : s # {} => Max(s) \in s /\ \A y \in s : y <= Max(s)
<1> DEFINE T == {m \in 0 .. n : \A s \in SUBSET (1 .. m) : s # {} => \E x \in s : \A y \in s : x >= y}
<1>1. 0 \in T
  <2>1. 1 .. 0 = {} /\ 0 \in 0 .. n
    OBVIOUS
  <2> QED
    BY <2>1
<1>2. ASSUME NEW m \in 1 .. n, m - 1 \in T
      PROVE  m \in T
  <2>1. ASSUME NEW s \in SUBSET (1 .. m), s # {}
        PROVE  \E x \in s : \A y \in s : x >= y
    <3>1. CASE m \in s
      BY <3>1
    <3>2. CASE m \notin s
      <4>1. s \in SUBSET (1 .. (m - 1))
        BY <3>2
      <4> QED
        BY <1>2, <2>1, <4>1
    <3> QED
      BY <3>1, <3>2
  <2> QED
    BY <2>1
<1>3. n \in T
  <2> HIDE DEF T
  <2> QED BY <1>1, <1>2, UpToN
<1>4. ASSUME NEW s \in SUBSET (1 .. n), s # {}
      PROVE  Max(s) \in s /\ \A y \in s : y <= Max(s)
  <2>1. \E x \in s : \A y \in s : x >= y
    BY <1>3, <1>4
  <2>2. Max(s) \in s /\ \A y \in s : Max(s) >= y
    BY <2>1 DEF Max
  <2> QED
    BY <2>2
<1> QED
  BY <1>4

LEMMA MaxOfInterval ==
    ASSUME NEW n \in Nat, NEW i \in 1 .. n
    PROVE  Max(1 .. i) = i /\ (1 .. i) \ {i} = 1 .. (i - 1)
<1>1. 1 .. i \in SUBSET (1 .. n) /\ i \in 1 .. i
  OBVIOUS
<1>2. Max(1 .. i) \in 1 .. i /\ i <= Max(1 .. i)
  BY <1>1, MaxOfNumbers
<1> QED
  BY <1>2

LeftFoldsOn(folds, g, base, n) ==
    folds = [s \in SUBSET (1 .. n) |->
                IF s = {} THEN base ELSE g[<<Max(s), folds[s \ {Max(s)}]>>]]

LEMMA LeftFoldsExist ==
    ASSUME NEW n \in Nat, NEW A, NEW base \in A, NEW g \in [(1 .. n) \X A -> A]
    PROVE  \E folds \in [SUBSET (1 .. n) -> A] : LeftFoldsOn(folds, g, base, n)
<1>1. PICK next : next = [s \in SUBSET (1 .. n) |-> Max(s)]
  OBVIOUS
<1>2. TakesMembers(next, 1 .. n)
  BY <1>1, MaxOfNumbers DEF TakesMembers
<1>3. IsFiniteSet(1 .. n)
  BY FS_Interval
<1>4. PICK folds : FoldsOn(folds, g, base, next, SUBSET (1 .. n))
  BY <1>2, <1>3, FoldsExist
<1>5. folds \in [SUBSET (1 .. n) -> A]
  BY <1>2, <1>3, <1>4, FoldsType
<1> QED
  BY <1>1, <1>4, <1>5 DEF FoldsOn, LeftFoldsOn

(* Every step of a sequence of them depends on the one before. *)
StepsOn(r, g, base, n) == r[0] = base /\ \A i \in 1 .. n : r[i] = g[<<i, r[i - 1]>>]

LEMMA StepsExist ==
    ASSUME NEW n \in Nat, NEW A, NEW base \in A, NEW g \in [(1 .. n) \X A -> A]
    PROVE  \E r \in [0 .. n -> A] : StepsOn(r, g, base, n)
<1>1. PICK folds \in [SUBSET (1 .. n) -> A] : LeftFoldsOn(folds, g, base, n)
  BY LeftFoldsExist
<1>2. PICK r : r = [i \in 0 .. n |-> folds[1 .. i]]
  OBVIOUS
<1>3. \A i \in 0 .. n : 1 .. i \in SUBSET (1 .. n)
  OBVIOUS
<1>4. r \in [0 .. n -> A]
  BY <1>2, <1>3
<1>5. 1 .. 0 = {} /\ 0 \in 0 .. n
  OBVIOUS
<1>6. r[0] = base
  BY <1>1, <1>2, <1>3, <1>5 DEF LeftFoldsOn
<1>7. ASSUME NEW i \in 1 .. n
      PROVE  r[i] = g[<<i, r[i - 1]>>]
  <2>1. i \in 0 .. n /\ i - 1 \in 0 .. n /\ i \in 1 .. i
    OBVIOUS
  <2>2. folds[1 .. i] = g[<<Max(1 .. i), folds[(1 .. i) \ {Max(1 .. i)}]>>]
    BY <1>1, <1>3, <2>1 DEF LeftFoldsOn
  <2> QED
    BY <1>2, <2>1, <2>2, MaxOfInterval
<1> QED
  BY <1>4, <1>6, <1>7 DEF StepsOn

-----------------------------------------------------------------------------
(* The sums of the community modules: which element they take next is not    *)
(* specified.                                                                *)
Next1(s) == CHOOSE x \in s : TRUE

SumsOn(sums, f, family) ==
    sums = [s \in family |-> IF s = {} THEN 0 ELSE f[Next1(s)] + sums[s \ {Next1(s)}]]

Sums(f, S) == CHOOSE sums : SumsOn(sums, f, SUBSET S)

LEMMA SumsExist ==
    ASSUME NEW S, IsFiniteSet(S), NEW f \in [S -> Int]
    PROVE  SumsOn(Sums(f, S), f, SUBSET S)
<1> DEFINE g == [p \in S \X Int |-> f[p[1]] + p[2]]
           next == [s \in SUBSET S |-> Next1(s)]
<1>1. TakesMembers(next, S)
  BY DEF TakesMembers, Next1
<1>2. g \in [S \X Int -> Int]
  OBVIOUS
<1>3. PICK sums : FoldsOn(sums, g, 0, next, SUBSET S)
  <2> HIDE DEF g, next
  <2> QED BY <1>1, FoldsExist
<1>4. sums \in [SUBSET S -> Int]
  <2>1. 0 \in Int
    OBVIOUS
  <2> HIDE DEF g, next
  <2> QED BY <1>1, <1>2, <1>3, <2>1, FoldsType
<1>5. ASSUME NEW s \in SUBSET S, s # {}
      PROVE  g[<<next[s], sums[s \ {next[s]}]>>] = f[Next1(s)] + sums[s \ {Next1(s)}]
  <2>1. Next1(s) \in S /\ next[s] = Next1(s) /\ sums[s \ {Next1(s)}] \in Int
    BY <1>4, <1>5 DEF Next1
  <2>2. <<Next1(s), sums[s \ {Next1(s)}]>> \in S \X Int
    BY <2>1
  <2> HIDE DEF next
  <2> QED
    BY <2>1, <2>2
<1>6. SumsOn(sums, f, SUBSET S)
  <2> HIDE DEF g, next
  <2> QED BY <1>3, <1>5 DEF FoldsOn, SumsOn
<1> QED
  BY <1>6 DEF Sums

(* The community modules' sum is one of these. *)
LEMMA SumIsSums ==
    ASSUME NEW S, NEW f
    PROVE  SumFunctionOnSet(f, S) = Sums(f, S)[S]
BY DEF SumFunctionOnSet, FoldFunctionOnSet, MapThenFoldSet, Sums, SumsOn, Next1

LEMMA SumsUnfold ==
    ASSUME NEW S, IsFiniteSet(S), NEW f \in [S -> Int], NEW s \in SUBSET S
    PROVE  Sums(f, S)[s] = IF s = {} THEN 0 ELSE f[Next1(s)] + Sums(f, S)[s \ {Next1(s)}]
<1> DEFINE sums == Sums(f, S)
<1>1. SumsOn(sums, f, SUBSET S)
  BY SumsExist
<1> HIDE DEF sums
<1>2. sums[s] = IF s = {} THEN 0 ELSE f[Next1(s)] + sums[s \ {Next1(s)}]
  BY <1>1 DEF SumsOn
<1> QED
  BY <1>2 DEF sums

(* A property of sums, shown for one element after another. *)
LEMMA SumsByOne ==
    ASSUME NEW S, IsFiniteSet(S), NEW T,
           \A s \in SUBSET S : s = {} \/ s \ {Next1(s)} \in T => s \in T
    PROVE  \A s \in SUBSET S : s \in T
<1>1. PICK next : next = [s \in SUBSET S |-> Next1(s)]
  OBVIOUS
<1>2. TakesMembers(next, S)
  BY <1>1 DEF TakesMembers, Next1
<1>3. GrowsByOne(T, next, S)
  BY <1>1 DEF GrowsByOne
<1> QED
  BY <1>2, <1>3, SubsetsByOne

LEMMA SumsType ==
    ASSUME NEW S, IsFiniteSet(S), NEW f \in [S -> Int]
    PROVE  \A s \in SUBSET S : Sums(f, S)[s] \in Int
<1> DEFINE T == {s \in SUBSET S : Sums(f, S)[s] \in Int}
<1>1. ASSUME NEW s \in SUBSET S, s = {} \/ s \ {Next1(s)} \in T
      PROVE  s \in T
  <2>1. s # {} => Next1(s) \in S
    BY DEF Next1
  <2>2. Sums(f, S)[s] = IF s = {} THEN 0 ELSE f[Next1(s)] + Sums(f, S)[s \ {Next1(s)}]
    BY SumsUnfold
  <2> QED
    BY <1>1, <2>1, <2>2
<1> HIDE DEF T
<1>2. \A s \in SUBSET S : s \in T
  BY <1>1, SumsByOne
<1> QED
  BY <1>2 DEF T

LEMMA SumType ==
    ASSUME NEW S, IsFiniteSet(S), NEW f \in [S -> Int]
    PROVE  SumFunctionOnSet(f, S) \in Int
BY SumsType, SumIsSums

(* Nothing adds up to nothing. *)
LEMMA SumOfZeros ==
    ASSUME NEW S, IsFiniteSet(S), NEW f \in [S -> Int], \A x \in S : f[x] = 0
    PROVE  SumFunctionOnSet(f, S) = 0
<1> DEFINE T == {s \in SUBSET S : Sums(f, S)[s] = 0}
<1>1. ASSUME NEW s \in SUBSET S, s = {} \/ s \ {Next1(s)} \in T
      PROVE  s \in T
  <2>1. s # {} => Next1(s) \in S
    BY DEF Next1
  <2>2. Sums(f, S)[s] = IF s = {} THEN 0 ELSE f[Next1(s)] + Sums(f, S)[s \ {Next1(s)}]
    BY SumsUnfold
  <2> QED
    BY <1>1, <2>1, <2>2
<1> HIDE DEF T
<1>2. \A s \in SUBSET S : s \in T
  BY <1>1, SumsByOne
<1> QED
  BY <1>2, SumIsSums DEF T

(* A sum grows by what one of its terms grows by. *)
LEMMA SumWithOneChanged ==
    ASSUME NEW S, IsFiniteSet(S), NEW f \in [S -> Int], NEW g \in [S -> Int],
           NEW a \in S, NEW d \in Int,
           g[a] = f[a] + d, \A x \in S \ {a} : g[x] = f[x]
    PROVE  SumFunctionOnSet(g, S) = SumFunctionOnSet(f, S) + d
<1> DEFINE T == {s \in SUBSET S :
                   Sums(g, S)[s] = Sums(f, S)[s] + (IF a \in s THEN d ELSE 0)}
<1>1. ASSUME NEW s \in SUBSET S, s = {} \/ s \ {Next1(s)} \in T
      PROVE  s \in T
  <2>1. CASE s = {}
    <3>1. Sums(g, S)[s] = 0 /\ Sums(f, S)[s] = 0
      BY <2>1, SumsUnfold
    <3> QED
      BY <2>1, <3>1
  <2>2. CASE s # {}
    <3> DEFINE x == Next1(s)
               rest == s \ {x}
    <3>1. x \in s /\ x \in S /\ rest \in SUBSET S
      BY <2>2 DEF Next1
    <3>2. Sums(f, S)[s] = f[x] + Sums(f, S)[rest] /\ Sums(g, S)[s] = g[x] + Sums(g, S)[rest]
      BY <2>2, SumsUnfold
    <3>3. Sums(g, S)[rest] = Sums(f, S)[rest] + (IF a \in rest THEN d ELSE 0)
      BY <1>1, <2>2
    <3>4. Sums(f, S)[rest] \in Int /\ f[x] \in Int
      BY <3>1, SumsType
    <3>5. CASE x = a
      <4>1. a \in s /\ a \notin rest
        BY <3>1, <3>5
      <4> HIDE DEF x, rest
      <4> QED BY <3>2, <3>3, <3>4, <3>5, <4>1
    <3>6. CASE x # a
      <4>1. a \in s <=> a \in rest
        BY <3>6
      <4>2. g[x] = f[x]
        BY <3>1, <3>6
      <4> HIDE DEF x, rest
      <4> QED BY <3>2, <3>3, <3>4, <4>1, <4>2
    <3> QED
      BY <3>5, <3>6
  <2> QED
    BY <2>1, <2>2
<1> HIDE DEF T
<1>2. S \in T
  BY <1>1, SumsByOne
<1> QED
  BY <1>2, SumIsSums DEF T
=============================================================================
