---------------------------- MODULE NumberLemmas ----------------------------
(***************************************************************************)
(* Least and greatest elements of sets of numbers: the frontier of a log,  *)
(* the newest checkpoint, the oldest journal and the next child to cancel  *)
(* are all chosen as one.  And sums over finite sets, as the prompt budget *)
(* and the totals of the facts compute them, and the nth of some numbers.  *)
(***************************************************************************)
EXTENDS Integers, FiniteSets, FiniteSetsExt, FiniteSetTheorems, WellFoundedInduction, TLAPS

\* A non-empty set of natural numbers has a least element.
LEMMA LeastNatural ==
  ASSUME NEW T \in SUBSET Nat, T # {}
  PROVE  \E n \in T : \A m \in T : n <= m
<1> DEFINE R == {ss \in Nat \X Nat : ss[1] < ss[2]}
<1>1. PICK n \in T : \A m \in T : ~(<<m, n>> \in R)
  <2>1. IsWellFoundedOn(R, Nat)
    BY NatLessThanWellFounded, Zenon DEF OpToRel
  <2> HIDE DEF R
  <2> QED
    BY <2>1, WFMin
<1>2. \A m \in T : ~(m < n)
  BY <1>1
<1> QED
  BY <1>2

\* A non-empty set of natural numbers below a bound has a greatest element.
LEMMA GreatestBelow ==
  ASSUME NEW k \in Nat, NEW S \in SUBSET (0..k), S # {}
  PROVE  \E n \in S : \A m \in S : m <= n
<1> DEFINE U == {b \in Nat : \A m \in S : m <= b}
<1>1. PICK b \in U : \A c \in U : b <= c
  <2>1. k \in U
    OBVIOUS
  <2> HIDE DEF U
  <2>2. U \in SUBSET Nat
    BY DEF U
  <2> QED
    BY <2>1, <2>2, LeastNatural
<1>2. b \in Nat /\ \A m \in S : m <= b
  BY <1>1
<1>3. b \in S
  <2> SUFFICES ASSUME b \notin S PROVE FALSE
    OBVIOUS
  <2>1. \A m \in S : m \in Nat /\ m < b
    BY <1>2
  <2>2. PICK m \in S : TRUE
    OBVIOUS
  <2>3. b - 1 \in U
    BY <1>2, <2>1, <2>2
  <2> QED
    BY <1>1, <1>2, <2>3
<1> QED
  BY <1>2, <1>3

-----------------------------------------------------------------------------
(* Sums.                                                                   *)
(*                                                                         *)
(* The values of a finite set are summed in the order in which CHOOSE      *)
(* takes them.  The lemmas below make that order immaterial.               *)

\* Induction over the subsets of a finite set: what holds of a set when it holds of the set without
\* any one of its elements holds of them all.
LEMMA SetInduction ==
  ASSUME NEW S, IsFiniteSet(S), NEW Fam,
         \A T \in SUBSET S : (\A x \in T : T \ {x} \in Fam) => T \in Fam
  PROVE  \A T \in SUBSET S : T \in Fam
<1> DEFINE Bad == {n \in Nat : \E T \in SUBSET S : T \notin Fam /\ Cardinality(T) = n}
<1> SUFFICES ASSUME NEW U \in SUBSET S, U \notin Fam PROVE FALSE
  OBVIOUS
<1>1. \A T \in SUBSET S : IsFiniteSet(T) /\ Cardinality(T) \in Nat
  BY FS_Subset, FS_CardinalityType
<1>2. PICK n \in Bad : \A m \in Bad : n <= m
  <2>1. Bad \in SUBSET Nat /\ Bad # {}
    BY <1>1
  <2> HIDE DEF Bad
  <2> QED
    BY <2>1, LeastNatural
<1>3. PICK T \in SUBSET S : T \notin Fam /\ Cardinality(T) = n
  BY <1>2
<1>4. \A x \in T : T \ {x} \in Fam
  <2> SUFFICES ASSUME NEW x \in T, T \ {x} \notin Fam PROVE FALSE
    OBVIOUS
  <2>1. Cardinality(T \ {x}) = n - 1
    BY <1>1, <1>3, FS_RemoveElement
  <2>2. T \ {x} \in SUBSET S
    OBVIOUS
  <2>3. n - 1 \in Bad
    BY <1>1, <2>1, <2>2
  <2> QED
    BY <1>2, <2>3
<1> QED
  BY <1>3, <1>4

\* The sum of the values of v over S.
SumOver(v, S) == SumFunctionOnSet(v, S)

ChosenOf(s) == CHOOSE x \in s : TRUE

\* What stands in a fold at s, for any function of the smaller sets.
SumAt(v, g, s) == IF s = {} THEN 0 ELSE v[ChosenOf(s)] + g[s \ {ChosenOf(s)}]

SumSolves(v, S, g) == g = [s \in SUBSET S |-> SumAt(v, g, s)]

LEMMA SumChosen ==
  ASSUME NEW v, NEW S
  PROVE  SumOver(v, S) = (CHOOSE g : SumSolves(v, S, g))[S]
BY DEF SumOver, SumFunctionOnSet, FoldFunctionOnSet, MapThenFoldSet, SumSolves, SumAt, ChosenOf

LEMMA ChosenIn ==
  ASSUME NEW s, s # {}
  PROVE  ChosenOf(s) \in s
BY Zenon DEF ChosenOf

\* A fold of v over the subsets of S.
IsFold(v, S, g) == \A s \in SUBSET S : g[s] = SumAt(v, g, s)

SumUpTo(v, S, n, g) ==
  \A s \in SUBSET S : Cardinality(s) <= n => g[s] = SumAt(v, g, s)

SumFound(v, S, n, g) == g = [s \in SUBSET S |-> g[s]] /\ SumUpTo(v, S, n, g)

LEMMA SumExists ==
  ASSUME NEW v, NEW S, IsFiniteSet(S)
  PROVE  \E g : SumSolves(v, S, g)
<1>0. \A T \in SUBSET S : IsFiniteSet(T) /\ Cardinality(T) \in Nat
  BY FS_Subset, FS_CardinalityType
<1>1. \A s \in SUBSET S : s # {} =>
        /\ s \ {ChosenOf(s)} \in SUBSET S
        /\ Cardinality(s \ {ChosenOf(s)}) = Cardinality(s) - 1
  BY <1>0, ChosenIn, FS_RemoveElement
<1>1a. \A s \in SUBSET S : Cardinality(s) <= 0 => s = {}
  <2> SUFFICES ASSUME NEW s \in SUBSET S, Cardinality(s) <= 0 PROVE s = {}
    OBVIOUS
  <2>1. Cardinality(s) = 0
    BY <1>0
  <2> QED
    BY <1>0, <2>1, FS_EmptySet
<1> DEFINE Bad == {n \in Nat : ~\E g : SumFound(v, S, n, g)}
<1>2. Bad = {}
  <2> SUFFICES ASSUME Bad # {} PROVE FALSE
    OBVIOUS
  <2>1. PICK n \in Bad : \A m \in Bad : n <= m
    <3>1. Bad \in SUBSET Nat
      OBVIOUS
    <3> HIDE DEF Bad
    <3> QED
      BY <3>1, LeastNatural
  <2>2. n \in Nat
    OBVIOUS
  <2>3. CASE n = 0
    <3>1. PICK g : g = [s \in SUBSET S |-> 0]
      OBVIOUS
    <3>2. SumUpTo(v, S, 0, g)
      <4> SUFFICES ASSUME NEW s \in SUBSET S, Cardinality(s) <= 0 PROVE g[s] = SumAt(v, g, s)
        BY DEF SumUpTo
      <4>1. s = {}
        BY <1>1a
      <4> QED
        BY <3>1, <4>1 DEF SumAt
    <3>3. SumFound(v, S, 0, g)
      BY <3>1, <3>2 DEF SumFound
    <3> QED
      BY <2>1, <2>3, <3>3
  <2>4. CASE n > 0
    <3>1. n - 1 \in Nat /\ n - 1 \notin Bad
      BY <2>1, <2>2, <2>4
    <3>2. PICK f : SumUpTo(v, S, n - 1, f)
      <4>1. PICK f : SumFound(v, S, n - 1, f)
        BY <3>1
      <4> QED
        BY <4>1 DEF SumFound
    <3>3. PICK g : g = [s \in SUBSET S |-> IF Cardinality(s) = n THEN SumAt(v, f, s) ELSE f[s]]
      OBVIOUS
    <3>4. \A s \in SUBSET S : Cardinality(s) <= n => SumAt(v, g, s) = SumAt(v, f, s)
      <4> SUFFICES ASSUME NEW s \in SUBSET S, Cardinality(s) <= n
                   PROVE  SumAt(v, g, s) = SumAt(v, f, s)
        OBVIOUS
      <4>1. CASE s = {}
        BY <4>1 DEF SumAt
      <4>2. CASE s # {}
        <5>1. PICK t : t = s \ {ChosenOf(s)}
          OBVIOUS
        <5>2. t \in SUBSET S /\ Cardinality(t) = Cardinality(s) - 1
          BY <1>1, <4>2, <5>1
        <5>3. Cardinality(t) # n
          BY <1>0, <2>2, <5>2
        <5>4. g[t] = f[t]
          BY <3>3, <5>2, <5>3
        <5> QED
          BY <4>2, <5>1, <5>4 DEF SumAt
      <4> QED
        BY <4>1, <4>2
    <3>5. \A s \in SUBSET S : Cardinality(s) <= n => g[s] = SumAt(v, f, s)
      <4> SUFFICES ASSUME NEW s \in SUBSET S, Cardinality(s) <= n PROVE g[s] = SumAt(v, f, s)
        OBVIOUS
      <4>1. CASE Cardinality(s) = n
        BY <3>3, <4>1
      <4>2. CASE Cardinality(s) # n
        <5>1. Cardinality(s) <= n - 1
          BY <1>0, <2>2, <4>2
        <5>2. f[s] = SumAt(v, f, s)
          BY <3>2, <5>1 DEF SumUpTo
        <5> QED
          BY <3>3, <4>2, <5>2
      <4> QED
        BY <4>1, <4>2
    <3>6. SumUpTo(v, S, n, g)
      BY <3>4, <3>5 DEF SumUpTo
    <3>7. g = [s \in SUBSET S |-> g[s]]
      BY <3>3
    <3>8. SumFound(v, S, n, g)
      BY <3>6, <3>7 DEF SumFound
    <3> QED
      BY <2>1, <3>8
  <2> QED
    BY <2>2, <2>3, <2>4
<1>3. PICK g : g = [s \in SUBSET S |-> g[s]] /\ SumUpTo(v, S, Cardinality(S), g)
  <2>1. Cardinality(S) \in Nat /\ Cardinality(S) \notin Bad
    BY <1>0, <1>2
  <2>2. PICK g : SumFound(v, S, Cardinality(S), g)
    BY <2>1
  <2> QED
    BY <2>2 DEF SumFound
<1>4. \A s \in SUBSET S : g[s] = SumAt(v, g, s)
  <2>1. \A s \in SUBSET S : Cardinality(s) <= Cardinality(S)
    BY FS_Subset
  <2> QED
    BY <1>3, <2>1 DEF SumUpTo
<1>5. SumSolves(v, S, g)
  BY <1>3, <1>4 DEF SumSolves
<1> QED
  BY <1>5

LEMMA SumSolved ==
  ASSUME NEW v, NEW S, IsFiniteSet(S)
  PROVE  \E g : SumOver(v, S) = g[S] /\ IsFold(v, S, g)
<1>1. PICK g : g = CHOOSE h : SumSolves(v, S, h)
  OBVIOUS
<1>2. SumSolves(v, S, g)
  BY <1>1, SumExists, Zenon
<1>3. \A s \in SUBSET S : g[s] = SumAt(v, g, s)
  <2>1. PICK h : h = [s \in SUBSET S |-> SumAt(v, g, s)]
    OBVIOUS
  <2>2. g = h
    BY <1>2, <2>1 DEF SumSolves
  <2>3. \A s \in SUBSET S : h[s] = SumAt(v, g, s)
    BY <2>1
  <2> QED
    BY <2>2, <2>3
<1>4. SumOver(v, S) = g[S]
  BY <1>1, SumChosen
<1> QED
  BY <1>3, <1>4 DEF IsFold

\* Two folds agree where their values do.
LEMMA SumsAgree ==
  ASSUME NEW T, IsFiniteSet(T), NEW v, NEW w, \A x \in T : v[x] = w[x], NEW g, NEW h,
         IsFold(v, T, g), IsFold(w, T, h)
  PROVE  g[T] = h[T]
<1>1. PICK Fam : Fam = {s \in SUBSET T : g[s] = h[s]}
  OBVIOUS
<1>2. ASSUME NEW s \in SUBSET T, \A x \in s : s \ {x} \in Fam
      PROVE  s \in Fam
  <2>1. CASE s = {}
    BY <1>1, <2>1 DEF SumAt, IsFold
  <2>2. CASE s # {}
    <3>1. PICK x : x = ChosenOf(s)
      OBVIOUS
    <3>2. x \in s
      BY <2>2, <3>1, ChosenIn
    <3>3. g[s \ {x}] = h[s \ {x}]
      BY <1>1, <1>2, <3>2
    <3>4. g[s] = v[x] + g[s \ {x}] /\ h[s] = w[x] + h[s \ {x}]
      BY <2>2, <3>1 DEF SumAt, IsFold
    <3>5. v[x] = w[x]
      BY <3>2
    <3> QED
      BY <1>1, <3>3, <3>4, <3>5
  <2> QED
    BY <2>1, <2>2
<1>3. \A s \in SUBSET T : s \in Fam
  BY <1>2, SetInduction
<1>4. T \in Fam
  BY <1>3
<1> QED
  BY <1>1, <1>4

\* Only the values over the set count.
LEMMA SumSame ==
  ASSUME NEW S, IsFiniteSet(S), NEW v, NEW w, \A x \in S : v[x] = w[x]
  PROVE  SumOver(v, S) = SumOver(w, S)
<1>1. PICK g : SumOver(v, S) = g[S] /\ IsFold(v, S, g)
  BY SumSolved
<1>2. PICK h : SumOver(w, S) = h[S] /\ IsFold(w, S, h)
  BY SumSolved
<1>3. g[S] = h[S]
  BY <1>1, <1>2, SumsAgree
<1> QED
  BY <1>1, <1>2, <1>3

LEMMA SumEmpty ==
  ASSUME NEW v
  PROVE  SumOver(v, {}) = 0
<1>1. IsFiniteSet({})
  BY FS_EmptySet
<1>2. PICK g : SumOver(v, {}) = g[{}] /\ IsFold(v, {}, g)
  BY <1>1, SumSolved
<1> QED
  BY <1>2 DEF SumAt, IsFold

LEMMA SumSome ==
  ASSUME NEW v, NEW S, IsFiniteSet(S), S # {}
  PROVE  SumOver(v, S) = v[ChosenOf(S)] + SumOver(v, S \ {ChosenOf(S)})
<1>1. PICK g : SumOver(v, S) = g[S] /\ IsFold(v, S, g)
  BY SumSolved
<1>2. PICK T : T = S \ {ChosenOf(S)}
  OBVIOUS
<1>3. IsFiniteSet(T)
  BY <1>2, FS_Subset
<1>4. PICK h : SumOver(v, T) = h[T] /\ IsFold(v, T, h)
  BY <1>3, SumSolved
<1>5. IsFold(v, T, g)
  <2>1. \A s \in SUBSET T : s \in SUBSET S
    BY <1>2
  <2> QED
    BY <1>1, <2>1 DEF IsFold
<1>6. g[T] = h[T]
  BY <1>3, <1>4, <1>5, SumsAgree
<1>7. g[S] = v[ChosenOf(S)] + g[T]
  BY <1>1, <1>2 DEF SumAt, IsFold
<1> QED
  BY <1>1, <1>2, <1>4, <1>6, <1>7

LEMMA SumIsInt ==
  ASSUME NEW S, IsFiniteSet(S), NEW v, \A x \in S : v[x] \in Int
  PROVE  SumOver(v, S) \in Int
<1>1. PICK Fam : Fam = {s \in SUBSET S : SumOver(v, s) \in Int}
  OBVIOUS
<1>2. ASSUME NEW s \in SUBSET S, \A x \in s : s \ {x} \in Fam
      PROVE  s \in Fam
  <2>1. CASE s = {}
    BY <1>1, <2>1, SumEmpty
  <2>2. CASE s # {}
    <3>0. IsFiniteSet(s)
      BY FS_Subset
    <3>1. PICK x : x = ChosenOf(s)
      OBVIOUS
    <3>2. x \in s
      BY <2>2, <3>1, ChosenIn
    <3>3. SumOver(v, s \ {x}) \in Int
      BY <1>1, <1>2, <3>2
    <3>4. SumOver(v, s) = v[x] + SumOver(v, s \ {x})
      BY <2>2, <3>0, <3>1, SumSome
    <3>5. v[x] \in Int
      BY <3>2
    <3> QED
      BY <1>1, <3>3, <3>4, <3>5
  <2> QED
    BY <2>1, <2>2
<1>3. \A s \in SUBSET S : s \in Fam
  BY <1>2, SetInduction
<1>4. S \in Fam
  BY <1>3
<1> QED
  BY <1>1, <1>4

\* Any element can be taken out first.
LEMMA SumTaken ==
  ASSUME NEW S, IsFiniteSet(S), NEW v, \A y \in S : v[y] \in Int, NEW z \in S
  PROVE  SumOver(v, S) = v[z] + SumOver(v, S \ {z})
<1>1. PICK Fam : Fam = {s \in SUBSET S : \A x \in s : SumOver(v, s) = v[x] + SumOver(v, s \ {x})}
  OBVIOUS
<1>2. ASSUME NEW s \in SUBSET S, \A x \in s : s \ {x} \in Fam
      PROVE  s \in Fam
  <2> SUFFICES ASSUME NEW x \in s PROVE SumOver(v, s) = v[x] + SumOver(v, s \ {x})
    BY <1>1
  <2>0. IsFiniteSet(s)
    BY FS_Subset
  <2>1. PICK c : c = ChosenOf(s)
    OBVIOUS
  <2>2. c \in s
    BY <2>1, ChosenIn
  <2>3. SumOver(v, s) = v[c] + SumOver(v, s \ {c})
    BY <2>0, <2>1, SumSome
  <2>4. CASE x = c
    BY <2>3, <2>4
  <2>5. CASE x # c
    <3>1. PICK t : t = s \ {c, x}
      OBVIOUS
    <3>2. t = (s \ {c}) \ {x} /\ t = (s \ {x}) \ {c}
      BY <3>1
    <3>3. SumOver(v, s \ {c}) = v[x] + SumOver(v, t)
      <4>1. s \ {c} \in Fam /\ x \in s \ {c}
        BY <1>2, <2>2, <2>5
      <4> QED
        BY <1>1, <3>2, <4>1
    <3>4. SumOver(v, s \ {x}) = v[c] + SumOver(v, t)
      <4>1. s \ {x} \in Fam /\ c \in s \ {x}
        BY <1>2, <2>2, <2>5
      <4> QED
        BY <1>1, <3>2, <4>1
    <3>5. v[x] \in Int /\ v[c] \in Int /\ SumOver(v, t) \in Int
      <4>1. IsFiniteSet(t) /\ \A y \in t : v[y] \in Int
        BY <2>0, <3>1, FS_Subset
      <4> QED
        BY <2>2, <4>1, SumIsInt
    <3> QED
      BY <2>3, <3>3, <3>4, <3>5
  <2> QED
    BY <2>4, <2>5
<1>3. \A s \in SUBSET S : s \in Fam
  BY <1>2, SetInduction
<1>4. S \in Fam
  BY <1>3
<1> QED
  BY <1>1, <1>4

ImageOf(f, s) == {f[x] : x \in s}

\* Values can be counted under other names.
LEMMA SumMoved ==
  ASSUME NEW S, IsFiniteSet(S), NEW v, NEW w, NEW f, \A x, y \in S : f[x] = f[y] => x = y,
         \A x \in S : v[x] = w[f[x]] /\ v[x] \in Int
  PROVE  SumOver(v, S) = SumOver(w, ImageOf(f, S))
<1>1. PICK Fam : Fam = {s \in SUBSET S : SumOver(v, s) = SumOver(w, ImageOf(f, s))}
  OBVIOUS
<1>2. ASSUME NEW s \in SUBSET S, \A x \in s : s \ {x} \in Fam
      PROVE  s \in Fam
  <2>1. CASE s = {}
    <3>1. ImageOf(f, s) = {}
      BY <2>1 DEF ImageOf
    <3> QED
      BY <1>1, <2>1, <3>1, SumEmpty
  <2>2. CASE s # {}
    <3>0. IsFiniteSet(s)
      BY FS_Subset
    <3>1. PICK x : x \in s
      BY <2>2
    <3>2. PICK t : t = ImageOf(f, s)
      OBVIOUS
    <3>3. t \ {f[x]} = ImageOf(f, s \ {x})
      BY <3>1, <3>2 DEF ImageOf
    <3>4. IsFiniteSet(t)
      <4>1. PICK g : g = [y \in s |-> f[y]]
        OBVIOUS
      <4>2. g \in Surjection(s, t)
        BY <3>2, <4>1 DEF Surjection, ImageOf
      <4> QED
        BY <3>0, <4>2, FS_Surjection
    <3>5. \A y \in t : w[y] \in Int
      BY <3>2 DEF ImageOf
    <3>6. f[x] \in t
      BY <3>1, <3>2 DEF ImageOf
    <3>7. SumOver(w, t) = w[f[x]] + SumOver(w, t \ {f[x]})
      BY <3>4, <3>5, <3>6, SumTaken
    <3>8. SumOver(v, s) = v[x] + SumOver(v, s \ {x})
      <4>1. \A y \in s : v[y] \in Int
        OBVIOUS
      <4> QED
        BY <3>0, <3>1, <4>1, SumTaken
    <3>9. SumOver(v, s \ {x}) = SumOver(w, t \ {f[x]})
      BY <1>1, <1>2, <3>1, <3>3
    <3>10. v[x] = w[f[x]]
      BY <3>1
    <3> QED
      BY <1>1, <3>2, <3>7, <3>8, <3>9, <3>10
  <2> QED
    BY <2>1, <2>2
<1>3. \A s \in SUBSET S : s \in Fam
  BY <1>2, SetInduction
<1>4. S \in Fam
  BY <1>3
<1> QED
  BY <1>1, <1>4

\* Integer values over a finite set, taken apart at one element.
TakenApart(v, s, x) ==
  /\ SumOver(v, s) = v[x] + SumOver(v, s \ {x})
  /\ v[x] \in Int /\ SumOver(v, s \ {x}) \in Int

LEMMA SumApart ==
  ASSUME NEW S, IsFiniteSet(S), NEW v, \A y \in S : v[y] \in Int, NEW s \in SUBSET S, NEW x \in s
  PROVE  TakenApart(v, s, x)
<1>1. IsFiniteSet(s) /\ IsFiniteSet(s \ {x})
  BY FS_Subset
<1>2. (\A y \in s : v[y] \in Int) /\ (\A y \in s \ {x} : v[y] \in Int)
  OBVIOUS
<1> QED
  BY <1>1, <1>2, SumTaken, SumIsInt DEF TakenApart

\* Of each a quarter, with what rounding adds.
LEMMA SumQuarters ==
  ASSUME NEW S, IsFiniteSet(S), NEW e, NEW f, NEW c,
         \A x \in S : e[x] \in Int /\ f[x] \in Int /\ c[x] \in Int,
         \A x \in S : 4 * e[x] <= 4 * f[x] + c[x] - 1
  PROVE  4 * SumOver(e, S) <= 4 * SumOver(f, S) + SumOver(c, S) - Cardinality(S)
<1>1. PICK Fam : Fam = {s \in SUBSET S :
                          4 * SumOver(e, s) <= 4 * SumOver(f, s) + SumOver(c, s) - Cardinality(s)}
  OBVIOUS
<1>2. ASSUME NEW s \in SUBSET S, \A x \in s : s \ {x} \in Fam
      PROVE  s \in Fam
  <2>1. CASE s = {}
    <3>1. SumOver(e, s) = 0 /\ SumOver(f, s) = 0 /\ SumOver(c, s) = 0 /\ Cardinality(s) = 0
      BY <2>1, SumEmpty, FS_EmptySet
    <3> QED
      BY <1>1, <3>1
  <2>2. CASE s # {}
    <3>1. PICK x : x \in s
      BY <2>2
    <3>2. (\A y \in S : e[y] \in Int) /\ (\A y \in S : f[y] \in Int) /\ (\A y \in S : c[y] \in Int)
      OBVIOUS
    <3>3. TakenApart(e, s, x)
      BY <3>1, <3>2, SumApart
    <3>4. TakenApart(f, s, x)
      BY <3>1, <3>2, SumApart
    <3>5. TakenApart(c, s, x)
      BY <3>1, <3>2, SumApart
    <3>6. Cardinality(s) \in Nat /\ Cardinality(s \ {x}) = Cardinality(s) - 1
      <4>1. IsFiniteSet(s)
        BY FS_Subset
      <4>2. Cardinality(s) \in Nat
        BY <4>1, FS_CardinalityType
      <4>3. Cardinality(s \ {x}) = Cardinality(s) - 1
        BY <3>1, <4>1, FS_RemoveElement
      <4> QED
        BY <4>2, <4>3
    <3>7. 4 * SumOver(e, s \ {x})
            <= 4 * SumOver(f, s \ {x}) + SumOver(c, s \ {x}) - Cardinality(s \ {x})
      BY <1>1, <1>2, <3>1
    <3>8. 4 * e[x] <= 4 * f[x] + c[x] - 1
      BY <3>1
    <3>9. 4 * SumOver(e, s) <= 4 * SumOver(f, s) + SumOver(c, s) - Cardinality(s)
      BY <3>3, <3>4, <3>5, <3>6, <3>7, <3>8 DEF TakenApart
    <3> QED
      BY <1>1, <3>9
  <2> QED
    BY <2>1, <2>2
<1>3. \A s \in SUBSET S : s \in Fam
  BY <1>2, SetInduction
<1>4. S \in Fam
  BY <1>3
<1> QED
  BY <1>1, <1>4

\* The elements before x in the order of p.
AheadOf(S, p, x) == {y \in S : p[y] < p[x]}

Greedy(S, p, c, d, k) ==
  \A x \in S : /\ c[x] \in Int /\ d[x] \in Int
               /\ d[x] <= c[x] /\ c[x] >= 0
               /\ d[x] <= k - SumOver(c, AheadOf(S, p, x)) \/ d[x] <= 0

\* When each in turn gets no more than what the ones before it have left, no more than all is given.
LEMMA SumGreedy ==
  ASSUME NEW S, IsFiniteSet(S), NEW b \in Nat, NEW p, \A x \in S : p[x] \in 0..b,
         \A x, y \in S : p[x] = p[y] => x = y, NEW c, NEW d, NEW k \in Nat, Greedy(S, p, c, d, k)
  PROVE  SumOver(d, S) <= k
<1> DEFINE Closed(s) == \A x \in s : \A y \in S : p[y] < p[x] => y \in s
           Good(s) == SumOver(d, s) <= k /\ SumOver(d, s) <= SumOver(c, s)
<1>1. PICK Fam : Fam = {s \in SUBSET S : Closed(s) => Good(s)}
  OBVIOUS
<1>2. ASSUME NEW s \in SUBSET S, \A x \in s : s \ {x} \in Fam
      PROVE  s \in Fam
  <2> SUFFICES ASSUME Closed(s) PROVE Good(s)
    BY <1>1
  <2>1. CASE s = {}
    <3>1. SumOver(d, s) = 0 /\ SumOver(c, s) = 0
      BY <2>1, SumEmpty
    <3> QED
      BY <3>1
  <2>2. CASE s # {}
    <3>1. PICK P : P = {p[x] : x \in s}
      OBVIOUS
    <3>2. P \in SUBSET (0..b) /\ P # {}
      BY <2>2, <3>1
    <3>3. PICK q \in P : \A r \in P : r <= q
      BY <3>2, GreatestBelow
    <3>4. PICK m \in s : \A y \in s : p[y] <= p[m]
      BY <3>1, <3>3
    <3>5. \A x \in S : p[x] \in Nat
      OBVIOUS
    <3>6. s \ {m} = AheadOf(S, p, m)
      <4>1. \A y \in s : y # m => p[y] < p[m]
        BY <3>4, <3>5
      <4>2. \A y \in S : p[y] < p[m] => y \in s /\ y # m
        BY <3>4, <3>5
      <4> QED
        BY <4>1, <4>2 DEF AheadOf
    <3>7. Closed(s \ {m})
      <4> SUFFICES ASSUME NEW x \in s \ {m}, NEW y \in S, p[y] < p[x] PROVE y \in s \ {m}
        OBVIOUS
      <4>1. y \in s
        OBVIOUS
      <4>2. y # m
        BY <3>4, <3>5
      <4> QED
        BY <4>1, <4>2
    <3>8. Good(s \ {m})
      <4>1. s \ {m} \in Fam
        BY <1>2, <3>4
      <4> QED
        BY <1>1, <3>7, <4>1
    <3>9. (\A y \in S : c[y] \in Int) /\ (\A y \in S : d[y] \in Int)
      BY DEF Greedy
    <3>10. TakenApart(d, s, m)
      BY <3>9, SumApart
    <3>11. TakenApart(c, s, m)
      BY <3>9, SumApart
    <3>12. /\ d[m] <= c[m] /\ c[m] >= 0
           /\ d[m] <= k - SumOver(c, s \ {m}) \/ d[m] <= 0
      BY <3>4, <3>6 DEF Greedy
    <3>13. SumOver(d, s \ {m}) <= k /\ SumOver(d, s \ {m}) <= SumOver(c, s \ {m})
      BY <3>8
    <3> HIDE DEF Closed
    <3> QED
      BY <3>10, <3>11, <3>12, <3>13 DEF TakenApart
  <2> QED
    BY <2>1, <2>2
<1>3. \A s \in SUBSET S : s \in Fam
  <2> HIDE DEF Closed, Good
  <2> QED
    BY <1>2, SetInduction
<1>4. Closed(S)
  OBVIOUS
<1>5. Good(S)
  <2>1. S \in Fam
    BY <1>3
  <2> HIDE DEF Closed, Good
  <2> QED
    BY <1>1, <1>4, <2>1
<1> QED
  BY <1>5

-----------------------------------------------------------------------------
(* Counting.                                                               *)

\* The numbers of S below k.
Below(S, k) == {j \in S : j < k}

\* Below the greatest of some numbers are all the others.
LEMMA BelowGreatest ==
  ASSUME NEW b \in Nat, NEW S \in SUBSET (0..b), S # {}
  PROVE  \E m \in S : Below(S, m) = S \ {m} /\ Cardinality(Below(S, m)) = Cardinality(S) - 1
<1>0. \A j \in S : j \in Nat
  OBVIOUS
<1>1. PICK m \in S : \A j \in S : j <= m
  BY GreatestBelow
<1>2. Below(S, m) = S \ {m}
  <2>1. \A j \in S : j < m <=> j # m
    BY <1>0, <1>1
  <2> QED
    BY <2>1 DEF Below
<1>3. \A c \in Int : IsFiniteSet(0..c)
  BY FS_Interval
<1>4. IsFiniteSet(S)
  <2>1. IsFiniteSet(0..b)
    BY <1>3
  <2> QED
    BY <2>1, FS_Subset
<1>5. Cardinality(S \ {m}) = Cardinality(S) - 1
  BY <1>4, FS_RemoveElement
<1> QED
  BY <1>1, <1>2, <1>5

\* Some numbers can be counted from the least to the greatest.
LEMMA NthExists ==
  ASSUME NEW b \in Nat, NEW S \in SUBSET (0..b), NEW n \in 1..Cardinality(S)
  PROVE  \E k \in S : Cardinality({j \in S : j < k}) = n - 1
<1>1. \A T \in SUBSET (0..b) : IsFiniteSet(T) /\ Cardinality(T) \in Nat
  <2>1. \A c \in Int : IsFiniteSet(0..c)
    BY FS_Interval
  <2>2. IsFiniteSet(0..b)
    BY <2>1
  <2> QED
    BY <2>2, FS_Subset, FS_CardinalityType
<1>2. PICK c \in Nat : c = Cardinality(S)
  BY <1>1
<1>3. n \in Nat /\ n >= 1 /\ n <= c
  BY <1>2
<1>0. \A j \in S : j \in Nat
  OBVIOUS
<1>4. PICK K : K = {k \in S : Cardinality(Below(S, k)) >= n - 1}
  OBVIOUS
<1>5. K # {}
  <2>1. S # {}
    BY <1>2, <1>3, FS_EmptySet
  <2>2. PICK m \in S : Cardinality(Below(S, m)) = c - 1
    BY <1>2, <2>1, BelowGreatest
  <2>3. Cardinality(Below(S, m)) >= n - 1
    BY <1>3, <2>2
  <2> QED
    BY <1>4, <2>2, <2>3
<1>6. PICK k \in K : \A m \in K : k <= m
  <2>1. K \in SUBSET Nat
    BY <1>0, <1>4
  <2> QED
    BY <1>5, <2>1, LeastNatural
<1>7. PICK T : T = Below(S, k)
  OBVIOUS
<1>8. T \in SUBSET (0..b) /\ k \in S /\ k \in Nat
  BY <1>0, <1>4, <1>6, <1>7 DEF Below
<1>9. PICK t \in Nat : t = Cardinality(T)
  BY <1>1, <1>8
<1>10. t >= n - 1
  BY <1>4, <1>6, <1>7, <1>9
<1>11. t = n - 1
  <2> SUFFICES ASSUME t # n - 1 PROVE FALSE
    OBVIOUS
  <2>1. t >= 1 /\ t - 1 >= n - 1
    BY <1>3, <1>10
  <2>2. T # {}
    BY <1>9, <2>1, FS_EmptySet
  <2>3. PICK m \in T : Cardinality(Below(T, m)) = t - 1
    BY <1>8, <1>9, <2>2, BelowGreatest
  <2>4. m \in S /\ m < k /\ m \in Nat
    BY <1>7, <1>8, <2>3 DEF Below
  <2>5. Below(T, m) = Below(S, m)
    <3>1. \A j \in S : j < m => j < k
      BY <1>0, <1>8, <2>4
    <3> QED
      BY <1>7, <3>1 DEF Below
  <2>6. m \in K
    BY <1>4, <2>1, <2>3, <2>4, <2>5
  <2> QED
    BY <1>6, <1>8, <2>4, <2>6
<1> QED
  BY <1>7, <1>8, <1>9, <1>11 DEF Below

\* The numbers of S up to i, and the nth of S: how the candidates of an event
\* and the legacy records of a document are counted.
UpTo(S, i) == {j \in S : j <= i}
NthOf(S, n) == CHOOSE i \in S : Cardinality(UpTo(S, i)) = n

\* The nth of S is in S, is the only nth, and every number of S is the nth for some n.
AllCounted(S) ==
  /\ \A n \in 1..Cardinality(S) : NthOf(S, n) \in S /\ Cardinality(UpTo(S, NthOf(S, n))) = n
  /\ \A i \in S : Cardinality(UpTo(S, i)) \in 1..Cardinality(S)
                  /\ NthOf(S, Cardinality(UpTo(S, i))) = i

LEMMA Counted ==
  ASSUME NEW b \in Nat, NEW S \in SUBSET (0..b)
  PROVE  AllCounted(S)
<1>1. \A T \in SUBSET (0..b) : IsFiniteSet(T) /\ Cardinality(T) \in Nat
  <2>1. \A c \in Int : IsFiniteSet(0..c)
    BY FS_Interval
  <2>2. IsFiniteSet(0..b)
    BY <2>1
  <2> QED
    BY <2>2, FS_Subset, FS_CardinalityType
<1>0. \A i \in S : i \in Nat
  OBVIOUS
<1>2. \A i \in S : UpTo(S, i) \in SUBSET S /\ UpTo(S, i) \in SUBSET (0..b)
  <2> SUFFICES ASSUME NEW i \in S
               PROVE  UpTo(S, i) \in SUBSET S /\ UpTo(S, i) \in SUBSET (0..b)
    OBVIOUS
  <2>1. UpTo(S, i) \subseteq S
    BY DEF UpTo
  <2> QED
    BY <2>1
<1>3. \A i \in S : Cardinality(UpTo(S, i)) = Cardinality(Below(S, i)) + 1
  <2> SUFFICES ASSUME NEW i \in S
               PROVE  Cardinality(UpTo(S, i)) = Cardinality(Below(S, i)) + 1
    OBVIOUS
  <2>1. i \in UpTo(S, i) /\ UpTo(S, i) \ {i} = Below(S, i)
    <3>1. \A j \in S : (j <= i /\ j # i) <=> j < i
      BY <1>0
    <3>2. i <= i
      BY <1>0
    <3> QED
      BY <3>1, <3>2 DEF UpTo, Below
  <2>2. IsFiniteSet(UpTo(S, i)) /\ Cardinality(UpTo(S, i)) \in Nat
    BY <1>1, <1>2
  <2>3. Cardinality(UpTo(S, i) \ {i}) = Cardinality(UpTo(S, i)) - 1
    BY <2>1, <2>2, FS_RemoveElement
  <2> QED
    BY <2>1, <2>2, <2>3
<1>4. \A i, j \in S : Cardinality(UpTo(S, i)) = Cardinality(UpTo(S, j)) => i = j
  <2>1. ASSUME NEW i \in S, NEW j \in S, i < j,
               Cardinality(UpTo(S, i)) = Cardinality(UpTo(S, j))
        PROVE  FALSE
    <3>1. UpTo(S, i) \in SUBSET UpTo(S, j)
      <4>1. \A h \in S : h <= i => h <= j
        BY <1>0, <2>1
      <4>2. UpTo(S, i) \subseteq UpTo(S, j)
        BY <4>1 DEF UpTo
      <4> QED
        BY <4>2
    <3>2. UpTo(S, i) = UpTo(S, j)
      <4>1. IsFiniteSet(UpTo(S, j))
        BY <1>1, <1>2
      <4> QED
        BY <2>1, <3>1, <4>1, FS_Subset
    <3>3. j \in UpTo(S, j) /\ j \notin UpTo(S, i)
      BY <1>0, <2>1 DEF UpTo
    <3> QED
      BY <3>2, <3>3
  <2> QED
    BY <1>0, <2>1
<1>5. \A n \in 1..Cardinality(S) : NthOf(S, n) \in S /\ Cardinality(UpTo(S, NthOf(S, n))) = n
  <2> SUFFICES ASSUME NEW n \in 1..Cardinality(S)
               PROVE  NthOf(S, n) \in S /\ Cardinality(UpTo(S, NthOf(S, n))) = n
    OBVIOUS
  <2>1. PICK k \in S : Cardinality({j \in S : j < k}) = n - 1
    BY NthExists
  <2>2. n \in Int
    BY <1>1
  <2>3. Cardinality(UpTo(S, k)) = n
    BY <1>3, <2>1, <2>2 DEF Below
  <2> QED
    BY <2>3, Zenon DEF NthOf
<1>6. \A i \in S : Cardinality(UpTo(S, i)) \in 1..Cardinality(S)
  <2> SUFFICES ASSUME NEW i \in S PROVE Cardinality(UpTo(S, i)) \in 1..Cardinality(S)
    OBVIOUS
  <2>1. Below(S, i) \in SUBSET (0..b)
    BY DEF Below
  <2>2. Cardinality(UpTo(S, i)) >= 1 /\ Cardinality(UpTo(S, i)) \in Nat
    BY <1>1, <1>2, <1>3, <2>1
  <2>3. Cardinality(UpTo(S, i)) <= Cardinality(S)
    BY <1>1, <1>2, FS_Subset
  <2>4. Cardinality(S) \in Nat
    BY <1>1
  <2> QED
    BY <2>2, <2>3, <2>4
<1>7. \A i \in S : NthOf(S, Cardinality(UpTo(S, i))) = i
  BY <1>4, <1>5, <1>6
<1> QED
  BY <1>5, <1>6, <1>7 DEF AllCounted

=============================================================================
