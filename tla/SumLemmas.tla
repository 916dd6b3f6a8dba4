------------------------------ MODULE SumLemmas ------------------------------
(***************************************************************************)
(* Sums over finite sets.  MapThenSumSet folds a set element by element in *)
(* the order CHOOSE picks them; the lemmas below say what the proofs of    *)
(* the other modules need of it: the empty sum, the sum with one element   *)
(* more, its type, and that a sum of amounts grows with its set.           *)
(* SumOf(f, S) is the sum of the function f over S, and MapThenSumSet of   *)
(* an operator is the SumOf of the function that agrees with it on S.      *)
(***************************************************************************)
EXTENDS Integers, FiniteSets, FiniteSetsExt, FiniteSetTheorems, WellFoundedInduction, TLAPS

Pick(T) == CHOOSE x \in T : TRUE

\* g holds the sum of f over each subset of S
Sums(g, f, S) ==
  g = [T \in SUBSET S |-> IF T = {} THEN 0 ELSE f[Pick(T)] + g[T \ {Pick(T)}]]

SumOf(f, S) == (CHOOSE g : Sums(g, f, S))[S]

(***************************************************************************)
(* Induction on the subsets of a finite set, with a set in the place of    *)
(* the predicate: the least subset outside Good would have all its strict  *)
(* subsets in Good.                                                        *)
(***************************************************************************)
LEMMA SubsetInduction ==
  ASSUME NEW S, IsFiniteSet(S), NEW Good,
         \A T \in SUBSET S : (\A U \in SUBSET T : U # T => U \in Good) => T \in Good
  PROVE  SUBSET S \subseteq Good
<1> DEFINE Bad == {T \in SUBSET S : T \notin Good}
<1>1. ASSUME Bad # {} PROVE FALSE
  <2>1. IsWellFoundedOn(StrictSubsetOrdering(S), SUBSET S)
    BY FS_StrictSubsetOrderingWellFounded, FS_FiniteSubsetsOfFinite
  <2>2. Bad \subseteq SUBSET S
    OBVIOUS
  <2> HIDE DEF Bad
  <2>3. PICK T \in Bad : \A U \in Bad : <<U, T>> \notin StrictSubsetOrdering(S)
    BY <1>1, <2>1, <2>2, WFMin
  <2> USE DEF Bad
  <2>4. \A U \in SUBSET T : U # T => U \in Good
    BY <2>3 DEF StrictSubsetOrdering
  <2>5. QED
    BY <2>3, <2>4
<1>2. QED
  BY <1>1

-----------------------------------------------------------------------------
(* The recursion that defines a sum has one solution.                       *)

\* The equation of a sum at one subset.
LEMMA SumsAt ==
  ASSUME NEW g, NEW f, NEW S, Sums(g, f, S), NEW T \in SUBSET S
  PROVE  /\ T = {} => g[T] = 0
         /\ T # {} => /\ Pick(T) \in T
                      /\ g[T] = f[Pick(T)] + g[T \ {Pick(T)}]
<1>1. T # {} => Pick(T) \in T
  BY DEF Pick
<1>2. g = [U \in SUBSET S |-> IF U = {} THEN 0 ELSE f[Pick(U)] + g[U \ {Pick(U)}]]
  BY DEF Sums
<1>3. g[T] = IF T = {} THEN 0 ELSE f[Pick(T)] + g[T \ {Pick(T)}]
  BY <1>2
<1>4. QED
  BY <1>1, <1>3

\* Two solutions agree on a set on which the summands do.
LEMMA SumsAgree ==
  ASSUME NEW S, IsFiniteSet(S), NEW f, NEW h, NEW g, NEW k, NEW U, NEW V,
         Sums(g, f, U), Sums(k, h, V), S \subseteq U, S \subseteq V,
         \A x \in S : f[x] = h[x]
  PROVE  g[S] = k[S]
<1> DEFINE Good == {T \in SUBSET S : g[T] = k[T]}
<1>1. ASSUME NEW T \in SUBSET S, \A W \in SUBSET T : W # T => W \in Good
      PROVE  T \in Good
  <2>1. T \in SUBSET U /\ T \in SUBSET V
    OBVIOUS
  <2>2. CASE T = {}
    BY <2>1, <2>2, SumsAt
  <2>3. CASE T # {}
    <3> DEFINE c == Pick(T)
    <3>1. c \in T /\ g[T] = f[c] + g[T \ {c}]
      BY <2>1, <2>3, SumsAt
    <3>2. Pick(T) \in T /\ k[T] = h[Pick(T)] + k[T \ {Pick(T)}]
      <4> HIDE DEF Good
      <4>1. Sums(k, h, V)
        OBVIOUS
      <4>2. QED
        BY <4>1, <2>1, <2>3, SumsAt
    <3>3. k[T] = h[c] + k[T \ {c}]
      BY <3>2
    <3> HIDE DEF c
    <3>4. g[T \ {c}] = k[T \ {c}]
      BY <1>1, <3>1
    <3>5. QED
      BY <3>1, <3>3, <3>4
  <2>4. QED
    BY <2>2, <2>3
<1> HIDE DEF Good
<1>2. SUBSET S \subseteq Good
  BY <1>1, SubsetInduction
<1>3. QED
  BY <1>2 DEF Good

\* There is a solution: a larger set's is pieced together from its subsets'.
LEMMA SumsExist ==
  ASSUME NEW S, IsFiniteSet(S), NEW f
  PROVE  \E g : Sums(g, f, S)
<1> DEFINE Good == {T \in SUBSET S : \E g : Sums(g, f, T)}
<1>1. ASSUME NEW T \in SUBSET S, \A W \in SUBSET T : W # T => W \in Good
      PROVE  T \in Good
  <2> DEFINE G(V) == CHOOSE g : Sums(g, f, V)
             g == [V \in SUBSET T |-> IF V = {} THEN 0
                                      ELSE f[Pick(V)] + G(V \ {Pick(V)})[V \ {Pick(V)}]]
  <2>1. ASSUME NEW V \in SUBSET T, V # T PROVE Sums(G(V), f, V)
    BY <1>1, <2>1
  <2> HIDE DEF G
  <2>2. ASSUME NEW V \in SUBSET T, V # {} PROVE g[V] = f[Pick(V)] + g[V \ {Pick(V)}]
    <3> DEFINE W == V \ {Pick(V)}
    <3>1. Pick(V) \in V
      BY <2>2 DEF Pick
    <3>2. W \in SUBSET T /\ W # T /\ W \subseteq V
      BY <3>1
    <3>3. g[V] = f[Pick(V)] + G(W)[W]
      BY <2>2
    <3>4. g[W] = G(W)[W]
      <4> HIDE DEF W
      <4>1. Sums(G(W), f, W)
        BY <2>1, <3>2
      <4>2. CASE W = {}
        BY <3>2, <4>1, <4>2, SumsAt
      <4>3. CASE W # {}
        <5> DEFINE X == W \ {Pick(W)}
        <5>1. Pick(W) \in W
          BY <4>3 DEF Pick
        <5>2. X \in SUBSET T /\ X # T /\ X \subseteq W
          BY <5>1, <3>2
        <5>3. g[W] = f[Pick(W)] + G(X)[X]
          BY <4>3, <3>2
        <5>4. G(W)[W] = f[Pick(W)] + G(W)[X]
          BY <4>1, <4>3, SumsAt
        <5> HIDE DEF X
        <5>5. Sums(G(X), f, X)
          BY <2>1, <5>2
        <5>6. IsFiniteSet(X)
          BY <5>2, FS_Subset
        <5>7. G(X)[X] = G(W)[X]
          BY <4>1, <5>2, <5>5, <5>6, SumsAgree
        <5>8. QED
          BY <5>3, <5>4, <5>7
      <4>4. QED
        BY <4>2, <4>3
    <3>5. QED
      BY <3>3, <3>4
  <2>3. g = [V \in SUBSET T |-> IF V = {} THEN 0 ELSE f[Pick(V)] + g[V \ {Pick(V)}]]
    BY <2>2
  <2> HIDE DEF g
  <2>4. Sums(g, f, T)
    BY <2>3 DEF Sums
  <2>5. QED
    BY <2>4
<1> HIDE DEF Good
<1>2. SUBSET S \subseteq Good
  BY <1>1, SubsetInduction
<1>3. QED
  BY <1>2 DEF Good

\* A sum can be read off any solution that covers its set.
LEMMA SumOfSums ==
  ASSUME NEW S, IsFiniteSet(S), NEW f, NEW g, NEW U, NEW h, Sums(g, h, U), S \subseteq U,
         \A x \in S : f[x] = h[x]
  PROVE  SumOf(f, S) = g[S]
<1>1. Sums((CHOOSE k : Sums(k, f, S)), f, S)
  BY SumsExist
<1>2. QED
  BY <1>1, SumsAgree DEF SumOf

-----------------------------------------------------------------------------
(* What a sum is, whatever the order of its elements.                       *)

\* The empty sum.
LEMMA SumEmpty ==
  ASSUME NEW f PROVE SumOf(f, {}) = 0
<1>1. IsFiniteSet({})
  BY FS_EmptySet
<1>2. PICK g : Sums(g, f, {})
  BY <1>1, SumsExist
<1>3. SumOf(f, {}) = g[{}]
  BY <1>1, <1>2, SumOfSums
<1>4. QED
  BY <1>2, <1>3, SumsAt

\* Summands that agree on a set have the same sum over it.
LEMMA SumSame ==
  ASSUME NEW S, IsFiniteSet(S), NEW f, NEW h, \A x \in S : f[x] = h[x]
  PROVE  SumOf(f, S) = SumOf(h, S)
<1>1. PICK g : Sums(g, h, S)
  BY SumsExist
<1>2. SumOf(f, S) = g[S] /\ SumOf(h, S) = g[S]
  BY <1>1, SumOfSums
<1>3. QED
  BY <1>2

\* One step of the recursion.
LEMMA SumStep ==
  ASSUME NEW S, IsFiniteSet(S), NEW f, S # {}
  PROVE  Pick(S) \in S /\ SumOf(f, S) = f[Pick(S)] + SumOf(f, S \ {Pick(S)})
<1>1. PICK g : Sums(g, f, S)
  BY SumsExist
<1> DEFINE W == S \ {Pick(S)}
<1>2. Pick(S) \in S /\ g[S] = f[Pick(S)] + g[W]
  BY <1>1, SumsAt
<1>3. IsFiniteSet(W) /\ W \subseteq S
  BY FS_Subset
<1> HIDE DEF W
<1>4. SumOf(f, S) = g[S] /\ SumOf(f, W) = g[W]
  BY <1>1, <1>3, SumOfSums
<1>5. QED
  BY <1>2, <1>4 DEF W

\* A sum of integers is an integer.
LEMMA SumInt ==
  ASSUME NEW S, IsFiniteSet(S), NEW f, \A x \in S : f[x] \in Int
  PROVE  SumOf(f, S) \in Int
<1> DEFINE Good == {T \in SUBSET S : SumOf(f, T) \in Int}
<1>1. ASSUME NEW T \in SUBSET S, \A W \in SUBSET T : W # T => W \in Good
      PROVE  T \in Good
  <2>1. CASE T = {}
    BY <2>1, SumEmpty
  <2>2. CASE T # {}
    <3>1. IsFiniteSet(T)
      BY FS_Subset
    <3>2. Pick(T) \in T /\ SumOf(f, T) = f[Pick(T)] + SumOf(f, T \ {Pick(T)})
      BY <2>2, <3>1, SumStep
    <3>3. SumOf(f, T \ {Pick(T)}) \in Int
      BY <1>1, <3>2
    <3>4. QED
      BY <3>2, <3>3
  <2>3. QED
    BY <2>1, <2>2
<1> HIDE DEF Good
<1>2. SUBSET S \subseteq Good
  BY <1>1, SubsetInduction
<1>3. QED
  BY <1>2 DEF Good

\* Any element can be taken out of a sum.
LEMMA SumRemove ==
  ASSUME NEW S, IsFiniteSet(S), NEW f, \A x \in S : f[x] \in Int, NEW e \in S
  PROVE  SumOf(f, S) = f[e] + SumOf(f, S \ {e})
<1> DEFINE Good == {T \in SUBSET S : \A x \in T : SumOf(f, T) = f[x] + SumOf(f, T \ {x})}
<1>1. ASSUME NEW T \in SUBSET S, \A W \in SUBSET T : W # T => W \in Good
      PROVE  T \in Good
  <2> SUFFICES ASSUME NEW x \in T PROVE SumOf(f, T) = f[x] + SumOf(f, T \ {x})
    OBVIOUS
  <2> DEFINE c == Pick(T)
  <2>1. IsFiniteSet(T)
    BY FS_Subset
  <2>2. c \in T /\ SumOf(f, T) = f[c] + SumOf(f, T \ {c})
    BY <2>1, SumStep
  <2> HIDE DEF c
  <2>3. CASE x # c
    <3> DEFINE W == T \ {x, c}
    <3>1. /\ (T \ {c}) \ {x} = W /\ (T \ {x}) \ {c} = W
          /\ T \ {c} \in SUBSET T /\ T \ {c} # T /\ x \in T \ {c}
          /\ T \ {x} \in SUBSET T /\ T \ {x} # T /\ c \in T \ {x}
      BY <2>2, <2>3
    <3> HIDE DEF W
    <3>2. SumOf(f, T \ {c}) = f[x] + SumOf(f, W)
      BY <1>1, <3>1
    <3>3. SumOf(f, T \ {x}) = f[c] + SumOf(f, W)
      BY <1>1, <2>2, <3>1
    <3>4. SumOf(f, W) \in Int
      <4>1. IsFiniteSet(W) /\ W \subseteq S
        BY FS_Subset DEF W
      <4>2. QED
        BY <4>1, SumInt
    <3>5. f[x] \in Int /\ f[c] \in Int
      BY <2>2
    <3>6. QED
      BY <2>2, <3>2, <3>3, <3>4, <3>5
  <2>4. QED
    BY <2>2, <2>3
<1> HIDE DEF Good
<1>2. SUBSET S \subseteq Good
  BY <1>1, SubsetInduction
<1>3. QED
  BY <1>2 DEF Good

\* The sum with one element more.
LEMMA SumAdd ==
  ASSUME NEW S, IsFiniteSet(S), NEW f, NEW e, e \notin S, \A x \in S \cup {e} : f[x] \in Int
  PROVE  SumOf(f, S \cup {e}) = f[e] + SumOf(f, S)
<1>1. IsFiniteSet(S \cup {e})
  BY FS_AddElement
<1>2. (S \cup {e}) \ {e} = S
  OBVIOUS
<1>3. SumOf(f, S \cup {e}) = f[e] + SumOf(f, (S \cup {e}) \ {e})
  BY <1>1, SumRemove
<1>4. QED
  BY <1>2, <1>3

\* A sum of amounts grows with its set.
LEMMA SumGrows ==
  ASSUME NEW S, IsFiniteSet(S), NEW f, \A x \in S : f[x] \in Nat, NEW R \in SUBSET S
  PROVE  SumOf(f, R) <= SumOf(f, S)
<1> DEFINE Good == {T \in SUBSET S : R \subseteq T => SumOf(f, R) <= SumOf(f, T)}
<1>1. ASSUME NEW T \in SUBSET S, \A W \in SUBSET T : W # T => W \in Good
      PROVE  T \in Good
  <2> SUFFICES ASSUME R \subseteq T PROVE SumOf(f, R) <= SumOf(f, T)
    OBVIOUS
  <2>1. IsFiniteSet(T) /\ IsFiniteSet(R)
    BY FS_Subset
  <2>2. SumOf(f, R) \in Int
    BY <2>1, SumInt
  <2>3. CASE R # T
    <3>1. PICK x \in T : x \notin R
      BY <2>3
    <3>2. SumOf(f, R) <= SumOf(f, T \ {x})
      BY <1>1, <3>1
    <3>3. SumOf(f, T) = f[x] + SumOf(f, T \ {x})
      BY <2>1, SumRemove
    <3>4. SumOf(f, T \ {x}) \in Int
      <4>1. IsFiniteSet(T \ {x})
        BY <2>1, FS_Subset
      <4>2. QED
        BY <4>1, SumInt
    <3>5. f[x] \in Nat
      OBVIOUS
    <3>6. QED
      BY <2>2, <3>2, <3>3, <3>4, <3>5
  <2>4. QED
    BY <2>2, <2>3
<1> HIDE DEF Good
<1>2. SUBSET S \subseteq Good
  BY <1>1, SubsetInduction
<1>3. QED
  BY <1>2 DEF Good

\* A sum of amounts is a natural number.
LEMMA SumNat ==
  ASSUME NEW S, IsFiniteSet(S), NEW f, \A x \in S : f[x] \in Nat
  PROVE  SumOf(f, S) \in Nat
<1>1. SumOf(f, S) \in Int
  BY SumInt
<1>2. SumOf(f, {}) <= SumOf(f, S)
  BY SumGrows
<1>3. QED
  BY <1>1, <1>2, SumEmpty

\* A sum of equal amounts.
LEMMA SumOfEquals ==
  ASSUME NEW S, IsFiniteSet(S), NEW f, NEW c \in Nat, \A x \in S : f[x] = c
  PROVE  SumOf(f, S) = c * Cardinality(S)
<1> DEFINE Good == {T \in SUBSET S : SumOf(f, T) = c * Cardinality(T)}
<1>1. ASSUME NEW T \in SUBSET S, \A W \in SUBSET T : W # T => W \in Good
      PROVE  T \in Good
  <2>1. CASE T = {}
    BY <2>1, SumEmpty, FS_EmptySet
  <2>2. CASE T # {}
    <3>1. IsFiniteSet(T)
      BY FS_Subset
    <3>2. PICK x : x = Pick(T)
      OBVIOUS
    <3>3. x \in T /\ SumOf(f, T) = f[x] + SumOf(f, T \ {x})
      BY <2>2, <3>1, <3>2, SumStep
    <3>4. SumOf(f, T \ {x}) = c * Cardinality(T \ {x})
      BY <1>1, <3>3
    <3>5. Cardinality(T \ {x}) = Cardinality(T) - 1 /\ Cardinality(T) \in Nat
      BY <3>1, <3>3, FS_RemoveElement, FS_CardinalityType
    <3>6. PICK n \in Nat : n = Cardinality(T)
      BY <3>5
    <3>7. c + c * (n - 1) = c * n
      OBVIOUS
    <3>8. QED
      BY <3>3, <3>4, <3>5, <3>6, <3>7
  <2>3. QED
    BY <2>1, <2>2
<1> HIDE DEF Good
<1>2. SUBSET S \subseteq Good
  BY <1>1, SubsetInduction
<1>3. QED
  BY <1>2 DEF Good

-----------------------------------------------------------------------------
\* MapThenSumSet over the amounts of a set of rows.
LEMMA SumOfAmounts ==
  ASSUME NEW R, NEW S \in SUBSET R, IsFiniteSet(S)
  PROVE  MapThenSumSet(LAMBDA r : r.amt, S) = SumOf([r \in R |-> r.amt], S)
<1> DEFINE f == [r \in S |-> r.amt]
           Fold(g) == g = [s \in SUBSET S |-> IF s = {} THEN 0
                             ELSE LET x == (CHOOSE x \in s : TRUE)
                                  IN  x.amt + g[s \ {x}]]
           k == CHOOSE g : Fold(g)
<1>1. MapThenSumSet(LAMBDA r : r.amt, S) = k[S]
  BY DEF MapThenSumSet, MapThenFoldSet
<1>2. \A g : Sums(g, f, S) <=> Fold(g)
  BY DEF Sums, Pick
<1>3. \A x \in S : f[x] = [r \in R |-> r.amt][x]
  OBVIOUS
<1> HIDE DEF Fold, f
<1>4. \E g : Fold(g)
  BY <1>2, SumsExist
<1>5. Fold(k)
  BY <1>4
<1> HIDE DEF k
<1>6. Sums(k, f, S)
  BY <1>2, <1>5
<1>7. SumOf(f, S) = k[S]
  BY <1>6, SumOfSums
<1>8. SumOf([r \in R |-> r.amt], S) = SumOf(f, S)
  BY <1>3, SumSame
<1>9. QED
  BY <1>1, <1>7, <1>8

\* MapThenSumSet of a function.
LEMMA SumOfValues ==
  ASSUME NEW f, NEW S, IsFiniteSet(S)
  PROVE  MapThenSumSet(LAMBDA x : f[x], S) = SumOf(f, S)
<1> DEFINE Fold(g) == g = [s \in SUBSET S |-> IF s = {} THEN 0
                             ELSE LET x == (CHOOSE x \in s : TRUE)
                                  IN  f[x] + g[s \ {x}]]
           k == CHOOSE g : Fold(g)
<1>1. MapThenSumSet(LAMBDA x : f[x], S) = k[S]
  BY DEF MapThenSumSet, MapThenFoldSet
<1>2. \A g : Sums(g, f, S) <=> Fold(g)
  BY DEF Sums, Pick
<1> HIDE DEF Fold
<1>3. \E g : Fold(g)
  BY <1>2, SumsExist
<1>4. Fold(k)
  BY <1>3
<1> HIDE DEF k
<1>5. Sums(k, f, S)
  BY <1>2, <1>4
<1>6. SumOf(f, S) = k[S]
  BY <1>5, SumOfSums
<1>7. QED
  BY <1>1, <1>6

\* MapThenSumSet of the multiples of a function.
LEMMA SumOfMultiples ==
  ASSUME NEW c, NEW f, NEW S, IsFiniteSet(S)
  PROVE  MapThenSumSet(LAMBDA x : c * f[x], S) = SumOf([x \in S |-> c * f[x]], S)
<1> DEFINE h == [x \in S |-> c * f[x]]
           Fold(g) == g = [s \in SUBSET S |-> IF s = {} THEN 0
                             ELSE LET x == (CHOOSE x \in s : TRUE)
                                  IN  c * f[x] + g[s \ {x}]]
           k == CHOOSE g : Fold(g)
<1>1. MapThenSumSet(LAMBDA x : c * f[x], S) = k[S]
  BY DEF MapThenSumSet, MapThenFoldSet
<1>2. \A g : Sums(g, h, S) <=> Fold(g)
  BY DEF Sums, Pick
<1> HIDE DEF Fold, h
<1>3. \E g : Fold(g)
  BY <1>2, SumsExist
<1>4. Fold(k)
  BY <1>3
<1> HIDE DEF k
<1>5. Sums(k, h, S)
  BY <1>2, <1>4
<1>6. SumOf(h, S) = k[S]
  BY <1>5, SumOfSums
<1>7. QED
  BY <1>1, <1>6 DEF h
=============================================================================
