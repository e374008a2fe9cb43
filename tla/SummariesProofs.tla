---------------------------- MODULE SummariesProofs ----------------------------
(*****************************************************************************)
(* Proofs about Summaries for stretches of any length, any number of them    *)
(* and any beginning: folding loses nothing, every chart can be drawn, and   *)
(* the forecast rests on the whole of the battery's record.                  *)
(*                                                                           *)
(* A sum is a fold over a finite set.  What holds of sums is shown over the  *)
(* subsets of that set: were there one it fails for, there would be one of   *)
(* the fewest elements, and that one is made of a smaller one.               *)
(*****************************************************************************)
EXTENDS Summaries, FiniteSetTheorems, FunctionTheorems, SequenceTheorems, NaturalsInduction,
        WellFoundedInduction, TLAPS

-----------------------------------------------------------------------------
(* Induction over the subsets of a finite set, as a fact about sets of sets. *)

LEMMA HasLeast ==
    ASSUME NEW T \in SUBSET Nat, T # {}
    PROVE  \E i \in T : \A j \in T : i <= j
<1>. DEFINE R == OpToRel(<, Nat)
<1>1. \A ss \in Nat \X Nat : ss \in R <=> ss[1] < ss[2]
    BY DEF OpToRel
<1>2. IsWellFoundedOn(R, Nat)
    BY NatLessThanWellFounded
<1>. HIDE DEF R
<1>3. PICK i \in T : \A j \in T : ~(<<j, i>> \in R)
    BY <1>2, WFMin
<1>4. \A j \in T : <<j, i>> \in Nat \X Nat /\ ~(j < i)
    BY <1>1, <1>3
<1>5. \A j \in T : i <= j
  <2>. SUFFICES ASSUME NEW j \in T PROVE i <= j
      OBVIOUS
  <2>1. j \in Nat /\ i \in Nat /\ ~(j < i)
      BY <1>4
  <2>. QED
      BY <2>1
<1>. QED
    BY <1>5

\* What a subset has as soon as the smaller ones have it, all have.
LEMMA SubsetsHaveIt ==
    ASSUME NEW S, IsFiniteSet(S), NEW Good \in SUBSET (SUBSET S),
           \A T \in SUBSET S : (\A U \in SUBSET T : U # T => U \in Good) => T \in Good
    PROVE  \A T \in SUBSET S : T \in Good
<1>. DEFINE Bad == (SUBSET S) \ Good
            Sizes == {Cardinality(T) : T \in Bad}
<1>. SUFFICES ASSUME Bad # {} PROVE FALSE
    OBVIOUS
<1>1. \A T \in SUBSET S : IsFiniteSet(T) /\ Cardinality(T) \in Nat
    BY FS_Subset, FS_CardinalityType
<1>2. Sizes \in SUBSET Nat /\ Sizes # {}
    BY <1>1
<1>3. PICK n \in Sizes : \A m \in Sizes : n <= m
    BY <1>2, HasLeast
<1>4. PICK T \in Bad : n = Cardinality(T)
    OBVIOUS
<1>5. ASSUME NEW U \in SUBSET T, U # T
      PROVE  U \in Good
  <2>1. U \in SUBSET S
      OBVIOUS
  <2>2. Cardinality(U) <= n /\ Cardinality(U) # n
      BY <1>1, <1>4, <1>5, FS_Subset
  <2>3. Cardinality(U) \in Nat /\ n \in Nat
      BY <1>1, <1>4, <2>1
  <2>4. U \in Bad => n <= Cardinality(U)
      BY <1>3
  <2>. QED
      BY <2>1, <2>2, <2>3, <2>4
<1>6. T \in Good
  <2>. HIDE DEF Bad
  <2>1. T \in SUBSET S
      BY DEF Bad
  <2>. QED
      BY <1>5, <2>1
<1>. QED
    BY <1>6

-----------------------------------------------------------------------------
(* Sums of integers over finite sets (SumFunctionOnSet). *)

Sum(f, S) == SumFunctionOnSet(f, S)

\* The sums of f over the subsets of S, each from a smaller one.
Next1(S) == CHOOSE x \in S : TRUE
SumStep(f, g, s) == IF s = {} THEN 0 ELSE f[Next1(s)] + g[s \ {Next1(s)}]
AreSums(f, g, S) == g = [s \in SUBSET S |-> SumStep(f, g, s)]

LEMMA Next1In == ASSUME NEW S, S # {} PROVE Next1(S) \in S
BY DEF Next1

LEMMA SumIs ==
    ASSUME NEW f, NEW S
    PROVE  Sum(f, S) = (CHOOSE g : AreSums(f, g, S))[S]
BY DEF Sum, SumFunctionOnSet, FoldFunctionOnSet, MapThenFoldSet, AreSums, SumStep, Next1

\* They are there: the ones of up to n elements for every n.
LEMMA SumsExist ==
    ASSUME NEW f, NEW S, IsFiniteSet(S)
    PROVE  \E g : AreSums(f, g, S)
<1>. DEFINE UpTo(g, n) == g = [s \in SUBSET S |-> IF Cardinality(s) <= n THEN SumStep(f, g, s) ELSE 0]
            Bad == {n \in Nat : ~\E g : UpTo(g, n)}
<1>1. \A s \in SUBSET S : IsFiniteSet(s) /\ Cardinality(s) \in Nat
    BY FS_Subset, FS_CardinalityType
<1>2. \A s \in SUBSET S : s # {} =>
          s \ {Next1(s)} \in SUBSET S /\ Cardinality(s \ {Next1(s)}) = Cardinality(s) - 1
    BY <1>1, Next1In, FS_RemoveElement
<1>3. 0 \notin Bad
  <2>. DEFINE g == [s \in SUBSET S |-> 0]
  <2>1. \A s \in SUBSET S : Cardinality(s) <= 0 => s = {}
      BY <1>1, FS_EmptySet
  <2>2. g = [s \in SUBSET S |-> IF Cardinality(s) <= 0 THEN SumStep(f, g, s) ELSE 0]
      BY <2>1 DEF SumStep
  <2>. QED
      BY <2>2
<1>4. ASSUME NEW n \in Nat, n \notin Bad
      PROVE  n + 1 \notin Bad
  <2>1. PICK g : UpTo(g, n)
      BY <1>4
  <2>. DEFINE h == [s \in SUBSET S |-> IF Cardinality(s) <= n + 1 THEN SumStep(f, g, s) ELSE 0]
  <2>2. \A s \in SUBSET S : Cardinality(s) <= n => h[s] = g[s]
    <3>. SUFFICES ASSUME NEW s \in SUBSET S, Cardinality(s) <= n PROVE h[s] = g[s]
        OBVIOUS
    <3>1. Cardinality(s) <= n + 1
        BY <1>1
    <3>. QED
        BY <2>1, <3>1
  <2>3. \A s \in SUBSET S : Cardinality(s) <= n + 1 => SumStep(f, h, s) = SumStep(f, g, s)
    <3>. SUFFICES ASSUME NEW s \in SUBSET S, Cardinality(s) <= n + 1
                  PROVE  SumStep(f, h, s) = SumStep(f, g, s)
        OBVIOUS
    <3>1. CASE s = {}
        BY <3>1 DEF SumStep
    <3>2. CASE s # {}
      <4>. PICK r \in SUBSET S : r = s \ {Next1(s)}
          OBVIOUS
      <4>1. Cardinality(r) <= n
        <5>1. Cardinality(r) = Cardinality(s) - 1 /\ Cardinality(s) \in Nat
            BY <1>1, <1>2, <3>2
        <5>. QED
            BY <5>1
      <4>2. h[r] = g[r]
          BY <2>2, <4>1
      <4>. QED
          BY <3>2, <4>2 DEF SumStep
    <3>. QED
        BY <3>1, <3>2
  <2>4. h = [s \in SUBSET S |-> IF Cardinality(s) <= n + 1 THEN SumStep(f, h, s) ELSE 0]
      BY <2>3
  <2>. QED
      BY <2>4
<1>5. Bad = {}
  <2>. SUFFICES ASSUME Bad # {} PROVE FALSE
      OBVIOUS
  <2>1. PICK n \in Bad : \A m \in Bad : n <= m
    <3>1. Bad \in SUBSET Nat
        OBVIOUS
    <3>. QED
        BY <3>1, HasLeast
  <2>. HIDE DEF Bad
  <2>2. n \in Nat /\ n # 0
      BY <1>3 DEF Bad
  <2>. PICK m \in Nat : n = m + 1
      BY <2>2
  <2>3. m \notin Bad
      BY <2>1
  <2>. QED
      BY <1>4, <2>3
<1>6. PICK n \in Nat : n = Cardinality(S)
    BY <1>1
<1>7. PICK g : UpTo(g, n)
    BY <1>5
<1>8. \A s \in SUBSET S : Cardinality(s) <= n
    BY <1>6, FS_Subset
<1>9. AreSums(f, g, S)
    BY <1>7, <1>8 DEF AreSums
<1>. QED
    BY <1>9

LEMMA SumsUnique ==
    ASSUME NEW f, NEW S, IsFiniteSet(S), NEW g, NEW h, NEW T \in SUBSET S,
           AreSums(f, g, S), AreSums(f, h, T)
    PROVE  g[T] = h[T]
<1>. DEFINE Good == {s \in SUBSET T : g[s] = h[s]}
<1>1. IsFiniteSet(T)
    BY FS_Subset
<1>2. \A s \in SUBSET T : g[s] = SumStep(f, g, s) /\ h[s] = SumStep(f, h, s)
    BY DEF AreSums
<1>3. ASSUME NEW s \in SUBSET T, \A u \in SUBSET s : u # s => u \in Good
      PROVE  s \in Good
  <2>1. CASE s = {}
      BY <1>2, <2>1 DEF SumStep
  <2>2. CASE s # {}
    <3>. PICK r : r = s \ {Next1(s)}
        OBVIOUS
    <3>1. r \in SUBSET s /\ r # s
        BY <2>2, Next1In
    <3>2. g[r] = h[r]
        BY <1>3, <3>1
    <3>. QED
        BY <1>2, <2>2, <3>2 DEF SumStep
  <2>. QED
      BY <2>1, <2>2
<1>4. \A s \in SUBSET T : s \in Good
  <2>. HIDE DEF Good
  <2>1. Good \in SUBSET (SUBSET T)
      BY DEF Good
  <2>. QED
      BY <1>1, <1>3, <2>1, SubsetsHaveIt
<1>. QED
    BY <1>4

LEMMA SumOfNone == ASSUME NEW f PROVE Sum(f, {}) = 0
<1>1. AreSums(f, CHOOSE g : AreSums(f, g, {}), {})
    BY SumsExist, FS_EmptySet
<1>. QED
    BY <1>1, SumIs DEF AreSums, SumStep

LEMMA SumFromNext1 ==
    ASSUME NEW f, NEW S, IsFiniteSet(S), S # {}
    PROVE  Sum(f, S) = f[Next1(S)] + Sum(f, S \ {Next1(S)})
<1>. PICK T \in SUBSET S : T = S \ {Next1(S)}
    OBVIOUS
<1>0. IsFiniteSet(T)
    BY FS_Subset
<1>1. PICK g : AreSums(f, g, S) /\ Sum(f, S) = g[S]
  <2>1. AreSums(f, CHOOSE g : AreSums(f, g, S), S)
      BY SumsExist
  <2>. QED
      BY <2>1, SumIs
<1>2. PICK h : AreSums(f, h, T) /\ Sum(f, T) = h[T]
  <2>1. AreSums(f, CHOOSE h : AreSums(f, h, T), T)
      BY <1>0, SumsExist
  <2>. QED
      BY <2>1, SumIs
<1>3. g[T] = h[T]
  <2>1. AreSums(f, g, S)
      BY <1>1
  <2>2. AreSums(f, h, T)
      BY <1>2
  <2>. QED
      BY <2>1, <2>2, SumsUnique
<1>4. g[S] = f[Next1(S)] + g[T]
    BY <1>1 DEF AreSums, SumStep
<1>. QED
    BY <1>1, <1>2, <1>3, <1>4

Ints(f, S) == \A x \in S : f[x] \in Int

LEMMA SumIsInt ==
    ASSUME NEW f, NEW S, IsFiniteSet(S), Ints(f, S)
    PROVE  Sum(f, S) \in Int
<1>. DEFINE Good == {T \in SUBSET S : Sum(f, T) \in Int}
<1>1. ASSUME NEW T \in SUBSET S, \A U \in SUBSET T : U # T => U \in Good
      PROVE  T \in Good
  <2>1. CASE T = {}
      BY <2>1, SumOfNone
  <2>2. CASE T # {}
    <3>. PICK x \in T, U \in SUBSET T : x = Next1(T) /\ U = T \ {x}
        BY <2>2, Next1In
    <3>1. U \in Good
        BY <1>1
    <3>2. Sum(f, T) = f[x] + Sum(f, U)
        BY <2>2, FS_Subset, SumFromNext1
    <3>3. f[x] \in Int
        BY DEF Ints
    <3>. QED
        BY <3>1, <3>2, <3>3
  <2>. QED
      BY <2>1, <2>2
<1>2. \A T \in SUBSET S : T \in Good
  <2>1. Good \in SUBSET (SUBSET S)
      OBVIOUS
  <2>. HIDE DEF Good
  <2>. QED
      BY <1>1, <2>1, SubsetsHaveIt
<1>. QED
    BY <1>2

\* The order does not matter: any element may come first.
LEMMA SumFrom ==
    ASSUME NEW f, NEW S, IsFiniteSet(S), Ints(f, S), NEW y \in S
    PROVE  Sum(f, S) = f[y] + Sum(f, S \ {y})
<1>. DEFINE Good == {T \in SUBSET S : \A x \in T : Sum(f, T) = f[x] + Sum(f, T \ {x})}
<1>0. \A T \in SUBSET S : IsFiniteSet(T) /\ Ints(f, T) /\ Sum(f, T) \in Int
  <2>. SUFFICES ASSUME NEW T \in SUBSET S PROVE IsFiniteSet(T) /\ Ints(f, T) /\ Sum(f, T) \in Int
      OBVIOUS
  <2>1. IsFiniteSet(T) /\ Ints(f, T)
      BY FS_Subset DEF Ints
  <2>. QED
      BY <2>1, SumIsInt
<1>1. ASSUME NEW T \in SUBSET S, \A U \in SUBSET T : U # T => U \in Good
      PROVE  T \in Good
  <2>. SUFFICES ASSUME NEW x \in T PROVE Sum(f, T) = f[x] + Sum(f, T \ {x})
      OBVIOUS
  <2>. PICK c \in T : c = Next1(T)
      BY Next1In
  <2>. PICK U \in SUBSET T, V \in SUBSET T, W \in SUBSET T :
           U = T \ {c} /\ V = T \ {x} /\ W = (T \ {c}) \ {x}
      OBVIOUS
  <2>1. Sum(f, T) = f[c] + Sum(f, U)
      BY <1>0, SumFromNext1
  <2>2. CASE x = c
      BY <2>1, <2>2
  <2>3. CASE x # c
    <3>1. U \in Good /\ V \in Good /\ x \in U /\ c \in V
        BY <1>1, <2>3
    <3>2. U \ {x} = W /\ V \ {c} = W
        OBVIOUS
    <3>3. Sum(f, U) = f[x] + Sum(f, W)
        BY <3>1, <3>2
    <3>4. Sum(f, V) = f[c] + Sum(f, W)
        BY <3>1, <3>2
    <3>5. f[x] \in Int /\ f[c] \in Int
        BY DEF Ints
    <3>6. Sum(f, W) \in Int
        BY <1>0
    <3>. QED
        BY <2>1, <3>3, <3>4, <3>5, <3>6
  <2>. QED
      BY <2>2, <2>3
<1>2. \A T \in SUBSET S : T \in Good
  <2>1. Good \in SUBSET (SUBSET S)
      OBVIOUS
  <2>. HIDE DEF Good
  <2>. QED
      BY <1>1, <2>1, SubsetsHaveIt
<1>. QED
    BY <1>2

\* What holds of no elements, and of one more when it does of some, holds of all.
LEMMA OneByOne ==
    ASSUME NEW S, IsFiniteSet(S), NEW Good \in SUBSET (SUBSET S), {} \in Good,
           \A T \in Good : \A x \in S \ T : T \union {x} \in Good
    PROVE  S \in Good
<1>1. ASSUME NEW T \in SUBSET S, \A U \in SUBSET T : U # T => U \in Good
      PROVE  T \in Good
  <2>1. CASE T = {}
      BY <2>1
  <2>2. CASE T # {}
    <3>1. PICK x \in T : TRUE
        BY <2>2
    <3>2. T \ {x} \in Good
        BY <1>1
    <3>3. (T \ {x}) \union {x} \in Good
        BY <3>2
    <3>4. (T \ {x}) \union {x} = T
        OBVIOUS
    <3>. QED
        BY <3>3, <3>4
  <2>. QED
      BY <2>1, <2>2
<1>. QED
    BY <1>1, SubsetsHaveIt

LEMMA SumWith ==
    ASSUME NEW f, NEW S, IsFiniteSet(S), NEW x, x \notin S, Ints(f, S \union {x})
    PROVE  Sum(f, S \union {x}) = f[x] + Sum(f, S)
<1>. PICK T : T = S \union {x}
    OBVIOUS
<1>1. IsFiniteSet(T) /\ x \in T /\ T \ {x} = S
    BY FS_AddElement
<1>2. Sum(f, T) = f[x] + Sum(f, T \ {x})
    BY <1>1, SumFrom
<1>. QED
    BY <1>1, <1>2

\* The same values, the same sum.
LEMMA SumSame ==
    ASSUME NEW f, NEW g, NEW S, IsFiniteSet(S), Ints(f, S), \A x \in S : f[x] = g[x]
    PROVE  Sum(f, S) = Sum(g, S)
<1>. DEFINE Good == {T \in SUBSET S : Sum(f, T) = Sum(g, T)}
<1>1. {} \in Good
    BY SumOfNone
<1>2. ASSUME NEW T \in Good, NEW x \in S \ T
      PROVE  T \union {x} \in Good
  <2>1. IsFiniteSet(T) /\ Ints(f, T \union {x}) /\ Ints(g, T \union {x})
      BY FS_Subset DEF Ints
  <2>2. Sum(f, T \union {x}) = f[x] + Sum(f, T)
      BY <2>1, SumWith
  <2>3. Sum(g, T \union {x}) = g[x] + Sum(g, T)
      BY <2>1, SumWith
  <2>4. f[x] = g[x] /\ Sum(f, T) = Sum(g, T)
      OBVIOUS
  <2>. QED
      BY <2>2, <2>3, <2>4
<1>3. S \in Good
  <2>1. Good \in SUBSET (SUBSET S)
      OBVIOUS
  <2>. HIDE DEF Good
  <2>. QED
      BY <1>1, <1>2, <2>1, OneByOne
<1>. QED
    BY <1>3

\* Sums of sums and differences.
LEMMA SumOfSum ==
    ASSUME NEW f, NEW g, NEW h, NEW S, IsFiniteSet(S), Ints(f, S), Ints(g, S),
           \A x \in S : h[x] = f[x] + g[x]
    PROVE  Sum(h, S) = Sum(f, S) + Sum(g, S)
<1>. DEFINE Good == {T \in SUBSET S : Sum(h, T) = Sum(f, T) + Sum(g, T)}
<1>1. {} \in Good
    BY SumOfNone
<1>2. ASSUME NEW T \in Good, NEW x \in S \ T
      PROVE  T \union {x} \in Good
  <2>1. f[x] \in Int /\ g[x] \in Int /\ h[x] = f[x] + g[x]
      BY DEF Ints
  <2>2. Ints(h, S)
      BY DEF Ints
  <2>3. IsFiniteSet(T) /\ Ints(f, T \union {x}) /\ Ints(g, T \union {x}) /\ Ints(h, T \union {x})
      BY <2>2, FS_Subset DEF Ints
  <2>4. Ints(f, T) /\ Ints(g, T)
      BY DEF Ints
  <2>5. /\ Sum(f, T \union {x}) = f[x] + Sum(f, T)
        /\ Sum(g, T \union {x}) = g[x] + Sum(g, T)
        /\ Sum(h, T \union {x}) = h[x] + Sum(h, T)
      BY <2>3, SumWith
  <2>6. Sum(f, T) \in Int /\ Sum(g, T) \in Int
      BY <2>3, <2>4, SumIsInt
  <2>7. Sum(h, T) = Sum(f, T) + Sum(g, T)
      OBVIOUS
  <2>8. Sum(h, T \union {x}) = Sum(f, T \union {x}) + Sum(g, T \union {x})
      BY <2>1, <2>5, <2>6, <2>7
  <2>. QED
      BY <2>8
<1>3. S \in Good
  <2>1. Good \in SUBSET (SUBSET S)
      OBVIOUS
  <2>. HIDE DEF Good
  <2>. QED
      BY <1>1, <1>2, <2>1, OneByOne
<1>. QED
    BY <1>3

\* A sum over two sets that have nothing in common.
LEMMA SumOfBoth ==
    ASSUME NEW f, NEW S, IsFiniteSet(S), NEW R, IsFiniteSet(R), S \intersect R = {},
           Ints(f, S), Ints(f, R)
    PROVE  Sum(f, S \union R) = Sum(f, S) + Sum(f, R)
<1>. DEFINE Good == {T \in SUBSET S : Sum(f, T \union R) = Sum(f, T) + Sum(f, R)}
<1>0. Sum(f, R) \in Int
    BY SumIsInt
<1>1. {} \in Good
  <2>1. {} \union R = R
      OBVIOUS
  <2>. QED
      BY <1>0, <2>1, SumOfNone
<1>2. ASSUME NEW T \in Good, NEW x \in S \ T
      PROVE  T \union {x} \in Good
  <2>. PICK A, B : A = T \union R /\ B = (T \union {x}) \union R
      OBVIOUS
  <2>1. IsFiniteSet(T) /\ IsFiniteSet(A) /\ x \notin A /\ B = A \union {x}
      BY FS_Subset, FS_Union
  <2>2. Ints(f, T) /\ Ints(f, T \union {x}) /\ Ints(f, A \union {x})
      BY DEF Ints
  <2>3. Sum(f, T \union {x}) = f[x] + Sum(f, T)
      BY <2>1, <2>2, SumWith
  <2>4. Sum(f, B) = f[x] + Sum(f, A)
      BY <2>1, <2>2, SumWith
  <2>5. Sum(f, T) \in Int /\ f[x] \in Int
      BY <2>1, <2>2, SumIsInt DEF Ints
  <2>6. Sum(f, A) = Sum(f, T) + Sum(f, R)
      OBVIOUS
  <2>7. Sum(f, B) = Sum(f, T \union {x}) + Sum(f, R)
      BY <1>0, <2>3, <2>4, <2>5, <2>6
  <2>. QED
      BY <2>7
<1>3. S \in Good
  <2>1. Good \in SUBSET (SUBSET S)
      OBVIOUS
  <2>. HIDE DEF Good
  <2>. QED
      BY <1>1, <1>2, <2>1, OneByOne
<1>. QED
    BY <1>3

\* The sum of what the groups of a set come to, when each element has its group.
LEMMA SumOfGroups ==
    ASSUME NEW f, NEW S, IsFiniteSet(S), Ints(f, S), NEW group, NEW K, IsFiniteSet(K),
           \A x \in S : group[x] \in K,
           NEW g, \A k \in K : g[k] = Sum(f, {x \in S : group[x] = k})
    PROVE  Sum(g, K) = Sum(f, S)
<1>. DEFINE Of(k) == {x \in S : group[x] = k}
            In(L) == {x \in S : group[x] \in L}
            Good == {L \in SUBSET K : Sum(g, L) = Sum(f, In(L))}
<1>0. \A k \in K : IsFiniteSet(Of(k)) /\ Ints(f, Of(k)) /\ g[k] \in Int
  <2>. SUFFICES ASSUME NEW k \in K PROVE IsFiniteSet(Of(k)) /\ Ints(f, Of(k)) /\ g[k] \in Int
      OBVIOUS
  <2>1. IsFiniteSet(Of(k)) /\ Ints(f, Of(k))
      BY FS_Subset DEF Ints
  <2>. QED
      BY <2>1, SumIsInt
<1>1. {} \in Good
  <2>1. In({}) = {}
      OBVIOUS
  <2>. QED
      BY <2>1, SumOfNone
<1>2. ASSUME NEW L \in Good, NEW k \in K \ L
      PROVE  L \union {k} \in Good
  <2>1. IsFiniteSet(L) /\ Ints(g, L \union {k})
      BY <1>0, FS_Subset DEF Ints
  <2>2. Sum(g, L \union {k}) = g[k] + Sum(g, L)
      BY <2>1, SumWith
  <2>. PICK A \in SUBSET S, B \in SUBSET S, C \in SUBSET S :
           A = In(L) /\ B = Of(k) /\ C = In(L \union {k})
      OBVIOUS
  <2>3. C = A \union B /\ A \intersect B = {}
      OBVIOUS
  <2>4. IsFiniteSet(A) /\ Ints(f, A)
      BY FS_Subset DEF Ints
  <2>5. IsFiniteSet(B) /\ Ints(f, B)
      BY <1>0
  <2>6. Sum(f, A \union B) = Sum(f, A) + Sum(f, B)
      BY <2>3, <2>4, <2>5, SumOfBoth
  <2>7. Sum(g, L) = Sum(f, A) /\ g[k] = Sum(f, B)
      OBVIOUS
  <2>8. Sum(f, A) \in Int /\ Sum(f, B) \in Int
      BY <2>4, <2>5, SumIsInt
  <2>9. Sum(f, C) = Sum(f, A) + Sum(f, B)
      BY <2>3, <2>6
  <2>10. Sum(g, L \union {k}) = Sum(f, B) + Sum(f, A)
      BY <2>2, <2>7
  <2>11. Sum(g, L \union {k}) = Sum(f, C)
      BY <2>8, <2>9, <2>10
  <2>. QED
      BY <2>11
<1>3. K \in Good
  <2>1. Good \in SUBSET (SUBSET K)
      OBVIOUS
  <2>. HIDE DEF Good
  <2>. QED
      BY <1>1, <1>2, <2>1, OneByOne
<1>4. In(K) = S
    OBVIOUS
<1>. QED
    BY <1>3, <1>4

\* A sum of natural numbers is one, is as large as each of them, and none of them is
\* positive when it is not.
LEMMA SumOfNats ==
    ASSUME NEW f, NEW S, IsFiniteSet(S), \A x \in S : f[x] \in Nat
    PROVE  Sum(f, S) \in Nat /\ \A x \in S : f[x] <= Sum(f, S)
<1>. DEFINE Good == {T \in SUBSET S : Sum(f, T) \in Nat}
<1>0. \A T \in SUBSET S : IsFiniteSet(T) /\ Ints(f, T)
    BY FS_Subset DEF Ints
<1>1. {} \in Good
    BY SumOfNone
<1>2. ASSUME NEW T \in Good, NEW x \in S \ T
      PROVE  T \union {x} \in Good
  <2>1. Sum(f, T \union {x}) = f[x] + Sum(f, T)
      BY <1>0, SumWith
  <2>. QED
      BY <2>1
<1>3. ASSUME NEW R \in SUBSET S
      PROVE  Sum(f, R) \in Nat
  <2>. DEFINE Few == {T \in SUBSET R : T \in Good}
  <2>1. {} \in Few /\ \A T \in Few : \A x \in R \ T : T \union {x} \in Few
      BY <1>1, <1>2
  <2>2. R \in Few
    <3>1. Few \in SUBSET (SUBSET R)
        OBVIOUS
    <3>. HIDE DEF Few, Good
    <3>. QED
        BY <1>0, <2>1, <3>1, OneByOne
  <2>. QED
      BY <2>2
<1>4. ASSUME NEW x \in S
      PROVE  f[x] <= Sum(f, S)
  <2>1. Sum(f, S) = f[x] + Sum(f, S \ {x})
      BY <1>0, SumFrom
  <2>2. Sum(f, S \ {x}) \in Nat
      BY <1>3
  <2>. QED
      BY <2>1, <2>2
<1>. QED
    BY <1>3, <1>4

LEMMA SumOfZeros ==
    ASSUME NEW f, NEW S, IsFiniteSet(S), \A x \in S : f[x] = 0
    PROVE  Sum(f, S) = 0
<1>. DEFINE Good == {T \in SUBSET S : Sum(f, T) = 0}
<1>1. {} \in Good
    BY SumOfNone
<1>2. ASSUME NEW T \in Good, NEW x \in S \ T
      PROVE  T \union {x} \in Good
  <2>1. IsFiniteSet(T) /\ Ints(f, T \union {x})
      BY FS_Subset DEF Ints
  <2>2. Sum(f, T \union {x}) = f[x] + Sum(f, T)
      BY <2>1, SumWith
  <2>. QED
      BY <2>2
<1>3. S \in Good
  <2>1. Good \in SUBSET (SUBSET S)
      OBVIOUS
  <2>. HIDE DEF Good
  <2>. QED
      BY <1>1, <1>2, <2>1, OneByOne
<1>. QED
    BY <1>3

LEMMA SumAtMost ==
    ASSUME NEW f, NEW S, IsFiniteSet(S), NEW b \in Nat, \A x \in S : f[x] \in Int /\ f[x] <= b
    PROVE  Sum(f, S) <= Cardinality(S) * b
<1>. DEFINE Good == {T \in SUBSET S : Sum(f, T) <= Cardinality(T) * b}
<1>1. {} \in Good
    BY SumOfNone, FS_EmptySet
<1>2. ASSUME NEW T \in Good, NEW x \in S \ T
      PROVE  T \union {x} \in Good
  <2>1. IsFiniteSet(T) /\ Ints(f, T \union {x}) /\ Ints(f, T)
      BY FS_Subset DEF Ints
  <2>2. Sum(f, T \union {x}) = f[x] + Sum(f, T)
      BY <2>1, SumWith
  <2>. PICK n \in Nat : n = Cardinality(T)
      BY <2>1, FS_CardinalityType
  <2>3. Cardinality(T \union {x}) = n + 1
      BY <2>1, FS_AddElement
  <2>4. (n + 1) * b = n * b + b /\ n * b \in Nat
      OBVIOUS
  <2>5. Sum(f, T) \in Int /\ Sum(f, T) <= n * b
      BY <2>1, SumIsInt
  <2>6. f[x] \in Int /\ f[x] <= b
      OBVIOUS
  <2>7. Sum(f, T \union {x}) <= (n + 1) * b
      BY <2>2, <2>4, <2>5, <2>6
  <2>. QED
      BY <2>3, <2>7
<1>3. S \in Good
  <2>1. Good \in SUBSET (SUBSET S)
      OBVIOUS
  <2>. HIDE DEF Good
  <2>. QED
      BY <1>1, <1>2, <2>1, OneByOne
<1>. QED
    BY <1>3

\* A sum over numbers that are each one later.
LEMMA SumOneLater ==
    ASSUME NEW f, NEW g, NEW S \in SUBSET Int, IsFiniteSet(S), NEW R, R = {x + 1 : x \in S},
           \A x \in S : g[x] = f[x + 1] /\ f[x + 1] \in Int
    PROVE  Sum(g, S) = Sum(f, R)
<1>. DEFINE Later(T) == {x + 1 : x \in T}
            Good == {T \in SUBSET S : IsFiniteSet(Later(T)) /\ Sum(g, T) = Sum(f, Later(T))}
<1>1. {} \in Good
  <2>1. Later({}) = {}
      OBVIOUS
  <2>. QED
      BY <2>1, SumOfNone, FS_EmptySet
<1>2. ASSUME NEW T \in Good, NEW x \in S \ T
      PROVE  T \union {x} \in Good
  <2>. PICK L : L = Later(T)
      OBVIOUS
  <2>1. Later(T \union {x}) = L \union {x + 1} /\ x + 1 \notin L
    <3>1. Later(T \union {x}) = L \union {x + 1}
        OBVIOUS
    <3>2. \A y \in T : y \in Int /\ y # x
        OBVIOUS
    <3>3. \A y \in T : y + 1 # x + 1
        BY <3>2
    <3>. QED
        BY <3>1, <3>3
  <2>2. IsFiniteSet(T) /\ IsFiniteSet(L) /\ IsFiniteSet(L \union {x + 1})
      BY FS_Subset, FS_AddElement
  <2>3. Ints(g, T \union {x}) /\ Ints(f, L \union {x + 1})
      BY DEF Ints
  <2>4. Sum(g, T \union {x}) = g[x] + Sum(g, T)
      BY <2>2, <2>3, SumWith
  <2>5. Sum(f, L \union {x + 1}) = f[x + 1] + Sum(f, L)
      BY <2>1, <2>2, <2>3, SumWith
  <2>6. Sum(g, T) = Sum(f, L) /\ g[x] = f[x + 1]
      OBVIOUS
  <2>7. Sum(g, T \union {x}) = Sum(f, L \union {x + 1})
      BY <2>4, <2>5, <2>6
  <2>. QED
      BY <2>1, <2>2, <2>7
<1>3. S \in Good
  <2>1. Good \in SUBSET (SUBSET S)
      OBVIOUS
  <2>. HIDE DEF Good
  <2>. QED
      BY <1>1, <1>2, <2>1, OneByOne
<1>. QED
    BY <1>3

LEMMA SumFunctionIs == ASSUME NEW f PROVE SumFunction(f) = Sum(f, DOMAIN f)
BY DEF SumFunction, FoldFunction, Sum, SumFunctionOnSet

LEMMA SumOver ==
    ASSUME NEW f, NEW g, NEW S, IsFiniteSet(S), Ints(f, S), DOMAIN g = S, \A x \in S : g[x] = f[x]
    PROVE  SumFunction(g) = Sum(f, S)
<1>1. Sum(f, S) = Sum(g, S)
    BY SumSame
<1>. QED
    BY <1>1, SumFunctionIs

LEMMA SumOfParts ==
    ASSUME NEW f, NEW S, NEW A, NEW B, S = A \union B, A \intersect B = {}, IsFiniteSet(S), Ints(f, S)
    PROVE  Sum(f, S) = Sum(f, A) + Sum(f, B)
<1>1. A \in SUBSET S /\ B \in SUBSET S
    OBVIOUS
<1>2. IsFiniteSet(A) /\ IsFiniteSet(B) /\ Ints(f, A) /\ Ints(f, B)
    BY <1>1, FS_Subset DEF Ints
<1>3. Sum(f, A \union B) = Sum(f, A) + Sum(f, B)
    BY <1>2, SumOfBoth
<1>. QED
    BY <1>3

-----------------------------------------------------------------------------
(* The least and the greatest of a set. *)

LEMMA LeastIs ==
    ASSUME NEW S \in SUBSET Int, NEW m \in S, \A y \in S : m <= y
    PROVE  Min(S) = m
<1>1. \A x \in S : (\A y \in S : x <= y) => x = m
  <2>. SUFFICES ASSUME NEW x \in S, \A y \in S : x <= y PROVE x = m
      OBVIOUS
  <2>1. x \in Int /\ m \in Int /\ x <= m /\ m <= x
      OBVIOUS
  <2>. QED
      BY <2>1
<1>. QED
    BY <1>1 DEF Min

LEMMA GreatestIs ==
    ASSUME NEW S \in SUBSET Int, NEW m \in S, \A y \in S : y <= m
    PROVE  Max(S) = m
<1>1. \A x \in S : (\A y \in S : x >= y) => x = m
  <2>. SUFFICES ASSUME NEW x \in S, \A y \in S : x >= y PROVE x = m
      OBVIOUS
  <2>1. x \in Int /\ m \in Int /\ x >= m /\ x <= m
      OBVIOUS
  <2>. QED
      BY <2>1
<1>2. \A y \in S : m >= y
    BY SMT
<1>. QED
    BY <1>1, <1>2 DEF Max

LEMMA LeastIn ==
    ASSUME NEW S \in SUBSET Nat, S # {}
    PROVE  Min(S) \in S /\ \A y \in S : Min(S) <= y
<1>. PICK m \in S : \A y \in S : m <= y
    BY HasLeast
<1>1. S \in SUBSET Int
    OBVIOUS
<1>2. Min(S) = m
    BY <1>1, LeastIs
<1>. QED
    BY <1>2

LEMMA GreatestIn ==
    ASSUME NEW S \in SUBSET Int, IsFiniteSet(S), S # {}
    PROVE  Max(S) \in S /\ \A y \in S : y <= Max(S)
<1>. DEFINE Good == {T \in SUBSET S : T = {} \/ \E m \in T : \A y \in T : y <= m}
<1>1. ASSUME NEW T \in Good, NEW x \in S \ T
      PROVE  T \union {x} \in Good
  <2>1. CASE T = {}
    <3>1. x \in Int
        OBVIOUS
    <3>2. \A y \in T \union {x} : y <= x
        BY <2>1, <3>1
    <3>. QED
        BY <3>2
  <2>2. CASE T # {}
    <3>1. PICK m \in T : \A y \in T : y <= m
        BY <2>2
    <3>2. m \in Int /\ x \in Int /\ \A y \in T : y \in Int
        OBVIOUS
    <3>3. CASE x <= m
        BY <3>1, <3>2, <3>3
    <3>4. CASE ~(x <= m)
      <4>1. \A y \in T \union {x} : y <= x
          BY <3>1, <3>2, <3>4
      <4>. QED
          BY <4>1
    <3>. QED
        BY <3>3, <3>4
  <2>. QED
      BY <2>1, <2>2
<1>2. S \in Good
  <2>1. Good \in SUBSET (SUBSET S) /\ {} \in Good
      OBVIOUS
  <2>. HIDE DEF Good
  <2>. QED
      BY <1>1, <2>1, OneByOne
<1>. PICK m \in S : \A y \in S : y <= m
    BY <1>2
<1>3. Max(S) = m
    BY GreatestIs
<1>. QED
    BY <1>3

LEMMA LeastOfTwo == ASSUME NEW a \in Int, NEW b \in Int PROVE Min({a, b}) = IF a <= b THEN a ELSE b
<1>. PICK m \in {a, b} : m = IF a <= b THEN a ELSE b
    OBVIOUS
<1>1. \A y \in {a, b} : m <= y
    OBVIOUS
<1>2. {a, b} \in SUBSET Int
    OBVIOUS
<1>. QED
    BY <1>1, <1>2, LeastIs

LEMMA GreatestOfTwo == ASSUME NEW a \in Int, NEW b \in Int PROVE Max({a, b}) = IF a <= b THEN b ELSE a
<1>. PICK m \in {a, b} : m = IF a <= b THEN b ELSE a
    OBVIOUS
<1>1. \A y \in {a, b} : y <= m
    OBVIOUS
<1>2. {a, b} \in SUBSET Int
    OBVIOUS
<1>. QED
    BY <1>1, <1>2, GreatestIs

LEMMA NaturalProduct == ASSUME NEW a \in Nat, NEW b \in Nat PROVE a * b \in Nat
OBVIOUS

LEMMA ProductIsInt == ASSUME NEW a \in Int, NEW b \in Int PROVE a * b \in Int
OBVIOUS

LEMMA PercentType == ASSUME NEW p \in Int PROVE Percent(p) \in 0..100
<1>. PICK q \in Int : q = Min({100, p}) /\ q <= 100
  <2>1. Min({100, p}) = IF 100 <= p THEN 100 ELSE p
      BY LeastOfTwo
  <2>. QED
      BY <2>1
<1>1. Max({0, q}) = IF 0 <= q THEN q ELSE 0
    BY GreatestOfTwo
<1>. QED
    BY <1>1 DEF Percent

-----------------------------------------------------------------------------
(* What the warehouse holds. *)

Snapshot ==
    {Silent} \union [covered : 1..SLOT_SECONDS, start : 0..100, end : 0..100,
                     discharged : Nat, charged : Nat, external : Nat]

\* The table from the first slot that was heard to the last one, which was.
Recorded ==
    /\ latest \in Readable /\ since < latest.at /\ latest.at <= now
    /\ rows \in [since..(latest.at - 1) -> Snapshot]
    /\ rows[latest.at - 1].covered > 0

WarehouseInv ==
    /\ since \in Nat /\ now \in Nat /\ charge \in 0..100
    /\ (latest = None /\ rows = << >>) \/ Recorded

LEMMA ModeIs ==
    ASSUME NEW m \in DOMAIN Modes, NEW mode, mode = Modes[m]
    PROVE  /\ mode.covered \in {0} \union (1..SLOT_SECONDS)
           /\ mode.between \in 0..1 /\ mode.within \in -1..1
           /\ mode.covered > 0 => mode.external \in Nat
<1>1. m \in {"coasting", "draining", "brief", "charging", "off"}
    BY DEF Modes
<1>2. CASE m = "coasting"
    BY <1>2 DEF Modes, SLOT_SECONDS
<1>3. CASE m = "draining"
    BY <1>3 DEF Modes, SLOT_SECONDS
<1>4. CASE m = "brief"
    BY <1>4 DEF Modes, SLOT_SECONDS
<1>5. CASE m = "charging"
    BY <1>5 DEF Modes, SLOT_SECONDS
<1>6. CASE m = "off"
    BY <1>6 DEF Modes, SLOT_SECONDS
<1>. QED
    BY <1>1, <1>2, <1>3, <1>4, <1>5, <1>6

LEMMA RowNumbers ==
    ASSUME NEW p \in Int, NEW b \in Int, NEW w \in Int, NEW i \in Int
    PROVE  /\ p - b * i - w * (i - 1) \in Int /\ p - b * i - w * i \in Int
           /\ Max({0, b + w}) \in Nat /\ Max({0, -w}) \in Nat
<1>. PICK x \in Int, y \in Int, z \in Int : x = b * i /\ y = w * (i - 1) /\ z = w * i
    BY ProductIsInt
<1>1. p - x - y \in Int /\ p - x - z \in Int
    OBVIOUS
<1>2. \A q \in Int : Max({0, q}) \in Nat
  <2>. SUFFICES ASSUME NEW q \in Int PROVE Max({0, q}) \in Nat
      OBVIOUS
  <2>1. Max({0, q}) = IF 0 <= q THEN q ELSE 0
      BY GreatestOfTwo
  <2>. QED
      BY <2>1
<1>3. b + w \in Int /\ -w \in Int
    OBVIOUS
<1>. QED
    BY <1>1, <1>2, <1>3, Zenon

LEMMA ChargeIsInt == ASSUME NEW c \in Int, NEW b \in Int, NEW w \in Int, NEW n \in Int
                     PROVE  c - (b + w) * n \in Int
OBVIOUS

LEMMA RowType ==
    ASSUME NEW m \in DOMAIN Modes, NEW mode, mode = Modes[m], mode.covered > 0,
           NEW p \in 0..100, NEW i \in Int
    PROVE  Row(mode, p, i) \in Snapshot /\ Row(mode, p, i).covered > 0
<1>. PICK c \in 1..SLOT_SECONDS, b \in 0..1, w \in -1..1 :
         c = mode.covered /\ b = mode.between /\ w = mode.within
  <2>1. mode.covered \in {0} \union (1..SLOT_SECONDS) /\ mode.between \in 0..1 /\ mode.within \in -1..1
      BY ModeIs
  <2>2. mode.covered # 0
      BY SMT
  <2>. QED
      BY <2>1, <2>2
<1>1. /\ p - b * i - w * (i - 1) \in Int /\ p - b * i - w * i \in Int
      /\ Max({0, b + w}) \in Nat /\ Max({0, -w}) \in Nat
  <2>1. p \in Int /\ b \in Int /\ w \in Int
      OBVIOUS
  <2>. QED
      BY <2>1, RowNumbers, Zenon
<1>. PICK s, e : s = Percent(p - b * i - w * (i - 1)) /\ e = Percent(p - b * i - w * i)
    OBVIOUS
<1>2. s \in 0..100 /\ e \in 0..100
    BY <1>1, PercentType
<1>5. Row(mode, p, i) = [covered |-> c, external |-> mode.external, start |-> s, end |-> e,
                         discharged |-> Max({0, b + w}), charged |-> Max({0, -w})]
    BY DEF Row
<1>6. mode.external \in Nat
    BY ModeIs
<1>7. c > 0
    BY DEF SLOT_SECONDS
<1>. QED
    BY <1>1, <1>2, <1>5, <1>6, <1>7 DEF Snapshot

LEMMA WarehouseStarts == Init => WarehouseInv
<1>. SUFFICES ASSUME Init PROVE WarehouseInv
    OBVIOUS
<1>1. since \in Nat /\ now = since
    BY BoundsAssumption DEF Init, SlotsPerDay
<1>. QED
    BY <1>1 DEF Init, WarehouseInv

LEMMA ChargeType ==
    ASSUME WarehouseInv, NEW m \in DOMAIN Modes, NEW mode, mode = Modes[m], NEW n \in Lengths,
           Passes(mode, n)
    PROVE  n \in Nat \ {0} /\ now' = now + n /\ charge' \in 0..100
<1>1. n \in Nat \ {0}
    BY BoundsAssumption
<1>. PICK b \in 0..1, w \in -1..1 : b = mode.between /\ w = mode.within
    BY ModeIs
<1>2. charge' = Percent(charge - (b + w) * n)
    BY DEF Passes
<1>3. charge - (b + w) * n \in Int
  <2>1. charge \in 0..100
      BY DEF WarehouseInv
  <2>. QED
      BY <1>1, <2>1, ChargeIsInt
<1>4. charge' \in 0..100
    BY <1>2, <1>3, PercentType
<1>. QED
    BY <1>1, <1>4 DEF Passes

LEMMA HeardKept ==
    ASSUME WarehouseInv, NEW m \in DOMAIN Modes, NEW n \in Lengths, Heard(Modes[m], n)
    PROVE  WarehouseInv'
<1>. PICK mode : mode = Modes[m]
    OBVIOUS
<1>1. Heard(mode, n) /\ mode.covered > 0
    BY DEF Heard
<1>2. n \in Nat \ {0} /\ now' = now + n /\ charge' \in 0..100
    BY <1>1, ChargeType DEF Heard
<1>3. now \in Nat /\ since' \in Nat /\ since' <= now
  <2>1. since' = IF latest = None THEN now ELSE since
      BY <1>1 DEF Heard
  <2>2. CASE latest = None
      BY <2>1, <2>2 DEF WarehouseInv
  <2>3. CASE latest # None
    <3>1. latest.at \in Nat /\ since < latest.at /\ latest.at <= now
        BY <2>3 DEF WarehouseInv, Recorded, Readable
    <3>. QED
        BY <2>1, <2>3, <3>1 DEF WarehouseInv
  <2>. QED
      BY <2>2, <2>3
<1>4. \A at \in DOMAIN rows : rows[at] \in Snapshot /\ at \in Int /\ at < now
  <2>1. CASE latest = None /\ rows = << >>
      BY <2>1
  <2>2. CASE Recorded
    <3>. PICK to \in Nat : to = latest.at
        BY <2>2 DEF Recorded, Readable
    <3>1. rows \in [since..(to - 1) -> Snapshot] /\ to <= now
        BY <2>2 DEF Recorded
    <3>2. DOMAIN rows = since..(to - 1) /\ \A at \in DOMAIN rows : rows[at] \in Snapshot
        BY <3>1
    <3>3. \A at \in since..(to - 1) : at \in Int /\ at < now
        BY <1>3, <3>1 DEF WarehouseInv
    <3>. QED
        BY <3>2, <3>3
  <2>. QED
      BY <2>1, <2>2 DEF WarehouseInv
<1>. PICK last \in Nat : last = now + n - 1
    BY <1>2, <1>3
<1>5. rows' = [at \in since'..last |->
                   IF at \in DOMAIN rows THEN rows[at]
                   ELSE IF at < now THEN Silent ELSE Row(mode, charge, at - now + 1)]
    BY <1>1 DEF Heard
<1>6. \A i \in Int : Row(mode, charge, i) \in Snapshot /\ Row(mode, charge, i).covered > 0
  <2>1. charge \in 0..100
      BY DEF WarehouseInv
  <2>. QED
      BY <1>1, <2>1, RowType
<1>7. rows' \in [since'..last -> Snapshot]
  <2>1. \A at \in since'..last : at - now + 1 \in Int
      BY <1>3
  <2>2. Silent \in Snapshot
      BY DEF Snapshot
  <2>. QED
      BY <1>4, <1>5, <1>6, <2>1, <2>2
<1>8. rows'[last].covered > 0
  <2>1. last \in since'..last /\ ~(last < now) /\ last - now + 1 \in Int
      BY <1>2, <1>3
  <2>2. last \notin DOMAIN rows
      BY <1>4, <2>1
  <2>3. rows'[last] = Row(mode, charge, last - now + 1)
      BY <1>5, <2>1, <2>2
  <2>. QED
      BY <1>6, <2>1, <2>3
<1>9. latest' = [percent |-> charge', plugged |-> mode.external > 0, at |-> now']
    BY <1>1 DEF Heard
<1>10. latest' \in Readable /\ latest'.at = now'
  <2>1. now' \in Nat /\ (mode.external > 0) \in BOOLEAN
      BY <1>2, <1>3
  <2>. QED
      BY <1>2, <1>9, <2>1 DEF Readable
<1>11. now' \in Nat /\ since' < now' /\ now' - 1 = last
    BY <1>2, <1>3
<1>12. rows' \in [since'..(now' - 1) -> Snapshot] /\ rows'[now' - 1].covered > 0
    BY <1>7, <1>8, <1>11, Zenon
<1>13. Recorded'
  <2>1. since' < latest'.at /\ latest'.at <= now'
      BY <1>10, <1>11
  <2>2. latest'.at - 1 = now' - 1
      BY <1>10, Zenon
  <2>. QED
      BY <1>10, <1>12, <2>1, <2>2, Zenon DEF Recorded
<1>. QED
    BY <1>2, <1>3, <1>11, <1>13 DEF WarehouseInv

LEMMA WarehouseKept == WarehouseInv /\ [Next]_vars => WarehouseInv'
<1>. SUFFICES ASSUME WarehouseInv, [Next]_vars PROVE WarehouseInv'
    OBVIOUS
<1>1. CASE UNCHANGED vars
    BY <1>1 DEF WarehouseInv, Recorded, vars
<1>2. ASSUME NEW m \in DOMAIN Modes, NEW n \in Lengths, Heard(Modes[m], n)
      PROVE  WarehouseInv'
    BY <1>2, HeardKept
<1>3. ASSUME NEW m \in DOMAIN Modes, NEW n \in Lengths, Off(Modes[m], n)
      PROVE  WarehouseInv'
  <2>1. UNCHANGED <<since, rows, latest>> /\ Passes(Modes[m], n)
      BY <1>3 DEF Off
  <2>2. n \in Nat \ {0} /\ now' = now + n /\ charge' \in 0..100
      BY <2>1, ChargeType
  <2>3. CASE latest = None /\ rows = << >>
      BY <2>1, <2>2, <2>3 DEF WarehouseInv
  <2>4. CASE Recorded
    <3>1. latest.at \in Nat /\ latest.at <= now /\ now \in Nat
        BY <2>4 DEF WarehouseInv, Recorded, Readable
    <3>2. latest.at <= now' /\ now' \in Nat
        BY <2>2, <3>1
    <3>3. Recorded'
        BY <2>1, <2>4, <3>2 DEF Recorded
    <3>. QED
        BY <2>1, <2>2, <3>2, <3>3 DEF WarehouseInv
  <2>. QED
      BY <2>3, <2>4 DEF WarehouseInv
<1>. QED
    BY <1>1, <1>2, <1>3 DEF Next

\* What every summary is computed from: a table without a hole from the first slot that
\* was heard to the last, each heard or silent as a whole, a charge a percentage.
LEMMA WarehouseHolds == Spec => []WarehouseInv
<1>. QED
    BY WarehouseStarts, WarehouseKept, PTL DEF Spec

-----------------------------------------------------------------------------
(* Tables of snapshots, and the sums over their columns. *)

Table(r) ==
    /\ DOMAIN r \in SUBSET Nat /\ IsFiniteSet(DOMAIN r)
    /\ \A a \in DOMAIN r : r[a] \in Snapshot

Seconds(r) == [a \in DOMAIN r |-> r[a].covered]
Discharges(r) == [a \in DOMAIN r |-> r[a].discharged]
Externals(r) == [a \in DOMAIN r |-> IF r[a].external = None THEN 0 ELSE r[a].covered * r[a].external]

LEMMA SnapshotIs ==
    ASSUME NEW row \in Snapshot
    PROVE  /\ row.covered \in Nat /\ row.covered <= SLOT_SECONDS
           /\ row.discharged \in Nat /\ row.charged \in Nat
           /\ row.covered > 0 => row.start \in 0..100 /\ row.end \in 0..100 /\ row.external \in Nat
           /\ IF row.external = None THEN row.covered = 0 ELSE row.external \in Nat
<1>1. CASE row = Silent
    BY <1>1 DEF Silent, SLOT_SECONDS
<1>2. CASE row # Silent
    BY <1>2, NoneAssumption, SMTT(30) DEF Snapshot, SLOT_SECONDS
<1>. QED
    BY <1>1, <1>2

LEMMA SecondsOver ==
    ASSUME NEW r, Table(r), NEW at \in SUBSET DOMAIN r
    PROVE  /\ IsFiniteSet(at) /\ \A a \in at : Seconds(r)[a] \in Nat /\ Seconds(r)[a] <= SLOT_SECONDS
           /\ Ints(Seconds(r), at)
           /\ SumFunction([a \in at |-> r[a].covered]) = Sum(Seconds(r), at)
<1>. PICK f : f = [a \in at |-> r[a].covered]
    OBVIOUS
<1>1. IsFiniteSet(at)
    BY FS_Subset DEF Table
<1>2. \A a \in at : r[a].covered \in Nat /\ r[a].covered <= SLOT_SECONDS
    BY SnapshotIs DEF Table
<1>3. \A a \in at : f[a] = Seconds(r)[a] /\ f[a] \in Int /\ Seconds(r)[a] = r[a].covered
    BY <1>2 DEF Seconds
<1>4. DOMAIN f = at /\ Ints(f, at) /\ Ints(Seconds(r), at)
    BY <1>3 DEF Ints
<1>5. Sum(f, at) = Sum(Seconds(r), at)
    BY <1>1, <1>3, <1>4, SumSame
<1>6. SumFunction(f) = Sum(f, at)
    BY <1>4, SumFunctionIs
<1>. QED
    BY <1>1, <1>2, <1>3, <1>4, <1>5, <1>6

LEMMA DischargesOver ==
    ASSUME NEW r, Table(r), NEW at \in SUBSET DOMAIN r
    PROVE  /\ IsFiniteSet(at) /\ \A a \in at : Discharges(r)[a] \in Nat
           /\ Ints(Discharges(r), at)
           /\ SumFunction([a \in at |-> r[a].discharged]) = Sum(Discharges(r), at)
<1>. PICK f : f = [a \in at |-> r[a].discharged]
    OBVIOUS
<1>1. IsFiniteSet(at)
    BY FS_Subset DEF Table
<1>2. \A a \in at : r[a].discharged \in Nat
    BY SnapshotIs DEF Table
<1>3. \A a \in at : f[a] = Discharges(r)[a] /\ f[a] \in Int /\ Discharges(r)[a] = r[a].discharged
    BY <1>2 DEF Discharges
<1>4. DOMAIN f = at /\ Ints(f, at) /\ Ints(Discharges(r), at)
    BY <1>3 DEF Ints
<1>5. Sum(f, at) = Sum(Discharges(r), at)
    BY <1>1, <1>3, <1>4, SumSame
<1>6. SumFunction(f) = Sum(f, at)
    BY <1>4, SumFunctionIs
<1>. QED
    BY <1>1, <1>2, <1>3, <1>4, <1>5, <1>6

LEMMA WindowIs ==
    ASSUME NEW r, Table(r), NEW from \in Int, NEW to \in Int, NEW w, w = Window(r, from, to)
    PROVE  /\ Table(w)
           /\ DOMAIN w = {a \in DOMAIN r : from <= a /\ a < to}
           /\ \A a \in DOMAIN w : w[a] = r[a]
<1>1. /\ DOMAIN w = {a \in DOMAIN r : from <= a /\ a < to}
      /\ \A a \in DOMAIN w : w[a] = r[a]
    BY DEF Window
<1>2. IsFiniteSet(DOMAIN w)
    BY <1>1, FS_Subset DEF Table
<1>3. \A a \in DOMAIN w : a \in Nat /\ w[a] \in Snapshot
    BY <1>1 DEF Table
<1>. QED
    BY <1>1, <1>2, <1>3 DEF Table

LEMMA RowsAreTable == WarehouseInv => Table(rows)
<1>. SUFFICES ASSUME WarehouseInv PROVE Table(rows)
    OBVIOUS
<1>1. CASE latest = None /\ rows = << >>
  <2>1. DOMAIN rows = {}
      BY <1>1
  <2>. QED
      BY <2>1, FS_EmptySet DEF Table
<1>2. CASE Recorded
  <2>. PICK to \in Nat : to = latest.at
      BY <1>2 DEF Recorded, Readable
  <2>1. rows \in [since..(to - 1) -> Snapshot] /\ since \in Nat
      BY <1>2 DEF Recorded, WarehouseInv
  <2>. PICK last \in Int : last = to - 1
      OBVIOUS
  <2>2. IsFiniteSet(since..last)
    <3>1. since \in Int
        BY <2>1
    <3>. QED
        BY <3>1, FS_Interval, Zenon
  <2>3. since..last \in SUBSET Nat
      BY <2>1
  <2>. QED
      BY <2>1, <2>2, <2>3 DEF Table
<1>. QED
    BY <1>1, <1>2 DEF WarehouseInv

-----------------------------------------------------------------------------
(* The groups of a grain that divides the day. *)

Factors == {1, 2, 4, 8, 12, 16, 24, 48, 96}

LEMMA MidnightIs ==
    ASSUME NEW a \in Nat
    PROVE  /\ Midnight(a) \in Nat /\ Midnight(a) <= a /\ a < Midnight(a) + 96
           /\ a - Midnight(a) = a % 96
BY DEF Midnight, SlotsPerDay

LEMMA GroupOf ==
    ASSUME NEW a \in Nat, NEW f \in Factors, NEW g, g = a - (a % 96) + ((a % 96) \div f) * f
    PROVE  /\ g \in Nat /\ g <= a /\ a < g + f
           /\ Midnight(g) = Midnight(a)
           /\ \A s \in g..(g + f - 1) : s - (s % 96) + ((s % 96) \div f) * f = g
<1>1. CASE f = 1
    BY <1>1 DEF Midnight, SlotsPerDay
<1>2. CASE f = 2
    BY <1>2 DEF Midnight, SlotsPerDay
<1>3. CASE f = 4
    BY <1>3 DEF Midnight, SlotsPerDay
<1>4. CASE f = 8
    BY <1>4 DEF Midnight, SlotsPerDay
<1>5. CASE f = 12
    BY <1>5 DEF Midnight, SlotsPerDay
<1>6. CASE f = 16
    BY <1>6 DEF Midnight, SlotsPerDay
<1>7. CASE f = 24
    BY <1>7 DEF Midnight, SlotsPerDay
<1>8. CASE f = 48
    BY <1>8 DEF Midnight, SlotsPerDay
<1>9. CASE f = 96
    BY <1>9 DEF Midnight, SlotsPerDay
<1>. QED
    BY <1>1, <1>2, <1>3, <1>4, <1>5, <1>6, <1>7, <1>8, <1>9 DEF Factors

LEMMA GroupIs ==
    ASSUME NEW r, NEW a \in Nat, NEW f \in Factors, NEW g, g = Group(r, a, f)
    PROVE  /\ g \in Nat /\ g <= a /\ a < g + f /\ Midnight(g) = Midnight(a)
           /\ \A s \in g..(g + f - 1) : Group(r, s, f) = g
<1>1. \A s \in Nat : Group(r, s, f) = s - (s % 96) + ((s % 96) \div f) * f
  <2>. SUFFICES ASSUME NEW s \in Nat PROVE Group(r, s, f) = s - (s % 96) + ((s % 96) \div f) * f
      OBVIOUS
  <2>1. s - Midnight(s) = s % 96 /\ Midnight(s) = s - (s % 96)
      BY MidnightIs DEF Midnight, SlotsPerDay
  <2>. QED
      BY <2>1, Zenon DEF Group
<1>2. g = a - (a % 96) + ((a % 96) \div f) * f
    BY <1>1, Zenon
<1>3. g \in Nat /\ g <= a /\ a < g + f /\ Midnight(g) = Midnight(a)
  <2>1. g \in Nat
      BY <1>2, GroupOf, ZenonT(60)
  <2>2. g <= a
      BY <1>2, GroupOf, Zenon
  <2>3. a < g + f
      BY <1>2, GroupOf, Zenon
  <2>4. Midnight(g) = Midnight(a)
      BY <1>2, GroupOf, ZenonT(60)
  <2>. QED
      BY <2>1, <2>2, <2>3, <2>4, Zenon
<1>4. \A s \in g..(g + f - 1) : s - (s % 96) + ((s % 96) \div f) * f = g
    BY <1>2, GroupOf, ZenonT(60)
<1>5. \A s \in g..(g + f - 1) : s \in Nat
  <2>1. f \in Nat
      BY DEF Factors
  <2>. QED
      BY <1>3, <2>1
<1>6. \A s \in g..(g + f - 1) : Group(r, s, f) = g
    BY <1>1, <1>4, <1>5, ZenonT(60)
<1>. QED
    BY <1>3, <1>6, Zenon

LEMMA FoldFactorIs == ASSUME NEW r PROVE FoldFactor(r) \in Factors
<1>. DEFINE fits == {i \in DOMAIN FOLD_FACTORS : Points(r, FOLD_FACTORS[i]) <= MAX_POINTS}
<1>1. DOMAIN FOLD_FACTORS = 1..9 /\ Len(FOLD_FACTORS) = 9
    BY DEF FOLD_FACTORS
<1>2. \A i \in 1..9 : FOLD_FACTORS[i] \in Factors
    BY DEF FOLD_FACTORS, Factors
<1>3. fits \in SUBSET (1..9)
    BY <1>1
<1>. HIDE DEF fits
<1>4. fits # {} => Min(fits) \in 1..9
  <2>1. fits \in SUBSET Nat
      BY <1>3
  <2>. QED
      BY <1>3, <2>1, LeastIn
<1>5. FoldFactor(r) = FOLD_FACTORS[IF fits = {} THEN 9 ELSE Min(fits)]
    BY <1>1 DEF FoldFactor, fits
<1>6. (IF fits = {} THEN 9 ELSE Min(fits)) \in 1..9
    BY <1>4
<1>. QED
    BY <1>2, <1>5, <1>6

-----------------------------------------------------------------------------
(* A folded table. *)

Of(r, f, g) == {a \in DOMAIN r : Group(r, a, f) = g}

LEMMA ImageIsFinite ==
    ASSUME NEW S, IsFiniteSet(S), NEW f
    PROVE  IsFiniteSet({f[x] : x \in S})
<1>. DEFINE g == [x \in S |-> f[x]]
            T == {f[x] : x \in S}
<1>1. g \in Surjection(S, T)
    BY DEF Surjection
<1>. HIDE DEF g, T
<1>2. IsFiniteSet(T)
    BY <1>1, FS_Surjection
<1>. QED
    BY <1>2 DEF T

LEMMA FoldIs ==
    ASSUME NEW r, Table(r), NEW f \in Factors
    PROVE  /\ DOMAIN Fold(r, f) = Groups(r, f)
           /\ IsFiniteSet(Groups(r, f)) /\ Groups(r, f) \in SUBSET Nat
           /\ \A g \in Groups(r, f) : Of(r, f, g) # {} /\ Fold(r, f)[g] = Folded(r, Of(r, f, g))
<1>. DEFINE group == [a \in DOMAIN r |-> Group(r, a, f)]
<1>1. \A g : {a \in DOMAIN r : group[a] = g} = Of(r, f, g)
    BY DEF Of
<1>2. Fold(r, f) = [g \in Groups(r, f) |-> Folded(r, {a \in DOMAIN r : group[a] = g})]
    BY DEF Fold
<1>. HIDE DEF group
<1>3. Fold(r, f) = [g \in Groups(r, f) |-> Folded(r, Of(r, f, g))]
    BY <1>1, <1>2
<1>4. \A g \in Groups(r, f) : Of(r, f, g) # {}
    BY DEF Groups, Of
<1>5. IsFiniteSet(Groups(r, f))
  <2>1. IsFiniteSet(DOMAIN r)
      BY DEF Table
  <2>2. Groups(r, f) = {group[a] : a \in DOMAIN r}
      BY DEF Groups, group
  <2>3. IsFiniteSet({group[a] : a \in DOMAIN r})
      BY <2>1, ImageIsFinite
  <2>. QED
      BY <2>2, <2>3
<1>6. Groups(r, f) \in SUBSET Nat
  <2>1. \A a \in DOMAIN r : a \in Nat
      BY DEF Table
  <2>2. \A a \in DOMAIN r : Group(r, a, f) \in Nat
      BY <2>1, GroupIs
  <2>. QED
      BY <2>2 DEF Groups
<1>. QED
    BY <1>3, <1>4, <1>5, <1>6

LEMMA FoldedIs ==
    ASSUME NEW r, Table(r), NEW at \in SUBSET DOMAIN r, NEW p, p = Folded(r, at)
    PROVE  /\ p.covered = Sum(Seconds(r), at) /\ p.covered \in Nat
           /\ p.discharged = Sum(Discharges(r), at) /\ p.discharged \in Nat
<1>1. p.covered = SumFunction([a \in at |-> r[a].covered])
    BY DEF Folded
<1>2. p.discharged = SumFunction([a \in at |-> r[a].discharged])
    BY DEF Folded
<1>3. p.covered = Sum(Seconds(r), at)
    BY <1>1, SecondsOver
<1>4. p.discharged = Sum(Discharges(r), at)
    BY <1>2, DischargesOver
<1>5. Sum(Seconds(r), at) \in Nat
    BY SecondsOver, SumOfNats
<1>6. Sum(Discharges(r), at) \in Nat
    BY DischargesOver, SumOfNats
<1>. QED
    BY <1>3, <1>4, <1>5, <1>6
CoveredIn(r, at) == SumFunction([a \in at |-> r[a].covered])
DischargedIn(r, at) == SumFunction([a \in at |-> r[a].discharged])

\* Folding adds up: over whole groups, what the points say is what their slots say.
LEMMA WholeGroupsAddUp ==
    ASSUME NEW r, Table(r), NEW f \in Factors, NEW D \in SUBSET DOMAIN r,
           NEW K \in SUBSET Groups(r, f), NEW points, points = Fold(r, f),
           \A a \in DOMAIN r : a \in D <=> Group(r, a, f) \in K
    PROVE  CoveredIn(points, K) = CoveredIn(r, D) /\ DischargedIn(points, K) = DischargedIn(r, D)
<1>. PICK group : group = [a \in D |-> Group(r, a, f)]
    OBVIOUS
<1>1. IsFiniteSet(K) /\ IsFiniteSet(D)
    BY FoldIs, FS_Subset DEF Table
<1>2. \A a \in D : group[a] \in K
    OBVIOUS
<1>3. \A k \in K : {a \in D : group[a] = k} = Of(r, f, k)
    BY DEF Of
<1>4. \A k \in K : points[k] = Folded(r, Of(r, f, k)) /\ Of(r, f, k) \in SUBSET DOMAIN r
    BY FoldIs DEF Of
<1>5. SumFunction([k \in K |-> points[k].covered]) = SumFunction([a \in D |-> r[a].covered])
  <2>. PICK g : g = [k \in K |-> points[k].covered]
      OBVIOUS
  <2>1. \A k \in K : g[k] = Sum(Seconds(r), {a \in D : group[a] = k})
    <3>. SUFFICES ASSUME NEW k \in K PROVE g[k] = Sum(Seconds(r), Of(r, f, k))
        BY <1>3
    <3>1. points[k].covered = Sum(Seconds(r), Of(r, f, k))
        BY <1>4, FoldedIs
    <3>. QED
        BY <3>1
  <2>2. Ints(Seconds(r), D)
      BY SecondsOver
  <2>3. Sum(g, K) = Sum(Seconds(r), D)
      BY <1>1, <1>2, <2>1, <2>2, SumOfGroups
  <2>4. SumFunction(g) = Sum(g, K)
      BY SumFunctionIs
  <2>5. SumFunction([a \in D |-> r[a].covered]) = Sum(Seconds(r), D)
      BY SecondsOver
  <2>. QED
      BY <2>3, <2>4, <2>5
<1>6. SumFunction([k \in K |-> points[k].discharged])
          = SumFunction([a \in D |-> r[a].discharged])
  <2>. PICK g : g = [k \in K |-> points[k].discharged]
      OBVIOUS
  <2>1. \A k \in K : g[k] = Sum(Discharges(r), {a \in D : group[a] = k})
    <3>. SUFFICES ASSUME NEW k \in K PROVE g[k] = Sum(Discharges(r), Of(r, f, k))
        BY <1>3
    <3>1. points[k].discharged = Sum(Discharges(r), Of(r, f, k))
        BY <1>4, FoldedIs
    <3>. QED
        BY <3>1
  <2>2. Ints(Discharges(r), D)
      BY DischargesOver
  <2>3. Sum(g, K) = Sum(Discharges(r), D)
      BY <1>1, <1>2, <2>1, <2>2, SumOfGroups
  <2>4. SumFunction(g) = Sum(g, K)
      BY SumFunctionIs
  <2>5. SumFunction([a \in D |-> r[a].discharged]) = Sum(Discharges(r), D)
      BY DischargesOver
  <2>. QED
      BY <2>3, <2>4, <2>5
<1>. QED
    BY <1>5, <1>6 DEF CoveredIn, DischargedIn

\* A point holds the slots from its own start to the next boundary, and all of them.
LEMMA PointHoldsItsSlots ==
    ASSUME NEW r, Table(r), NEW f \in Factors, NEW p \in Groups(r, f)
    PROVE  /\ Fold(r, f)[p].covered <= f * SLOT_SECONDS
           /\ \A s \in (DOMAIN r) \intersect p..(p + f - 1) : Fold(r, f)[p].covered >= r[s].covered
<1>. PICK at \in SUBSET DOMAIN r : at = Of(r, f, p)
    BY DEF Of
<1>0. p \in Nat /\ f \in Nat /\ at # {}
    BY FoldIs DEF Factors
<1>1. Fold(r, f)[p].covered = Sum(Seconds(r), at)
    BY FoldIs, FoldedIs
<1>2. \A a \in DOMAIN r : a \in Nat
    BY DEF Table
<1>3. Cardinality(at) \in Nat /\ Cardinality(at) <= f
  <2>1. \A a \in at : a \in p..(p + f - 1)
    <3>. SUFFICES ASSUME NEW a \in at PROVE a \in p..(p + f - 1)
        OBVIOUS
    <3>1. a \in Nat /\ p = Group(r, a, f)
        BY <1>2 DEF Of
    <3>2. p <= a /\ a < p + f
        BY <3>1, GroupIs
    <3>. QED
        BY <1>0, <3>1, <3>2
  <2>2. IsFiniteSet(p..(p + f - 1)) /\ Cardinality(p..(p + f - 1)) <= f
    <3>. PICK q \in Int : q = p + f - 1
        BY <1>0
    <3>1. IsFiniteSet(p..q) /\ Cardinality(p..q) = IF p > q THEN 0 ELSE q - p + 1
        BY <1>0, FS_Interval
    <3>. QED
        BY <1>0, <3>1
  <2>3. Cardinality(at) <= Cardinality(p..(p + f - 1))
      BY <2>1, <2>2, FS_Subset
  <2>4. IsFiniteSet(at)
      BY <2>1, <2>2, FS_Subset
  <2>. PICK m \in Nat, n \in Nat : m = Cardinality(at) /\ n = Cardinality(p..(p + f - 1))
      BY <2>2, <2>4, FS_CardinalityType
  <2>. QED
      BY <1>0, <2>2, <2>3
<1>4. Sum(Seconds(r), at) <= f * SLOT_SECONDS
  <2>1. SLOT_SECONDS \in Nat
      BY DEF SLOT_SECONDS
  <2>2. \A a \in at : Seconds(r)[a] \in Int /\ Seconds(r)[a] <= SLOT_SECONDS
    <3>1. \A a \in at : Seconds(r)[a] \in Nat /\ Seconds(r)[a] <= SLOT_SECONDS
        BY SecondsOver
    <3>. QED
        BY <3>1
  <2>3. Sum(Seconds(r), at) <= Cardinality(at) * SLOT_SECONDS
      BY <2>1, <2>2, SecondsOver, SumAtMost
  <2>. PICK n \in Nat, t \in Int : n = Cardinality(at) /\ t = Sum(Seconds(r), at)
      BY <1>3, SecondsOver, SumIsInt
  <2>4. t <= n * SLOT_SECONDS /\ n <= f
      BY <1>3, <2>3
  <2>5. n * SLOT_SECONDS <= f * SLOT_SECONDS
      BY <1>0, <2>4 DEF SLOT_SECONDS
  <2>6. t <= f * SLOT_SECONDS
      BY <1>0, <2>4, <2>5 DEF SLOT_SECONDS
  <2>. QED
      BY <2>6
<1>5. ASSUME NEW s \in (DOMAIN r) \intersect p..(p + f - 1)
      PROVE  Sum(Seconds(r), at) >= r[s].covered
  <2>1. s \in at
    <3>1. PICK a \in DOMAIN r : p = Group(r, a, f)
        BY DEF Groups
    <3>2. Group(r, s, f) = p
        BY <1>2, <3>1, GroupIs
    <3>. QED
        BY <3>2 DEF Of
  <2>2. Seconds(r)[s] = r[s].covered
      BY DEF Seconds
  <2>3. Sum(Seconds(r), at) \in Nat /\ Seconds(r)[s] <= Sum(Seconds(r), at)
      BY <2>1, SecondsOver, SumOfNats
  <2>4. Seconds(r)[s] \in Nat
      BY <2>1, SecondsOver
  <2>. QED
      BY <2>2, <2>3, <2>4
<1>. QED
    BY <1>1, <1>4, <1>5

LEMMA NatsAreInts == ASSUME NEW n \in Nat PROVE n \in Int
OBVIOUS

LEMMA TimesAndBack == ASSUME NEW a \in Nat, NEW b \in Nat \ {0} PROVE (a * b) \div b = a
OBVIOUS

\* The external input of a point, weighted by the seconds of its slots, is theirs.
LEMMA ExternalOfPoint ==
    ASSUME NEW r, Table(r), NEW at \in SUBSET DOMAIN r, NEW p, p = Folded(r, at)
    PROVE  Ints(Externals(r), at) /\ Plugged(p) = Sum(Externals(r), at) /\ Plugged(p) \in Nat
<1>. PICK present \in SUBSET at, absent \in SUBSET at :
         /\ present = {a \in at : r[a].external # None} /\ absent = {a \in at : r[a].external = None}
    OBVIOUS
<1>0. /\ present \union absent = at /\ present \intersect absent = {}
      /\ IsFiniteSet(at) /\ IsFiniteSet(present) /\ IsFiniteSet(absent)
    BY FS_Subset DEF Table
<1>1. \A a \in at : /\ r[a].covered \in Nat /\ Seconds(r)[a] = r[a].covered
                    /\ IF r[a].external = None THEN r[a].covered = 0 ELSE r[a].external \in Nat
    BY SnapshotIs DEF Table, Seconds
<1>2. \A a \in at : Externals(r)[a] = IF r[a].external = None THEN 0 ELSE r[a].covered * r[a].external
    BY DEF Externals
<1>3. \A a \in at : Externals(r)[a] \in Nat
  <2>. SUFFICES ASSUME NEW a \in at PROVE Externals(r)[a] \in Nat
      OBVIOUS
  <2>1. CASE r[a].external = None
      BY <1>2, <2>1
  <2>2. CASE r[a].external # None
    <3>1. r[a].covered \in Nat /\ r[a].external \in Nat
        BY <1>1, <2>2
    <3>2. r[a].covered * r[a].external \in Nat
        BY <3>1, NaturalProduct, Zenon
    <3>. QED
        BY <1>2, <2>2, <3>2
  <2>. QED
      BY <2>1, <2>2
<1>4. Ints(Externals(r), at) /\ Ints(Externals(r), present) /\ Ints(Seconds(r), at)
    BY <1>1, <1>3 DEF Ints
<1>5. Sum(Externals(r), at) = Sum(Externals(r), present) /\ Sum(Seconds(r), at) = Sum(Seconds(r), present)
  <2>1. Sum(Externals(r), absent) = 0
    <3>1. \A a \in absent : Externals(r)[a] = 0
        BY <1>2
    <3>. QED
        BY <1>0, <3>1, SumOfZeros
  <2>2. Sum(Seconds(r), absent) = 0
    <3>1. \A a \in absent : Seconds(r)[a] = 0
        BY <1>1
    <3>. QED
        BY <1>0, <3>1, SumOfZeros
  <2>3. /\ Sum(Externals(r), at) = Sum(Externals(r), present) + Sum(Externals(r), absent)
        /\ Sum(Seconds(r), at) = Sum(Seconds(r), present) + Sum(Seconds(r), absent)
      BY <1>0, <1>4, SumOfParts
  <2>4. Sum(Externals(r), present) \in Int /\ Sum(Seconds(r), present) \in Int
    <3>1. Ints(Seconds(r), present)
        BY <1>4 DEF Ints
    <3>. QED
        BY <1>0, <1>4, <3>1, SumIsInt
  <2>. QED
      BY <2>1, <2>2, <2>3, <2>4
<1>. PICK total \in Nat, weight \in Nat :
         total = Sum(Externals(r), present) /\ weight = Sum(Seconds(r), present)
  <2>1. \A a \in present : Externals(r)[a] \in Nat /\ Seconds(r)[a] \in Nat
      BY <1>1, <1>3
  <2>. QED
      BY <1>0, <2>1, SumOfNats
<1>6. SumFunction([a \in present |-> r[a].covered]) = weight
  <2>1. present \in SUBSET DOMAIN r
      OBVIOUS
  <2>. QED
      BY <2>1, SecondsOver
<1>. PICK value : value = [a \in at |-> r[a].external]
    OBVIOUS
<1>7. SumFunction([a \in present |-> value[a] * r[a].covered]) = total
  <2>0. \A g : DOMAIN g = present /\ (\A a \in present : g[a] = Externals(r)[a])
                  => SumFunction(g) = Sum(Externals(r), present)
      BY <1>0, <1>4, SumOver
  <2>. PICK g : g = [a \in present |-> value[a] * r[a].covered]
      OBVIOUS
  <2>1. \A a \in present : g[a] = Externals(r)[a]
    <3>. SUFFICES ASSUME NEW a \in present PROVE g[a] = Externals(r)[a]
        OBVIOUS
    <3>. PICK x \in Nat, y \in Nat : x = r[a].external /\ y = r[a].covered
        BY <1>1
    <3>1. x * y = y * x
        OBVIOUS
    <3>. QED
        BY <1>2, <3>1
  <2>2. DOMAIN g = present
      OBVIOUS
  <2>3. SumFunction(g) = Sum(Externals(r), present)
      BY <2>0, <2>1, <2>2, Zenon
  <2>. QED
      BY <2>3
<1>8. p.external = IF weight = 0 THEN None ELSE [total |-> total, weight |-> weight]
  <2>1. p.external = Weighted(r, value, at)
      BY DEF Folded
  <2>2. {a \in at : value[a] # None} = present
      OBVIOUS
  <2>3. Weighted(r, value, at)
            = IF SumFunction([a \in present |-> r[a].covered]) = 0 THEN None
              ELSE [total |-> SumFunction([a \in present |-> value[a] * r[a].covered]),
                    weight |-> SumFunction([a \in present |-> r[a].covered])]
      BY <2>2 DEF Weighted
  <2>. QED
      BY <1>6, <1>7, <2>1, <2>3
<1>9. p.covered = weight
    BY <1>5, FoldedIs
<1>10. CASE weight = 0
  <2>1. Plugged(p) = 0
      BY <1>8, <1>10 DEF Plugged
  <2>2. \A a \in present : Externals(r)[a] = 0
    <3>. SUFFICES ASSUME NEW a \in present PROVE Externals(r)[a] = 0
        OBVIOUS
    <3>1. Seconds(r)[a] <= weight
      <4>1. \A b \in present : Seconds(r)[b] \in Nat
          BY <1>1
      <4>. QED
          BY <1>0, <4>1, SumOfNats
    <3>2. r[a].covered = 0 /\ r[a].external \in Nat
        BY <1>1, <1>10, <3>1
    <3>. QED
        BY <1>2, <3>2
  <2>3. Sum(Externals(r), present) = 0
      BY <1>0, <2>2, SumOfZeros
  <2>. QED
      BY <1>4, <1>5, <2>1, <2>3
<1>11. CASE weight # 0
  <2>1. p.external = [total |-> total, weight |-> weight]
      BY <1>8, <1>11
  <2>2. p.external # None
      BY <2>1, NoneAssumption
  <2>3. Plugged(p) = (total * weight) \div weight
      BY <1>9, <2>1, <2>2 DEF Plugged
  <2>4. (total * weight) \div weight = total
      BY <1>11, TimesAndBack
  <2>. QED
      BY <1>4, <1>5, <2>3, <2>4
<1>. QED
    BY <1>10, <1>11

\* The seconds on external power add up over the points, though they are counted only
\* where there are some.
LEMMA ExternalAddsUp ==
    ASSUME NEW r, Table(r), NEW f \in Factors, NEW points, points = Fold(r, f),
           NEW plugged, plugged = {p \in DOMAIN points : Plugged(points[p]) > 0}
    PROVE  SumFunction([p \in plugged |-> Plugged(points[p])])
               = SumFunction([a \in DOMAIN r |-> IF r[a].external = None THEN 0
                                                 ELSE r[a].covered * r[a].external])
<1>. PICK K, D, g, group : /\ K = DOMAIN points /\ D = DOMAIN r
                           /\ g = [p \in K |-> Plugged(points[p])]
                           /\ group = [a \in D |-> Group(r, a, f)]
    OBVIOUS
<1>1. IsFiniteSet(K) /\ IsFiniteSet(D) /\ K = Groups(r, f)
    BY FoldIs DEF Table
<1>2. \A p \in K : g[p] \in Nat /\ g[p] = Sum(Externals(r), {a \in D : group[a] = p})
  <2>. SUFFICES ASSUME NEW p \in K
                PROVE  g[p] \in Nat /\ g[p] = Sum(Externals(r), {a \in D : group[a] = p})
      OBVIOUS
  <2>1. {a \in D : group[a] = p} = Of(r, f, p) /\ Of(r, f, p) \in SUBSET DOMAIN r
      BY DEF Of
  <2>2. points[p] = Folded(r, Of(r, f, p))
      BY <1>1, FoldIs
  <2>. QED
      BY <2>1, <2>2, ExternalOfPoint
<1>3. Ints(Externals(r), D)
    BY ExternalOfPoint
<1>4. \A a \in D : group[a] \in K
    BY <1>1 DEF Groups
<1>5. Sum(g, K) = Sum(Externals(r), D)
    BY <1>1, <1>2, <1>3, <1>4, SumOfGroups
<1>6. Sum(g, K) = Sum(g, plugged)
  <2>. PICK rest \in SUBSET K : rest = {p \in K : ~(Plugged(points[p]) > 0)}
      OBVIOUS
  <2>1. K = plugged \union rest /\ plugged \intersect rest = {}
      BY Zenon
  <2>5. Ints(g, K)
      BY <1>2, Zenon, NatsAreInts DEF Ints
  <2>2. Sum(g, K) = Sum(g, plugged) + Sum(g, rest)
      BY <1>1, <2>1, <2>5, SumOfParts
  <2>3. Sum(g, rest) = 0
    <3>1. \A p \in rest : g[p] = 0
      <4>. SUFFICES ASSUME NEW p \in rest PROVE g[p] = 0
          OBVIOUS
      <4>. PICK n \in Nat : n = g[p]
          BY <1>2
      <4>1. n = Plugged(points[p]) /\ ~(Plugged(points[p]) > 0)
          BY Zenon
      <4>2. ~(n > 0)
          BY <4>1, Zenon
      <4>. QED
          BY <4>2
    <3>2. IsFiniteSet(rest)
        BY <1>1, FS_Subset
    <3>. QED
        BY <3>1, <3>2, SumOfZeros
  <2>4. Sum(g, plugged) \in Int
    <3>1. IsFiniteSet(plugged) /\ Ints(g, plugged)
        BY <1>1, <2>1, <2>5, FS_Subset, Zenon DEF Ints
    <3>. QED
        BY <3>1, SumIsInt
  <2>. QED
      BY <2>2, <2>3, <2>4
<1>7. SumFunction([p \in plugged |-> Plugged(points[p])]) = Sum(g, plugged)
  <2>. PICK h : h = [p \in plugged |-> Plugged(points[p])]
      OBVIOUS
  <2>1. DOMAIN h = plugged /\ plugged \in SUBSET K /\ \A p \in plugged : h[p] = g[p]
      OBVIOUS
  <2>2. IsFiniteSet(plugged) /\ Ints(g, plugged)
    <3>1. \A p \in plugged : g[p] \in Int
        BY <1>2, <2>1, NatsAreInts, Zenon
    <3>2. IsFiniteSet(plugged)
        BY <1>1, <2>1, FS_Subset, Zenon
    <3>. QED
        BY <3>1, <3>2, Zenon DEF Ints
  <2>3. SumFunction(h) = Sum(g, plugged)
      BY <2>1, <2>2, SumOver
  <2>. QED
      BY <2>3
<1>8. SumFunction([a \in DOMAIN r |-> IF r[a].external = None THEN 0
                                      ELSE r[a].covered * r[a].external]) = Sum(Externals(r), D)
    BY SumFunctionIs DEF Externals
<1>. QED
    BY <1>5, <1>6, <1>7, <1>8

\* The hours nothing was heard in, between two that were, are those its slots tell of.
LEMMA SilentHoursAre ==
    ASSUME NEW r, Table(r), NEW hours, hours = Fold(r, BY_HOUR)
    PROVE  \A h : h \in SilentHours(r) <=>
               /\ h \in DOMAIN hours /\ ~(hours[h].covered > 0)
               /\ \E a \in DOMAIN hours : hours[a].covered > 0 /\ a < h
               /\ \E b \in DOMAIN hours : hours[b].covered > 0 /\ h < b
<1>. PICK heard : heard = {h \in DOMAIN hours : hours[h].covered > 0}
    OBVIOUS
<1>. PICK slots \in SUBSET DOMAIN r : slots = {s \in DOMAIN r : r[s].covered > 0}
    OBVIOUS
<1>0. BY_HOUR = 4 /\ BY_HOUR \in Factors
    BY DEF BY_HOUR, Factors
<1>1. DOMAIN hours = Groups(r, BY_HOUR) /\ Groups(r, BY_HOUR) \in SUBSET Nat
    BY <1>0, FoldIs
<1>2. \A s \in DOMAIN r : s \in Nat /\ r[s].covered \in Nat
    BY SnapshotIs DEF Table
<1>3. ASSUME NEW s \in Nat
      PROVE  /\ Group(r, s, BY_HOUR) \in Nat
             /\ Group(r, s, BY_HOUR) <= s /\ s < Group(r, s, BY_HOUR) + 4
             /\ \A x \in Groups(r, BY_HOUR) :
                    x < Group(r, s, BY_HOUR) \/ x = Group(r, s, BY_HOUR) \/ x > s
  <2>. PICK g : g = Group(r, s, BY_HOUR)
      OBVIOUS
  <2>1. /\ g \in Nat /\ g <= s /\ s < g + BY_HOUR
        /\ \A x \in g..(g + BY_HOUR - 1) : Group(r, x, BY_HOUR) = g
      BY <1>0, GroupIs
  <2>2. ASSUME NEW x \in Groups(r, BY_HOUR), ~(x < g), ~(x > s)
        PROVE  x = g
    <3>1. PICK a \in DOMAIN r : x = Group(r, a, BY_HOUR)
        BY DEF Groups
    <3>2. x \in Nat /\ \A y \in x..(x + BY_HOUR - 1) : Group(r, y, BY_HOUR) = x
        BY <1>0, <1>2, <3>1, GroupIs
    <3>3. x \in x..(x + BY_HOUR - 1) /\ x \in g..(g + BY_HOUR - 1)
        BY <1>0, <2>1, <2>2, <3>2
    <3>. QED
        BY <2>1, <3>2, <3>3
  <2>. QED
      BY <1>0, <2>1, <2>2
<1>4. \A h \in DOMAIN hours : h \in heard <=> \E s \in slots : Group(r, s, BY_HOUR) = h
  <2>. SUFFICES ASSUME NEW h \in DOMAIN hours
                PROVE  h \in heard <=> \E s \in slots : Group(r, s, BY_HOUR) = h
      OBVIOUS
  <2>. PICK at \in SUBSET DOMAIN r : at = Of(r, BY_HOUR, h)
      BY DEF Of
  <2>1. hours[h].covered = Sum(Seconds(r), at)
      BY <1>0, <1>1, FoldIs, FoldedIs
  <2>2. \A s \in at : Seconds(r)[s] = r[s].covered /\ Seconds(r)[s] \in Nat
      BY <1>2 DEF Seconds
  <2>3. IsFiniteSet(at)
      BY SecondsOver
  <2>4. Sum(Seconds(r), at) \in Nat /\ \A s \in at : Seconds(r)[s] <= Sum(Seconds(r), at)
      BY <2>2, <2>3, SumOfNats
  <2>5. ASSUME NEW s \in slots, Group(r, s, BY_HOUR) = h
        PROVE  h \in heard
    <3>1. s \in at /\ r[s].covered > 0
        BY <2>5 DEF Of
    <3>2. Sum(Seconds(r), at) > 0
        BY <2>2, <2>4, <3>1
    <3>. QED
        BY <2>1, <3>2
  <2>6. ASSUME \A s \in slots : Group(r, s, BY_HOUR) # h
        PROVE  h \notin heard
    <3>1. \A s \in at : Seconds(r)[s] = 0
      <4>. SUFFICES ASSUME NEW s \in at PROVE Seconds(r)[s] = 0
          OBVIOUS
      <4>1. s \in DOMAIN r /\ s \notin slots
          BY <2>6 DEF Of
      <4>. QED
          BY <1>2, <2>2, <4>1
    <3>2. Sum(Seconds(r), at) = 0
        BY <2>3, <3>1, SumOfZeros
    <3>. QED
        BY <2>1, <3>2
  <2>. QED
      BY <2>5, <2>6
<1>5. \A s \in slots : s \in Nat /\ Group(r, s, BY_HOUR) \in heard
  <2>1. \A s \in slots : Group(r, s, BY_HOUR) \in DOMAIN hours
      BY <1>1 DEF Groups
  <2>. QED
      BY <1>2, <1>4, <2>1
<1>6. \A h \in DOMAIN hours : h \in Nat /\ (h \notin heard <=> \A s \in slots : Group(r, s, BY_HOUR) # h)
    BY <1>1, <1>4
<1>7. ASSUME NEW h \in DOMAIN hours, h \notin heard
      PROVE  (\E a \in heard : a < h) <=> (\E s \in slots : s < h)
  <2>1. ASSUME NEW a \in heard, a < h
        PROVE  \E s \in slots : s < h
    <3>1. PICK s \in slots : Group(r, s, BY_HOUR) = a
        BY <1>4
    <3>2. h < a \/ h = a \/ h > s
        BY <1>1, <1>3, <1>5, <3>1
    <3>3. a \in Nat /\ h \in Nat /\ s \in Nat
        BY <1>5, <1>6
    <3>. QED
        BY <2>1, <3>2, <3>3
  <2>2. ASSUME NEW s \in slots, s < h
        PROVE  \E a \in heard : a < h
    <3>. PICK a \in heard : a = Group(r, s, BY_HOUR)
        BY <1>5
    <3>1. a \in Nat /\ a <= s /\ s \in Nat /\ h \in Nat
        BY <1>3, <1>5, <1>6
    <3>2. a < h
        BY <2>2, <3>1
    <3>. QED
        BY <3>2
  <2>. QED
      BY <2>1, <2>2
<1>8. ASSUME NEW h \in DOMAIN hours, h \notin heard
      PROVE  (\E b \in heard : h < b) <=> (\E s \in slots : h < s)
  <2>1. ASSUME NEW b \in heard, h < b
        PROVE  \E s \in slots : h < s
    <3>1. PICK s \in slots : Group(r, s, BY_HOUR) = b
        BY <1>4
    <3>2. b \in Nat /\ b <= s /\ s \in Nat /\ h \in Nat
        BY <1>3, <1>5, <1>6, <3>1
    <3>3. h < s
        BY <2>1, <3>2
    <3>. QED
        BY <3>3
  <2>2. ASSUME NEW s \in slots, h < s
        PROVE  \E b \in heard : h < b
    <3>. PICK b \in heard : b = Group(r, s, BY_HOUR)
        BY <1>5
    <3>1. h < b \/ h = b \/ h > s
        BY <1>1, <1>3, <1>5
    <3>2. h \in Nat /\ s \in Nat /\ h # b
        BY <1>5, <1>6, <1>8
    <3>3. h < b
        BY <2>2, <3>1, <3>2
    <3>. QED
        BY <3>3
  <2>. QED
      BY <2>1, <2>2
<1>. SUFFICES ASSUME NEW h
              PROVE  h \in SilentHours(r) <=>
                         /\ h \in DOMAIN hours /\ h \notin heard
                         /\ (\E a \in heard : a < h) /\ (\E b \in heard : h < b)
    BY Zenon
<1>9. h \in SilentHours(r) <=> /\ h \in DOMAIN hours
                               /\ \A s \in slots : Group(r, s, BY_HOUR) # h
                               /\ (\E a \in slots : a < h) /\ (\E b \in slots : h < b)
  <2>1. SilentHours(r) = {x \in Groups(r, BY_HOUR) :
                              /\ \A s \in slots : Group(r, s, BY_HOUR) # x
                              /\ \E a, b \in slots : a < x /\ x < b}
      BY DEF SilentHours
  <2>. QED
      BY <1>1, <2>1, Zenon
<1>10. CASE h \in DOMAIN hours /\ h \notin heard
  <2>1. \A s \in slots : Group(r, s, BY_HOUR) # h
      BY <1>6, <1>10, Zenon
  <2>2. (\E a \in heard : a < h) <=> (\E s \in slots : s < h)
      BY <1>7, <1>10, Zenon
  <2>3. (\E b \in heard : h < b) <=> (\E s \in slots : h < s)
      BY <1>8, <1>10, Zenon
  <2>. QED
      BY <1>9, <1>10, <2>1, <2>2, <2>3, Zenon
<1>11. CASE h \notin DOMAIN hours \/ h \in heard
    BY <1>6, <1>9, <1>11, Zenon
<1>. QED
    BY <1>10, <1>11, Zenon

LEMMA MidnightsAreInts == ASSUME NEW a \in Int PROVE Midnight(a) \in Int
BY DEF Midnight, SlotsPerDay

LEMMA WindowsAreTables ==
    ASSUME WarehouseInv
    PROVE  /\ Table(Window(rows, now - WINDOW, now))
           /\ Table(Window(rows, WeekEnd(now) - WEEK, WeekEnd(now)))
<1>1. Table(rows) /\ now \in Int
    BY RowsAreTable DEF WarehouseInv
<1>2. now - WINDOW \in Int
    BY <1>1 DEF WINDOW, SlotsPerDay
<1>3. WeekEnd(now) \in Int
    BY <1>1, MidnightsAreInts DEF WeekEnd
<1>4. WeekEnd(now) - WEEK \in Int
    BY <1>3 DEF WEEK, SlotsPerDay
<1>. QED
    BY <1>1, <1>2, <1>3, <1>4, WindowIs

LEMMA NothingLost ==
    ASSUME WarehouseInv
    PROVE  FoldingLosesNothing
<1>. PICK slots, factor, points, week :
         /\ slots = Window(rows, now - WINDOW, now) /\ factor = FoldFactor(slots)
         /\ points = Fold(slots, factor)
         /\ week = Window(rows, WeekEnd(now) - WEEK, WeekEnd(now))
    OBVIOUS
<1>0. Table(slots) /\ Table(week) /\ factor \in Factors /\ BY_HOUR \in Factors
    BY WindowsAreTables, FoldFactorIs DEF BY_HOUR, Factors
<1>1. DOMAIN points = Groups(slots, factor)
    BY <1>0, FoldIs
<1>2. \A p \in DOMAIN points :
          /\ points[p].covered <= factor * SLOT_SECONDS
          /\ \A s \in (DOMAIN slots) \intersect p..(p + factor - 1) :
                 points[p].covered >= slots[s].covered
    BY <1>0, <1>1, PointHoldsItsSlots
<1>3. SumFunction([p \in DOMAIN points |-> points[p].covered])
          = SumFunction([s \in DOMAIN slots |-> slots[s].covered])
  <2>. PICK D \in SUBSET DOMAIN slots, K \in SUBSET Groups(slots, factor) :
           D = DOMAIN slots /\ K = DOMAIN points
      BY <1>1
  <2>1. \A a \in DOMAIN slots : a \in D <=> Group(slots, a, factor) \in K
      BY <1>1 DEF Groups
  <2>2. CoveredIn(points, K) = CoveredIn(slots, D)
      BY <1>0, <2>1, WholeGroupsAddUp
  <2>. QED
      BY <2>2 DEF CoveredIn
<1>. PICK hours : hours = Fold(week, BY_HOUR)
    OBVIOUS
<1>4. hours = Hours(rows, now) /\ DOMAIN hours = Groups(week, BY_HOUR)
    BY <1>0, FoldIs DEF Hours
<1>5. WeeklySummary(rows, now).discharged = SumFunction([s \in DOMAIN week |-> week[s].discharged])
  <2>1. WeeklySummary(rows, now).discharged
            = SumFunction([h \in DOMAIN hours |-> hours[h].discharged])
      BY <1>4 DEF WeeklySummary
  <2>. PICK D \in SUBSET DOMAIN week, K \in SUBSET Groups(week, BY_HOUR) :
           D = DOMAIN week /\ K = DOMAIN hours
      BY <1>4
  <2>2. \A a \in DOMAIN week : a \in D <=> Group(week, a, BY_HOUR) \in K
      BY <1>4 DEF Groups
  <2>3. DischargedIn(hours, K) = DischargedIn(week, D)
      BY <1>0, <2>2, WholeGroupsAddUp
  <2>. QED
      BY <2>1, <2>3 DEF DischargedIn
<1>6. ASSUME NEW d \in Days(now)
      PROVE  WeeklySummary(rows, now).daily[d].discharged
                 = SumFunction([s \in {a \in DOMAIN week : Midnight(a) = d} |-> week[s].discharged])
  <2>. PICK K \in SUBSET Groups(week, BY_HOUR), D \in SUBSET DOMAIN week :
           K = {h \in DOMAIN hours : Midnight(h) = d} /\ D = {a \in DOMAIN week : Midnight(a) = d}
      BY <1>4
  <2>1. WeeklySummary(rows, now).daily[d].discharged
            = SumFunction([h \in K |-> hours[h].discharged])
    <3>1. WeeklySummary(rows, now).daily[d] = DailyEnergy(hours, d)
        BY <1>4 DEF WeeklySummary
    <3>. QED
        BY <3>1 DEF DailyEnergy
  <2>2. \A a \in DOMAIN week : a \in D <=> Group(week, a, BY_HOUR) \in K
    <3>. SUFFICES ASSUME NEW a \in DOMAIN week PROVE a \in D <=> Group(week, a, BY_HOUR) \in K
        OBVIOUS
    <3>1. Group(week, a, BY_HOUR) \in DOMAIN hours
        BY <1>4 DEF Groups
    <3>2. Midnight(Group(week, a, BY_HOUR)) = Midnight(a)
        BY <1>0, GroupIs DEF Table
    <3>. QED
        BY <3>1, <3>2
  <2>3. DischargedIn(hours, K) = DischargedIn(week, D)
      BY <1>0, <2>2, WholeGroupsAddUp
  <2>. QED
      BY <2>1, <2>3 DEF DischargedIn
<1>7. \A p \in DOMAIN points : \A s \in (DOMAIN slots) \intersect p..(p + factor - 1) :
          slots[s].covered > 0 => points[p].covered >= slots[s].covered
    BY <1>2
<1>8. WeeklySummary(rows, now).externalSeconds
          = SumFunction([s \in DOMAIN week |-> IF week[s].external = None THEN 0
                                               ELSE week[s].covered * week[s].external])
  <2>. PICK plugged : plugged = {h \in DOMAIN hours : Plugged(hours[h]) > 0}
      OBVIOUS
  <2>1. WeeklySummary(rows, now).externalSeconds
            = SumFunction([h \in plugged |-> Plugged(hours[h])])
      BY <1>4 DEF WeeklySummary
  <2>. QED
      BY <1>0, <2>1, ExternalAddsUp
<1>9. WeeklySummary(rows, now).gaps = Cardinality(SilentHours(week))
  <2>. PICK heard : heard = {h \in DOMAIN hours : hours[h].covered > 0}
      OBVIOUS
  <2>. PICK gaps : gaps = {h \in DOMAIN hours \ heard : \E a, b \in heard : a < h /\ h < b}
      OBVIOUS
  <2>1. WeeklySummary(rows, now).gaps = Cardinality(gaps)
      BY <1>4 DEF WeeklySummary
  <2>2. \A h : h \in gaps <=> h \in SilentHours(week)
    <3>1. \A h : h \in gaps <=>
              /\ h \in DOMAIN hours /\ ~(hours[h].covered > 0)
              /\ \E a \in DOMAIN hours : hours[a].covered > 0 /\ a < h
              /\ \E b \in DOMAIN hours : hours[b].covered > 0 /\ h < b
        BY Zenon
    <3>2. Table(week)
        BY <1>0
    <3>3. \A h : h \in SilentHours(week) <=>
              /\ h \in DOMAIN hours /\ ~(hours[h].covered > 0)
              /\ \E a \in DOMAIN hours : hours[a].covered > 0 /\ a < h
              /\ \E b \in DOMAIN hours : hours[b].covered > 0 /\ h < b
        BY <3>2, SilentHoursAre, ZenonT(40)
    <3>. QED
        BY <3>1, <3>3, Zenon
  <2>3. gaps = SilentHours(week)
      BY <2>2
  <2>. QED
      BY <2>1, <2>3
<1>. QED
    BY <1>2, <1>3, <1>5, <1>6, <1>7, <1>8, <1>9 DEF FoldingLosesNothing

\* Whatever the recording, at the grain the chart chose and at the hour of the week, a
\* point holds the slots its label promises, no second, no watt hour and no second on
\* external power is lost or counted twice, and the days and the gaps of the week are those
\* of its quarter hours (folding.fold, weekly.summarize).
THEOREM FoldingLosesNothingCorrect == Spec => []FoldingLosesNothing
<1>1. WarehouseInv => FoldingLosesNothing
    BY NothingLost, SMTT(30)
<1>. QED
    BY <1>1, WarehouseHolds, PTL

-----------------------------------------------------------------------------
(* What Slack is asked to draw. *)

\* A point that was heard at all has its readings.
LEMMA PointHasReadings ==
    ASSUME NEW r, Table(r), NEW at \in SUBSET DOMAIN r, NEW p, p = Folded(r, at), p.covered > 0
    PROVE  p.start \in 0..100 /\ p.end \in 0..100
<1>. PICK observed \in SUBSET at : observed = {a \in at : r[a].covered > 0}
    OBVIOUS
<1>1. observed # {}
  <2>. SUFFICES ASSUME observed = {} PROVE FALSE
      OBVIOUS
  <2>1. \A a \in at : r[a].covered \in Nat
      BY SnapshotIs DEF Table
  <2>2. \A a \in at : Seconds(r)[a] = 0
    <3>1. \A a \in at : ~(r[a].covered > 0)
        OBVIOUS
    <3>2. \A a \in at : r[a].covered = 0
        BY <2>1, <3>1
    <3>. QED
        BY <3>2 DEF Seconds
  <2>3. Sum(Seconds(r), at) = 0
      BY <2>2, SecondsOver, SumOfZeros
  <2>. QED
      BY <2>3, FoldedIs
<1>2. observed \in SUBSET Nat /\ IsFiniteSet(observed)
    BY FS_Subset DEF Table
<1>3. Min(observed) \in observed /\ Max(observed) \in observed
  <2>1. observed \in SUBSET Int
      BY <1>2
  <2>. QED
      BY <1>1, <1>2, <2>1, LeastIn, GreatestIn
<1>4. \A a \in observed : r[a].start \in 0..100 /\ r[a].end \in 0..100
  <2>1. \A a \in observed : r[a] \in Snapshot /\ r[a].covered > 0
      BY DEF Table
  <2>. QED
      BY <2>1, SnapshotIs
<1>5. p.start = r[Min(observed)].start /\ p.end = r[Max(observed)].end
    BY <1>1 DEF Folded
<1>. QED
    BY <1>3, <1>4, <1>5

DaysBefore(M) == {M, M - 96, M - 192, M - 288, M - 384, M - 480, M - 576, M - 672}

LEMMA AtMostEight ==
    ASSUME NEW M \in Int, NEW S \in SUBSET DaysBefore(M)
    PROVE  IsFiniteSet(S) /\ Cardinality(S) <= MAX_POINTS
<1>. DEFINE f == [k \in 0..7 |-> M - 96 * k]
            T == {f[k] : k \in 0..7}
<1>1. IsFiniteSet(0..7) /\ Cardinality(0..7) = 8
  <2>. PICK a \in Int, b \in Int : a = 0 /\ b = 7
      OBVIOUS
  <2>1. IsFiniteSet(a..b) /\ Cardinality(a..b) = IF a > b THEN 0 ELSE b - a + 1
      BY FS_Interval
  <2>. QED
      BY <2>1
<1>2. f \in Surjection(0..7, T)
    BY DEF Surjection
<1>. HIDE DEF f, T
<1>3. IsFiniteSet(T) /\ Cardinality(T) <= 8
    BY <1>1, <1>2, FS_Surjection
<1>4. S \in SUBSET T
  <2>1. /\ f[0] = M /\ f[1] = M - 96 /\ f[2] = M - 192 /\ f[3] = M - 288
        /\ f[4] = M - 384 /\ f[5] = M - 480 /\ f[6] = M - 576 /\ f[7] = M - 672
      BY DEF f
  <2>2. \A k \in {0, 1, 2, 3, 4, 5, 6, 7} : f[k] \in T
      BY DEF T
  <2>3. \A x \in S : x \in {f[0], f[1], f[2], f[3], f[4], f[5], f[6], f[7]}
      BY <2>1 DEF DaysBefore
  <2>. QED
      BY <2>2, <2>3
<1>5. IsFiniteSet(S) /\ Cardinality(S) <= Cardinality(T)
    BY <1>3, <1>4, FS_Subset
<1>6. Cardinality(S) \in Nat /\ Cardinality(T) \in Nat
    BY <1>3, <1>5, FS_CardinalityType
<1>. QED
    BY <1>3, <1>5, <1>6 DEF MAX_POINTS

LEMMA FoldFactorFits ==
    ASSUME NEW r, NEW i \in 1..9, Points(r, FOLD_FACTORS[i]) <= MAX_POINTS
    PROVE  Points(r, FoldFactor(r)) <= MAX_POINTS
<1>. DEFINE fits == {j \in DOMAIN FOLD_FACTORS : Points(r, FOLD_FACTORS[j]) <= MAX_POINTS}
<1>1. DOMAIN FOLD_FACTORS = 1..9
    BY DEF FOLD_FACTORS
<1>2. i \in fits /\ fits \in SUBSET Nat
    BY <1>1
<1>3. FoldFactor(r) = FOLD_FACTORS[IF fits = {} THEN Len(FOLD_FACTORS) ELSE Min(fits)]
    BY DEF FoldFactor
<1>4. \A j \in fits : Points(r, FOLD_FACTORS[j]) <= MAX_POINTS
    OBVIOUS
<1>. HIDE DEF fits
<1>5. Min(fits) \in fits
    BY <1>2, LeastIn
<1>. QED
    BY <1>2, <1>3, <1>4, <1>5

\* Two days are three points at the coarsest.
LEMMA TwoDaysFit ==
    ASSUME NEW r, Table(r), NEW n \in Nat, \A a \in DOMAIN r : n - WINDOW <= a /\ a < n
    PROVE  Cardinality(Groups(r, FoldFactor(r))) <= MAX_POINTS
<1>. PICK M \in Int : M = n - (n % 96)
    OBVIOUS
<1>1. FOLD_FACTORS[9] = 96 /\ 9 \in 1..9
    BY DEF FOLD_FACTORS
<1>2. \A a \in DOMAIN r : Group(r, a, 96) \in {M, M - 96, M - 192}
  <2>. SUFFICES ASSUME NEW a \in DOMAIN r PROVE Group(r, a, 96) \in {M, M - 96, M - 192}
      OBVIOUS
  <2>1. a \in Nat /\ n - 192 <= a /\ a < n
      BY DEF Table, WINDOW, SlotsPerDay
  <2>. PICK g : g = Group(r, a, 96)
      OBVIOUS
  <2>2. g \in Nat /\ g <= a /\ a < g + 96 /\ Midnight(g) = Midnight(a)
      BY <2>1, GroupIs DEF Factors
  <2>3. a - Midnight(a) = a % 96 /\ Midnight(a) \in Nat
      BY <2>1, MidnightIs
  <2>4. (a - Midnight(a)) \div 96 = 0
      BY <2>1, <2>3
  <2>5. g = Midnight(a) + 0 * 96
      BY <2>4, Zenon DEF Group
  <2>6. g = a - (a % 96)
      BY <2>1, <2>3, <2>5
  <2>7. g \in {M, M - 96, M - 192}
      BY <2>1, <2>6
  <2>. QED
      BY <2>7
<1>3. Groups(r, 96) \in SUBSET DaysBefore(M)
    BY <1>2 DEF Groups, DaysBefore
<1>4. Points(r, 96) <= MAX_POINTS
    BY <1>3, AtMostEight DEF Points
<1>. QED
    BY <1>1, <1>4, FoldFactorFits DEF Points

LEMMA LatestStretchIs ==
    ASSUME NEW r, Table(r), NEW last \in DOMAIN r, \A a \in DOMAIN r : a <= last,
           r[last].covered > 0, NEW recorded, recorded = LatestStretch(r)
    PROVE  /\ Table(recorded) /\ last \in DOMAIN recorded /\ DOMAIN recorded \in SUBSET DOMAIN r
           /\ \A a \in DOMAIN recorded : recorded[a].covered > 0
<1>. PICK silent \in SUBSET DOMAIN r : silent = {a \in DOMAIN r : r[a].covered = 0}
    OBVIOUS
<1>. PICK from : from = IF silent = {} THEN 0 ELSE Max(silent) + 1
    OBVIOUS
<1>1. /\ DOMAIN recorded = {a \in DOMAIN r : a >= from}
      /\ \A a \in DOMAIN recorded : recorded[a] = r[a]
    BY DEF LatestStretch
<1>2. \A a \in DOMAIN r : a \in Nat /\ r[a].covered \in Nat
    BY SnapshotIs DEF Table
<1>3. silent # {} => Max(silent) \in silent /\ \A y \in silent : y <= Max(silent)
  <2>1. silent \in SUBSET Int /\ IsFiniteSet(silent)
      BY <1>2, FS_Subset DEF Table
  <2>. QED
      BY <2>1, GreatestIn
<1>4. from \in Nat /\ from <= last
  <2>1. CASE silent = {}
      BY <1>2, <2>1
  <2>2. CASE silent # {}
    <3>. PICK m \in silent : m = Max(silent)
        BY <1>3, <2>2
    <3>1. m \in Nat /\ last \in Nat /\ m <= last /\ m # last
        BY <1>2
    <3>2. from = m + 1
        BY <2>2
    <3>. QED
        BY <3>1, <3>2
  <2>. QED
      BY <2>1, <2>2
<1>5. ASSUME NEW a \in DOMAIN recorded
      PROVE  recorded[a].covered > 0
  <2>1. a \in DOMAIN r /\ a >= from /\ recorded[a] = r[a]
      BY <1>1
  <2>2. a \notin silent
    <3>. SUFFICES ASSUME a \in silent PROVE FALSE
        OBVIOUS
    <3>. PICK m \in silent : m = Max(silent)
        BY <1>3
    <3>1. a <= m /\ from = m + 1 /\ m \in Nat /\ a \in Nat
        BY <1>2, <1>3
    <3>. QED
        BY <2>1, <3>1
  <2>. QED
      BY <1>2, <2>1, <2>2
<1>6. Table(recorded)
  <2>1. IsFiniteSet(DOMAIN recorded)
      BY <1>1, FS_Subset DEF Table
  <2>. QED
      BY <1>1, <2>1 DEF Table
<1>7. last \in DOMAIN recorded
    BY <1>1, <1>2, <1>4
<1>. QED
    BY <1>1, <1>5, <1>6, <1>7

LEMMA DailyChartDrawn ==
    ASSUME WarehouseInv, NEW seen \in DOMAIN rows, seen >= now - WINDOW, rows[seen].covered > 0
    PROVE  Len(Today.charts) = 1
<1>. PICK slots, recorded : slots = Window(rows, now - WINDOW, now) /\ recorded = LatestStretch(slots)
    OBVIOUS
<1>0. Recorded
  <2>1. rows # << >>
    <3>. SUFFICES ASSUME rows = << >> PROVE FALSE
        OBVIOUS
    <3>1. DOMAIN rows = {}
        OBVIOUS
    <3>. QED
        BY <3>1
  <2>. QED
      BY <2>1 DEF WarehouseInv
<1>. PICK to \in Nat : to = latest.at
    BY <1>0 DEF Recorded, Readable
<1>. PICK last \in Int : last = to - 1
    OBVIOUS
<1>1. /\ Table(rows) /\ DOMAIN rows = since..last /\ since \in Nat /\ now \in Nat
      /\ last \in DOMAIN rows /\ last < now /\ rows[last].covered > 0 /\ latest # None
  <2>1. Table(rows) /\ DOMAIN rows = since..last /\ rows[last].covered > 0
      BY <1>0, RowsAreTable DEF Recorded
  <2>2. since \in Nat /\ now \in Nat /\ since < to /\ to <= now
      BY <1>0 DEF WarehouseInv, Recorded
  <2>3. latest # None
      BY <1>0, ReadingAssumption DEF Recorded
  <2>. QED
      BY <2>1, <2>2, <2>3
<1>2. Table(slots) /\ DOMAIN slots = {a \in DOMAIN rows : now - WINDOW <= a /\ a < now}
      /\ \A a \in DOMAIN slots : slots[a] = rows[a]
  <2>1. now - WINDOW \in Int /\ now \in Int
      BY <1>1 DEF WINDOW, SlotsPerDay
  <2>. PICK from \in Int : from = now - WINDOW
      BY <2>1
  <2>2. slots = Window(rows, from, now)
      OBVIOUS
  <2>3. Table(slots)
      BY <1>1, <2>1, <2>2, WindowIs
  <2>4. DOMAIN slots = {a \in DOMAIN rows : from <= a /\ a < now}
        /\ \A a \in DOMAIN slots : slots[a] = rows[a]
      BY <2>2 DEF Window
  <2>. QED
      BY <2>3, <2>4
<1>3. last \in DOMAIN slots /\ slots[last].covered > 0 /\ \A a \in DOMAIN slots : a <= last
  <2>1. now - WINDOW <= last
      BY <1>1 DEF WINDOW, SlotsPerDay
  <2>. QED
      BY <1>1, <1>2, <2>1
<1>4. /\ Table(recorded) /\ last \in DOMAIN recorded /\ DOMAIN recorded \in SUBSET DOMAIN slots
      /\ \A a \in DOMAIN recorded : recorded[a].covered > 0
    BY <1>2, <1>3, LatestStretchIs
<1>. PICK factor, points, chart :
         factor = FoldFactor(recorded) /\ points = Fold(recorded, factor) /\ chart = ChargeChart(recorded)
    OBVIOUS
<1>11. factor \in Factors
    BY FoldFactorIs
<1>5. DOMAIN chart = Groups(recorded, factor) /\ \A p \in DOMAIN chart : chart[p] = points[p].end
    BY <1>11, <1>4, FoldIs DEF ChargeChart
<1>6. Cardinality(DOMAIN chart) <= MAX_POINTS
  <2>1. \A a \in DOMAIN recorded : now - WINDOW <= a /\ a < now
      BY <1>2, <1>4
  <2>. QED
      BY <1>1, <1>4, <1>5, <2>1, TwoDaysFit
<1>7. DOMAIN chart # {}
    BY <1>4, <1>5, ZenonT(60) DEF Groups
<1>8. ASSUME NEW p \in DOMAIN chart
      PROVE  chart[p] # None
  <2>. PICK at \in SUBSET DOMAIN recorded : at = Of(recorded, factor, p)
      BY DEF Of
  <2>1. at # {} /\ points[p] = Folded(recorded, at)
      BY <1>11, <1>4, <1>5, FoldIs
  <2>2. points[p].covered > 0
    <3>. PICK a \in at : TRUE
        BY <2>1
    <3>1. Seconds(recorded)[a] = recorded[a].covered /\ recorded[a].covered > 0
        BY <1>4 DEF Seconds
    <3>2. Sum(Seconds(recorded), at) \in Nat /\ Seconds(recorded)[a] <= Sum(Seconds(recorded), at)
        BY <1>4, SecondsOver, SumOfNats
    <3>3. points[p].covered = Sum(Seconds(recorded), at)
        BY <1>11, <1>4, <2>1, FoldedIs
    <3>4. Seconds(recorded)[a] \in Nat
        BY <1>4, SecondsOver
    <3>. QED
        BY <3>1, <3>2, <3>3, <3>4
  <2>3. points[p].end \in 0..100
      BY <1>11, <1>4, <2>1, <2>2, PointHasReadings
  <2>. QED
      BY <1>5, <2>3, NoneAssumption
<1>9. Drawable(chart)
    BY <1>6, <1>7, <1>8 DEF Drawable, Complete
<1>10. Today.charts = IF DOMAIN recorded # {} /\ Drawable(chart) THEN <<chart>> ELSE << >>
    BY <1>1 DEF Today, DailySummary
<1>. QED
    BY <1>4, <1>9, <1>10

LEMMA SevenDays ==
    ASSUME NEW n \in Nat
    PROVE  Days(n) # {} /\ \A S \in SUBSET Days(n) : Cardinality(S) <= MAX_POINTS
<1>. PICK M \in Int : M = WeekEnd(n) /\ M = n - (n % 96)
    BY DEF WeekEnd, Midnight, SlotsPerDay
<1>1. Days(n) = {Midnight(at) : at \in (M - 672)..(M - 1)}
    BY DEF Days, Dates, WEEK, SlotsPerDay
<1>2. \A at \in (M - 672)..(M - 1) :
          Midnight(at) \in {M - 96, M - 192, M - 288, M - 384, M - 480, M - 576, M - 672}
    BY DEF Midnight, SlotsPerDay
<1>3. Days(n) \in SUBSET DaysBefore(M)
    BY <1>1, <1>2 DEF DaysBefore
<1>4. M - 1 \in (M - 672)..(M - 1)
    OBVIOUS
<1>5. Days(n) # {}
    BY <1>1, <1>4
<1>6. \A S \in SUBSET Days(n) : S \in SUBSET DaysBefore(M)
    BY <1>3
<1>. QED
    BY <1>5, <1>6, AtMostEight

LEMMA WeeklyChartsDrawn ==
    ASSUME WarehouseInv, NEW week, week = WeeklySummary(rows, now)
    PROVE  /\ Drawable(EnergyChart(week))
           /\ Drawable(SwingChart(week)) \/ DOMAIN week.daily = week.missing
<1>. PICK table, hours : /\ table = Window(rows, WeekEnd(now) - WEEK, WeekEnd(now))
                         /\ hours = Fold(table, BY_HOUR)
    OBVIOUS
<1>1. Table(table) /\ BY_HOUR \in Factors /\ hours = Hours(rows, now)
    BY WindowsAreTables DEF Hours, BY_HOUR, Factors
<1>2. IsFiniteSet(DOMAIN hours)
    BY <1>1, FoldIs
<1>3. ASSUME NEW h \in DOMAIN hours
      PROVE  /\ hours[h].covered \in Nat /\ hours[h].discharged \in Nat
             /\ hours[h].covered > 0 => hours[h].start \in 0..100 /\ hours[h].end \in 0..100
  <2>. PICK at \in SUBSET DOMAIN table : at = Of(table, BY_HOUR, h)
      BY DEF Of
  <2>1. hours[h] = Folded(table, at)
      BY <1>1, FoldIs
  <2>. QED
      BY <1>1, <2>1, FoldedIs, PointHasReadings
<1>. PICK heard \in SUBSET DOMAIN hours : heard = {h \in DOMAIN hours : hours[h].covered > 0}
    OBVIOUS
<1>4. /\ week.daily = [d \in Days(now) |-> DailyEnergy(hours, d)]
      /\ week.missing = {d \in Days(now) : \A h \in heard : Midnight(h) # d}
    BY <1>1 DEF WeeklySummary
<1>5. DOMAIN week.daily = Days(now) /\ \A d \in Days(now) : week.daily[d] = DailyEnergy(hours, d)
    BY <1>4
<1>6. Days(now) # {} /\ \A S \in SUBSET Days(now) : Cardinality(S) <= MAX_POINTS
    BY SevenDays DEF WarehouseInv
<1>7. Drawable(EnergyChart(week))
  <2>1. /\ DOMAIN EnergyChart(week) = Days(now)
        /\ \A d \in Days(now) : EnergyChart(week)[d] = DailyEnergy(hours, d).discharged
      BY <1>5 DEF EnergyChart
  <2>2. ASSUME NEW d \in Days(now)
        PROVE  DailyEnergy(hours, d).discharged # None
    <3>. PICK at \in SUBSET DOMAIN hours : at = {h \in DOMAIN hours : Midnight(h) = d}
        OBVIOUS
    <3>. PICK f : f = [h \in at |-> hours[h].discharged]
        OBVIOUS
    <3>1. DailyEnergy(hours, d).discharged = SumFunction(f)
        BY DEF DailyEnergy
    <3>2. \A h \in at : f[h] \in Nat
        BY <1>3
    <3>3. DOMAIN f = at /\ IsFiniteSet(at)
        BY <1>2, FS_Subset
    <3>4. Sum(f, at) \in Nat
        BY <3>2, <3>3, SumOfNats
    <3>. QED
        BY <3>1, <3>3, <3>4, SumFunctionIs, NoneAssumption
  <2>. QED
      BY <1>6, <2>1, <2>2 DEF Drawable, Complete
<1>8. CASE \E d \in Days(now) : week.daily[d].lowest # None
  <2>. PICK recorded \in SUBSET Days(now) : recorded = {d \in Days(now) : week.daily[d].lowest # None}
      OBVIOUS
  <2>1. SwingChart(week) = [d \in recorded |-> week.daily[d].lowest]
      BY <1>5 DEF SwingChart
  <2>2. recorded # {} /\ Cardinality(recorded) <= MAX_POINTS
      BY <1>6, <1>8
  <2>3. Drawable(SwingChart(week))
      BY <2>1, <2>2 DEF Drawable, Complete
  <2>. QED
      BY <1>7, <2>3
<1>9. CASE \A d \in Days(now) : week.daily[d].lowest = None
  <2>1. ASSUME NEW d \in Days(now), NEW h \in heard, Midnight(h) = d
        PROVE  FALSE
    <3>. PICK readings : readings = Readings(hours, d) \ {None}
        OBVIOUS
    <3>1. Readings(hours, d) \in SUBSET (0..100) /\ hours[h].start \in Readings(hours, d)
        BY <1>3, <2>1 DEF Readings
    <3>2. readings \in SUBSET Nat /\ readings # {}
        BY <3>1, NoneAssumption
    <3>3. Min(readings) \in Nat
        BY <3>2, LeastIn
    <3>4. week.daily[d].lowest = Min(readings)
      <4>1. DailyEnergy(hours, d).lowest = IF readings = {} THEN None ELSE Min(readings)
          BY DEF DailyEnergy
      <4>. QED
          BY <1>5, <3>2, <4>1
    <3>. QED
        BY <1>9, <3>3, <3>4, NoneAssumption
  <2>2. week.missing = Days(now)
      BY <1>4, <2>1
  <2>. QED
      BY <1>5, <1>7, <2>2
<1>. QED
    BY <1>8, <1>9

\* No recording, however long and however full of silences, makes a chart that Slack
\* declines: the daily one whenever anything was heard in its two days, the weekly ones
\* always, but for the swing of a week nothing was heard in (daily.build, weekly.build).
THEOREM ChartsAreDrawnCorrect == Spec => []ChartsAreDrawn
<1>1. WarehouseInv => ChartsAreDrawn
    BY DailyChartDrawn, WeeklyChartsDrawn DEF ChartsAreDrawn
<1>. QED
    BY <1>1, WarehouseHolds, PTL

-----------------------------------------------------------------------------
(* Where the charge is going. *)

EndOf(r) == [a \in DOMAIN r |-> r[a].end]
StartOf(r) == [a \in DOMAIN r |-> r[a].start]

\* From the first reading of every stretch to its last is every fall within a slot and
\* every one from a slot to the next.
LEMMA StretchesAddUp ==
    ASSUME NEW f, NEW g, NEW S \in SUBSET Int, IsFiniteSet(S), Ints(f, S), Ints(g, S),
           NEW joined, joined = {a \in S : a + 1 \in S},
           NEW within, \A a \in S : within[a] = g[a] - f[a],
           NEW between, \A a \in joined : between[a] = f[a + 1] - g[a]
    PROVE  Sum(g, Lasts(S)) - Sum(f, Firsts(S)) = Sum(within, S) + Sum(between, joined)
<1>. PICK later : later = {a + 1 : a \in joined}
    OBVIOUS
<1>. PICK next : next = [a \in joined |-> f[a + 1]]
    OBVIOUS
<1>1. S = Lasts(S) \union joined /\ Lasts(S) \intersect joined = {}
    BY DEF Lasts
<1>2. \A a \in S : a \in later <=> a - 1 \in S
  <2>. SUFFICES ASSUME NEW a \in S PROVE a \in later <=> a - 1 \in S
      OBVIOUS
  <2>1. ASSUME a \in later PROVE a - 1 \in S
    <3>. PICK b \in joined : a = b + 1
        BY <2>1
    <3>1. b \in Int /\ b \in S
        OBVIOUS
    <3>2. a - 1 = b
        BY <3>1
    <3>. QED
        BY <3>1, <3>2
  <2>2. ASSUME a - 1 \in S PROVE a \in later
    <3>. PICK b \in S : b = a - 1
        BY <2>2
    <3>1. a \in Int /\ b \in Int
        OBVIOUS
    <3>2. a = b + 1
        BY <3>1
    <3>3. b \in joined
        BY <3>2
    <3>. QED
        BY <3>2, <3>3
  <2>. QED
      BY <2>1, <2>2
<1>3. S = Firsts(S) \union later /\ Firsts(S) \intersect later = {}
  <2>1. later \in SUBSET S
      OBVIOUS
  <2>. QED
      BY <1>2, <2>1 DEF Firsts
<1>4. /\ Lasts(S) \in SUBSET S /\ Firsts(S) \in SUBSET S
      /\ joined \in SUBSET S /\ later \in SUBSET S
    BY <1>1, <1>3
<1>5. \A T \in SUBSET S : IsFiniteSet(T) /\ Ints(f, T) /\ Ints(g, T)
    BY FS_Subset DEF Ints
<1>6. Ints(within, S) /\ Ints(between, joined) /\ Ints(next, joined)
  <2>1. \A a \in S : f[a] \in Int /\ g[a] \in Int
      BY DEF Ints
  <2>2. \A a \in S : within[a] \in Int
      BY <2>1
  <2>3. \A a \in joined : a + 1 \in S /\ a \in S
      OBVIOUS
  <2>4. \A a \in joined : between[a] \in Int /\ next[a] \in Int
      BY <2>1, <2>3
  <2>. QED
      BY <2>2, <2>4 DEF Ints
<1>7. Sum(g, S) = Sum(g, Lasts(S)) + Sum(g, joined)
    BY <1>1, <1>5, SumOfParts
<1>8. Sum(f, S) = Sum(f, Firsts(S)) + Sum(f, later)
    BY <1>3, <1>5, SumOfParts
<1>9. Sum(g, S) = Sum(within, S) + Sum(f, S)
  <2>1. \A a \in S : g[a] = within[a] + f[a]
    <3>. SUFFICES ASSUME NEW a \in S PROVE g[a] = within[a] + f[a]
        OBVIOUS
    <3>. PICK x \in Int, y \in Int : x = f[a] /\ y = g[a]
        BY DEF Ints
    <3>1. within[a] = y - x
        OBVIOUS
    <3>. QED
        BY <3>1
  <2>. QED
      BY <1>6, <2>1, SumOfSum
<1>10. Sum(next, joined) = Sum(f, later)
  <2>1. \A a \in joined : next[a] = f[a + 1] /\ f[a + 1] \in Int
      BY DEF Ints
  <2>2. joined \in SUBSET Int /\ IsFiniteSet(joined)
      BY <1>4, <1>5
  <2>. QED
      BY <2>1, <2>2, SumOneLater
<1>11. Sum(next, joined) = Sum(between, joined) + Sum(g, joined)
  <2>1. \A a \in joined : next[a] = between[a] + g[a]
    <3>1. \A a \in joined : f[a + 1] \in Int /\ g[a] \in Int
        BY DEF Ints
    <3>. QED
        BY <3>1
  <2>2. IsFiniteSet(joined) /\ Ints(g, joined)
      BY <1>4, <1>5
  <2>. QED
      BY <1>6, <2>1, <2>2, SumOfSum
<1>12. /\ Sum(g, Lasts(S)) \in Int /\ Sum(g, joined) \in Int /\ Sum(f, Firsts(S)) \in Int
       /\ Sum(f, later) \in Int /\ Sum(within, S) \in Int /\ Sum(between, joined) \in Int
       /\ Sum(f, S) \in Int
    BY <1>4, <1>5, <1>6, SumIsInt
<1>. QED
    BY <1>7, <1>8, <1>9, <1>10, <1>11, <1>12

LEMMA SlopeIs ==
    ASSUME NEW r, Table(r), NEW slope, slope = Slope(r), slope # None,
           NEW used, used = Recent(r), NEW joined, joined = {a \in used : a + 1 \in used}
    PROVE  /\ slope.change = SumFunction([a \in used |-> r[a].end - r[a].start])
                             + SumFunction([a \in joined |-> r[a + 1].start - r[a].end])
           /\ slope.change \in Int /\ slope.seconds \in Nat
<1>1. slope = [change |-> Change(r, used), seconds |-> SumFunction([a \in used |-> r[a].covered])]
    BY DEF Slope
<1>2. used \in SUBSET DOMAIN r /\ \A a \in used : r[a].start \in 0..100 /\ r[a].end \in 0..100
  <2>1. \A a \in used : a \in DOMAIN r /\ r[a].covered > 0
      BY DEF Recent, OnBattery
  <2>. QED
      BY <2>1, SnapshotIs DEF Table
<1>3. IsFiniteSet(used) /\ used \in SUBSET Int
    BY <1>2, FS_Subset DEF Table
<1>. PICK f, g : f = StartOf(r) /\ g = EndOf(r)
    OBVIOUS
<1>4. \A a \in used : f[a] = r[a].start /\ g[a] = r[a].end /\ f[a] \in Int /\ g[a] \in Int
    BY <1>2 DEF StartOf, EndOf
<1>5. Ints(f, used) /\ Ints(g, used)
    BY <1>4 DEF Ints
<1>. PICK within, between :
         /\ within = [a \in used |-> r[a].end - r[a].start]
         /\ between = [a \in joined |-> r[a + 1].start - r[a].end]
    OBVIOUS
<1>6. \A a \in used : within[a] = g[a] - f[a]
    BY <1>4
<1>7. \A a \in joined : between[a] = f[a + 1] - g[a]
    BY <1>4
<1>8. Sum(g, Lasts(used)) - Sum(f, Firsts(used)) = Sum(within, used) + Sum(between, joined)
    BY <1>3, <1>5, <1>6, <1>7, StretchesAddUp
<1>9. SumFunction(within) = Sum(within, used) /\ SumFunction(between) = Sum(between, joined)
    BY SumFunctionIs
<1>10. SumFunction([a \in Lasts(used) |-> r[a].end]) = Sum(g, Lasts(used))
  <2>. PICK S \in SUBSET used : S = Lasts(used)
      BY DEF Lasts
  <2>. PICK h : h = [a \in S |-> r[a].end]
      OBVIOUS
  <2>1. IsFiniteSet(S) /\ Ints(g, S) /\ DOMAIN h = S /\ \A a \in S : h[a] = g[a]
      BY <1>3, <1>4, FS_Subset DEF Ints
  <2>2. SumFunction(h) = Sum(g, S)
      BY <2>1, SumOver
  <2>. QED
      BY <2>2
<1>11. SumFunction([a \in Firsts(used) |-> r[a].start]) = Sum(f, Firsts(used))
  <2>. PICK S \in SUBSET used : S = Firsts(used)
      BY DEF Firsts
  <2>. PICK h : h = [a \in S |-> r[a].start]
      OBVIOUS
  <2>1. IsFiniteSet(S) /\ Ints(f, S) /\ DOMAIN h = S /\ \A a \in S : h[a] = f[a]
      BY <1>3, <1>4, FS_Subset DEF Ints
  <2>2. SumFunction(h) = Sum(f, S)
      BY <2>1, SumOver
  <2>. QED
      BY <2>2
<1>12. Change(r, used) = Sum(g, Lasts(used)) - Sum(f, Firsts(used))
    BY <1>10, <1>11, Zenon DEF Change
<1>13. Change(r, used) \in Int
  <2>. PICK S \in SUBSET used, T \in SUBSET used : S = Lasts(used) /\ T = Firsts(used)
      BY DEF Firsts, Lasts
  <2>1. IsFiniteSet(S) /\ Ints(g, S) /\ IsFiniteSet(T) /\ Ints(f, T)
      BY <1>3, <1>4, FS_Subset DEF Ints
  <2>2. Sum(g, S) \in Int /\ Sum(f, T) \in Int
      BY <2>1, SumIsInt
  <2>. QED
      BY <1>12, <2>2
<1>14. SumFunction([a \in used |-> r[a].covered]) \in Nat
    BY <1>2, SecondsOver, SumOfNats
<1>15. slope.change = Change(r, used) /\ slope.seconds = SumFunction([a \in used |-> r[a].covered])
    BY <1>1
<1>16. Change(r, used) = SumFunction(within) + SumFunction(between)
    BY <1>8, <1>9, <1>12, Zenon
<1>. QED
    BY <1>13, <1>14, <1>15, <1>16

LEMMA NothingMissed == ASSUME WarehouseInv PROVE SlopeMissesNothing
<1>. PICK r, used : r = Window(rows, now - WINDOW, now) /\ used = Recent(r)
    OBVIOUS
<1>. PICK slope, joined : slope = Slope(r) /\ joined = {a \in used : a + 1 \in used}
    OBVIOUS
<1>1. Table(r)
    BY WindowsAreTables
<1>2. slope # None => slope.change = SumFunction([a \in used |-> r[a].end - r[a].start])
                                     + SumFunction([a \in joined |-> r[a + 1].start - r[a].end])
    BY <1>1, SlopeIs
<1>. QED
    BY <1>2 DEF SlopeMissesNothing

LEMMA MorningComes == ASSUME NEW n \in Nat PROVE NextMorning(n) \in Nat /\ NextMorning(n) > n
BY DEF NextMorning, Midnight, SlotsPerDay

LEMMA NegatedProduct == ASSUME NEW c \in Int, NEW m \in Int, NEW x \in Int, x = c * m
                        PROVE  -c * m * SLOT_SECONDS = -(x * 900)
<1>1. -c * m = -(c * m)
    OBVIOUS
<1>. QED
    BY <1>1 DEF SLOT_SECONDS

LEMMA EmptyBeforeMorning == WarehouseInv => OutlookComesFirst
<1>. PICK slope : slope = Slope(Window(rows, now - WINDOW, now))
    OBVIOUS
<1>. SUFFICES ASSUME WarehouseInv, Today # None, Today.lead.says = "morning"
              PROVE  Extrapolated(latest, slope, NextMorning(now))
                         >= slope.change * (now - latest.at) * SLOT_SECONDS
    BY DEF OutlookComesFirst
<1>0. latest # None /\ Recorded
    BY DEF Today, DailySummary, WarehouseInv
<1>1. Today.lead = Lead(latest, slope, now)
    BY <1>0 DEF Today, DailySummary
<1>2. Refused(latest, slope) = None
  <2>1. Refused(latest, slope) # None => Today.lead.says = Refused(latest, slope)
      BY <1>1 DEF Lead
  <2>2. Refused(latest, slope) \in {"plugged_in", "no_slope", None}
      BY DEF Refused, PLUGGED_IN, NO_SLOPE
  <2>. QED
      BY <2>1, <2>2
<1>3. slope # None
  <2>1. "plugged_in" # None /\ "no_slope" # None
      BY ReasonsAssumption DEF PLUGGED_IN, NO_SLOPE
  <2>. QED
      BY <1>2, <2>1 DEF Refused, PLUGGED_IN, NO_SLOPE
<1>4. ~EmptyWithin(latest, slope, NextMorning(now) - now)
  <2>. SUFFICES ASSUME EmptyWithin(latest, slope, NextMorning(now) - now) PROVE FALSE
      OBVIOUS
  <2>1. Today.lead = [says |-> "empty"]
      BY <1>1, <1>2 DEF Lead
  <2>. QED
      BY <2>1
<1>. PICK c, t, m, p, d : /\ c = slope.change /\ t = slope.seconds
                          /\ m = NextMorning(now) - now /\ p = latest.percent
                          /\ d = now - latest.at
    OBVIOUS
<1>5. c \in Int /\ t \in Nat
    BY <1>3, WindowsAreTables, SlopeIs
<1>6. m \in Nat /\ d \in Nat /\ NextMorning(now) - latest.at = m + d
  <2>1. NextMorning(now) \in Nat /\ NextMorning(now) > now /\ now \in Nat
      BY MorningComes DEF WarehouseInv
  <2>2. latest.at \in Nat /\ latest.at <= now
      BY <1>0 DEF Recorded, Readable
  <2>. PICK x \in Nat, y \in Nat, z \in Nat : x = NextMorning(now) /\ y = now /\ z = latest.at
      BY <2>1, <2>2
  <2>3. x - y \in Nat /\ y - z \in Nat /\ x - z = (x - y) + (y - z)
      BY <2>1, <2>2
  <2>. QED
      BY <2>3
<1>7. p \in Nat
  <2>1. latest.percent \in 0..100
      BY <1>0, Zenon DEF Recorded, Readable
  <2>2. p \in 0..100
      BY <2>1, Zenon
  <2>. QED
      BY <2>2
<1>. PICK y \in Nat, x \in Int, z \in Int : y = p * t /\ x = c * m /\ z = c * d
    BY <1>5, <1>6, <1>7, NaturalProduct, ProductIsInt
<1>8. Extrapolated(latest, slope, NextMorning(now)) = y + (x + z) * 900
  <2>1. Extrapolated(latest, slope, NextMorning(now))
            = latest.percent * slope.seconds
              + slope.change * (NextMorning(now) - latest.at) * SLOT_SECONDS
      BY Zenon DEF Extrapolated
  <2>2. latest.percent * slope.seconds = y
      BY Zenon
  <2>3. slope.change * (NextMorning(now) - latest.at) = c * (m + d)
      BY <1>6, Zenon
  <2>4. c * (m + d) = x + z
    <3>1. c * (m + d) = c * m + c * d
        BY <1>5, <1>6
    <3>. QED
        BY <3>1, Zenon
  <2>5. Extrapolated(latest, slope, NextMorning(now)) = y + (x + z) * SLOT_SECONDS
      BY <2>1, <2>2, <2>3, <2>4, Zenon
  <2>. QED
      BY <2>5, Zenon DEF SLOT_SECONDS
<1>9. ~(c < 0 /\ y < -(x * 900))
  <2>1. -c * m * SLOT_SECONDS = -(x * 900)
      BY <1>5, <1>6, NegatedProduct
  <2>2. EmptyWithin(latest, slope, m) <=> c < 0 /\ p * t < -c * m * SLOT_SECONDS
      BY Zenon DEF EmptyWithin, Falling
  <2>3. ~EmptyWithin(latest, slope, m)
      BY <1>4, Zenon
  <2>4. ~(c < 0 /\ p * t < -c * m * SLOT_SECONDS)
      BY <2>2, <2>3, ZenonT(40)
  <2>5. ~(c < 0 /\ p * t < -(x * 900))
      BY <2>1, <2>4
  <2>. QED
      BY <2>5, Zenon
<1>10. y + x * 900 >= 0
  <2>1. CASE c < 0
      BY <1>9, <2>1
  <2>2. CASE ~(c < 0)
    <3>1. c \in Nat
        BY <1>5, <2>2
    <3>2. x \in Nat
        BY <1>6, <3>1, NaturalProduct
    <3>. QED
        BY <3>2
  <2>. QED
      BY <2>1, <2>2
<1>11. slope.change * (now - latest.at) * SLOT_SECONDS = z * 900
  <2>1. slope.change * (now - latest.at) = z
      BY Zenon
  <2>2. SLOT_SECONDS = 900
      BY DEF SLOT_SECONDS
  <2>. QED
      BY <2>1, <2>2, ZenonT(40)
<1>12. y + (x + z) * 900 >= z * 900
    BY <1>10
<1>. QED
    BY <1>8, <1>11, <1>12

\* The slope the forecast rests on takes in every fall of the charge, between two slots as
\* well as within them, and a battery that is given a charge for the morning gets below
\* zero by then by no more than what the age of the reading comes to
\* (slope_percent_per_hour, _lead).
THEOREM OutlookHoldsCorrect == Spec => []OutlookHolds
<1>1. WarehouseInv => OutlookHolds
    BY NothingMissed, EmptyBeforeMorning DEF OutlookHolds
<1>. QED
    BY <1>1, WarehouseHolds, PTL

================================================================================
