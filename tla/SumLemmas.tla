----------------------------- MODULE SumLemmas -----------------------------
(***************************************************************************)
(* Induction, recursion and sums, in a form the proofs of the components   *)
(* can cite: over sets and functions instead of operators.                 *)
(*                                                                         *)
(* The sums of the models are MapThenSumSet of the community modules, a    *)
(* fold that takes the elements of a finite set in an order of its own.    *)
(* The lemmas say that the order does not matter.                          *)
(***************************************************************************)
EXTENDS Integers, FiniteSets, FiniteSetsExt, FiniteSetTheorems,
        WellFoundedInduction, TLAPS

----------------------------------------------------------------------------
(* Induction.                                                              *)

\* A set of natural numbers that is not empty has a least element.
LEMMA LeastNumber ==
  ASSUME NEW T, T \subseteq Nat, T # {}
  PROVE  \E n \in T : \A m \in T : n <= m
  <1>1. \E n \in T : \A m \in T : ~ (<<m, n>> \in OpToRel(<, Nat))
    BY NatLessThanWellFounded, WFMin
  <1>2. PICK n \in T : \A m \in T : ~ (<<m, n>> \in OpToRel(<, Nat))
    BY <1>1
  <1>3. \A m \in T : ~ (m < n)
    BY <1>2 DEF OpToRel
  <1>4. QED
    BY <1>3

\* A set with 0 and the successor of each of its numbers has every natural number.
LEMMA SetInduction ==
  ASSUME NEW T, 0 \in T, \A n \in Nat : n \in T => n + 1 \in T
  PROVE  \A n \in Nat : n \in T
  <1> SUFFICES ASSUME Nat \ T # {} PROVE FALSE
    OBVIOUS
  <1>1. PICK n \in Nat \ T : \A m \in Nat \ T : n <= m
    BY LeastNumber
  <1>2. n - 1 \in Nat /\ (n - 1) + 1 = n
    BY <1>1
  <1>3. n - 1 \in T
    BY <1>1, <1>2
  <1>4. QED
    BY <1>1, <1>2, <1>3

----------------------------------------------------------------------------
(* Functions defined by recursion over the natural numbers.                *)

\* h gives the first n + 1 values of the recursion.
IsRun(h, n, first, step) ==
  /\ h[0] = first
  /\ \A i \in 0 .. n - 1 : h[i + 1] = step[i][h[i]]

\* Two runs agree where both are defined.
LEMMA RunsAgree ==
  ASSUME NEW first, NEW step, NEW m \in Nat, NEW n \in Nat, NEW g, NEW h,
         IsRun(g, m, first, step), IsRun(h, n, first, step)
  PROVE  \A i \in Nat : i <= m /\ i <= n => g[i] = h[i]
  <1> DEFINE T == {i \in Nat : i <= m /\ i <= n => g[i] = h[i]}
  <1>1. 0 \in T
    BY DEF IsRun
  <1>2. ASSUME NEW i \in Nat, i \in T PROVE i + 1 \in T
    BY <1>2 DEF IsRun
  <1>3. \A i \in Nat : i \in T
    <2> HIDE DEF T
    <2> QED BY <1>1, <1>2, SetInduction
  <1>4. QED
    BY <1>3

\* Every number of values can be computed.
LEMMA RunsExist ==
  ASSUME NEW V, NEW first \in V, NEW step \in [Nat -> [V -> V]]
  PROVE  \A n \in Nat : \E h \in [0 .. n -> V] : IsRun(h, n, first, step)
  <1> DEFINE T == {n \in Nat : \E h \in [0 .. n -> V] : IsRun(h, n, first, step)}
  <1>1. 0 \in T
    <2>1. /\ [i \in 0 .. 0 |-> first] \in [0 .. 0 -> V]
          /\ IsRun([i \in 0 .. 0 |-> first], 0, first, step)
      BY DEF IsRun
    <2>2. QED
      BY <2>1
  <1>2. ASSUME NEW n \in Nat, n \in T PROVE n + 1 \in T
    <2>1. PICK h \in [0 .. n -> V] : IsRun(h, n, first, step)
      BY <1>2
    <2> DEFINE k == [i \in 0 .. n + 1 |-> IF i = n + 1 THEN step[n][h[n]] ELSE h[i]]
    <2>2. k \in [0 .. n + 1 -> V]
      OBVIOUS
    <2>3. IsRun(k, n + 1, first, step)
      BY <2>1 DEF IsRun
    <2>4. QED
      BY <2>2, <2>3
  <1>3. \A n \in Nat : n \in T
    <2> HIDE DEF T
    <2> QED BY <1>1, <1>2, SetInduction
  <1>4. QED
    BY <1>3

\* g satisfies the recursion for every number.
IsRecursion(g, first, step) ==
  g[0] = first /\ \A n \in Nat : g[n + 1] = step[n][g[n]]

\* There is a function that satisfies the recursion.
LEMMA RecursionExists ==
  ASSUME NEW V, NEW first \in V, NEW step \in [Nat -> [V -> V]]
  PROVE  \E g \in [Nat -> V] : IsRecursion(g, first, step)
  <1> DEFINE Run(n) == CHOOSE h \in [0 .. n -> V] : IsRun(h, n, first, step)
             g == [n \in Nat |-> Run(n)[n]]
  <1>1. \A n \in Nat : Run(n) \in [0 .. n -> V] /\ IsRun(Run(n), n, first, step)
    BY RunsExist
  <1> HIDE DEF Run
  <1>2. g \in [Nat -> V]
    BY <1>1
  <1>3. g[0] = first
    BY <1>1 DEF IsRun
  <1>4. ASSUME NEW n \in Nat PROVE g[n + 1] = step[n][g[n]]
    <2>1. Run(n + 1)[n + 1] = step[n][Run(n + 1)[n]]
      BY <1>1 DEF IsRun
    <2>2. Run(n + 1)[n] = Run(n)[n]
      BY <1>1, RunsAgree
    <2>3. QED
      BY <2>1, <2>2
  <1>5. QED
    BY <1>2, <1>3, <1>4 DEF IsRecursion

----------------------------------------------------------------------------
(* Sums over finite sets.                                                  *)

\* The sum of the values of f on S.
SumOf(f, S) == MapThenSumSet(LAMBDA x : f[x], S)

\* What holds of a finite set when it holds of all the sets with one element less
\* holds of it.
LEMMA FiniteInduction ==
  ASSUME NEW S, IsFiniteSet(S), NEW T,
         \A U \in SUBSET S : (\A x \in U : U \ {x} \in T) => U \in T
  PROVE  \A U \in SUBSET S : U \in T
  <1> SUFFICES ASSUME NEW W \in SUBSET S, W \notin T PROVE FALSE
    OBVIOUS
  <1> DEFINE Sizes == {Cardinality(U) : U \in (SUBSET S) \ T}
  <1>1. \A U \in SUBSET S : IsFiniteSet(U) /\ Cardinality(U) \in Nat
    BY FS_Subset, FS_CardinalityType
  <1>2. Sizes \subseteq Nat /\ Sizes # {}
    BY <1>1
  <1>3. PICK n \in Sizes : \A m \in Sizes : n <= m
    <2> HIDE DEF Sizes
    <2> QED BY <1>2, LeastNumber
  <1>4. PICK U \in (SUBSET S) \ T : n = Cardinality(U)
    BY <1>3
  <1>5. PICK x \in U : U \ {x} \notin T
    BY <1>4
  <1>6. Cardinality(U \ {x}) = Cardinality(U) - 1
    BY <1>1, FS_RemoveElement
  <1>7. Cardinality(U \ {x}) \in Sizes
    BY <1>5
  <1>8. Cardinality(U) <= Cardinality(U \ {x})
    BY <1>3, <1>4, <1>7
  <1>9. QED
    BY <1>1, <1>6, <1>8

\* G[U] is the sum of the values of f on U, for every subset U of S.
Additive(G, f, S) ==
  /\ G[{}] = 0
  /\ \A U \in SUBSET S : \A x \in U : G[U] = f[x] + G[U \ {x}]

\* Sums exist: they do not depend on the order of the elements.
LEMMA AdditiveExists ==
  ASSUME NEW S, IsFiniteSet(S), NEW f, \A x \in S : f[x] \in Int
  PROVE  \E G \in [SUBSET S -> Int] : Additive(G, f, S)
  <1> DEFINE T == {U \in SUBSET S : \E G \in [SUBSET U -> Int] : Additive(G, f, U)}
  <1>1. ASSUME NEW U \in SUBSET S, \A x \in U : U \ {x} \in T PROVE U \in T
    <2>1. CASE U = {}
      <3>1. [W \in SUBSET U |-> 0] \in [SUBSET U -> Int] /\ Additive([W \in SUBSET U |-> 0], f, U)
        BY <2>1 DEF Additive
      <3>2. QED
        BY <3>1
    <2>2. CASE U # {}
      <3>1. PICK y \in U : TRUE
        BY <2>2
      <3>2. PICK H \in [SUBSET (U \ {y}) -> Int] : Additive(H, f, U \ {y})
        BY <1>1, <3>1
      <3> DEFINE G == [W \in SUBSET U |-> H[W \ {y}] + IF y \in W THEN f[y] ELSE 0]
      <3>3. f[y] \in Int /\ \A W \in SUBSET U : W \ {y} \in SUBSET (U \ {y})
        BY <3>1
      <3>4. G \in [SUBSET U -> Int]
        BY <3>3
      <3>5. G[{}] = 0
        <4>1. H[{}] = 0 /\ {} \ {y} = {}
          BY <3>2 DEF Additive
        <4>2. QED
          BY <4>1
      <3>6. ASSUME NEW W \in SUBSET U, NEW x \in W PROVE G[W] = f[x] + G[W \ {x}]
        <4>1. /\ W \ {x} \in SUBSET U /\ f[x] \in Int
              /\ H[W \ {y}] \in Int /\ H[(W \ {x}) \ {y}] \in Int
          BY <3>3
        <4>2. G[W] = H[W \ {y}] + (IF y \in W THEN f[y] ELSE 0)
          OBVIOUS
        <4>3. G[W \ {x}] = H[(W \ {x}) \ {y}] + (IF y \in W \ {x} THEN f[y] ELSE 0)
          BY <4>1
        <4>4. CASE x = y
          <5>1. (W \ {x}) \ {y} = W \ {y} /\ y \in W /\ y \notin W \ {x}
            BY <4>4
          <5> HIDE DEF G
          <5>2. G[W] = H[W \ {y}] + f[x]
            BY <4>2, <4>4, <5>1
          <5>3. G[W \ {x}] = H[W \ {y}] + 0
            BY <4>3, <5>1
          <5>4. QED
            BY <4>1, <5>2, <5>3
        <4>5. CASE x # y
          <5>1. (W \ {x}) \ {y} = (W \ {y}) \ {x} /\ x \in W \ {y}
            BY <4>5
          <5>2. H[W \ {y}] = f[x] + H[(W \ {x}) \ {y}]
            <6>1. H[W \ {y}] = f[x] + H[(W \ {y}) \ {x}]
              BY <3>2, <3>3, <5>1 DEF Additive
            <6>2. QED
              BY <5>1, <6>1
          <5> DEFINE d == IF y \in W THEN f[y] ELSE 0
          <5>3. (y \in W <=> y \in W \ {x}) /\ d \in Int
            BY <3>3, <4>5
          <5> HIDE DEF G
          <5>4. G[W \ {x}] = H[(W \ {x}) \ {y}] + d
            BY <4>3, <5>3
          <5>5. G[W] = H[W \ {y}] + d
            BY <4>2
          <5> HIDE DEF d
          <5>6. \A a \in Int, b \in Int, c \in Int : (a + b) + c = a + (b + c)
            OBVIOUS
          <5>7. QED
            BY <4>1, <5>2, <5>3, <5>4, <5>5, <5>6
        <4>6. QED
          BY <4>4, <4>5
      <3>7. Additive(G, f, U)
        <4> HIDE DEF G
        <4> QED BY <3>5, <3>6 DEF Additive
      <3>8. QED
        BY <3>4, <3>7
    <2>3. QED
      BY <2>1, <2>2
  <1>2. \A U \in SUBSET S : U \in T
    <2> HIDE DEF T
    <2> QED BY <1>1, FiniteInduction
  <1>3. QED
    BY <1>2

\* The fold is the sum.
LEMMA SumIs ==
  ASSUME NEW S, IsFiniteSet(S), NEW f, \A x \in S : f[x] \in Int,
         NEW G \in [SUBSET S -> Int], Additive(G, f, S)
  PROVE  \A U \in SUBSET S : SumOf(f, U) = G[U]
  <1> SUFFICES ASSUME NEW U \in SUBSET S PROVE SumOf(f, U) = G[U]
    OBVIOUS
  <1> DEFINE Step(it) == [s \in SUBSET U |->
                            IF s = {} THEN 0
                            ELSE f[CHOOSE x \in s : TRUE] + it[s \ {CHOOSE x \in s : TRUE}]]
             iter == CHOOSE it : it = Step(it)
  <1>1. SumOf(f, U) = iter[U]
    BY DEF SumOf, MapThenSumSet, MapThenFoldSet
  <1>2. \A s \in SUBSET U : s # {} => (CHOOSE x \in s : TRUE) \in s
    OBVIOUS
  <1>3. [s \in SUBSET U |-> G[s]] = Step([s \in SUBSET U |-> G[s]])
    BY <1>2 DEF Additive
  <1>4. iter = Step(iter)
    BY <1>3
  <1> DEFINE T == {s \in SUBSET U : iter[s] = G[s]}
  <1>5. ASSUME NEW s \in SUBSET U, \A x \in s : s \ {x} \in T PROVE s \in T
    <2>1. CASE s = {}
      BY <1>4, <2>1 DEF Additive
    <2>2. CASE s # {}
      <3> DEFINE c == CHOOSE x \in s : TRUE
      <3>1. c \in s
        BY <2>2
      <3>2. iter[s] = f[c] + iter[s \ {c}]
        BY <1>4, <2>2
      <3>3. iter[s \ {c}] = G[s \ {c}]
        BY <1>5, <3>1
      <3>4. G[s] = f[c] + G[s \ {c}]
        BY <3>1 DEF Additive
      <3>5. QED
        BY <3>2, <3>3, <3>4
    <2>3. QED
      BY <2>1, <2>2
  <1>6. IsFiniteSet(U)
    BY FS_Subset
  <1>7. \A s \in SUBSET U : s \in T
    <2> HIDE DEF T
    <2> QED BY <1>5, <1>6, FiniteInduction
  <1>8. QED
    BY <1>1, <1>7

\* The sum over no elements.
LEMMA SumEmpty ==
  ASSUME NEW f
  PROVE  SumOf(f, {}) = 0
  <1>1. IsFiniteSet({})
    BY FS_EmptySet
  <1>2. PICK G \in [SUBSET {} -> Int] : Additive(G, f, {})
    BY <1>1, AdditiveExists
  <1>3. \A U \in SUBSET {} : SumOf(f, U) = G[U]
    BY <1>1, <1>2, SumIs
  <1>4. QED
    BY <1>2, <1>3 DEF Additive

\* Any element can be taken out of a sum.
LEMMA SumAdd ==
  ASSUME NEW S, IsFiniteSet(S), NEW f, \A x \in S : f[x] \in Int
  PROVE  /\ SumOf(f, S) \in Int
         /\ \A x \in S : SumOf(f, S) = f[x] + SumOf(f, S \ {x})
  <1>1. PICK G \in [SUBSET S -> Int] : Additive(G, f, S)
    BY AdditiveExists
  <1>2. \A U \in SUBSET S : SumOf(f, U) = G[U]
    BY <1>1, SumIs
  <1>3. QED
    BY <1>1, <1>2 DEF Additive

\* Larger values have a larger sum.
LEMMA SumGrows ==
  ASSUME NEW S, IsFiniteSet(S), NEW f, NEW g,
         \A x \in S : f[x] \in Int /\ g[x] \in Int /\ f[x] <= g[x]
  PROVE  SumOf(f, S) <= SumOf(g, S)
  <1> DEFINE T == {U \in SUBSET S : SumOf(f, U) <= SumOf(g, U)}
  <1>1. ASSUME NEW U \in SUBSET S, \A x \in U : U \ {x} \in T PROVE U \in T
    <2>1. CASE U = {}
      BY <2>1, SumEmpty
    <2>2. CASE U # {}
      <3>1. PICK x \in U : TRUE
        BY <2>2
      <3>2. IsFiniteSet(U) /\ IsFiniteSet(U \ {x})
        BY FS_Subset
      <3>3. SumOf(f, U) = f[x] + SumOf(f, U \ {x}) /\ SumOf(g, U) = g[x] + SumOf(g, U \ {x})
        BY <3>1, <3>2, SumAdd
      <3>4. SumOf(f, U \ {x}) \in Int /\ SumOf(g, U \ {x}) \in Int
        BY <3>2, SumAdd
      <3>5. SumOf(f, U \ {x}) <= SumOf(g, U \ {x})
        BY <1>1, <3>1
      <3>6. f[x] \in Int /\ g[x] \in Int /\ f[x] <= g[x]
        BY <3>1
      <3>7. SumOf(f, U) <= SumOf(g, U)
        BY <3>3, <3>4, <3>5, <3>6
      <3>8. QED
        BY <3>7
    <2>3. QED
      BY <2>1, <2>2
  <1>2. \A U \in SUBSET S : U \in T
    <2> HIDE DEF T
    <2> QED BY <1>1, FiniteInduction
  <1>3. QED
    BY <1>2

\* A sum depends on the values on its set, and on nothing else.
LEMMA SumAgrees ==
  ASSUME NEW S, IsFiniteSet(S), NEW f, NEW g,
         \A x \in S : f[x] \in Int /\ f[x] = g[x]
  PROVE  SumOf(f, S) = SumOf(g, S)
  <1>1. \A x \in S : f[x] \in Int /\ g[x] \in Int /\ f[x] <= g[x] /\ g[x] <= f[x]
    OBVIOUS
  <1>2. SumOf(f, S) <= SumOf(g, S) /\ SumOf(g, S) <= SumOf(f, S)
    BY <1>1, SumGrows
  <1>3. SumOf(f, S) \in Int /\ SumOf(g, S) \in Int
    BY <1>1, SumAdd
  <1>4. QED
    BY <1>2, <1>3

\* A change of one value changes the sum by as much.
LEMMA SumChanges ==
  ASSUME NEW S, IsFiniteSet(S), NEW f, NEW g, NEW x \in S, NEW d \in Int,
         \A y \in S : f[y] \in Int,
         \A y \in S \ {x} : g[y] = f[y],
         g[x] = f[x] + d
  PROVE  SumOf(g, S) = SumOf(f, S) + d
  <1>1. IsFiniteSet(S \ {x}) /\ \A y \in S : g[y] \in Int
    BY FS_Subset
  <1>2. SumOf(f, S) = f[x] + SumOf(f, S \ {x})
    BY SumAdd
  <1>3. SumOf(g, S) = g[x] + SumOf(g, S \ {x})
    BY <1>1, SumAdd
  <1>4. SumOf(f, S \ {x}) = SumOf(g, S \ {x})
    BY <1>1, SumAgrees
  <1>5. SumOf(f, S \ {x}) \in Int /\ f[x] \in Int
    BY <1>1, SumAdd
  <1>6. QED
    BY <1>2, <1>3, <1>4, <1>5

\* A common factor can be taken out of a sum.
LEMMA SumScales ==
  ASSUME NEW S, IsFiniteSet(S), NEW f, NEW g, NEW c \in Int,
         \A x \in S : f[x] \in Int /\ g[x] = c * f[x]
  PROVE  SumOf(g, S) = c * SumOf(f, S)
  <1>0. \A x \in S : g[x] \in Int
    OBVIOUS
  <1> DEFINE T == {U \in SUBSET S : SumOf(g, U) = c * SumOf(f, U)}
  <1>1. ASSUME NEW U \in SUBSET S, \A x \in U : U \ {x} \in T PROVE U \in T
    <2>1. CASE U = {}
      <3>1. c * 0 = 0
        OBVIOUS
      <3>2. QED
        BY <2>1, <3>1, SumEmpty
    <2>2. CASE U # {}
      <3>1. PICK x \in U : TRUE
        BY <2>2
      <3>2. IsFiniteSet(U) /\ IsFiniteSet(U \ {x})
        BY FS_Subset
      <3>3. SumOf(f, U) = f[x] + SumOf(f, U \ {x}) /\ SumOf(g, U) = g[x] + SumOf(g, U \ {x})
        BY <1>0, <3>1, <3>2, SumAdd
      <3>4. SumOf(f, U \ {x}) \in Int /\ f[x] \in Int
        BY <3>1, <3>2, SumAdd
      <3>5. SumOf(g, U \ {x}) = c * SumOf(f, U \ {x}) /\ g[x] = c * f[x]
        BY <1>1, <3>1
      <3>6. \A a \in Int, b \in Int : c * (a + b) = c * a + c * b
        OBVIOUS
      <3>7. SumOf(g, U) = c * SumOf(f, U)
        BY <3>3, <3>4, <3>5, <3>6
      <3>8. QED
        BY <3>7
    <2>3. QED
      BY <2>1, <2>2
  <1>2. \A U \in SUBSET S : U \in T
    <2> HIDE DEF T
    <2> QED BY <1>1, FiniteInduction
  <1>3. QED
    BY <1>2

\* The sum of a set of numbers.
LEMMA SumSetIs ==
  ASSUME NEW S, IsFiniteSet(S), S \subseteq Int
  PROVE  SumSet(S) = SumOf([x \in S |-> x], S)
  <1> DEFINE f == [x \in S |-> x]
             Step(it) == [s \in SUBSET S |->
                            IF s = {} THEN 0
                            ELSE (CHOOSE x \in s : TRUE) + it[s \ {CHOOSE x \in s : TRUE}]]
             iter == CHOOSE it : it = Step(it)
  <1>1. SumSet(S) = iter[S]
    BY DEF SumSet, FoldSet, MapThenFoldSet
  <1>2. PICK G \in [SUBSET S -> Int] : Additive(G, f, S)
    BY AdditiveExists
  <1>3. \A s \in SUBSET S : s # {} => (CHOOSE x \in s : TRUE) \in s
    OBVIOUS
  <1>4. [s \in SUBSET S |-> G[s]] = Step([s \in SUBSET S |-> G[s]])
    BY <1>2, <1>3 DEF Additive
  <1>5. iter = Step(iter)
    BY <1>4
  <1> DEFINE T == {s \in SUBSET S : iter[s] = G[s]}
  <1>6. ASSUME NEW s \in SUBSET S, \A x \in s : s \ {x} \in T PROVE s \in T
    <2>1. CASE s = {}
      BY <1>2, <1>5, <2>1 DEF Additive
    <2>2. CASE s # {}
      <3> DEFINE c == CHOOSE x \in s : TRUE
      <3>1. c \in s
        BY <2>2
      <3>2. iter[s] = c + iter[s \ {c}]
        BY <1>5, <2>2
      <3>3. iter[s \ {c}] = G[s \ {c}]
        BY <1>6, <3>1
      <3>4. G[s] = c + G[s \ {c}]
        BY <1>2, <3>1 DEF Additive
      <3>5. QED
        BY <3>2, <3>3, <3>4
    <2>3. QED
      BY <2>1, <2>2
  <1>7. \A s \in SUBSET S : s \in T
    <2> HIDE DEF T
    <2> QED BY <1>6, FiniteInduction
  <1>8. SumOf(f, S) = G[S]
    <2>1. S \in SUBSET S /\ \A x \in S : f[x] \in Int
      OBVIOUS
    <2> HIDE DEF f
    <2>2. \A U \in SUBSET S : SumOf(f, U) = G[U]
      BY <1>2, <2>1, SumIs
    <2>3. QED
      BY <2>1, <2>2
  <1>9. QED
    BY <1>1, <1>7, <1>8

\* Raising every value by c raises the sum by c for every element.
LEMMA SumRaised ==
  ASSUME NEW S, IsFiniteSet(S), NEW f, NEW g, NEW c \in Int,
         \A x \in S : f[x] \in Int /\ g[x] = f[x] + c
  PROVE  SumOf(g, S) = SumOf(f, S) + Cardinality(S) * c
  <1>0. \A x \in S : g[x] \in Int
    OBVIOUS
  <1> DEFINE T == {U \in SUBSET S : SumOf(g, U) = SumOf(f, U) + Cardinality(U) * c}
  <1>1. ASSUME NEW U \in SUBSET S, \A x \in U : U \ {x} \in T PROVE U \in T
    <2>1. CASE U = {}
      <3>1. 0 + 0 * c = 0
        OBVIOUS
      <3>2. Cardinality({}) = 0
        BY FS_EmptySet
      <3>3. QED
        BY <2>1, <3>1, <3>2, SumEmpty
    <2>2. CASE U # {}
      <3>1. PICK x \in U : TRUE
        BY <2>2
      <3>2. IsFiniteSet(U) /\ IsFiniteSet(U \ {x})
        BY FS_Subset
      <3>3. SumOf(f, U) = f[x] + SumOf(f, U \ {x}) /\ SumOf(g, U) = g[x] + SumOf(g, U \ {x})
        BY <1>0, <3>1, <3>2, SumAdd
      <3>4. SumOf(f, U \ {x}) \in Int /\ f[x] \in Int
        BY <3>1, <3>2, SumAdd
      <3>5. Cardinality(U) \in Nat /\ Cardinality(U \ {x}) = Cardinality(U) - 1
        BY <3>1, <3>2, FS_RemoveElement, FS_CardinalityType
      <3>6. /\ SumOf(g, U \ {x}) = SumOf(f, U \ {x}) + (Cardinality(U) - 1) * c
            /\ g[x] = f[x] + c
        BY <1>1, <3>1, <3>5
      <3>7. (Cardinality(U) - 1) * c = Cardinality(U) * c - c /\ Cardinality(U) * c \in Int
        <4>1. \A n \in Int : (n - 1) * c = n * c - c /\ n * c \in Int
          OBVIOUS
        <4>2. Cardinality(U) \in Int
          BY <3>5
        <4>3. QED
          BY <4>1, <4>2, Zenon
      <3>8. SumOf(g, U) = SumOf(f, U) + Cardinality(U) * c
        BY <3>3, <3>4, <3>6, <3>7
      <3>9. QED
        BY <3>8
    <2>3. QED
      BY <2>1, <2>2
  <1>2. \A U \in SUBSET S : U \in T
    <2> HIDE DEF T
    <2> QED BY <1>1, FiniteInduction
  <1>3. QED
    BY <1>2
=============================================================================
