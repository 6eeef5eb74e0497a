---------------------------- MODULE SumTheorems -----------------------------
(***************************************************************************)
(* Sums of a quantity over a finite set of rows, the form in which the     *)
(* repositories compute what is covered, ordered, shipped, received or     *)
(* committed: SumFunctionOnSet(f, S) of the community module Functions.    *)
(*                                                                         *)
(* The sum is defined by recursion on the set, and no prover can use an    *)
(* induction rule that takes a predicate as its parameter.  Every lemma    *)
(* below looks instead for a smallest subset it fails on (SmallestSubset)  *)
(* and takes one element away from it.                                     *)
(***************************************************************************)
EXTENDS Functions, FiniteSets, FiniteSetTheorems, TLAPS

\* The element a fold takes out of a set first.
SomeOf(s) == CHOOSE x \in s : TRUE

\* g satisfies on the subsets of S the equation a sum is defined by.
Solves(g, f, S) ==
  g = [s \in SUBSET S |-> IF s = {} THEN 0 ELSE f[SomeOf(s)] + g[s \ {SomeOf(s)}]]

\* A sum is the value at S of the function the recursion chooses.
LEMMA Unfold ==
  ASSUME NEW f, NEW S
  PROVE  SumFunctionOnSet(f, S) = (CHOOSE g : Solves(g, f, S))[S]
BY Zenon DEF SumFunctionOnSet, FoldFunctionOnSet, MapThenFoldSet, Solves, SomeOf

\* Among the subsets of a finite set that have a property, one has no proper
\* subset with it.
LEMMA SmallestSubset ==
  ASSUME NEW S, IsFiniteSet(S), NEW B, B \subseteq SUBSET S, B # {}
  PROVE  \E T \in B : \A U \in SUBSET T : U # T => U \notin B
<1>1. IsWellFoundedOn(StrictSubsetOrdering(S), SUBSET S)
  BY FS_StrictSubsetOrderingWellFounded, FS_FiniteSubsetsOfFinite
<1>2. PICK T \in B : \A U \in B : ~ (<<U, T>> \in StrictSubsetOrdering(S))
  BY <1>1, WFMin
<1> QED  BY <1>2 DEF StrictSubsetOrdering

\* What a fold takes out of a set is in the set.
LEMMA SomeOfIn ==
  ASSUME NEW s, s # {}
  PROVE  SomeOf(s) \in s
BY Zenon DEF SomeOf

\* A solution on a set is, restricted, the solution on a subset.
LEMMA SolvesRestricted ==
  ASSUME NEW f, NEW S, NEW T \in SUBSET S, NEW g, Solves(g, f, S)
  PROVE  Solves([s \in SUBSET T |-> g[s]], f, T)
<1> DEFINE h == [s \in SUBSET T |-> g[s]]
           eq(k, s) == IF s = {} THEN 0 ELSE f[SomeOf(s)] + k[s \ {SomeOf(s)}]
<1>1. \A s \in SUBSET T : g[s] = eq(g, s)
  BY DEF Solves
<1>2. \A s \in SUBSET T : s \ {SomeOf(s)} \in SUBSET T
  OBVIOUS
<1>3. \A s \in SUBSET T : eq(h, s) = eq(g, s)
  BY <1>2
<1>4. h = [s \in SUBSET T |-> eq(h, s)]
  BY <1>1, <1>3
<1> QED  BY <1>4 DEF Solves

\* There is at most one solution.
LEMMA SolvesUnique ==
  ASSUME NEW f, NEW S, IsFiniteSet(S), NEW g, NEW h, Solves(g, f, S), Solves(h, f, S)
  PROVE  g = h
<1> DEFINE B == {T \in SUBSET S : g[T] # h[T]}
<1>1. SUFFICES B = {}
  <2>1. \A T \in SUBSET S : g[T] = h[T]
    BY <1>1
  <2>2. g = [s \in SUBSET S |-> g[s]] /\ h = [s \in SUBSET S |-> h[s]]
    BY DEF Solves
  <2> QED  BY <2>1, <2>2
<1>2. SUFFICES ASSUME B # {} PROVE FALSE
  OBVIOUS
<1>3. PICK T \in B : \A U \in SUBSET T : U # T => U \notin B
  <2> HIDE DEF B
  <2>1. B \subseteq SUBSET S
    BY DEF B
  <2> QED  BY <1>2, <2>1, SmallestSubset
<1> DEFINE V == T \ {SomeOf(T)}
<1>4. T # {}
  BY DEF Solves
<1>5. V \in SUBSET T /\ V # T
  BY <1>4, SomeOfIn
<1>6. g[V] = h[V]
  BY <1>3, <1>5
<1>7. g[T] = f[SomeOf(T)] + g[V] /\ h[T] = f[SomeOf(T)] + h[V]
  BY <1>4 DEF Solves
<1> QED  BY <1>6, <1>7

\* There is a solution: the solutions on the proper subsets agree where they
\* overlap, and together define the next one.
LEMMA SolutionExists ==
  ASSUME NEW f, NEW S, IsFiniteSet(S)
  PROVE  \E g : Solves(g, f, S)
<1> DEFINE B == {T \in SUBSET S : ~ \E g : Solves(g, f, T)}
<1>1. SUFFICES ASSUME B # {} PROVE FALSE
  OBVIOUS
<1>2. PICK T \in B : \A U \in SUBSET T : U # T => U \notin B
  <2> HIDE DEF B
  <2>1. B \subseteq SUBSET S
    BY DEF B
  <2> QED  BY <1>1, <2>1, SmallestSubset
<1>3. \A U \in SUBSET T : U # T => \E g : Solves(g, f, U)
  BY <1>2
<1> DEFINE G(U) == CHOOSE g : Solves(g, f, U)
           eq(k, s) == IF s = {} THEN 0 ELSE f[SomeOf(s)] + k[s \ {SomeOf(s)}]
           g == [s \in SUBSET T |->
                   IF s = {} THEN 0
                   ELSE f[SomeOf(s)] + G(s \ {SomeOf(s)})[s \ {SomeOf(s)}]]
<1>4. ASSUME NEW U \in SUBSET T, U # T
      PROVE  Solves(G(U), f, U)
  BY <1>3, <1>4, Zenon
<1> HIDE DEF G
<1>5. ASSUME NEW U \in SUBSET T, U # T, NEW V \in SUBSET U
      PROVE  G(U)[V] = G(V)[V]
  <2> DEFINE h == [s \in SUBSET V |-> G(U)[s]]
  <2>1. Solves(h, f, V)
    BY <1>4, <1>5, SolvesRestricted
  <2>2. Solves(G(V), f, V)
    BY <1>4, <1>5
  <2>3. IsFiniteSet(V)
    BY FS_Subset
  <2>4. h = G(V)
    <3> HIDE DEF h
    <3> QED  BY <2>1, <2>2, <2>3, SolvesUnique
  <2> QED  BY <2>4
<1>6. ASSUME NEW U \in SUBSET T, U # T
      PROVE  G(U)[U] = g[U]
  <2>1. G(U)[U] = eq(G(U), U)
    BY <1>4, <1>6 DEF Solves
  <2>2. CASE U = {}
    BY <2>1, <2>2
  <2>3. CASE U # {}
    <3> DEFINE V == U \ {SomeOf(U)}
    <3>1. V \in SUBSET U
      OBVIOUS
    <3>2. G(U)[V] = G(V)[V]
      BY <1>5, <1>6, <3>1
    <3>3. G(U)[U] = f[SomeOf(U)] + G(U)[V]
      BY <2>1, <2>3
    <3>4. g[U] = f[SomeOf(U)] + G(V)[V]
      BY <2>3
    <3> QED  BY <3>2, <3>3, <3>4
  <2> QED  BY <2>2, <2>3
<1>7. ASSUME NEW s \in SUBSET T
      PROVE  g[s] = eq(g, s)
  <2>1. CASE s = {}
    BY <2>1
  <2>2. CASE s # {}
    <3> DEFINE V == s \ {SomeOf(s)}
    <3>1. V \in SUBSET T /\ V # T
      BY <2>2, SomeOfIn
    <3>2. G(V)[V] = g[V]
      BY <1>6, <3>1
    <3>3. g[s] = f[SomeOf(s)] + G(V)[V]
      BY <2>2
    <3> QED  BY <2>2, <3>2, <3>3
  <2> QED  BY <2>1, <2>2
<1>8. g = [s \in SUBSET T |-> eq(g, s)]
  <2> DEFINE k == [s \in SUBSET T |-> eq(g, s)]
  <2>1. \A s \in SUBSET T : g[s] = k[s]
    BY <1>7
  <2>2. DOMAIN g = SUBSET T /\ DOMAIN k = SUBSET T /\ k = [s \in SUBSET T |-> k[s]]
        /\ g = [s \in SUBSET T |-> g[s]]
    OBVIOUS
  <2> HIDE DEF g, k
  <2>3. g = k
    BY <2>1, <2>2
  <2> QED  BY <2>3 DEF k
<1>9. Solves(g, f, T)
  <2> HIDE DEF g
  <2> QED  BY <1>8 DEF Solves
<1> QED  BY <1>2, <1>9

\* Nothing sums up to 0.
LEMMA SumOfNone == ASSUME NEW f PROVE SumFunctionOnSet(f, {}) = 0
<1> DEFINE g == CHOOSE g : Solves(g, f, {})
<1>1. IsFiniteSet({})
  BY FS_EmptySet
<1>2. Solves(g, f, {})
  BY <1>1, SolutionExists, Zenon
<1> HIDE DEF g
<1>3. g[{}] = 0
  BY <1>2 DEF Solves
<1> QED  BY <1>3, Unfold DEF g

\* The sum takes the elements out one by one.
LEMMA SumOfSome ==
  ASSUME NEW f, NEW S, IsFiniteSet(S), S # {}
  PROVE  SumFunctionOnSet(f, S) = f[SomeOf(S)] + SumFunctionOnSet(f, S \ {SomeOf(S)})
<1> DEFINE G(U) == CHOOSE g : Solves(g, f, U)
           V == S \ {SomeOf(S)}
           h == [s \in SUBSET V |-> G(S)[s]]
<1>1. IsFiniteSet(V)
  BY FS_RemoveElement
<1>2. Solves(G(S), f, S)
  BY SolutionExists, Zenon
<1>3. Solves(G(V), f, V)
  <2> HIDE DEF V
  <2> QED  BY <1>1, SolutionExists, Zenon
<1>4. SumFunctionOnSet(f, S) = G(S)[S]
  BY Unfold
<1>5. SumFunctionOnSet(f, V) = G(V)[V]
  <2> HIDE DEF V
  <2> QED BY Unfold
<1> HIDE DEF G
<1>6. h = G(V)
  <2>1. Solves(h, f, V)
    BY <1>2, SolvesRestricted
  <2> HIDE DEF h, V
  <2> QED  BY <1>1, <1>3, <2>1, SolvesUnique
<1>7. G(S)[S] = f[SomeOf(S)] + G(S)[V]
  BY <1>2 DEF Solves
<1>8. G(S)[V] = G(V)[V]
  BY <1>6
<1> QED  BY <1>4, <1>5, <1>7, <1>8

\* A sum of integers is an integer.
LEMMA SumType ==
  ASSUME NEW f, NEW S, IsFiniteSet(S), \A x \in S : f[x] \in Int
  PROVE  SumFunctionOnSet(f, S) \in Int
<1> DEFINE B == {T \in SUBSET S : SumFunctionOnSet(f, T) \notin Int}
<1>1. SUFFICES ASSUME B # {} PROVE FALSE
  OBVIOUS
<1>2. PICK T \in B : \A U \in SUBSET T : U # T => U \notin B
  <2> HIDE DEF B
  <2>1. B \subseteq SUBSET S
    BY DEF B
  <2> QED  BY <1>1, <2>1, SmallestSubset
<1>3. IsFiniteSet(T)
  BY FS_Subset
<1>4. T # {}
  BY SumOfNone
<1>5. SomeOf(T) \in T
  BY <1>4, SomeOfIn
<1>6. SumFunctionOnSet(f, T \ {SomeOf(T)}) \in Int
  BY <1>2, <1>5
<1> QED  BY <1>3, <1>4, <1>5, <1>6, SumOfSome

\* Any element may be taken out first.
LEMMA SumWithout ==
  ASSUME NEW f, NEW S, IsFiniteSet(S), \A x \in S : f[x] \in Int, NEW x \in S
  PROVE  SumFunctionOnSet(f, S) = f[x] + SumFunctionOnSet(f, S \ {x})
<1> DEFINE Sum(T) == SumFunctionOnSet(f, T)
           B == {T \in SUBSET S : \E y \in T : Sum(T) # f[y] + Sum(T \ {y})}
<1>1. SUFFICES ASSUME B # {} PROVE FALSE
  OBVIOUS
<1>2. PICK T \in B : \A U \in SUBSET T : U # T => U \notin B
  <2> HIDE DEF B
  <2>1. B \subseteq SUBSET S
    BY DEF B
  <2> QED  BY <1>1, <2>1, SmallestSubset
<1>3. PICK y \in T : Sum(T) # f[y] + Sum(T \ {y})
  OBVIOUS
<1> DEFINE z == SomeOf(T)
<1>4. ASSUME NEW U \in SUBSET T
      PROVE  IsFiniteSet(U) /\ Sum(U) \in Int
  <2>1. IsFiniteSet(U) /\ \A u \in U : f[u] \in Int
    BY FS_Subset
  <2> QED  BY <2>1, SumType
<1>5. z \in T /\ f[z] \in Int /\ f[y] \in Int
  BY SomeOfIn
<1>6. Sum(T) = f[z] + Sum(T \ {z})
  BY <1>4, SumOfSome
<1>7. y # z
  BY <1>3, <1>6
<1>8. Sum(T \ {z}) = f[y] + Sum((T \ {z}) \ {y})
  BY <1>2, <1>5, <1>7
<1>9. Sum(T \ {y}) = f[z] + Sum((T \ {y}) \ {z})
  BY <1>2, <1>5, <1>7
<1> DEFINE a == Sum(T)  b == Sum(T \ {z})  c == Sum(T \ {y})  d == Sum((T \ {z}) \ {y})
<1>10. (T \ {y}) \ {z} = (T \ {z}) \ {y}
  OBVIOUS
<1>11. a = f[z] + b /\ b = f[y] + d /\ c = f[z] + d /\ a # f[y] + c
  BY <1>3, <1>6, <1>8, <1>9, <1>10
<1>12. d \in Int
  BY <1>4
<1> HIDE DEF a, b, c, d, z
<1> QED  BY <1>5, <1>11, <1>12

\* A new element adds its value.
LEMMA SumWith ==
  ASSUME NEW f, NEW S, IsFiniteSet(S), \A x \in S : f[x] \in Int, NEW y, y \notin S,
         f[y] \in Int
  PROVE  SumFunctionOnSet(f, S \cup {y}) = SumFunctionOnSet(f, S) + f[y]
<1> DEFINE T == S \cup {y}
<1>1. IsFiniteSet(T) /\ (\A x \in T : f[x] \in Int) /\ y \in T /\ T \ {y} = S
  BY FS_AddElement
<1>2. SumFunctionOnSet(f, T) = f[y] + SumFunctionOnSet(f, T \ {y})
  <2> HIDE DEF T
  <2> QED  BY <1>1, SumWithout
<1> DEFINE total == SumFunctionOnSet(f, T)
           part == SumFunctionOnSet(f, S)
<1>3. part \in Int
  BY SumType
<1>4. total = f[y] + part
  BY <1>1, <1>2
<1>5. total = part + f[y]
  <2> HIDE DEF total, part
  <2> QED  BY <1>3, <1>4
<1> QED  BY <1>5

\* What is smaller row by row sums up to less.
LEMMA SumAtMost ==
  ASSUME NEW f, NEW g, NEW S, IsFiniteSet(S), \A x \in S : f[x] \in Int /\ g[x] \in Int,
         \A x \in S : f[x] <= g[x]
  PROVE  SumFunctionOnSet(f, S) <= SumFunctionOnSet(g, S)
<1> DEFINE B == {T \in SUBSET S : ~ (SumFunctionOnSet(f, T) <= SumFunctionOnSet(g, T))}
<1>1. SUFFICES ASSUME B # {} PROVE FALSE
  OBVIOUS
<1>2. PICK T \in B : \A U \in SUBSET T : U # T => U \notin B
  <2> HIDE DEF B
  <2>1. B \subseteq SUBSET S
    BY DEF B
  <2> QED  BY <1>1, <2>1, SmallestSubset
<1>3. IsFiniteSet(T)
  BY FS_Subset
<1>4. T # {}
  BY SumOfNone
<1> DEFINE z == SomeOf(T)
           V == T \ {z}
<1>5. z \in T /\ f[z] \in Int /\ g[z] \in Int /\ f[z] <= g[z]
  BY <1>4, SomeOfIn
<1>6. SumFunctionOnSet(f, V) <= SumFunctionOnSet(g, V)
  BY <1>2, <1>5
<1>7. SumFunctionOnSet(f, V) \in Int /\ SumFunctionOnSet(g, V) \in Int
  <2>1. IsFiniteSet(V) /\ (\A x \in V : f[x] \in Int /\ g[x] \in Int)
    BY FS_Subset
  <2> QED  BY <2>1, SumType
<1>8. /\ SumFunctionOnSet(f, T) = f[z] + SumFunctionOnSet(f, V)
      /\ SumFunctionOnSet(g, T) = g[z] + SumFunctionOnSet(g, V)
  BY <1>3, <1>4, SumOfSome
<1>9. ~ (SumFunctionOnSet(f, T) <= SumFunctionOnSet(g, T))
  BY <1>2
<1> HIDE DEF z, V
<1> QED  BY <1>5, <1>6, <1>7, <1>8, <1>9

\* The sum depends on the values in the set alone.
LEMMA SumSame ==
  ASSUME NEW f, NEW g, NEW S, IsFiniteSet(S), \A x \in S : f[x] = g[x]
  PROVE  SumFunctionOnSet(f, S) = SumFunctionOnSet(g, S)
<1> DEFINE B == {T \in SUBSET S : SumFunctionOnSet(f, T) # SumFunctionOnSet(g, T)}
<1>1. SUFFICES ASSUME B # {} PROVE FALSE
  OBVIOUS
<1>2. PICK T \in B : \A U \in SUBSET T : U # T => U \notin B
  <2> HIDE DEF B
  <2>1. B \subseteq SUBSET S
    BY DEF B
  <2> QED  BY <1>1, <2>1, SmallestSubset
<1>3. IsFiniteSet(T)
  BY FS_Subset
<1>4. T # {}
  BY SumOfNone
<1>5. SomeOf(T) \in T
  BY <1>4, SomeOfIn
<1>6. SumFunctionOnSet(f, T \ {SomeOf(T)}) = SumFunctionOnSet(g, T \ {SomeOf(T)})
  BY <1>2, <1>5
<1> QED  BY <1>3, <1>4, <1>5, <1>6, SumOfSome

\* A sum of natural numbers is one.
LEMMA SumOfNat ==
  ASSUME NEW f, NEW S, IsFiniteSet(S), \A x \in S : f[x] \in Nat
  PROVE  SumFunctionOnSet(f, S) \in Nat
<1> DEFINE B == {T \in SUBSET S : SumFunctionOnSet(f, T) \notin Nat}
<1>1. SUFFICES ASSUME B # {} PROVE FALSE
  OBVIOUS
<1>2. PICK T \in B : \A U \in SUBSET T : U # T => U \notin B
  <2> HIDE DEF B
  <2>1. B \subseteq SUBSET S
    BY DEF B
  <2> QED  BY <1>1, <2>1, SmallestSubset
<1>3. IsFiniteSet(T)
  BY FS_Subset
<1>4. T # {}
  BY SumOfNone
<1>5. SomeOf(T) \in T
  BY <1>4, SomeOfIn
<1>6. SumFunctionOnSet(f, T \ {SomeOf(T)}) \in Nat
  BY <1>2, <1>5
<1> QED  BY <1>3, <1>4, <1>5, <1>6, SumOfSome

\* Part of a set of natural numbers sums up to no more than the whole.
LEMMA SumOfPart ==
  ASSUME NEW f, NEW S, IsFiniteSet(S), \A x \in S : f[x] \in Nat, NEW R \in SUBSET S
  PROVE  SumFunctionOnSet(f, R) <= SumFunctionOnSet(f, S)
<1> DEFINE B == {T \in SUBSET S : R \subseteq T
                                  /\ ~ (SumFunctionOnSet(f, R) <= SumFunctionOnSet(f, T))}
<1>1. SUFFICES ASSUME B # {} PROVE FALSE
  OBVIOUS
<1>2. PICK T \in B : \A U \in SUBSET T : U # T => U \notin B
  <2> HIDE DEF B
  <2>1. B \subseteq SUBSET S
    BY DEF B
  <2> QED  BY <1>1, <2>1, SmallestSubset
<1>3. ASSUME NEW U \in SUBSET S
      PROVE  IsFiniteSet(U) /\ SumFunctionOnSet(f, U) \in Nat
             /\ \A x \in U : f[x] \in Int
  <2>1. IsFiniteSet(U) /\ \A x \in U : f[x] \in Nat
    BY FS_Subset
  <2> QED  BY <2>1, SumOfNat
<1>4. T # R
  BY <1>3
<1>5. PICK x \in T : x \notin R
  BY <1>4
<1>6. SumFunctionOnSet(f, T) = f[x] + SumFunctionOnSet(f, T \ {x})
  BY <1>3, SumWithout
<1>7. SumFunctionOnSet(f, R) <= SumFunctionOnSet(f, T \ {x})
  BY <1>2, <1>5
<1>8. /\ f[x] \in Nat
      /\ SumFunctionOnSet(f, R) \in Nat
      /\ SumFunctionOnSet(f, T \ {x}) \in Nat
      /\ SumFunctionOnSet(f, T) \in Nat
  BY <1>3
<1>9. ~ (SumFunctionOnSet(f, R) <= SumFunctionOnSet(f, T))
  BY <1>2
<1> HIDE DEF B
<1> QED  BY <1>6, <1>7, <1>8, <1>9

\* One row that changes moves the sum by what it changes.
LEMMA SumChanged ==
  ASSUME NEW f, NEW g, NEW S, IsFiniteSet(S), \A x \in S : f[x] \in Int /\ g[x] \in Int,
         NEW y \in S, \A x \in S \ {y} : f[x] = g[x]
  PROVE  SumFunctionOnSet(g, S) = SumFunctionOnSet(f, S) + (g[y] - f[y])
<1> DEFINE T == S \ {y}
           a == SumFunctionOnSet(f, T)
           b == SumFunctionOnSet(g, T)
           c == SumFunctionOnSet(f, S)
           d == SumFunctionOnSet(g, S)
<1>1. IsFiniteSet(T) /\ (\A x \in T : f[x] \in Int) /\ (\A x \in T : f[x] = g[x])
  BY FS_RemoveElement
<1>2. a = b
  <2> HIDE DEF T
  <2> QED  BY <1>1, SumSame
<1>3. a \in Int
  <2> HIDE DEF T
  <2> QED  BY <1>1, SumType
<1>4. c = f[y] + a /\ d = g[y] + b
  <2>1. \A x \in S : f[x] \in Int
    OBVIOUS
  <2>2. \A x \in S : g[x] \in Int
    OBVIOUS
  <2> QED  BY <2>1, <2>2, SumWithout
<1>5. d = c + (g[y] - f[y])
  <2>1. f[y] \in Int /\ g[y] \in Int
    OBVIOUS
  <2> HIDE DEF a, b, c, d
  <2> QED  BY <1>2, <1>3, <1>4, <2>1
<1> QED  BY <1>5

\* Rows that count for nothing may be left out.
LEMMA SumIgnoring ==
  ASSUME NEW f, NEW S, IsFiniteSet(S), \A x \in S : f[x] \in Int, NEW R \in SUBSET S,
         \A x \in S \ R : f[x] = 0
  PROVE  SumFunctionOnSet(f, R) = SumFunctionOnSet(f, S)
<1> DEFINE B == {T \in SUBSET S : R \subseteq T
                                  /\ SumFunctionOnSet(f, R) # SumFunctionOnSet(f, T)}
<1>1. SUFFICES ASSUME B # {} PROVE FALSE
  OBVIOUS
<1>2. PICK T \in B : \A U \in SUBSET T : U # T => U \notin B
  <2> HIDE DEF B
  <2>1. B \subseteq SUBSET S
    BY DEF B
  <2> QED  BY <1>1, <2>1, SmallestSubset
<1>3. PICK x \in T : x \notin R
  BY <1>2
<1>4. IsFiniteSet(T) /\ IsFiniteSet(T \ {x}) /\ \A y \in T : f[y] \in Int
  BY FS_Subset
<1>5. SumFunctionOnSet(f, T) = f[x] + SumFunctionOnSet(f, T \ {x})
  BY <1>4, SumWithout
<1>6. SumFunctionOnSet(f, T \ {x}) \in Int
  BY <1>4, SumType
<1>7. SumFunctionOnSet(f, R) = SumFunctionOnSet(f, T \ {x})
  BY <1>2, <1>3
<1>8. f[x] = 0
  BY <1>3
<1> QED  BY <1>2, <1>5, <1>6, <1>7, <1>8

\* Where one element adds to a sum that is a bound for the others.
LEMMA SumOneMore ==
  ASSUME NEW f, NEW g, NEW S, IsFiniteSet(S), \A x \in S : f[x] \in Int /\ g[x] \in Int,
         NEW y \in S, \A x \in S \ {y} : f[x] <= g[x], g[y] = 0
  PROVE  SumFunctionOnSet(f, S) <= SumFunctionOnSet(g, S) + f[y]
<1>1. /\ SumFunctionOnSet(f, S) = f[y] + SumFunctionOnSet(f, S \ {y})
      /\ SumFunctionOnSet(g, S) = g[y] + SumFunctionOnSet(g, S \ {y})
  BY SumWithout
<1>2. IsFiniteSet(S \ {y})
  BY FS_Subset
<1>3. SumFunctionOnSet(f, S \ {y}) <= SumFunctionOnSet(g, S \ {y})
  BY <1>2, SumAtMost
<1>4. /\ SumFunctionOnSet(f, S \ {y}) \in Int /\ SumFunctionOnSet(g, S \ {y}) \in Int
      /\ f[y] \in Int /\ g[y] = 0
  BY <1>2, SumType
<1> QED
  BY <1>1, <1>3, <1>4

\* Ones sum up to the number of rows.
LEMMA SumOfOnes ==
  ASSUME NEW f, NEW S, IsFiniteSet(S), \A x \in S : f[x] = 1
  PROVE  SumFunctionOnSet(f, S) = Cardinality(S)
<1> DEFINE B == {T \in SUBSET S : SumFunctionOnSet(f, T) # Cardinality(T)}
<1>1. SUFFICES ASSUME B # {} PROVE FALSE
  OBVIOUS
<1>2. PICK T \in B : \A U \in SUBSET T : U # T => U \notin B
  <2> HIDE DEF B
  <2>1. B \subseteq SUBSET S
    BY DEF B
  <2> QED  BY <1>1, <2>1, SmallestSubset
<1>3. IsFiniteSet(T)
  BY FS_Subset
<1>4. T # {}
  BY SumOfNone, FS_EmptySet
<1>5. SomeOf(T) \in T
  BY <1>4, SomeOfIn
<1>6. SumFunctionOnSet(f, T \ {SomeOf(T)}) = Cardinality(T \ {SomeOf(T)})
  BY <1>2, <1>5
<1>7. Cardinality(T \ {SomeOf(T)}) = Cardinality(T) - 1 /\ Cardinality(T) \in Nat
  BY <1>3, <1>5, FS_RemoveElement, FS_CardinalityType
<1>8. SumFunctionOnSet(f, T) = f[SomeOf(T)] + SumFunctionOnSet(f, T \ {SomeOf(T)})
  BY <1>3, <1>4, SumOfSome
<1> QED  BY <1>2, <1>5, <1>6, <1>7, <1>8

\* What the rows of one key add up to, for each key.
ByKey(f, S, key, K) == [k \in K |-> SumFunctionOnSet(f, {x \in S : key[x] = k})]

\* Rows may be added up key by key.
LEMMA SumByKey ==
  ASSUME NEW f, NEW S, IsFiniteSet(S), \A x \in S : f[x] \in Int,
         NEW key, NEW K, IsFiniteSet(K), \A x \in S : key[x] \in K
  PROVE  SumFunctionOnSet(ByKey(f, S, key, K), K) = SumFunctionOnSet(f, S)
<1> DEFINE Keyed(T) == SumFunctionOnSet(ByKey(f, T, key, K), K)
           B == {T \in SUBSET S : Keyed(T) # SumFunctionOnSet(f, T)}
<1>1. SUFFICES ASSUME B # {} PROVE FALSE
  OBVIOUS
<1>2. PICK T \in B : \A U \in SUBSET T : U # T => U \notin B
  <2> HIDE DEF B
  <2>1. B \subseteq SUBSET S
    BY DEF B
  <2> QED  BY <1>1, <2>1, SmallestSubset
<1>3. IsFiniteSet(T) /\ T \subseteq S /\ \A x \in T : f[x] \in Int /\ key[x] \in K
  BY FS_Subset
<1>4. ASSUME NEW U, U \subseteq T, NEW k \in K
      PROVE  ByKey(f, U, key, K)[k] \in Int
  <2> DEFINE R == {x \in U : key[x] = k}
  <2>1. IsFiniteSet(R) /\ \A x \in R : f[x] \in Int
    BY <1>3, <1>4, FS_Subset
  <2>2. SumFunctionOnSet(f, R) \in Int
    <3> HIDE DEF R
    <3> QED  BY <2>1, SumType
  <2> QED  BY <2>2 DEF ByKey
<1>5. T # {}
  <2>1. SUFFICES ASSUME T = {} PROVE FALSE
    OBVIOUS
  <2>2. \A k \in K : {x \in T : key[x] = k} = {}
    BY <2>1
  <2>3. \A k \in K : ByKey(f, T, key, K)[k] = 0
    BY <2>2, SumOfNone DEF ByKey
  <2>4. Keyed(T) = SumFunctionOnSet(ByKey(f, T, key, K), {})
    BY <2>3, SumIgnoring
  <2> QED  BY <1>2, <2>1, <2>4, SumOfNone
<1>6. PICK y : y \in T
  BY <1>5
<1> DEFINE U == T \ {y}
           k == key[y]
           was == ByKey(f, U, key, K)
           is == ByKey(f, T, key, K)
<1>7. Keyed(U) = SumFunctionOnSet(f, U)
  BY <1>2, <1>6
<1>8. SumFunctionOnSet(f, T) = f[y] + SumFunctionOnSet(f, U)
  BY <1>3, <1>6, SumWithout
<1>9. \A j \in K \ {k} : was[j] = is[j]
  <2>1. ASSUME NEW j \in K \ {k}
        PROVE  {x \in U : key[x] = j} = {x \in T : key[x] = j}
    BY <1>6
  <2> QED  BY <2>1 DEF ByKey
<1>10. is[k] = f[y] + was[k]
  <2> DEFINE R == {x \in T : key[x] = k}
  <2>1. {x \in U : key[x] = k} = R \ {y} /\ y \in R
    BY <1>6
  <2>2. IsFiniteSet(R) /\ \A x \in R : f[x] \in Int
    BY <1>3, FS_Subset
  <2>3. SumFunctionOnSet(f, R) = f[y] + SumFunctionOnSet(f, R \ {y})
    <3> HIDE DEF R, U
    <3> QED  BY <2>1, <2>2, SumWithout
  <2>4. k \in K
    BY <1>3, <1>6
  <2> QED  BY <2>1, <2>3, <2>4 DEF ByKey
<1>11. Keyed(T) = Keyed(U) + (is[k] - was[k])
  <2>1. \A j \in K : was[j] \in Int /\ is[j] \in Int
    BY <1>4
  <2>2. k \in K
    BY <1>3, <1>6
  <2> HIDE DEF was, is, k
  <2>3. SumFunctionOnSet(is, K) = SumFunctionOnSet(was, K) + (is[k] - was[k])
    BY <1>9, <2>1, <2>2, SumChanged
  <2> QED  BY <2>3 DEF was, is
<1>12. f[y] \in Int /\ was[k] \in Int /\ SumFunctionOnSet(f, U) \in Int
  <2>1. IsFiniteSet(U) /\ \A x \in U : f[x] \in Int
    BY <1>3, FS_Subset
  <2>2. SumFunctionOnSet(f, U) \in Int
    <3> HIDE DEF U
    <3> QED  BY <2>1, SumType
  <2> QED  BY <1>3, <1>4, <1>6, <2>2
<1>13. Keyed(T) # SumFunctionOnSet(f, T)
  BY <1>2
<1> HIDE DEF Keyed, U, k, was, is
<1> QED  BY <1>7, <1>8, <1>10, <1>11, <1>12, <1>13

\* Rows listed without repetition add up to no more than all of them.
LEMMA SumOfList ==
  ASSUME NEW f, NEW S, IsFiniteSet(S), \A x \in S : f[x] \in Nat,
         NEW J, IsFiniteSet(J), NEW list \in [J -> S],
         \A j, k \in J : list[j] = list[k] => j = k
  PROVE  SumFunctionOnSet([j \in J |-> f[list[j]]], J) <= SumFunctionOnSet(f, S)
<1> DEFINE g == [j \in J |-> f[list[j]]]
           keyed == ByKey(g, J, list, S)
<1>1. \A j \in J : g[j] \in Int /\ list[j] \in S
  OBVIOUS
<1>2. SumFunctionOnSet(keyed, S) = SumFunctionOnSet(g, J)
  <2> HIDE DEF g
  <2> QED  BY <1>1, SumByKey
<1>3. ASSUME NEW x \in S PROVE keyed[x] \in Int /\ keyed[x] <= f[x]
  <2>1. keyed[x] = SumFunctionOnSet(g, {j \in J : list[j] = x})
    BY DEF ByKey
  <2>2. CASE \E j \in J : list[j] = x
    <3>1. PICK j \in J : list[j] = x
      BY <2>2
    <3>2. {k \in J : list[k] = x} = {} \cup {j} /\ j \notin {}
      BY <3>1
    <3>3. g[j] = f[x] /\ g[j] \in Int
      BY <3>1
    <3>4. SumFunctionOnSet(g, {} \cup {j}) = SumFunctionOnSet(g, {}) + g[j]
      <4> HIDE DEF g
      <4> QED  BY <3>2, <3>3, SumWith, FS_EmptySet
    <3>5. keyed[x] = SumFunctionOnSet(g, {} \cup {j})
      <4> HIDE DEF g, keyed
      <4> QED  BY <2>1, <3>2
    <3>6. SumFunctionOnSet(g, {}) = 0
      BY SumOfNone
    <3>7. f[x] \in Nat
      OBVIOUS
    <3> HIDE DEF g, keyed
    <3> QED  BY <3>3, <3>4, <3>5, <3>6, <3>7
  <2>3. CASE ~ \E j \in J : list[j] = x
    <3>1. {j \in J : list[j] = x} = {}
      BY <2>3
    <3> QED  BY <2>1, <3>1, SumOfNone
  <2> QED  BY <2>2, <2>3
<1>4. SumFunctionOnSet(keyed, S) <= SumFunctionOnSet(f, S)
  <2> HIDE DEF keyed
  <2> QED  BY <1>3, SumAtMost
<1> QED  BY <1>2, <1>4

\* Two quantities of every row may be added up together.
LEMMA SumAdded ==
  ASSUME NEW f, NEW g, NEW h, NEW S, IsFiniteSet(S),
         \A x \in S : f[x] \in Int /\ g[x] \in Int /\ h[x] = f[x] + g[x]
  PROVE  SumFunctionOnSet(h, S) = SumFunctionOnSet(f, S) + SumFunctionOnSet(g, S)
<1> DEFINE B == {T \in SUBSET S :
                   SumFunctionOnSet(h, T) # SumFunctionOnSet(f, T) + SumFunctionOnSet(g, T)}
<1>1. SUFFICES ASSUME B # {} PROVE FALSE
  OBVIOUS
<1>2. PICK T \in B : \A U \in SUBSET T : U # T => U \notin B
  <2> HIDE DEF B
  <2>1. B \subseteq SUBSET S
    BY DEF B
  <2> QED  BY <1>1, <2>1, SmallestSubset
<1>3. IsFiniteSet(T)
  BY FS_Subset
<1>4. T # {}
  <2>1. SUFFICES ASSUME T = {} PROVE FALSE
    OBVIOUS
  <2>2. /\ SumFunctionOnSet(f, {}) = 0 /\ SumFunctionOnSet(g, {}) = 0
        /\ SumFunctionOnSet(h, {}) = 0
    BY SumOfNone
  <2>3. SumFunctionOnSet(h, T) # SumFunctionOnSet(f, T) + SumFunctionOnSet(g, T)
    BY <1>2
  <2> HIDE DEF B
  <2>4. SumFunctionOnSet(h, {}) # SumFunctionOnSet(f, {}) + SumFunctionOnSet(g, {})
    BY <2>1, <2>3
  <2>5. 0 # 0 + 0
    BY <2>2, <2>4
  <2> QED  BY <2>5
<1> DEFINE z == SomeOf(T)
           V == T \ {z}
<1>5. z \in T /\ f[z] \in Int /\ g[z] \in Int /\ h[z] = f[z] + g[z]
  BY <1>4, SomeOfIn
<1>6. SumFunctionOnSet(h, V) = SumFunctionOnSet(f, V) + SumFunctionOnSet(g, V)
  BY <1>2, <1>5
<1>7. SumFunctionOnSet(f, V) \in Int /\ SumFunctionOnSet(g, V) \in Int
  <2>1. IsFiniteSet(V) /\ (\A x \in V : f[x] \in Int /\ g[x] \in Int)
    BY FS_Subset
  <2> QED  BY <2>1, SumType
<1>8. /\ SumFunctionOnSet(f, T) = f[z] + SumFunctionOnSet(f, V)
      /\ SumFunctionOnSet(g, T) = g[z] + SumFunctionOnSet(g, V)
      /\ SumFunctionOnSet(h, T) = h[z] + SumFunctionOnSet(h, V)
  BY <1>3, <1>4, SumOfSome
<1>9. SumFunctionOnSet(h, T) # SumFunctionOnSet(f, T) + SumFunctionOnSet(g, T)
  BY <1>2
<1> HIDE DEF z, V
<1> QED  BY <1>5, <1>6, <1>7, <1>8, <1>9

\* A table may be added up by its rows or by its columns.
LEMMA SumExchange ==
  ASSUME NEW A, IsFiniteSet(A), NEW B, IsFiniteSet(B),
         NEW h, \A a \in A, b \in B : h[a][b] \in Int
  PROVE  SumFunctionOnSet([a \in A |-> SumFunctionOnSet([b \in B |-> h[a][b]], B)], A)
         = SumFunctionOnSet([b \in B |-> SumFunctionOnSet([a \in A |-> h[a][b]], A)], B)
<1> DEFINE row(a) == [b \in B |-> h[a][b]]
           col(b) == [a \in A |-> h[a][b]]
           rows == [a \in A |-> SumFunctionOnSet(row(a), B)]
           cols(T) == [b \in B |-> SumFunctionOnSet(col(b), T)]
           Bad == {T \in SUBSET A : SumFunctionOnSet(rows, T) # SumFunctionOnSet(cols(T), B)}
<1>1. SUFFICES ASSUME Bad # {} PROVE FALSE
  <2>1. Bad = {} => SumFunctionOnSet(rows, A) = SumFunctionOnSet(cols(A), B)
    <3> HIDE DEF rows, cols
    <3> QED  OBVIOUS
  <2> QED  BY <2>1
<1>2. PICK T \in Bad : \A U \in SUBSET T : U # T => U \notin Bad
  <2> HIDE DEF Bad
  <2>1. Bad \subseteq SUBSET A
    BY DEF Bad
  <2> QED  BY <1>1, <2>1, SmallestSubset
<1>3. IsFiniteSet(T) /\ T \subseteq A
  BY FS_Subset
<1>4. /\ \A a \in A, b \in B : row(a)[b] = h[a][b] /\ col(b)[a] = h[a][b]
      /\ \A a \in A : rows[a] = SumFunctionOnSet(row(a), B)
      /\ \A U : \A b \in B : cols(U)[b] = SumFunctionOnSet(col(b), U)
  OBVIOUS
<1>5. SumFunctionOnSet(rows, T) # SumFunctionOnSet(cols(T), B)
  BY <1>2
<1>6. \A U \in SUBSET T : U # T => SumFunctionOnSet(rows, U) = SumFunctionOnSet(cols(U), B)
  <2> HIDE DEF rows, cols
  <2> QED  BY <1>2
<1> HIDE DEF row, col, rows, cols, Bad
<1>7. \A a \in A : rows[a] \in Int
  <2>1. TAKE a \in A
  <2>2. \A b \in B : row(a)[b] \in Int
    BY <1>4
  <2> QED  BY <1>4, <2>2, SumType
<1>8. \A U \in SUBSET T : \A b \in B : cols(U)[b] \in Int
  <2>1. TAKE U \in SUBSET T
  <2>2. TAKE b \in B
  <2>3. IsFiniteSet(U) /\ \A a \in U : col(b)[a] \in Int
    BY <1>3, <1>4, FS_Subset
  <2> QED  BY <1>4, <2>3, SumType
<1>9. T # {}
  <2>1. SUFFICES ASSUME T = {} PROVE FALSE
    OBVIOUS
  <2>2. \A b \in B : cols({})[b] = 0
    BY <1>4, SumOfNone
  <2>3. SumFunctionOnSet(cols({}), {}) = SumFunctionOnSet(cols({}), B)
    BY <2>2, SumIgnoring
  <2>4. SumFunctionOnSet(cols({}), {}) = 0 /\ SumFunctionOnSet(rows, {}) = 0
    BY SumOfNone
  <2> QED  BY <1>5, <2>1, <2>3, <2>4
<1>10. PICK y : y \in T
  BY <1>9
<1> DEFINE V == T \ {y}
<1>11. V \in SUBSET T /\ V # T /\ y \in A
  BY <1>3, <1>10
<1>12. SumFunctionOnSet(rows, T) = rows[y] + SumFunctionOnSet(rows, V)
  BY <1>3, <1>7, <1>10, SumWithout
<1>13. \A b \in B : cols(T)[b] = row(y)[b] + cols(V)[b]
  <2>1. TAKE b \in B
  <2>2. SumFunctionOnSet(col(b), T) = col(b)[y] + SumFunctionOnSet(col(b), V)
    <3>1. \A a \in T : col(b)[a] \in Int
      BY <1>3, <1>4
    <3> QED  BY <1>3, <1>10, <3>1, SumWithout
  <2> QED  BY <1>4, <1>11, <2>2
<1>14. SumFunctionOnSet(cols(T), B) = SumFunctionOnSet(row(y), B) + SumFunctionOnSet(cols(V), B)
  <2> DEFINE f == row(y)
             g == cols(V)
             k == cols(T)
  <2>1. \A b \in B : f[b] \in Int /\ g[b] \in Int /\ k[b] = f[b] + g[b]
    BY <1>4, <1>8, <1>11, <1>13
  <2> HIDE DEF f, g, k
  <2>2. SumFunctionOnSet(k, B) = SumFunctionOnSet(f, B) + SumFunctionOnSet(g, B)
    BY <2>1, SumAdded
  <2> QED  BY <2>2 DEF f, g, k
<1> QED  BY <1>4, <1>5, <1>6, <1>11, <1>12, <1>14

\* Of finitely many rows one has the greatest quantity.
LEMMA OneIsGreatest ==
  ASSUME NEW v, NEW S, IsFiniteSet(S), S # {}, \A x \in S : v[x] \in Int
  PROVE  \E z \in S : \A x \in S : v[x] <= v[z]
<1> DEFINE Top(T) == \E z \in T : \A x \in T : v[x] <= v[z]
           B == {T \in SUBSET S : T # {} /\ ~Top(T)}
<1>1. SUFFICES ASSUME B # {} PROVE FALSE
  <2>1. B = {} => Top(S)
    <3> HIDE DEF Top
    <3> QED  OBVIOUS
  <2> QED  BY <2>1
<1>2. PICK T \in B : \A U \in SUBSET T : U # T => U \notin B
  <2> HIDE DEF B
  <2>1. B \subseteq SUBSET S
    BY DEF B
  <2> QED  BY <1>1, <2>1, SmallestSubset
<1>3. PICK y : y \in T
  OBVIOUS
<1> DEFINE V == T \ {y}
<1>4. V = {} \/ Top(V)
  <2> HIDE DEF Top
  <2> QED  BY <1>2, <1>3
<1>5. CASE V = {}
  <2>1. \A x \in T : x = y
    BY <1>5
  <2> QED  BY <1>2, <1>3, <2>1
<1>6. CASE Top(V)
  <2>1. PICK z \in V : \A x \in V : v[x] <= v[z]
    BY <1>6
  <2>2. \A x \in T : v[x] \in Int
    OBVIOUS
  <2>3. CASE v[y] <= v[z]
    <3>1. \A x \in T : v[x] <= v[z]
      BY <2>1, <2>3
    <3> QED  BY <1>2, <2>1, <3>1
  <2>4. CASE ~(v[y] <= v[z])
    <3>1. \A x \in T : v[x] <= v[y]
      <4>1. TAKE x \in T
      <4>2. CASE x = y
        BY <2>2, <4>2
      <4>3. CASE x # y
        <5>1. v[x] <= v[z]
          BY <2>1, <4>3
        <5> QED  BY <1>3, <2>1, <2>2, <2>4, <5>1
      <4> QED  BY <4>2, <4>3
    <3> QED  BY <1>2, <1>3, <3>1
  <2> QED  BY <2>3, <2>4
<1> QED  BY <1>4, <1>5, <1>6

\* What finitely many rows say is finitely much.
LEMMA FiniteImage ==
  ASSUME NEW f, NEW S, IsFiniteSet(S)
  PROVE  IsFiniteSet({f[x] : x \in S})
<1> DEFINE T == {f[x] : x \in S}
           g == [x \in S |-> f[x]]
<1>1. g \in Surjection(S, T)
  BY DEF Surjection
<1> QED  BY <1>1, FS_Surjection

=============================================================================
