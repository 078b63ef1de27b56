---------------------------------- MODULE Sums ----------------------------------
(***************************************************************************)
(* Facts about the sum of a function over a finite set (SumFunctionOnSet   *)
(* and SumFunction of Functions): the empty sum, a sum with one term taken *)
(* out, and a sum of which one term changes.  The induction is by minimal  *)
(* counterexample: a non-empty set of finite sets has a least one.         *)
(***************************************************************************)
EXTENDS Integers, FiniteSets, Functions, FiniteSetTheorems,
        WellFoundedInduction, TLAPS

\* The recursion a sum is defined by, on a set D of sets.
Chosen(s) == CHOOSE x \in s : TRUE
IsSumOn(g, f, D) ==
    g = [s \in D |-> IF s = {} THEN 0 ELSE f[Chosen(s)] + g[s \ {Chosen(s)}]]
IsSum(g, f, S) == IsSumOn(g, f, SUBSET S)
Agree(f, g, S) == \A x \in S : f[x] = g[x]

\* The induction principle, over the subsets of a finite set.
LEMMA MinimalSubset ==
    ASSUME NEW S, IsFiniteSet(S), NEW C, C \subseteq SUBSET S, C # {}
    PROVE  \E T \in C : \A U \in C : U \subseteq T => U = T
<1>1. IsWellFoundedOn(StrictSubsetOrdering(S), FiniteSubsetsOf(S))
  BY FS_StrictSubsetOrderingWellFounded
<1>2. FiniteSubsetsOf(S) = SUBSET S
  BY FS_FiniteSubsetsOfFinite
<1>3. \E T \in C : \A U \in C : ~ (<<U, T>> \in StrictSubsetOrdering(S))
  BY <1>1, <1>2, WFMin
<1>4. QED
  BY <1>3 DEF StrictSubsetOrdering

\* The sets of at most n elements.
Small(S, n) == {s \in SUBSET S : Cardinality(s) <= n}

\* The induction principle for numbers.
LEMMA Least ==
    ASSUME NEW T, T \subseteq Nat, T # {}
    PROVE  \E n \in T : \A m \in T : n <= m
<1> DEFINE Lower == {ss \in Nat \X Nat : ss[1] < ss[2]}
<1>1. IsWellFoundedOn(Lower, Nat)
  BY NatLessThanWellFounded DEF OpToRel
<1> HIDE DEF Lower
<1>2. PICK n \in T : \A m \in T : <<m, n>> \notin Lower
  BY <1>1, WFMin
<1>3. ASSUME NEW m \in T PROVE n <= m
  <2>1. ~ (m < n)
    BY <1>2 DEF Lower
  <2>2. QED
    BY <2>1
<1>4. QED
  BY <1>3

LEMMA ChosenIsIn == ASSUME NEW s, s # {} PROVE Chosen(s) \in s
BY DEF Chosen

\* The recursion has a solution, built up by the size of the sets.
LEMMA SolutionExists ==
    ASSUME NEW f, NEW S, IsFiniteSet(S)
    PROVE  \E g : IsSum(g, f, S)
<1> DEFINE Missing == {n \in Nat : ~ \E g : IsSumOn(g, f, Small(S, n))}
<1>1. ASSUME NEW s \in SUBSET S
      PROVE  /\ IsFiniteSet(s) /\ Cardinality(s) \in Nat
             /\ Cardinality(s) <= 0 => s = {}
  BY FS_Subset, FS_CardinalityType, FS_EmptySet
<1>s. ASSUME NEW s \in SUBSET S, s # {}
      PROVE  /\ s \ {Chosen(s)} \in SUBSET S
             /\ Cardinality(s \ {Chosen(s)}) = Cardinality(s) - 1
  BY <1>1, <1>s, ChosenIsIn, FS_RemoveElement
<1>2. 0 \notin Missing
  <2> DEFINE g == [s \in Small(S, 0) |-> 0]
  <2>1. ASSUME NEW s \in Small(S, 0) PROVE s = {}
    <3>1. s \in SUBSET S /\ Cardinality(s) <= 0
      BY DEF Small
    <3>2. QED
      BY <3>1, <1>1
  <2>2. IsSumOn(g, f, Small(S, 0))
    BY <2>1 DEF IsSumOn
  <2>3. QED
    BY <2>2
<1>3. ASSUME NEW n \in Nat, n \notin Missing
      PROVE  n + 1 \notin Missing
  <2>1. PICK g : IsSumOn(g, f, Small(S, n))
    BY <1>3
  <2> DEFINE h == [s \in Small(S, n + 1) |->
                    IF s = {} THEN 0
                    ELSE f[Chosen(s)] + g[s \ {Chosen(s)}]]
  <2>2. ASSUME NEW s \in Small(S, n) PROVE h[s] = g[s]
    <3>1. s \in SUBSET S /\ Cardinality(s) <= n
      BY DEF Small
    <3>2. Cardinality(s) \in Nat
      BY <3>1, <1>1
    <3>3. s \in Small(S, n + 1)
      BY <3>1, <3>2 DEF Small
    <3>4. QED
      BY <2>1, <3>3 DEF IsSumOn
  <2>3. ASSUME NEW s \in Small(S, n + 1), s # {}
        PROVE  s \ {Chosen(s)} \in Small(S, n)
    <3>1. s \in SUBSET S /\ Cardinality(s) <= n + 1
      BY DEF Small
    <3>2. Cardinality(s) \in Nat
      BY <3>1, <1>1
    <3>3. QED
      BY <2>3, <3>1, <3>2, <1>s DEF Small
  <2>4. IsSumOn(h, f, Small(S, n + 1))
    BY <2>2, <2>3 DEF IsSumOn
  <2>5. QED
    BY <2>4
<1>4. Missing = {}
  <2>1. SUFFICES ASSUME Missing # {} PROVE FALSE
    OBVIOUS
  <2>2. PICK n \in Missing : \A m \in Missing : n <= m
    BY <2>1, Least
  <2>3. n \in Nat /\ n # 0
    BY <1>2
  <2>4. n - 1 \in Nat /\ n - 1 \notin Missing
    BY <2>2, <2>3
  <2>5. QED
    BY <1>3, <2>3, <2>4
<1>5. Small(S, Cardinality(S)) = SUBSET S
  BY FS_Subset DEF Small
<1>6. Cardinality(S) \in Nat
  BY FS_CardinalityType
<1>7. PICK g : IsSumOn(g, f, Small(S, Cardinality(S)))
  BY <1>4, <1>6
<1>8. QED
  BY <1>5, <1>7 DEF IsSum

\* Solutions agree where both are defined.
LEMMA SolutionUnique ==
    ASSUME NEW S, IsFiniteSet(S), NEW T, T \subseteq S,
           NEW f, NEW g, Agree(f, g, T),
           NEW F, IsSum(F, f, S), NEW G, IsSum(G, g, T)
    PROVE  \A s \in SUBSET T : F[s] = G[s]
<1> DEFINE Differ == {s \in SUBSET T : F[s] # G[s]}
<1>1. SUFFICES ASSUME Differ # {} PROVE FALSE
  OBVIOUS
<1>2. IsFiniteSet(T)
  BY FS_Subset
<1>3. PICK s \in Differ : \A u \in Differ : u \subseteq s => u = s
  <2>1. Differ \subseteq SUBSET T /\ Differ # {}
    BY <1>1
  <2> HIDE DEF Differ
  <2>2. QED
    BY <2>1, <1>2, MinimalSubset
<1>4. F[{}] = 0 /\ G[{}] = 0
  BY DEF IsSum, IsSumOn
<1>5. s # {}
  BY <1>4
<1>6. Chosen(s) \in s
  BY <1>5, ChosenIsIn
<1>7. F[s \ {Chosen(s)}] = G[s \ {Chosen(s)}]
  BY <1>3, <1>6
<1>8. F[s] = f[Chosen(s)] + F[s \ {Chosen(s)}]
      /\ G[s] = g[Chosen(s)] + G[s \ {Chosen(s)}]
  BY <1>5 DEF IsSum, IsSumOn
<1>9. QED
  BY <1>3, <1>6, <1>7, <1>8 DEF Agree

\* A sum is what the recursion says.
LEMMA SumIsSolution ==
    ASSUME NEW f, NEW S, IsFiniteSet(S)
    PROVE  \E g : IsSum(g, f, S) /\ SumFunctionOnSet(f, S) = g[S]
<1>1. SumFunctionOnSet(f, S) = (CHOOSE g : IsSum(g, f, S))[S]
  BY DEF SumFunctionOnSet, FoldFunctionOnSet, MapThenFoldSet, IsSum, IsSumOn, Chosen
<1>2. QED
  BY <1>1, SolutionExists

\* A sum depends on the values summed alone.
THEOREM SumSame ==
    ASSUME NEW S, IsFiniteSet(S), NEW f, NEW g, \A x \in S : f[x] = g[x]
    PROVE  SumFunctionOnSet(f, S) = SumFunctionOnSet(g, S)
<1>1. PICK F : IsSum(F, f, S) /\ SumFunctionOnSet(f, S) = F[S]
  BY SumIsSolution
<1>2. PICK G : IsSum(G, g, S) /\ SumFunctionOnSet(g, S) = G[S]
  BY SumIsSolution
<1>3. \A s \in SUBSET S : F[s] = G[s]
  <2>1. Agree(f, g, S)
    BY DEF Agree
  <2>2. QED
    BY <1>1, <1>2, <2>1, SolutionUnique
<1>4. QED
  BY <1>1, <1>2, <1>3

\* The empty sum.
THEOREM SumEmpty ==
    ASSUME NEW f
    PROVE  SumFunctionOnSet(f, {}) = 0
<1>1. PICK g : IsSum(g, f, {}) /\ SumFunctionOnSet(f, {}) = g[{}]
  BY FS_EmptySet, SumIsSolution
<1>2. QED
  BY <1>1 DEF IsSum, IsSumOn

LEMMA SumStep ==
    ASSUME NEW S, IsFiniteSet(S), S # {}, NEW f
    PROVE  SumFunctionOnSet(f, S) =
              f[Chosen(S)] + SumFunctionOnSet(f, S \ {Chosen(S)})
<1> DEFINE T == S \ {Chosen(S)}
<1>1. IsFiniteSet(T)
  BY FS_Subset
<1>2. PICK g : IsSum(g, f, S) /\ SumFunctionOnSet(f, S) = g[S]
  BY SumIsSolution
<1>3. PICK h : IsSum(h, f, T) /\ SumFunctionOnSet(f, T) = h[T]
  BY <1>1, SumIsSolution
<1>4. g[T] = h[T]
  <2>1. T \subseteq S /\ Agree(f, f, T)
    BY DEF Agree
  <2> HIDE DEF T
  <2>2. \A s \in SUBSET T : g[s] = h[s]
    BY <1>2, <1>3, <2>1, SolutionUnique
  <2>3. QED
    BY <2>2
<1>5. g[S] = f[Chosen(S)] + g[T]
  BY <1>2 DEF IsSum, IsSumOn
<1>6. QED
  BY <1>2, <1>3, <1>4, <1>5

\* A sum of integers is an integer.
THEOREM SumInt ==
    ASSUME NEW S, IsFiniteSet(S), NEW f, \A x \in S : f[x] \in Int
    PROVE  SumFunctionOnSet(f, S) \in Int
<1> DEFINE Bad == {s \in SUBSET S : SumFunctionOnSet(f, s) \notin Int}
<1>1. SUFFICES ASSUME Bad # {} PROVE FALSE
  OBVIOUS
<1>2. PICK s \in Bad : \A u \in Bad : u \subseteq s => u = s
  <2>1. Bad \subseteq SUBSET S /\ Bad # {}
    BY <1>1
  <2> HIDE DEF Bad
  <2>2. QED
    BY <2>1, MinimalSubset
<1>3. s # {}
  <2>1. SumFunctionOnSet(f, {}) \in Int
    BY SumEmpty
  <2>2. SumFunctionOnSet(f, s) \notin Int
    OBVIOUS
  <2>3. QED
    BY <2>1, <2>2
<1>4. Chosen(s) \in s
  BY <1>3, ChosenIsIn
<1>5. SumFunctionOnSet(f, s \ {Chosen(s)}) \in Int
  BY <1>2, <1>4
<1>6. IsFiniteSet(s)
  BY FS_Subset
<1>7. SumFunctionOnSet(f, s) = f[Chosen(s)] + SumFunctionOnSet(f, s \ {Chosen(s)})
  BY <1>3, <1>6, SumStep
<1>8. QED
  BY <1>2, <1>4, <1>5, <1>7

\* Any term can be taken out first.
THEOREM SumRemove ==
    ASSUME NEW S, IsFiniteSet(S), NEW f, \A x \in S : f[x] \in Int, NEW x \in S
    PROVE  SumFunctionOnSet(f, S) = f[x] + SumFunctionOnSet(f, S \ {x})
<1> DEFINE Total(s) == SumFunctionOnSet(f, s)
           Bad == {s \in SUBSET S : \E z \in s : Total(s) # f[z] + Total(s \ {z})}
<1>1. SUFFICES ASSUME Bad # {} PROVE FALSE
  OBVIOUS
<1>2. PICK s \in Bad : \A u \in Bad : u \subseteq s => u = s
  <2>1. Bad \subseteq SUBSET S /\ Bad # {}
    BY <1>1
  <2> HIDE DEF Bad
  <2>2. QED
    BY <2>1, MinimalSubset
<1>3. PICK z \in s : Total(s) # f[z] + Total(s \ {z})
  BY <1>2
<1> DEFINE y == Chosen(s)
           rest == Total((s \ {y}) \ {z})
<1>4. y \in s
  BY <1>3, ChosenIsIn
<1>5. ASSUME NEW u \in SUBSET S
      PROVE  IsFiniteSet(u) /\ Total(u) \in Int
  BY FS_Subset, SumInt
<1>6. Total(s) = f[y] + Total(s \ {y})
  BY <1>3, <1>5, SumStep
<1>7. z # y
  BY <1>3, <1>6
<1>8. s \ {y} \notin Bad /\ s \ {z} \notin Bad
  BY <1>2, <1>3, <1>4
<1>9. Total(s \ {y}) = f[z] + rest
  BY <1>3, <1>7, <1>8
<1>10. Total(s \ {z}) = f[y] + rest
  <2>1. (s \ {y}) \ {z} = (s \ {z}) \ {y}
    OBVIOUS
  <2>2. Total(s \ {z}) = f[y] + Total((s \ {z}) \ {y})
    BY <1>4, <1>7, <1>8
  <2>3. QED
    BY <2>1, <2>2
<1>11. f[y] \in Int /\ f[z] \in Int /\ rest \in Int
  BY <1>3, <1>4, <1>5
<1> HIDE DEF y, rest, Total, Bad
<1>12. QED
  BY <1>3, <1>6, <1>9, <1>10, <1>11

\* When one term changes, the sum changes by as much.
THEOREM SumChange ==
    ASSUME NEW S, IsFiniteSet(S), NEW x \in S,
           NEW f, \A y \in S : f[y] \in Int,
           NEW g, \A y \in S : g[y] \in Int,
           \A y \in S \ {x} : g[y] = f[y]
    PROVE  SumFunctionOnSet(g, S) = SumFunctionOnSet(f, S) + g[x] - f[x]
<1>1. IsFiniteSet(S \ {x})
  BY FS_Subset
<1>2. SumFunctionOnSet(f, S \ {x}) = SumFunctionOnSet(g, S \ {x})
  BY <1>1, SumSame
<1>3. SumFunctionOnSet(f, S \ {x}) \in Int
  BY <1>1, SumInt
<1>4. SumFunctionOnSet(f, S) = f[x] + SumFunctionOnSet(f, S \ {x})
      /\ SumFunctionOnSet(g, S) = g[x] + SumFunctionOnSet(g, S \ {x})
  BY SumRemove
<1>5. QED
  BY <1>2, <1>3, <1>4

\* A sum of zeros.
THEOREM SumZero ==
    ASSUME NEW S, IsFiniteSet(S), NEW f, \A x \in S : f[x] = 0
    PROVE  SumFunctionOnSet(f, S) = 0
<1> DEFINE Bad == {s \in SUBSET S : SumFunctionOnSet(f, s) # 0}
<1>1. SUFFICES ASSUME Bad # {} PROVE FALSE
  OBVIOUS
<1>2. PICK s \in Bad : \A u \in Bad : u \subseteq s => u = s
  <2>1. Bad \subseteq SUBSET S /\ Bad # {}
    BY <1>1
  <2> HIDE DEF Bad
  <2>2. QED
    BY <2>1, MinimalSubset
<1>3. s # {}
  BY <1>2, SumEmpty
<1>4. Chosen(s) \in s /\ IsFiniteSet(s)
  BY <1>3, ChosenIsIn, FS_Subset
<1>5. SumFunctionOnSet(f, s \ {Chosen(s)}) = 0
  BY <1>2, <1>4
<1>6. QED
  BY <1>2, <1>3, <1>4, <1>5, SumStep

\* The sum grows with its terms.
THEOREM SumGrows ==
    ASSUME NEW S, IsFiniteSet(S), NEW f, NEW g,
           \A x \in S : f[x] \in Int /\ g[x] \in Int /\ f[x] <= g[x]
    PROVE  SumFunctionOnSet(f, S) <= SumFunctionOnSet(g, S)
<1> DEFINE Before(s) == SumFunctionOnSet(f, s)
           After(s) == SumFunctionOnSet(g, s)
           Bad == {s \in SUBSET S : ~ (Before(s) <= After(s))}
<1>1. SUFFICES ASSUME Bad # {} PROVE FALSE
  OBVIOUS
<1>2. PICK s \in Bad : \A u \in Bad : u \subseteq s => u = s
  <2>1. Bad \subseteq SUBSET S /\ Bad # {}
    BY <1>1
  <2> HIDE DEF Bad
  <2>2. QED
    BY <2>1, MinimalSubset
<1>3. s # {}
  <2>1. Before({}) = 0 /\ After({}) = 0
    BY SumEmpty
  <2> HIDE DEF Before, After
  <2>2. QED
    BY <1>2, <2>1
<1> DEFINE y == Chosen(s)
           rest == s \ {y}
<1>4. y \in s /\ IsFiniteSet(s) /\ IsFiniteSet(rest)
  BY <1>3, ChosenIsIn, FS_Subset
<1>5. Before(rest) <= After(rest)
  BY <1>2, <1>4
<1>6. Before(s) = f[y] + Before(rest) /\ After(s) = g[y] + After(rest)
  BY <1>3, <1>4, SumStep
<1>7. Before(rest) \in Int /\ After(rest) \in Int
  BY <1>4, SumInt
<1>8. ~ (Before(s) <= After(s)) /\ y \in S
  BY <1>2, <1>4
<1> HIDE DEF Before, After, y, rest, Bad
<1>9. QED
  BY <1>5, <1>6, <1>7, <1>8
================================================================================
