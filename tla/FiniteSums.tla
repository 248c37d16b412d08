----------------------------- MODULE FiniteSums -----------------------------
(***************************************************************************)
(* Facts about the sum of a function over a finite set, the operator       *)
(* SumFunctionOnSet of the module Functions, for the proofs about what     *)
(* ledgers charge.                                                         *)
(*                                                                         *)
(* The operator is a function defined recursively on the subsets of the    *)
(* set, so what it computes is established by induction on the subsets;    *)
(* each induction is an argument about a smallest counterexample, which    *)
(* MinimalSubset provides.                                                 *)
(***************************************************************************)
EXTENDS Integers, FiniteSetTheorems, Functions, TLAPS

\* The element that the sum over S takes first.
First(S) == CHOOSE x \in S : TRUE

\* The value of the recursive function at s, from its values g.
SumStep(f, g, s) == IF s = {} THEN 0 ELSE f[First(s)] + g[s \ {First(s)}]

\* g satisfies the recursive definition of the sum on the subsets of S.
Sums(g, f, S) == g = [s \in SUBSET S |-> SumStep(f, g, s)]

\* The operator in these terms.
LEMMA SumIsChosen ==
    ASSUME NEW f, NEW S
    PROVE  SumFunctionOnSet(f, S) = (CHOOSE g : Sums(g, f, S))[S]
BY DEF SumFunctionOnSet, FoldFunctionOnSet, MapThenFoldSet, First, SumStep, Sums

\* What is picked from a non-empty set is in it.
LEMMA FirstIsMember == ASSUME NEW S, S # {} PROVE First(S) \in S
BY DEF First

\* Among subsets of a finite set there is one that contains no other.
LEMMA MinimalSubset ==
    ASSUME NEW S, IsFiniteSet(S), NEW D \in SUBSET SUBSET S, D # {}
    PROVE  \E T \in D : \A U \in SUBSET T : U # T => U \notin D
<1>1. D \subseteq FiniteSubsetsOf(S)
  BY FS_Subset DEF FiniteSubsetsOf
<1>2. PICK T \in D : \A U \in D : ~ (<<U, T>> \in StrictSubsetOrdering(S))
  BY <1>1, FS_StrictSubsetOrderingWellFounded, WFMin
<1>3. ASSUME NEW U \in D, U \subseteq T, U # T PROVE FALSE
  <2>1. <<U, T>> \in (SUBSET S) \X (SUBSET S)
    OBVIOUS
  <2>2. <<U, T>> \in StrictSubsetOrdering(S)
    BY <1>3, <2>1 DEF StrictSubsetOrdering
  <2>. QED BY <1>2, <2>2
<1>. QED BY <1>3

\* Two functions that satisfy the definition agree where both are defined.
LEMMA SumsAgree ==
    ASSUME NEW f, NEW S, IsFiniteSet(S), NEW T \in SUBSET S, NEW g, NEW h,
           Sums(g, f, S), Sums(h, f, T)
    PROVE  g[T] = h[T]
<1>. DEFINE D == {s \in SUBSET T : g[s] # h[s]}
<1>. SUFFICES ASSUME D # {} PROVE FALSE
  BY T \in SUBSET T
<1>1. IsFiniteSet(T)
  BY FS_Subset
<1>2. PICK s \in D : \A u \in SUBSET s : u # s => u \notin D
  <2>1. D \in SUBSET SUBSET T
    OBVIOUS
  <2>. HIDE DEF D
  <2>. QED BY <1>1, <2>1, MinimalSubset
<1>3. g[s] = SumStep(f, g, s) /\ h[s] = SumStep(f, h, s)
  BY DEF Sums
<1>4. CASE s = {}
  BY <1>2, <1>3, <1>4 DEF SumStep
<1>5. CASE s # {}
  <2>1. First(s) \in s
    BY <1>5, FirstIsMember
  <2>2. s \ {First(s)} \in SUBSET T /\ s \ {First(s)} \notin D
    BY <1>2, <2>1
  <2>3. g[s \ {First(s)}] = h[s \ {First(s)}]
    BY <2>2
  <2>. QED BY <1>2, <1>3, <1>5, <2>3 DEF SumStep
<1>. QED BY <1>4, <1>5

\* Some function satisfies it.
LEMMA SumsExist ==
    ASSUME NEW f, NEW S, IsFiniteSet(S)
    PROVE  \E g : Sums(g, f, S)
<1>. DEFINE D == {T \in SUBSET S : ~ \E g : Sums(g, f, T)}
<1>. SUFFICES ASSUME D # {} PROVE FALSE
  OBVIOUS
<1>1. PICK T \in D : \A U \in SUBSET T : U # T => U \notin D
  <2>1. D \in SUBSET SUBSET S
    OBVIOUS
  <2>. HIDE DEF D
  <2>. QED BY <2>1, MinimalSubset
<1>2. \A U \in SUBSET T : U # T => \E g : Sums(g, f, U)
  BY <1>1
<1>. DEFINE part == [U \in SUBSET T |-> CHOOSE g : Sums(g, f, U)]
            rest(s) == s \ {First(s)}
            whole == [s \in SUBSET T |-> IF s = {} THEN 0 ELSE f[First(s)] + part[rest(s)][rest(s)]]
<1>3. \A U \in SUBSET T : U # T => Sums(part[U], f, U)
  <2>. TAKE U \in SUBSET T
  <2>. HAVE U # T
  <2>1. \E g : Sums(g, f, U)
    BY <1>2
  <2>2. Sums(CHOOSE g : Sums(g, f, U), f, U)
    BY <2>1
  <2>. QED BY <2>2
<1>4. ASSUME NEW U \in SUBSET T, U # T PROVE whole[U] = part[U][U]
  <2>1. part[U][U] = SumStep(f, part[U], U)
    <3>. HIDE DEF part
    <3>. QED BY <1>3, <1>4, U \in SUBSET U DEF Sums
  <2>2. CASE U = {}
    BY <2>1, <2>2 DEF SumStep
  <2>3. CASE U # {}
    <3>1. First(U) \in U
      BY <2>3, FirstIsMember
    <3>2. rest(U) \in SUBSET U /\ rest(U) \in SUBSET T /\ rest(U) # T /\ IsFiniteSet(U)
      BY <1>4, <3>1, FS_Subset
    <3>3. Sums(part[U], f, U) /\ Sums(part[rest(U)], f, rest(U))
      BY <1>3, <1>4, <3>2
    <3>5. part[U][rest(U)] = part[rest(U)][rest(U)]
      <4>. HIDE DEF part, rest
      <4>. QED BY <3>2, <3>3, SumsAgree
    <3>6. part[U][U] = f[First(U)] + part[U][rest(U)]
      BY <2>1, <2>3 DEF SumStep
    <3>. QED BY <2>3, <3>5, <3>6
  <2>. QED BY <2>2, <2>3
<1>5. ASSUME NEW s \in SUBSET T PROVE whole[s] = SumStep(f, whole, s)
  <2>1. CASE s = {}
    BY <2>1 DEF SumStep
  <2>2. CASE s # {}
    <3>1. First(s) \in s
      BY <2>2, FirstIsMember
    <3>2. rest(s) \in SUBSET T /\ rest(s) # T
      BY <3>1
    <3>3. whole[rest(s)] = part[rest(s)][rest(s)]
      BY <1>4, <3>2
    <3>. QED BY <2>2, <3>3 DEF SumStep
  <2>. QED BY <2>1, <2>2
<1>6. Sums(whole, f, T)
  BY <1>5 DEF Sums
<1>. QED BY <1>1, <1>6

\* The recursion of the sum: what is picked first, and the sum of the rest.
LEMMA SumRecursion ==
    ASSUME NEW f, NEW S, IsFiniteSet(S)
    PROVE  SumFunctionOnSet(f, S) =
             IF S = {} THEN 0 ELSE f[First(S)] + SumFunctionOnSet(f, S \ {First(S)})
<1>. DEFINE rest == S \ {First(S)}
            g == CHOOSE h : Sums(h, f, S)
            r == CHOOSE h : Sums(h, f, rest)
<1>1. Sums(g, f, S)
  BY SumsExist
<1>2. rest \in SUBSET S /\ IsFiniteSet(rest)
  BY FS_Subset
<1>3. Sums(r, f, rest)
  BY <1>2, SumsExist
<1>4. SumFunctionOnSet(f, S) = g[S] /\ SumFunctionOnSet(f, rest) = r[rest]
  BY SumIsChosen
<1>. HIDE DEF g, r
<1>5. g[S] = SumStep(f, g, S)
  BY <1>1 DEF Sums
<1>6. g[rest] = r[rest]
  <2>. HIDE DEF rest
  <2>. QED BY <1>1, <1>2, <1>3, SumsAgree
<1>. QED BY <1>4, <1>5, <1>6 DEF SumStep

\* Nothing sums to zero.
LEMMA SumOfNothing == ASSUME NEW f PROVE SumFunctionOnSet(f, {}) = 0
BY SumRecursion, FS_EmptySet

\* A sum of integers is an integer.
LEMMA SumIsInt ==
    ASSUME NEW f, NEW S, IsFiniteSet(S), \A x \in S : f[x] \in Int
    PROVE  SumFunctionOnSet(f, S) \in Int
<1>. DEFINE D == {T \in SUBSET S : SumFunctionOnSet(f, T) \notin Int}
<1>. SUFFICES ASSUME D # {} PROVE FALSE
  OBVIOUS
<1>1. PICK T \in D : \A U \in SUBSET T : U # T => U \notin D
  <2>1. D \in SUBSET SUBSET S
    OBVIOUS
  <2>. HIDE DEF D
  <2>. QED BY <2>1, MinimalSubset
<1>2. IsFiniteSet(T)
  BY FS_Subset
<1>3. T # {}
  BY SumOfNothing
<1>4. First(T) \in T
  BY <1>3, FirstIsMember
<1>5. SumFunctionOnSet(f, T \ {First(T)}) \in Int
  BY <1>1, <1>4
<1>6. SumFunctionOnSet(f, T) = f[First(T)] + SumFunctionOnSet(f, T \ {First(T)})
  BY <1>2, <1>3, SumRecursion
<1>. QED BY <1>4, <1>5, <1>6

\* The order does not matter: any element can be taken out first.
LEMMA SumTakeOut ==
    ASSUME NEW f, NEW S, IsFiniteSet(S), \A x \in S : f[x] \in Int, NEW x \in S
    PROVE  SumFunctionOnSet(f, S) = f[x] + SumFunctionOnSet(f, S \ {x})
<1>. DEFINE out(T, y) == SumFunctionOnSet(f, T) = f[y] + SumFunctionOnSet(f, T \ {y})
            D == {T \in SUBSET S : \E y \in T : ~out(T, y)}
<1>. SUFFICES ASSUME D # {} PROVE FALSE
  OBVIOUS
<1>1. PICK T \in D : \A U \in SUBSET T : U # T => U \notin D
  <2>1. D \in SUBSET SUBSET S
    OBVIOUS
  <2>. HIDE DEF D
  <2>. QED BY <2>1, MinimalSubset
<1>2. PICK y \in T : ~out(T, y)
  OBVIOUS
<1>. DEFINE p == First(T)
<1>3. p \in T
  BY FirstIsMember
<1>4. IsFiniteSet(T)
  BY FS_Subset
<1>5. SumFunctionOnSet(f, T) = f[p] + SumFunctionOnSet(f, T \ {p})
  BY <1>4, SumRecursion
<1>6. p # y
  BY <1>2, <1>5
<1>. HIDE DEF p
<1>7. SumFunctionOnSet(f, T \ {p}) = f[y] + SumFunctionOnSet(f, (T \ {p}) \ {y})
  <2>1. T \ {p} \in SUBSET S /\ T \ {p} \notin D /\ y \in T \ {p}
    BY <1>1, <1>3, <1>6
  <2>. QED BY <2>1
<1>8. SumFunctionOnSet(f, T \ {y}) = f[p] + SumFunctionOnSet(f, (T \ {y}) \ {p})
  <2>1. T \ {y} \in SUBSET S /\ T \ {y} \notin D /\ p \in T \ {y}
    BY <1>1, <1>3, <1>6
  <2>. QED BY <2>1
<1>9. (T \ {p}) \ {y} = (T \ {y}) \ {p}
  OBVIOUS
<1>10. f[p] \in Int /\ f[y] \in Int /\ SumFunctionOnSet(f, (T \ {y}) \ {p}) \in Int
  <2>1. IsFiniteSet((T \ {y}) \ {p})
    BY <1>4, FS_RemoveElement
  <2>. QED BY <1>3, <2>1, SumIsInt
<1>11. SumFunctionOnSet(f, T) = f[y] + SumFunctionOnSet(f, T \ {y})
  <2>. DEFINE a == f[p]
              b == f[y]
              c == SumFunctionOnSet(f, (T \ {y}) \ {p})
  <2>1. a \in Int /\ b \in Int /\ c \in Int
    BY <1>10
  <2>2. SumFunctionOnSet(f, T) = a + (b + c)
    BY <1>5, <1>7, <1>9, Zenon
  <2>3. SumFunctionOnSet(f, T \ {y}) = a + c
    BY <1>8
  <2>4. a + (b + c) = b + (a + c)
    <3>. HIDE DEF a, b, c
    <3>. QED BY <2>1
  <2>. QED BY <2>2, <2>3, <2>4, Zenon
<1>. QED BY <1>2, <1>11

\* An element more.
LEMMA SumOfAdded ==
    ASSUME NEW f, NEW S, IsFiniteSet(S), NEW x, x \notin S, f[x] \in Int, \A y \in S : f[y] \in Int
    PROVE  SumFunctionOnSet(f, S \cup {x}) = f[x] + SumFunctionOnSet(f, S)
<1>. DEFINE T == S \cup {x}
<1>1. IsFiniteSet(T)
  BY FS_AddElement
<1>2. T \ {x} = S /\ x \in T /\ \A y \in T : f[y] \in Int
  OBVIOUS
<1>3. SumFunctionOnSet(f, T) = f[x] + SumFunctionOnSet(f, T \ {x})
  <2>. HIDE DEF T
  <2>. QED BY <1>1, <1>2, SumTakeOut
<1>. QED BY <1>2, <1>3, Zenon

\* Equal values sum to the same.
LEMMA SumOfSame ==
    ASSUME NEW f, NEW g, NEW S, IsFiniteSet(S), \A x \in S : f[x] = g[x]
    PROVE  SumFunctionOnSet(f, S) = SumFunctionOnSet(g, S)
<1>. DEFINE D == {T \in SUBSET S : SumFunctionOnSet(f, T) # SumFunctionOnSet(g, T)}
<1>. SUFFICES ASSUME D # {} PROVE FALSE
  OBVIOUS
<1>1. PICK T \in D : \A U \in SUBSET T : U # T => U \notin D
  <2>1. D \in SUBSET SUBSET S
    OBVIOUS
  <2>. HIDE DEF D
  <2>. QED BY <2>1, MinimalSubset
<1>2. IsFiniteSet(T)
  BY FS_Subset
<1>3. T # {}
  BY SumOfNothing
<1>4. First(T) \in T
  BY <1>3, FirstIsMember
<1>5. SumFunctionOnSet(f, T \ {First(T)}) = SumFunctionOnSet(g, T \ {First(T)})
  BY <1>1, <1>4
<1>6. /\ SumFunctionOnSet(f, T) = f[First(T)] + SumFunctionOnSet(f, T \ {First(T)})
      /\ SumFunctionOnSet(g, T) = g[First(T)] + SumFunctionOnSet(g, T \ {First(T)})
  BY <1>2, <1>3, SumRecursion
<1>. QED BY <1>4, <1>5, <1>6

\* Where one value changes, the sum changes by as much.
LEMMA SumOfOneChange ==
    ASSUME NEW f, NEW g, NEW S, IsFiniteSet(S), NEW x \in S,
           \A y \in S : f[y] \in Int, g[x] \in Int, \A y \in S \ {x} : g[y] = f[y]
    PROVE  SumFunctionOnSet(g, S) = SumFunctionOnSet(f, S) + (g[x] - f[x])
<1>1. IsFiniteSet(S \ {x})
  BY FS_RemoveElement
<1>2. SumFunctionOnSet(g, S \ {x}) = SumFunctionOnSet(f, S \ {x})
  BY <1>1, SumOfSame
<1>3. SumFunctionOnSet(f, S \ {x}) \in Int
  BY <1>1, SumIsInt
<1>4. SumFunctionOnSet(f, S) = f[x] + SumFunctionOnSet(f, S \ {x})
  BY SumTakeOut
<1>5. SumFunctionOnSet(g, S) = g[x] + SumFunctionOnSet(g, S \ {x})
  <2>1. \A y \in S : g[y] \in Int
    OBVIOUS
  <2>. QED BY <2>1, SumTakeOut
<1>6. f[x] \in Int
  OBVIOUS
<1>. QED BY <1>2, <1>3, <1>4, <1>5, <1>6

\* Greater values, and more of them that are not negative, sum to no less.
LEMMA SumIsMonotone ==
    ASSUME NEW f, NEW g, NEW S, IsFiniteSet(S), NEW R \in SUBSET S,
           \A x \in R : f[x] \in Int /\ f[x] <= g[x], \A x \in S : g[x] \in Nat
    PROVE  SumFunctionOnSet(f, R) <= SumFunctionOnSet(g, S)
<1>. DEFINE D == {T \in SUBSET S : ~(SumFunctionOnSet(f, T \cap R) <= SumFunctionOnSet(g, T))}
<1>. SUFFICES ASSUME D # {} PROVE FALSE
  <2>1. S \notin D
    OBVIOUS
  <2>2. S \cap R = R
    OBVIOUS
  <2>. QED BY <2>1, <2>2
<1>1. PICK T \in D : \A U \in SUBSET T : U # T => U \notin D
  <2>1. D \in SUBSET SUBSET S
    OBVIOUS
  <2>. HIDE DEF D
  <2>. QED BY <2>1, MinimalSubset
<1>2. IsFiniteSet(T) /\ IsFiniteSet(T \cap R)
  BY FS_Subset, T \cap R \in SUBSET S
<1>3. T # {}
  <2>. SUFFICES ASSUME T = {} PROVE FALSE
    OBVIOUS
  <2>1. T \cap R = {}
    OBVIOUS
  <2>2. ~(SumFunctionOnSet(f, T \cap R) <= SumFunctionOnSet(g, T))
    OBVIOUS
  <2>3. ~(SumFunctionOnSet(f, {}) <= SumFunctionOnSet(g, {}))
    BY <2>1, <2>2, Zenon
  <2>. QED BY <2>3, SumOfNothing
<1>4. PICK x \in T : TRUE
  BY <1>3
<1>. DEFINE U == T \ {x}
            a == SumFunctionOnSet(f, U \cap R)
            b == SumFunctionOnSet(g, U)
<1>5. a <= b
  <2>1. U \in SUBSET S /\ U \in SUBSET T /\ U # T
    OBVIOUS
  <2>. QED BY <1>1, <2>1
<1>6. a \in Int /\ b \in Int
  <2>1. IsFiniteSet(U) /\ IsFiniteSet(U \cap R)
    BY FS_Subset, U \in SUBSET S, U \cap R \in SUBSET S
  <2>2. \A y \in U : g[y] \in Int
    OBVIOUS
  <2>3. \A y \in U \cap R : f[y] \in Int
    OBVIOUS
  <2>. HIDE DEF U
  <2>. QED BY <2>1, <2>2, <2>3, SumIsInt
<1>7. SumFunctionOnSet(g, T) = g[x] + b /\ g[x] \in Nat
  <2>1. \A y \in T : g[y] \in Int
    OBVIOUS
  <2>. QED BY <1>2, <2>1, SumTakeOut
<1>8. SumFunctionOnSet(f, T \cap R) <= SumFunctionOnSet(g, T)
  <2>1. CASE x \in R
    <3>1. x \in T \cap R /\ (T \cap R) \ {x} = U \cap R
      BY <2>1
    <3>2. \A y \in T \cap R : f[y] \in Int
      OBVIOUS
    <3>3. SumFunctionOnSet(f, T \cap R) = f[x] + SumFunctionOnSet(f, (T \cap R) \ {x})
      BY <1>2, <3>1, <3>2, SumTakeOut
    <3>4. SumFunctionOnSet(f, T \cap R) = f[x] + a
      BY <3>1, <3>3, Zenon
    <3>5. f[x] \in Int /\ f[x] <= g[x]
      BY <2>1
    <3>. HIDE DEF a, b, U
    <3>. QED BY <1>5, <1>6, <1>7, <3>4, <3>5
  <2>2. CASE x \notin R
    <3>1. T \cap R = U \cap R
      BY <2>2
    <3>2. SumFunctionOnSet(f, T \cap R) = a
      BY <3>1, Zenon
    <3>. HIDE DEF a, b, U
    <3>. QED BY <1>5, <1>6, <1>7, <3>2
  <2>. QED BY <2>1, <2>2
<1>. QED BY <1>8

\* Natural numbers do not sum to less than zero.
LEMMA SumIsNat ==
    ASSUME NEW f, NEW S, IsFiniteSet(S), \A x \in S : f[x] \in Nat
    PROVE  SumFunctionOnSet(f, S) \in Nat
<1>1. SumFunctionOnSet(f, {}) <= SumFunctionOnSet(f, S)
  BY SumIsMonotone, {} \in SUBSET S
<1>2. SumFunctionOnSet(f, S) \in Int
  BY SumIsInt
<1>. QED BY <1>1, <1>2, SumOfNothing

\* A sum of zeros is zero.
LEMMA SumOfZeros ==
    ASSUME NEW f, NEW S, IsFiniteSet(S), \A x \in S : f[x] = 0
    PROVE  SumFunctionOnSet(f, S) = 0
<1>. DEFINE D == {T \in SUBSET S : SumFunctionOnSet(f, T) # 0}
<1>. SUFFICES ASSUME D # {} PROVE FALSE
  OBVIOUS
<1>2. PICK T \in D : \A U \in SUBSET T : U # T => U \notin D
  <2>1. D \in SUBSET SUBSET S
    OBVIOUS
  <2>. HIDE DEF D
  <2>. QED BY <2>1, MinimalSubset
<1>3. IsFiniteSet(T) /\ T # {}
  BY FS_Subset, SumOfNothing
<1>4. First(T) \in T
  BY <1>3, FirstIsMember
<1>5. SumFunctionOnSet(f, T \ {First(T)}) = 0
  BY <1>2, <1>4
<1>6. SumFunctionOnSet(f, T) = f[First(T)] + SumFunctionOnSet(f, T \ {First(T)})
  BY <1>3, SumRecursion
<1>. QED BY <1>4, <1>5, <1>6
=============================================================================
