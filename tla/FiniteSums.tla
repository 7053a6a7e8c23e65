----------------------------- MODULE FiniteSums -----------------------------
(***************************************************************************)
(* What SumFunctionOnSet adds up over a finite set: the order does not     *)
(* matter, fewer or smaller terms give a smaller sum, and a change of one  *)
(* term changes it by as much.  What is shown of every subset is shown as  *)
(* the membership in a set of sets that the induction closes.              *)
(***************************************************************************)
EXTENDS Integers, Functions, FiniteSetTheorems, TLAPS

LEMMA SubsetInduction ==
    ASSUME NEW S, IsFiniteSet(S), NEW P,
           \A T \in SUBSET S : (\A U \in SUBSET T : U # T => U \in P) => T \in P
    PROVE  SUBSET S \subseteq P
<1> DEFINE Left == (SUBSET S) \ P
<1> SUFFICES ASSUME Left # {} PROVE FALSE
  OBVIOUS
<1>1. FiniteSubsetsOf(S) = SUBSET S
  BY FS_FiniteSubsetsOfFinite
<1>2. IsWellFoundedOn(StrictSubsetOrdering(S), FiniteSubsetsOf(S))
  BY FS_StrictSubsetOrderingWellFounded
<1>3. Left \subseteq FiniteSubsetsOf(S)
  BY <1>1
<1> HIDE DEF Left
<1>4. PICK T \in Left : \A U \in Left : ~ (<<U, T>> \in StrictSubsetOrdering(S))
  BY <1>2, <1>3, WFMin
<1> USE DEF Left
<1>5. ASSUME NEW U \in SUBSET T, U # T PROVE U \in P
  BY <1>4, <1>5 DEF StrictSubsetOrdering
<1> QED
  BY <1>4, <1>5

Chosen(s) == CHOOSE x \in s : TRUE

AddsUp(sum, f, S) ==
    sum = [s \in SUBSET S |-> IF s = {} THEN 0 ELSE f[Chosen(s)] + sum[s \ {Chosen(s)}]]

LEMMA SumOfSolution ==
    ASSUME NEW f, NEW S, \E sum : AddsUp(sum, f, S)
    PROVE  \E sum : AddsUp(sum, f, S) /\ SumFunctionOnSet(f, S) = sum[S]
<1> DEFINE it == CHOOSE sum : AddsUp(sum, f, S)
<1>1. AddsUp(it, f, S)
  OBVIOUS
<1>2. SumFunctionOnSet(f, S) = it[S]
  BY DEF SumFunctionOnSet, FoldFunctionOnSet, MapThenFoldSet, AddsUp, Chosen
<1> QED
  BY <1>1, <1>2

LEMMA SolutionsAgree ==
    ASSUME NEW f, NEW S, NEW T, NEW U, U \subseteq S, U \subseteq T, IsFiniteSet(U),
           NEW a, AddsUp(a, f, S), NEW b, AddsUp(b, f, T)
    PROVE  a[U] = b[U]
<1> DEFINE Same == {s \in SUBSET U : a[s] = b[s]}
<1>1. ASSUME NEW s \in SUBSET U, \A t \in SUBSET s : t # s => t \in Same PROVE s \in Same
  <2>1. s \in SUBSET S /\ s \in SUBSET T
    OBVIOUS
  <2>2. CASE s = {}
    BY <2>1, <2>2 DEF AddsUp
  <2>3. CASE s # {}
    <3> DEFINE rest == s \ {Chosen(s)}
    <3>1. Chosen(s) \in s
      BY <2>3 DEF Chosen
    <3>2. rest \in Same
      BY <1>1, <3>1
    <3>3. a[s] = f[Chosen(s)] + a[rest] /\ b[s] = f[Chosen(s)] + b[rest]
      BY <2>1, <2>3 DEF AddsUp
    <3> QED
      BY <3>2, <3>3
  <2> QED
    BY <2>2, <2>3
<1> HIDE DEF Same
<1>2. SUBSET U \subseteq Same
  BY <1>1, SubsetInduction
<1> QED
  BY <1>2 DEF Same

LEMMA SolutionExists ==
    ASSUME NEW f, NEW S, IsFiniteSet(S) PROVE \E sum : AddsUp(sum, f, S)
<1> DEFINE Solved == {T \in SUBSET S : \E sum : AddsUp(sum, f, T)}
           Sum(U) == SumFunctionOnSet(f, U)
           Rest(U) == U \ {Chosen(U)}
<1>1. ASSUME NEW T \in SUBSET S, \A U \in SUBSET T : U # T => U \in Solved PROVE T \in Solved
  <2> HIDE DEF Sum
  <2>1. ASSUME NEW U \in SUBSET T, U # T
        PROVE  Sum(U) = IF U = {} THEN 0 ELSE f[Chosen(U)] + Sum(Rest(U))
    <3>1. PICK a : AddsUp(a, f, U) /\ Sum(U) = a[U]
      BY <1>1, <2>1, SumOfSolution DEF Sum
    <3>2. a[U] = IF U = {} THEN 0 ELSE f[Chosen(U)] + a[Rest(U)]
      BY <3>1 DEF AddsUp
    <3>3. ASSUME U # {} PROVE a[Rest(U)] = Sum(Rest(U))
      <4>1. Rest(U) \in SUBSET T /\ Rest(U) # T /\ Rest(U) \subseteq U
        BY <2>1
      <4>2. PICK b : AddsUp(b, f, Rest(U)) /\ Sum(Rest(U)) = b[Rest(U)]
        BY <1>1, <4>1, SumOfSolution DEF Sum
      <4>3. IsFiniteSet(Rest(U))
        BY <4>1, FS_Subset
      <4> QED
        BY <3>1, <4>1, <4>2, <4>3, SolutionsAgree
    <3> QED
      BY <3>1, <3>2, <3>3
  <2> DEFINE it == [s \in SUBSET T |-> IF s = {} THEN 0 ELSE f[Chosen(s)] + Sum(Rest(s))]
  <2>2. ASSUME NEW s \in SUBSET T, s # {} PROVE it[Rest(s)] = Sum(Rest(s))
    <3>1. Chosen(s) \in s
      BY <2>2 DEF Chosen
    <3>2. Rest(s) \in SUBSET T /\ Rest(s) # T
      BY <3>1
    <3> QED
      BY <2>1, <3>2
  <2>3. AddsUp(it, f, T)
    BY <2>2 DEF AddsUp
  <2> QED
    BY <2>3
<1> HIDE DEF Solved
<1>2. SUBSET S \subseteq Solved
  BY <1>1, SubsetInduction
<1> QED
  BY <1>2 DEF Solved

\* The sum adds a chosen element to the sum of the rest.
LEMMA SumUnfolds ==
    ASSUME NEW f, NEW S, IsFiniteSet(S)
    PROVE  SumFunctionOnSet(f, S) =
               IF S = {} THEN 0 ELSE f[Chosen(S)] + SumFunctionOnSet(f, S \ {Chosen(S)})
<1> DEFINE rest == S \ {Chosen(S)}
<1>1. IsFiniteSet(rest) /\ rest \subseteq S
  BY FS_Subset
<1>2. PICK a : AddsUp(a, f, S) /\ SumFunctionOnSet(f, S) = a[S]
  BY SolutionExists, SumOfSolution
<1> HIDE DEF rest
<1>3. PICK b : AddsUp(b, f, rest) /\ SumFunctionOnSet(f, rest) = b[rest]
  BY <1>1, SolutionExists, SumOfSolution
<1>4. a[rest] = b[rest]
  BY <1>1, <1>2, <1>3, SolutionsAgree
<1>5. a[S] = IF S = {} THEN 0 ELSE f[Chosen(S)] + a[rest]
  BY <1>2 DEF AddsUp, rest
<1> QED
  BY <1>2, <1>3, <1>4, <1>5 DEF rest

LEMMA SumNat ==
    ASSUME NEW f, NEW S, IsFiniteSet(S), \A x \in S : f[x] \in Nat
    PROVE  SumFunctionOnSet(f, S) \in Nat
<1> DEFINE Typed == {T \in SUBSET S : SumFunctionOnSet(f, T) \in Nat}
<1>1. ASSUME NEW T \in SUBSET S, \A U \in SUBSET T : U # T => U \in Typed PROVE T \in Typed
  <2>1. IsFiniteSet(T)
    BY FS_Subset
  <2>2. CASE T = {}
    <3>1. SumFunctionOnSet(f, T) = 0
      BY <2>1, <2>2, SumUnfolds
    <3> QED
      BY <3>1
  <2>3. CASE T # {}
    <3>1. Chosen(T) \in T
      BY <2>3 DEF Chosen
    <3>2. SumFunctionOnSet(f, T \ {Chosen(T)}) \in Nat
      BY <1>1, <3>1
    <3>3. SumFunctionOnSet(f, T) = f[Chosen(T)] + SumFunctionOnSet(f, T \ {Chosen(T)})
      BY <2>1, <2>3, SumUnfolds
    <3> QED
      BY <3>1, <3>2, <3>3
  <2> QED
    BY <2>2, <2>3
<1> HIDE DEF Typed
<1>2. SUBSET S \subseteq Typed
  BY <1>1, SubsetInduction
<1> QED
  BY <1>2 DEF Typed

\* The order in which elements are added does not matter.
LEMMA SumSplits ==
    ASSUME NEW f, NEW S, IsFiniteSet(S), \A x \in S : f[x] \in Nat, NEW x \in S
    PROVE  SumFunctionOnSet(f, S) = f[x] + SumFunctionOnSet(f, S \ {x})
<1> DEFINE Sum(T) == SumFunctionOnSet(f, T)
           Split == {T \in SUBSET S : \A y \in T : Sum(T) = f[y] + Sum(T \ {y})}
<1>1. \A T \in SUBSET S : IsFiniteSet(T) /\ Sum(T) \in Nat
  BY FS_Subset, SumNat
<1>2. \A T \in SUBSET S : T # {} => Chosen(T) \in T /\ Sum(T) = f[Chosen(T)] + Sum(T \ {Chosen(T)})
  BY <1>1, SumUnfolds DEF Chosen
<1> HIDE DEF Sum
<1>3. ASSUME NEW T \in SUBSET S, \A U \in SUBSET T : U # T => U \in Split PROVE T \in Split
  <2> SUFFICES ASSUME NEW y \in T PROVE Sum(T) = f[y] + Sum(T \ {y})
    OBVIOUS
  <2> DEFINE c == Chosen(T)
  <2>1. c \in T /\ Sum(T) = f[c] + Sum(T \ {c})
    BY <1>2
  <2> HIDE DEF c
  <2>2. CASE c = y
    BY <2>1, <2>2
  <2>3. CASE c # y
    <3>1. T \ {c} \in Split /\ T \ {y} \in Split
      BY <1>3, <2>1
    <3>2. Sum(T \ {c}) = f[y] + Sum((T \ {c}) \ {y}) /\ Sum(T \ {y}) = f[c] + Sum((T \ {y}) \ {c})
      BY <2>1, <2>3, <3>1
    <3>3. (T \ {c}) \ {y} = (T \ {y}) \ {c}
      OBVIOUS
    <3>4. f[c] \in Nat /\ f[y] \in Nat /\ Sum((T \ {y}) \ {c}) \in Nat
      BY <1>1, <2>1
    <3> QED
      BY <2>1, <3>2, <3>3, <3>4
  <2> QED
    BY <2>2, <2>3
<1> HIDE DEF Split
<1>4. SUBSET S \subseteq Split
  BY <1>3, SubsetInduction
<1> QED
  BY <1>4 DEF Split, Sum

\* Fewer and smaller terms, a smaller sum.
LEMMA SumMonotone ==
    ASSUME NEW S, NEW T, S \subseteq T, IsFiniteSet(T), NEW f, NEW g,
           \A x \in S : f[x] \in Nat /\ f[x] <= g[x], \A x \in T : g[x] \in Nat
    PROVE  SumFunctionOnSet(f, S) <= SumFunctionOnSet(g, T)
<1> DEFINE F(U) == SumFunctionOnSet(f, U)
           G(U) == SumFunctionOnSet(g, U)
           Less == {U \in SUBSET T : F(S \intersect U) <= G(U)}
<1>1. \A U \in SUBSET T : /\ IsFiniteSet(U) /\ G(U) \in Nat
                          /\ U # {} => Chosen(U) \in U /\ G(U) = g[Chosen(U)] + G(U \ {Chosen(U)})
  BY FS_Subset, SumNat, SumUnfolds DEF Chosen
<1>2. \A U \in SUBSET T : /\ F(S \intersect U) \in Nat
                          /\ \A x \in S \intersect U :
                                F(S \intersect U) = f[x] + F((S \intersect U) \ {x})
  <2> SUFFICES ASSUME NEW U \in SUBSET T
               PROVE  /\ F(S \intersect U) \in Nat
                      /\ \A x \in S \intersect U :
                            F(S \intersect U) = f[x] + F((S \intersect U) \ {x})
    OBVIOUS
  <2>1. IsFiniteSet(S \intersect U) /\ \A x \in S \intersect U : f[x] \in Nat
    BY FS_Subset
  <2> QED
    BY <2>1, SumNat, SumSplits
<1>3. F({}) = 0 /\ G({}) = 0
  BY FS_EmptySet, SumUnfolds
<1> HIDE DEF F, G
<1>4. ASSUME NEW U \in SUBSET T, \A V \in SUBSET U : V # U => V \in Less PROVE U \in Less
  <2>1. CASE U = {}
    <3>1. S \intersect U = {}
      BY <2>1
    <3> QED
      BY <1>3, <2>1, <3>1
  <2>2. CASE U # {}
    <3> DEFINE c == Chosen(U)
    <3>1. c \in U /\ G(U) = g[c] + G(U \ {c})
      BY <1>1, <2>2
    <3> HIDE DEF c
    <3>2. U \ {c} \in Less
      BY <1>4, <3>1
    <3>3. F(S \intersect (U \ {c})) <= G(U \ {c})
      BY <3>2
    <3>4. F(S \intersect (U \ {c})) \in Nat /\ G(U \ {c}) \in Nat /\ g[c] \in Nat
      BY <1>1, <1>2, <3>1
    <3>5. CASE c \in S
      <4>1. (S \intersect U) \ {c} = S \intersect (U \ {c})
        OBVIOUS
      <4>2. F(S \intersect U) = f[c] + F(S \intersect (U \ {c}))
        BY <1>2, <3>1, <3>5, <4>1
      <4> QED
        BY <3>1, <3>3, <3>4, <3>5, <4>2
    <3>6. CASE c \notin S
      <4>1. S \intersect U = S \intersect (U \ {c})
        BY <3>6
      <4>2. F(S \intersect U) <= G(U \ {c})
        BY <3>3, <4>1
      <4>3. F(S \intersect U) <= G(U)
        BY <1>2, <3>1, <3>4, <4>2
      <4> QED
        BY <4>3
    <3> QED
      BY <3>5, <3>6
  <2> QED
    BY <2>1, <2>2
<1> HIDE DEF Less
<1>5. T \in Less
  BY <1>4, SubsetInduction
<1>6. S \intersect T = S
  OBVIOUS
<1> QED
  BY <1>5, <1>6 DEF Less, F, G

LEMMA SumOfZeros ==
    ASSUME NEW f, NEW S, IsFiniteSet(S), \A x \in S : f[x] = 0
    PROVE  SumFunctionOnSet(f, S) = 0
<1> DEFINE Zero == {T \in SUBSET S : SumFunctionOnSet(f, T) = 0}
<1>1. ASSUME NEW T \in SUBSET S, \A U \in SUBSET T : U # T => U \in Zero PROVE T \in Zero
  <2>1. SumFunctionOnSet(f, T) =
            IF T = {} THEN 0 ELSE f[Chosen(T)] + SumFunctionOnSet(f, T \ {Chosen(T)})
    BY FS_Subset, SumUnfolds
  <2>2. ASSUME T # {} PROVE f[Chosen(T)] = 0 /\ SumFunctionOnSet(f, T \ {Chosen(T)}) = 0
    <3>1. Chosen(T) \in T
      BY <2>2 DEF Chosen
    <3> QED
      BY <1>1, <3>1
  <2>3. SumFunctionOnSet(f, T) = 0
    BY <2>1, <2>2
  <2> QED
    BY <2>3
<1> HIDE DEF Zero
<1>2. SUBSET S \subseteq Zero
  BY <1>1, SubsetInduction
<1> QED
  BY <1>2 DEF Zero

\* One more element adds at most its term.
LEMMA SumAdds ==
    ASSUME NEW f, NEW S, IsFiniteSet(S), NEW x, \A y \in S \union {x} : f[y] \in Nat
    PROVE  SumFunctionOnSet(f, S \union {x}) <= f[x] + SumFunctionOnSet(f, S)
<1>1. IsFiniteSet(S \union {x})
  BY FS_AddElement
<1>2. SumFunctionOnSet(f, S \union {x}) = f[x] + SumFunctionOnSet(f, (S \union {x}) \ {x})
  BY <1>1, SumSplits
<1>3. SumFunctionOnSet(f, (S \union {x}) \ {x}) <= SumFunctionOnSet(f, S)
  BY SumMonotone
<1>4. SumFunctionOnSet(f, (S \union {x}) \ {x}) \in Nat /\ SumFunctionOnSet(f, S) \in Nat
  <2>1. IsFiniteSet((S \union {x}) \ {x})
    BY <1>1, FS_Subset
  <2> QED
    BY <2>1, SumNat
<1> QED
  BY <1>2, <1>3, <1>4

\* A change of one term changes the sum by as much.
LEMMA SumChanges ==
    ASSUME NEW S, IsFiniteSet(S), NEW x \in S, NEW f, NEW g,
           \A y \in S : f[y] \in Nat /\ g[y] \in Nat, \A y \in S \ {x} : f[y] = g[y]
    PROVE  SumFunctionOnSet(g, S) = SumFunctionOnSet(f, S) + (g[x] - f[x])
<1> DEFINE rest == S \ {x}
<1>1. IsFiniteSet(rest)
  BY FS_Subset
<1>2. SumFunctionOnSet(f, S) = f[x] + SumFunctionOnSet(f, rest)
  BY SumSplits
<1>3. SumFunctionOnSet(g, S) = g[x] + SumFunctionOnSet(g, rest)
  BY SumSplits
<1>4. \A y \in rest : f[y] \in Nat /\ g[y] \in Nat /\ f[y] <= g[y] /\ g[y] <= f[y]
  OBVIOUS
<1> HIDE DEF rest
<1>5. SumFunctionOnSet(f, rest) <= SumFunctionOnSet(g, rest)
  BY <1>1, <1>4, SumMonotone
<1>6. SumFunctionOnSet(g, rest) <= SumFunctionOnSet(f, rest)
  BY <1>1, <1>4, SumMonotone
<1>7. SumFunctionOnSet(f, rest) \in Nat /\ SumFunctionOnSet(g, rest) \in Nat
  BY <1>1, <1>4, SumNat
<1> QED
  BY <1>2, <1>3, <1>5, <1>6, <1>7
=============================================================================
