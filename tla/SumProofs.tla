------------------------------ MODULE SumProofs -------------------------------
(***************************************************************************)
(* Sums of the values of a function over a finite set (Functions.tla,      *)
(* SumFunctionOnSet): that the fold behind them exists, one element more,  *)
(* one element less, and that only the values over the set count.  The     *)
(* inductions are over sets of sets, by way of a least counterexample.     *)
(***************************************************************************)
EXTENDS Integers, FiniteSets, Functions, FiniteSetTheorems, WellFoundedInduction, TLAPS

-----------------------------------------------------------------------------
(* Induction over the subsets of a finite set. *)

\* Every set of numbers that has a member has a least one.
LEMMA SmallestExists ==
    ASSUME NEW N \in SUBSET Nat, N # {}
    PROVE  \E n \in N : \A m \in N : n <= m
  <1>1. \E n \in N : \A m \in N : <<m, n>> \notin OpToRel(<, Nat)
    BY WFMin, NatLessThanWellFounded, Zenon
  <1>2. \A m, n \in N : <<m, n>> \notin OpToRel(<, Nat) => ~(m < n)
    BY Zenon DEF OpToRel
  <1>3. \A m, n \in Nat : ~(m < n) => n <= m
    BY SMT
  <1> QED
    BY <1>1, <1>2, <1>3, Zenon

\* A family that takes in every set of which it has all the sets with one element
\* less takes in all subsets of a finite set.
LEMMA SubsetInduction ==
    ASSUME NEW S, IsFiniteSet(S), NEW Good,
           \A T \in SUBSET S : (\A x \in T : T \ {x} \in Good) => T \in Good
    PROVE  SUBSET S \subseteq Good
  <1> DEFINE N == {n \in Nat : \E T \in SUBSET S : T \notin Good /\ Cardinality(T) = n}
  <1> SUFFICES ASSUME NEW R \in SUBSET S, R \notin Good PROVE FALSE
    OBVIOUS
  <1>1. \A T \in SUBSET S : IsFiniteSet(T) /\ Cardinality(T) \in Nat
    BY FS_Subset, FS_CardinalityType
  <1>2. N # {}
    BY <1>1
  <1>3. PICK n \in N : \A m \in N : n <= m
    <2> HIDE DEF N
    <2> N \in SUBSET Nat
      BY DEF N
    <2> QED
      BY <1>2, SmallestExists
  <1>4. PICK T \in SUBSET S : T \notin Good /\ Cardinality(T) = n
    BY <1>3
  <1>5. PICK x \in T : T \ {x} \notin Good
    BY <1>4
  <1>6. Cardinality(T \ {x}) = n - 1 /\ n - 1 \in Nat
    <2>1. Cardinality(T \ {x}) = Cardinality(T) - 1
      BY <1>1, FS_RemoveElement, Zenon
    <2>2. Cardinality(T \ {x}) \in Nat
      BY <1>1
    <2> QED
      BY <1>4, <2>1, <2>2
  <1>7. T \ {x} \in SUBSET S
    OBVIOUS
  <1>8. n - 1 \in N
    BY <1>5, <1>6, <1>7
  <1> QED
    BY <1>3, <1>8

-----------------------------------------------------------------------------
(* The fold. *)

\* The element that is folded next, and the equation of the fold, which gives
\* the sum of every subset of S.
Pick(s) == CHOOSE x \in s : TRUE

IsFold(g, f, S) ==
  g = [s \in SUBSET S |-> IF s = {} THEN 0 ELSE f[Pick(s)] + g[s \ {Pick(s)}]]

\* The definition of the sum, in these words.
LEMMA SumIsFold ==
   ASSUME NEW f, NEW S
   PROVE SumFunctionOnSet(f, S) = (CHOOSE g : IsFold(g, f, S))[S]
  BY Zenon DEF SumFunctionOnSet, FoldFunctionOnSet, MapThenFoldSet, IsFold, Pick

\* A step of the fold.
LEMMA FoldStep ==
    ASSUME NEW f, NEW S, NEW g, IsFold(g, f, S), NEW s \in SUBSET S
    PROVE  g[s] = IF s = {} THEN 0 ELSE f[Pick(s)] + g[s \ {Pick(s)}]
  BY DEF IsFold

\* The element that the fold takes next.
LEMMA PickInSet == ASSUME NEW s, s # {} PROVE Pick(s) \in s
  BY DEF Pick

\* Two folds agree wherever both are defined.
LEMMA FoldUnique ==
    ASSUME NEW f, NEW S, IsFiniteSet(S), NEW g, NEW R, NEW h,
           IsFold(g, f, S), IsFold(h, f, R), S \subseteq R
    PROVE  g[S] = h[S]
  <1> DEFINE Good == {T \in SUBSET S : g[T] = h[T]}
  <1>1. ASSUME NEW T \in SUBSET S, \A x \in T : T \ {x} \in Good PROVE T \in Good
    <2>1. g[T] = IF T = {} THEN 0 ELSE f[Pick(T)] + g[T \ {Pick(T)}]
      BY FoldStep
    <2>2. h[T] = IF T = {} THEN 0 ELSE f[Pick(T)] + h[T \ {Pick(T)}]
      <3>1. T \in SUBSET R
        OBVIOUS
      <3> QED
        BY <3>1 DEF IsFold
    <2>3. T # {} => g[T \ {Pick(T)}] = h[T \ {Pick(T)}]
      BY <1>1, PickInSet
    <2> QED
      BY <2>1, <2>2, <2>3
  <1>2. SUBSET S \subseteq Good
    <2> HIDE DEF Good
    <2> QED
      BY <1>1, SubsetInduction
  <1> QED
    BY <1>2

\* On a finite set the fold exists.
LEMMA FoldExists ==
    ASSUME NEW f, NEW S, IsFiniteSet(S)
    PROVE  \E g : IsFold(g, f, S)
  <1> DEFINE Good == {T \in SUBSET S : \A U \in SUBSET T : \E g : IsFold(g, f, U)}
             value(T) == SumFunctionOnSet(f, T)
  <1>1. ASSUME NEW T \in SUBSET S, \A x \in T : T \ {x} \in Good
        PROVE  \E g : IsFold(g, f, T)
    <2> DEFINE g == [s \in SUBSET T |-> IF s = {} THEN 0
                                        ELSE f[Pick(s)] + value(s \ {Pick(s)})]
    <2>1. ASSUME NEW U \in SUBSET T, U # T
          PROVE  \E h : IsFold(h, f, U)
      BY <1>1, <2>1
    <2>2. ASSUME NEW U \in SUBSET T, U # T
          PROVE  g[U] = value(U)
      <3>1. PICK h : IsFold(h, f, U) /\ value(U) = h[U]
        BY <2>1, <2>2, SumIsFold, Zenon
      <3>2. CASE U = {}
        BY <3>1, <3>2, FoldStep
      <3>3. CASE U # {}
        <4> DEFINE V == U \ {Pick(U)}
        <4>1. V \in SUBSET U /\ V \in SUBSET T /\ V # T /\ V \in SUBSET S /\ IsFiniteSet(V)
          <5>1. V \in SUBSET U /\ V \in SUBSET S
            OBVIOUS
          <5>2. V \in SUBSET T /\ V # T
            BY <2>2
          <5>3. IsFiniteSet(V)
            BY <5>1, FS_Subset
          <5> QED
            BY <5>1, <5>2, <5>3
        <4>2. PICK k : IsFold(k, f, V) /\ value(V) = k[V]
          BY <2>1, <4>1, SumIsFold, Zenon
        <4>3. k[V] = h[V]
          <5> HIDE DEF V
          <5> QED
            BY <3>1, <4>1, <4>2, FoldUnique
        <4>4. h[U] = f[Pick(U)] + h[V]
          BY <3>1, <3>3, FoldStep
        <4>5. g[U] = f[Pick(U)] + value(V)
          BY <3>3
        <4> QED
          BY <3>1, <4>2, <4>3, <4>4, <4>5
      <3> QED
        BY <3>2, <3>3
    <2>3. ASSUME NEW s \in SUBSET T, s # {}
          PROVE  g[s \ {Pick(s)}] = value(s \ {Pick(s)})
      <3>1. s \ {Pick(s)} \in SUBSET T /\ s \ {Pick(s)} # T
        BY <2>3, PickInSet
      <3> HIDE DEF g, value
      <3> QED
        BY <2>2, <3>1
    <2>4. IsFold(g, f, T)
      <3>1. g = [s \in SUBSET T |-> IF s = {} THEN 0 ELSE f[Pick(s)] + g[s \ {Pick(s)}]]
        <4>1. \A s \in SUBSET T : (IF s = {} THEN 0 ELSE f[Pick(s)] + value(s \ {Pick(s)}))
                                  = IF s = {} THEN 0 ELSE f[Pick(s)] + g[s \ {Pick(s)}]
          BY <2>3
        <4> HIDE DEF value
        <4> QED
          BY <4>1
      <3> QED
        BY <3>1 DEF IsFold
    <2> QED
      BY <2>4
  <1>2. ASSUME NEW T \in SUBSET S, \A x \in T : T \ {x} \in Good PROVE T \in Good
    <2>1. \A U \in SUBSET T : U # T => \E x \in T : U \in SUBSET (T \ {x})
      OBVIOUS
    <2> QED
      BY <1>1, <1>2, <2>1
  <1>3. SUBSET S \subseteq Good
    <2> HIDE DEF Good
    <2> QED
      BY <1>2, SubsetInduction
  <1> QED
    BY <1>3

\* The sum over a finite set, one element at a time.
LEMMA SumUnfolds ==
    ASSUME NEW f, NEW S, IsFiniteSet(S)
    PROVE  SumFunctionOnSet(f, S) =
             IF S = {} THEN 0 ELSE f[Pick(S)] + SumFunctionOnSet(f, S \ {Pick(S)})
  <1>1. PICK g : IsFold(g, f, S) /\ SumFunctionOnSet(f, S) = g[S]
    BY FoldExists, SumIsFold, Zenon
  <1>2. CASE S = {}
    BY <1>1, <1>2, FoldStep
  <1>3. CASE S # {}
    <2> DEFINE V == S \ {Pick(S)}
    <2>1. V \in SUBSET S /\ IsFiniteSet(V)
      BY FS_Subset
    <2>2. PICK h : IsFold(h, f, V) /\ SumFunctionOnSet(f, V) = h[V]
      BY <2>1, FoldExists, SumIsFold, Zenon
    <2>3. g[S] = f[Pick(S)] + g[V]
      BY <1>1, <1>3, FoldStep
    <2>4. h[V] = g[V]
      <3> HIDE DEF V
      <3> QED
        BY <1>1, <2>1, <2>2, FoldUnique
    <2> QED
      BY <1>1, <1>3, <2>2, <2>3, <2>4
  <1> QED
    BY <1>2, <1>3

-----------------------------------------------------------------------------
(* Sums. *)

\* Integers add up to an integer.
LEMMA SumType ==
    ASSUME NEW f, NEW S, IsFiniteSet(S), \A x \in S : f[x] \in Int
    PROVE  SumFunctionOnSet(f, S) \in Int
  <1> DEFINE Good == {T \in SUBSET S : SumFunctionOnSet(f, T) \in Int}
  <1>1. ASSUME NEW T \in SUBSET S, \A x \in T : T \ {x} \in Good PROVE T \in Good
    <2>1. SumFunctionOnSet(f, T) =
             IF T = {} THEN 0 ELSE f[Pick(T)] + SumFunctionOnSet(f, T \ {Pick(T)})
      BY FS_Subset, SumUnfolds
    <2>2. T # {} => Pick(T) \in T /\ T \ {Pick(T)} \in Good
      BY <1>1, PickInSet
    <2> QED
      BY <2>1, <2>2
  <1>2. SUBSET S \subseteq Good
    <2> HIDE DEF Good
    <2> QED
      BY <1>1, SubsetInduction
  <1> QED
    BY <1>2

\* It does not matter which element is taken first.
LEMMA SumWithout ==
    ASSUME NEW f, NEW S, IsFiniteSet(S), \A x \in S : f[x] \in Int, NEW e \in S
    PROVE  SumFunctionOnSet(f, S) = SumFunctionOnSet(f, S \ {e}) + f[e]
  <1> DEFINE sum(T) == SumFunctionOnSet(f, T)
             Good == {T \in SUBSET S : \A x \in T : sum(T) = sum(T \ {x}) + f[x]}
  <1>0. ASSUME NEW T \in SUBSET S PROVE IsFiniteSet(T) /\ sum(T) \in Int
    <2>1. IsFiniteSet(T)
      BY FS_Subset
    <2> QED
      BY <2>1, SumType
  <1>1. ASSUME NEW T \in SUBSET S, \A x \in T : T \ {x} \in Good PROVE T \in Good
    <2> SUFFICES ASSUME NEW x \in T PROVE sum(T) = sum(T \ {x}) + f[x]
      OBVIOUS
    <2> DEFINE p == Pick(T)
    <2>1. p \in T /\ sum(T) = f[p] + sum(T \ {p})
      BY <1>0, PickInSet, SumUnfolds
    <2>2. CASE p = x
      <3>1. sum(T \ {p}) \in Int /\ f[p] \in Int
        BY <1>0, <2>1
      <3> HIDE DEF sum, p
      <3> QED
        BY <2>1, <2>2, <3>1
    <2>3. CASE p # x
      <3>1. T \ {p} \in Good /\ T \ {x} \in Good /\ x \in T \ {p} /\ p \in T \ {x}
        BY <1>1, <2>1, <2>3
      <3>2. sum(T \ {p}) = sum((T \ {p}) \ {x}) + f[x] /\ sum(T \ {x}) = sum((T \ {x}) \ {p}) + f[p]
        BY <3>1
      <3>3. (T \ {p}) \ {x} = (T \ {x}) \ {p} /\ (T \ {p}) \ {x} \in SUBSET S
        OBVIOUS
      <3>4. sum((T \ {p}) \ {x}) \in Int /\ f[x] \in Int /\ f[p] \in Int
        BY <1>0, <2>1, <3>3
      <3> DEFINE rest == sum((T \ {p}) \ {x})
      <3>5. /\ sum(T) = f[p] + (rest + f[x]) /\ sum(T \ {x}) = rest + f[p]
            /\ rest \in Int
        BY <2>1, <3>2, <3>3, <3>4, Zenon
      <3> HIDE DEF sum, p, rest
      <3> QED
        BY <3>4, <3>5
    <2> QED
      BY <2>2, <2>3
  <1>2. SUBSET S \subseteq Good
    <2> HIDE DEF Good
    <2> QED
      BY <1>1, SubsetInduction
  <1> QED
    BY <1>2

\* One element more.
LEMMA SumAdds ==
    ASSUME NEW f, NEW S, IsFiniteSet(S), \A x \in S : f[x] \in Int,
           NEW e, e \notin S, f[e] \in Int
    PROVE  SumFunctionOnSet(f, S \cup {e}) = SumFunctionOnSet(f, S) + f[e]
  <1>1. (S \cup {e}) \ {e} = S
    OBVIOUS
  <1>2. IsFiniteSet(S \cup {e})
    BY FS_AddElement
  <1> QED
    BY <1>1, <1>2, SumWithout

\* The sum depends on the values over the set only.
LEMMA SumSame ==
    ASSUME NEW f, NEW g, NEW S, IsFiniteSet(S), \A x \in S : f[x] = g[x]
    PROVE  SumFunctionOnSet(f, S) = SumFunctionOnSet(g, S)
  <1> DEFINE Good == {T \in SUBSET S : SumFunctionOnSet(f, T) = SumFunctionOnSet(g, T)}
  <1>1. ASSUME NEW T \in SUBSET S, \A x \in T : T \ {x} \in Good PROVE T \in Good
    <2>1. IsFiniteSet(T)
      BY FS_Subset
    <2>2. /\ SumFunctionOnSet(f, T) =
               IF T = {} THEN 0 ELSE f[Pick(T)] + SumFunctionOnSet(f, T \ {Pick(T)})
          /\ SumFunctionOnSet(g, T) =
               IF T = {} THEN 0 ELSE g[Pick(T)] + SumFunctionOnSet(g, T \ {Pick(T)})
      BY <2>1, SumUnfolds
    <2>3. T # {} => /\ f[Pick(T)] = g[Pick(T)]
                    /\ SumFunctionOnSet(f, T \ {Pick(T)}) = SumFunctionOnSet(g, T \ {Pick(T)})
      BY <1>1, PickInSet
    <2> QED
      BY <2>2, <2>3
  <1>2. SUBSET S \subseteq Good
    <2> HIDE DEF Good
    <2> QED
      BY <1>1, SubsetInduction
  <1> QED
    BY <1>2

\* Nothing adds up to 0, and one value to itself.
LEMMA SumOfFew ==
    ASSUME NEW f
    PROVE  /\ SumFunctionOnSet(f, {}) = 0
           /\ \A e : f[e] \in Int => SumFunctionOnSet(f, {e}) = f[e]
  <1>1. SumFunctionOnSet(f, {}) = 0
    BY FS_EmptySet, SumUnfolds
  <1>2. ASSUME NEW e, f[e] \in Int PROVE SumFunctionOnSet(f, {e}) = f[e]
    <2>1. SumFunctionOnSet(f, {} \cup {e}) = SumFunctionOnSet(f, {}) + f[e]
      BY <1>2, FS_EmptySet, SumAdds
    <2>2. {} \cup {e} = {e}
      OBVIOUS
    <2> QED
      BY <1>1, <1>2, <2>1, <2>2
  <1> QED
    BY <1>1, <1>2
===============================================================================
