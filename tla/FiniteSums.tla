------------------------------ MODULE FiniteSums ------------------------------
(***************************************************************************)
(* Lemmas about SumFunction and SumFunctionOnSet of the community module   *)
(* Functions, which the models add up money and goods with.  No module of  *)
(* the program is behind them; what is proved about the ledgers rests on   *)
(* them: the sums are numbers, change by one term when one row changes,    *)
(* and may be sorted into classes or added up rows first or columns first. *)
(*                                                                         *)
(* The folds are recursive functions over the subsets of a set.  Induction *)
(* on those subsets is the well-foundedness of < on Nat, taken at the size *)
(* of the smallest subset a statement fails of.                            *)
(***************************************************************************)
EXTENDS Integers, Sequences, FiniteSetsExt, Functions, FiniteSetTheorems, TLAPS

\* The element a fold takes next.
Some(S) == CHOOSE x \in S : TRUE

\* g adds f up over every subset of S
Adds(g, f, S) ==
    g = [T \in SUBSET S |-> IF T = {} THEN 0 ELSE f[Some(T)] + g[T \ {Some(T)}]]

\* Some element of a set that has one is an element of it.
LEMMA SomeIsMember == ASSUME NEW S, S # {} PROVE Some(S) \in S
BY DEF Some

\* A fold of the community modules is such a function, read at S.
LEMMA SumIsAdds ==
    ASSUME NEW f, NEW S, NEW g, Adds(g, f, S)
    PROVE  \E h : Adds(h, f, S) /\ SumFunctionOnSet(f, S) = h[S]
<1>1. SumFunctionOnSet(f, S) = (CHOOSE h : Adds(h, f, S))[S]
  BY DEF SumFunctionOnSet, FoldFunctionOnSet, MapThenFoldSet, Adds, Some
<1> QED
  BY <1>1

\* Induction up to a natural number, a set standing for the predicate.
LEMMA InductionOnLengths ==
    ASSUME NEW len \in Nat, NEW Good, 0 \in Good,
           \A n \in 0..(len - 1) : n \in Good => n + 1 \in Good
    PROVE  \A n \in 0..len : n \in Good
<1> DEFINE Bad == {n \in Nat : n \in 0..len /\ n \notin Good}
<1> SUFFICES ASSUME Bad # {} PROVE FALSE
  OBVIOUS
<1>1. PICK n \in Bad : \A m \in Bad : ~(<<m, n>> \in OpToRel(<, Nat))
  BY NatLessThanWellFounded, WFMin
<1>2. n # 0 /\ n - 1 \in 0..(len - 1) /\ n - 1 \in Nat
  OBVIOUS
<1>3. n - 1 \in Bad
  BY <1>2
<1>4. <<n - 1, n>> \in OpToRel(<, Nat)
  BY <1>1, <1>2 DEF OpToRel
<1> QED
  BY <1>1, <1>3, <1>4

\* Induction over the subsets of a finite set, a set standing for the predicate.
LEMMA InductionOnSubsets ==
    ASSUME NEW S, IsFiniteSet(S), NEW Good,
           \A T \in SUBSET S : (\A x \in T : T \ {x} \in Good) => T \in Good
    PROVE  \A T \in SUBSET S : T \in Good
<1> DEFINE Bad == {n \in Nat : \E T \in SUBSET S : T \notin Good /\ Cardinality(T) = n}
<1> SUFFICES ASSUME Bad # {} PROVE FALSE
  BY FS_Subset, FS_CardinalityType
<1>1. PICK n \in Bad : \A m \in Bad : ~(<<m, n>> \in OpToRel(<, Nat))
  BY NatLessThanWellFounded, WFMin
<1>2. PICK T \in SUBSET S : T \notin Good /\ Cardinality(T) = n
  OBVIOUS
<1>3. PICK x \in T : T \ {x} \notin Good
  BY <1>2
<1>4. Cardinality(T \ {x}) = n - 1 /\ n - 1 \in Nat /\ T \ {x} \in SUBSET S
  <2>1. IsFiniteSet(T) /\ IsFiniteSet(T \ {x}) /\ T \ {x} \in SUBSET S
    BY FS_Subset
  <2>2. Cardinality(T \ {x}) = Cardinality(T) - 1
    BY <2>1, FS_RemoveElement
  <2>3. Cardinality(T \ {x}) \in Nat
    BY <2>1, FS_CardinalityType
  <2> QED
    BY <1>2, <2>1, <2>2, <2>3
<1>5. n - 1 \in Bad
  BY <1>3, <1>4
<1>6. <<n - 1, n>> \in OpToRel(<, Nat)
  BY <1>4, <1>1 DEF OpToRel
<1> QED
  BY <1>1, <1>5, <1>6

\* One step of the recursion.
LEMMA AddsUnfold ==
    ASSUME NEW f, NEW S, NEW g, Adds(g, f, S), NEW T \in SUBSET S
    PROVE  g[T] = IF T = {} THEN 0 ELSE f[Some(T)] + g[T \ {Some(T)}]
BY DEF Adds

\* No two functions add the same up differently.
LEMMA AddsUnique ==
    ASSUME NEW f, NEW S, IsFiniteSet(S), NEW g, NEW h, Adds(g, f, S), Adds(h, f, S)
    PROVE  \A T \in SUBSET S : g[T] = h[T]
<1> DEFINE Good == {T \in SUBSET S : g[T] = h[T]}
<1>1. ASSUME NEW T \in SUBSET S, \A x \in T : T \ {x} \in Good
      PROVE  T \in Good
  <2>1. CASE T = {}
    BY <2>1, AddsUnfold
  <2>2. CASE T # {}
    <3>1. Some(T) \in T
      BY <2>2, SomeIsMember
    <3>2. g[T \ {Some(T)}] = h[T \ {Some(T)}]
      BY <1>1, <3>1
    <3>3. g[T] = f[Some(T)] + g[T \ {Some(T)}] /\ h[T] = f[Some(T)] + h[T \ {Some(T)}]
      BY <2>2, AddsUnfold
    <3> QED
      BY <3>2, <3>3
  <2> QED
    BY <2>1, <2>2
<1> HIDE DEF Good
<1>2. \A T \in SUBSET S : T \in Good
  BY <1>1, InductionOnSubsets
<1> QED
  BY <1>2 DEF Good

\* Over a part of S the fold is the value there of any such function.
LEMMA SumIsAdded ==
    ASSUME NEW f, NEW S, IsFiniteSet(S), NEW g, Adds(g, f, S), NEW T \in SUBSET S
    PROVE  SumFunctionOnSet(f, T) = g[T]
<1> DEFINE k == [U \in SUBSET T |-> g[U]]
<1>1. Adds(k, f, T)
  <2>1. ASSUME NEW U \in SUBSET T
        PROVE  k[U] = IF U = {} THEN 0 ELSE f[Some(U)] + k[U \ {Some(U)}]
    <3>1. U \in SUBSET S /\ U \ {Some(U)} \in SUBSET T
      OBVIOUS
    <3> QED
      BY <3>1, AddsUnfold
  <2> HIDE DEF k
  <2>2. k = [U \in SUBSET T |-> k[U]]
    BY DEF k
  <2> QED
    BY <2>1, <2>2 DEF Adds
<1>2. PICK h : Adds(h, f, T) /\ SumFunctionOnSet(f, T) = h[T]
  BY <1>1, SumIsAdds
<1>3. IsFiniteSet(T)
  BY FS_Subset
<1>4. h[T] = k[T]
  <2> HIDE DEF k
  <2> QED
    BY <1>1, <1>2, <1>3, AddsUnique
<1> QED
  BY <1>2, <1>4

\* There is such a function over every finite set.
LEMMA AddsExists ==
    ASSUME NEW f, NEW S, IsFiniteSet(S)
    PROVE  \E g : Adds(g, f, S)
<1> DEFINE Good == {T \in SUBSET S : \E g : Adds(g, f, T)}
<1>1. ASSUME NEW T \in SUBSET S, \A x \in T : T \ {x} \in Good
      PROVE  T \in Good
  <2> DEFINE Rest(U) == SumFunctionOnSet(f, U \ {Some(U)})
             k == [U \in SUBSET T |-> IF U = {} THEN 0 ELSE f[Some(U)] + Rest(U)]
  <2>1. ASSUME NEW U \in SUBSET T, U # {}
        PROVE  k[U \ {Some(U)}] = Rest(U)
    <3> DEFINE V == U \ {Some(U)}
    <3>1. Some(U) \in T /\ V \subseteq T \ {Some(U)} /\ V \in SUBSET S
      BY <2>1, SomeIsMember
    <3>2. PICK h : Adds(h, f, T \ {Some(U)})
      BY <1>1, <3>1
    <3>3. IsFiniteSet(T \ {Some(U)})
      BY FS_Subset
    <3> HIDE DEF V
    <3>4. SumFunctionOnSet(f, V) = h[V]
      BY <3>1, <3>2, <3>3, SumIsAdded
    <3>5. V # {} => SumFunctionOnSet(f, V \ {Some(V)}) = h[V \ {Some(V)}]
      BY <3>1, <3>2, <3>3, SumIsAdded
    <3>6. h[V] = IF V = {} THEN 0 ELSE f[Some(V)] + h[V \ {Some(V)}]
      BY <3>1, <3>2, AddsUnfold
    <3>7. k[V] = IF V = {} THEN 0 ELSE f[Some(V)] + Rest(V)
      BY <3>1
    <3>8. k[V] = SumFunctionOnSet(f, V)
      BY <3>4, <3>5, <3>6, <3>7
    <3> QED
      BY <3>8 DEF V
  <2>2. \A U \in SUBSET T : k[U] = IF U = {} THEN 0 ELSE f[Some(U)] + k[U \ {Some(U)}]
    <3> SUFFICES ASSUME NEW U \in SUBSET T
                 PROVE  k[U] = IF U = {} THEN 0 ELSE f[Some(U)] + k[U \ {Some(U)}]
      OBVIOUS
    <3>1. k[U] = IF U = {} THEN 0 ELSE f[Some(U)] + Rest(U)
      OBVIOUS
    <3> HIDE DEF k, Rest
    <3> QED
      BY <2>1, <3>1
  <2>3. k = [U \in SUBSET T |-> k[U]]
    OBVIOUS
  <2> HIDE DEF k
  <2>4. Adds(k, f, T)
    BY <2>2, <2>3 DEF Adds
  <2> QED
    BY <2>4
<1> HIDE DEF Good
<1>2. \A T \in SUBSET S : T \in Good
  BY <1>1, InductionOnSubsets
<1> QED
  BY <1>2 DEF Good

\* The equation the fold is defined by.
LEMMA SumUnfold ==
    ASSUME NEW f, NEW S, IsFiniteSet(S)
    PROVE  SumFunctionOnSet(f, S) =
               IF S = {} THEN 0
               ELSE f[Some(S)] + SumFunctionOnSet(f, S \ {Some(S)})
<1>1. PICK g : Adds(g, f, S)
  BY AddsExists
<1>2. S \in SUBSET S /\ S \ {Some(S)} \in SUBSET S
  OBVIOUS
<1>3. SumFunctionOnSet(f, S) = g[S] /\ SumFunctionOnSet(f, S \ {Some(S)}) = g[S \ {Some(S)}]
  BY <1>1, <1>2, SumIsAdded
<1> QED
  BY <1>1, <1>2, <1>3, AddsUnfold

IntOn(f, S) == \A x \in S : f[x] \in Int

\* Nothing comes to nothing.
LEMMA SumEmpty == ASSUME NEW f PROVE SumFunctionOnSet(f, {}) = 0
BY SumUnfold, FS_EmptySet

\* Integers come to an integer.
LEMMA SumInt ==
    ASSUME NEW f, NEW S, IsFiniteSet(S), IntOn(f, S)
    PROVE  SumFunctionOnSet(f, S) \in Int
<1> DEFINE Good == {T \in SUBSET S : SumFunctionOnSet(f, T) \in Int}
<1>1. ASSUME NEW T \in SUBSET S, \A x \in T : T \ {x} \in Good
      PROVE  T \in Good
  <2>1. IsFiniteSet(T) /\ (T # {} => Some(T) \in T)
    BY FS_Subset, SomeIsMember
  <2>2. SumFunctionOnSet(f, T) = IF T = {} THEN 0
                                 ELSE f[Some(T)] + SumFunctionOnSet(f, T \ {Some(T)})
    BY <2>1, SumUnfold
  <2> QED
    BY <1>1, <2>1, <2>2 DEF IntOn
<1> HIDE DEF Good
<1>2. \A T \in SUBSET S : T \in Good
  BY <1>1, InductionOnSubsets
<1> QED
  BY <1>2 DEF Good

\* The sum does not depend on the order in which the fold takes the elements.
LEMMA SumRemove ==
    ASSUME NEW f, NEW S, IsFiniteSet(S), IntOn(f, S), NEW x \in S
    PROVE  SumFunctionOnSet(f, S) = f[x] + SumFunctionOnSet(f, S \ {x})
<1> DEFINE Sum(T) == SumFunctionOnSet(f, T)
           Good == {T \in SUBSET S : \A y \in T : Sum(T) = f[y] + Sum(T \ {y})}
<1>1. \A T \in SUBSET S : IsFiniteSet(T) /\ IntOn(f, T) /\ Sum(T) \in Int
  BY FS_Subset, SumInt DEF IntOn
<1>2. \A T \in SUBSET S : T # {} => Some(T) \in T /\ Sum(T) = f[Some(T)] + Sum(T \ {Some(T)})
  BY <1>1, SumUnfold, SomeIsMember
<1> HIDE DEF Sum
<1>3. ASSUME NEW T \in SUBSET S, \A y \in T : T \ {y} \in Good
      PROVE  T \in Good
  <2> SUFFICES ASSUME NEW y \in T, y # Some(T)
               PROVE  Sum(T) = f[y] + Sum(T \ {y})
    BY <1>2
  <2>1. Some(T) \in T /\ Sum(T) = f[Some(T)] + Sum(T \ {Some(T)})
    BY <1>2
  <2>2. Sum(T \ {Some(T)}) = f[y] + Sum((T \ {Some(T)}) \ {y})
    BY <1>3, <2>1
  <2>3. Sum(T \ {y}) = f[Some(T)] + Sum((T \ {y}) \ {Some(T)})
    BY <1>3, <2>1
  <2>4. Sum((T \ {y}) \ {Some(T)}) = Sum((T \ {Some(T)}) \ {y})
    <3>1. (T \ {y}) \ {Some(T)} = (T \ {Some(T)}) \ {y}
      OBVIOUS
    <3> QED
      BY <3>1
  <2>5. f[y] \in Int /\ f[Some(T)] \in Int /\ Sum((T \ {y}) \ {Some(T)}) \in Int
    BY <1>1, <2>1 DEF IntOn
  <2> QED
    BY <2>1, <2>2, <2>3, <2>4, <2>5
<1> HIDE DEF Good
<1>4. \A T \in SUBSET S : T \in Good
  BY <1>3, InductionOnSubsets
<1> QED
  BY <1>4 DEF Good, Sum

\* One more element adds its own value.
LEMMA SumAdd ==
    ASSUME NEW f, NEW S, IsFiniteSet(S), IntOn(f, S), NEW x, x \notin S, f[x] \in Int
    PROVE  SumFunctionOnSet(f, S \cup {x}) = f[x] + SumFunctionOnSet(f, S)
<1>1. IsFiniteSet(S \cup {x}) /\ IntOn(f, S \cup {x}) /\ (S \cup {x}) \ {x} = S
  BY FS_AddElement DEF IntOn
<1> QED
  BY <1>1, SumRemove

\* Functions equal on S come to the same over S.
LEMMA SumAgree ==
    ASSUME NEW f, NEW g, NEW S, IsFiniteSet(S), \A x \in S : f[x] = g[x]
    PROVE  SumFunctionOnSet(f, S) = SumFunctionOnSet(g, S)
<1> DEFINE Good == {T \in SUBSET S : SumFunctionOnSet(f, T) = SumFunctionOnSet(g, T)}
<1>1. ASSUME NEW T \in SUBSET S, \A x \in T : T \ {x} \in Good
      PROVE  T \in Good
  <2>1. IsFiniteSet(T) /\ (T # {} => Some(T) \in T)
    BY FS_Subset, SomeIsMember
  <2>2. /\ SumFunctionOnSet(f, T) = IF T = {} THEN 0
                                    ELSE f[Some(T)] + SumFunctionOnSet(f, T \ {Some(T)})
        /\ SumFunctionOnSet(g, T) = IF T = {} THEN 0
                                    ELSE g[Some(T)] + SumFunctionOnSet(g, T \ {Some(T)})
    BY <2>1, SumUnfold
  <2> QED
    BY <1>1, <2>1, <2>2
<1> HIDE DEF Good
<1>2. \A T \in SUBSET S : T \in Good
  BY <1>1, InductionOnSubsets
<1> QED
  BY <1>2 DEF Good

\* Changing one term changes the sum by as much.
LEMMA SumChange ==
    ASSUME NEW f, NEW g, NEW S, IsFiniteSet(S), IntOn(f, S), IntOn(g, S), NEW x \in S,
           \A y \in S \ {x} : f[y] = g[y]
    PROVE  SumFunctionOnSet(g, S) = SumFunctionOnSet(f, S) - f[x] + g[x]
<1>1. IsFiniteSet(S \ {x}) /\ IntOn(f, S \ {x}) /\ f[x] \in Int /\ g[x] \in Int
  BY FS_RemoveElement DEF IntOn
<1>2. SumFunctionOnSet(f, S \ {x}) = SumFunctionOnSet(g, S \ {x})
  BY <1>1, SumAgree
<1>3. /\ SumFunctionOnSet(f, S) = f[x] + SumFunctionOnSet(f, S \ {x})
      /\ SumFunctionOnSet(g, S) = g[x] + SumFunctionOnSet(g, S \ {x})
  BY SumRemove
<1>4. SumFunctionOnSet(f, S \ {x}) \in Int
  BY <1>1, SumInt
<1> QED
  BY <1>1, <1>2, <1>3, <1>4

\* Zeros come to zero.
LEMMA SumZero ==
    ASSUME NEW f, NEW S, IsFiniteSet(S), \A x \in S : f[x] = 0
    PROVE  SumFunctionOnSet(f, S) = 0
<1> DEFINE Good == {T \in SUBSET S : SumFunctionOnSet(f, T) = 0}
<1>1. ASSUME NEW T \in SUBSET S, \A x \in T : T \ {x} \in Good
      PROVE  T \in Good
  <2>1. IsFiniteSet(T) /\ (T # {} => Some(T) \in T)
    BY FS_Subset, SomeIsMember
  <2>2. SumFunctionOnSet(f, T) = IF T = {} THEN 0
                                 ELSE f[Some(T)] + SumFunctionOnSet(f, T \ {Some(T)})
    BY <2>1, SumUnfold
  <2> QED
    BY <1>1, <2>1, <2>2
<1> HIDE DEF Good
<1>2. \A T \in SUBSET S : T \in Good
  BY <1>1, InductionOnSubsets
<1> QED
  BY <1>2 DEF Good

\* Terms that are zero may be left out.
LEMMA SumSupport ==
    ASSUME NEW f, NEW S, IsFiniteSet(S), IntOn(f, S), NEW R \in SUBSET S,
           \A x \in S \ R : f[x] = 0
    PROVE  SumFunctionOnSet(f, R) = SumFunctionOnSet(f, S)
<1> DEFINE Sum(T) == SumFunctionOnSet(f, T)
           Good == {T \in SUBSET S : Sum(T \cap R) = Sum(T)}
<1>1. \A T \in SUBSET S : IsFiniteSet(T) /\ IntOn(f, T) /\ Sum(T) \in Int
  BY FS_Subset, SumInt DEF IntOn
<1>2. \A T \in SUBSET S : \A y \in T : Sum(T) = f[y] + Sum(T \ {y})
  BY <1>1, SumRemove
<1> HIDE DEF Sum
<1>3. ASSUME NEW T \in SUBSET S, \A y \in T : T \ {y} \in Good
      PROVE  T \in Good
  <2>1. CASE T = {}
    BY <2>1
  <2>2. ASSUME NEW y \in T \cap R
        PROVE  T \in Good
    <3>1. Sum(T) = f[y] + Sum(T \ {y}) /\ Sum(T \cap R) = f[y] + Sum((T \cap R) \ {y})
      BY <1>2
    <3>2. Sum(T \ {y}) = Sum((T \ {y}) \cap R) /\ (T \ {y}) \cap R = (T \cap R) \ {y}
      BY <1>3
    <3>3. Sum(T \cap R) = Sum(T)
      BY <3>1, <3>2
    <3> QED
      BY <3>3
  <2>3. ASSUME NEW y \in T, T \cap R = {}
        PROVE  T \in Good
    <3>1. Sum(T) = f[y] + Sum(T \ {y}) /\ f[y] = 0 /\ Sum(T \ {y}) \in Int
      BY <1>1, <1>2, <2>3
    <3>2. Sum((T \ {y}) \cap R) = Sum(T \ {y})
      BY <1>3
    <3>3. (T \ {y}) \cap R = T \cap R
      BY <2>3
    <3>4. Sum(T) = Sum(T \ {y})
      BY <3>1
    <3>5. Sum(T \cap R) = Sum(T)
      BY <3>2, <3>3, <3>4, Zenon
    <3> QED
      BY <3>5
  <2> QED
    BY <2>1, <2>2, <2>3
<1> HIDE DEF Good
<1>4. \A T \in SUBSET S : T \in Good
  BY <1>3, InductionOnSubsets
<1>5. S \cap R = R
  OBVIOUS
<1> QED
  BY <1>4, <1>5 DEF Good, Sum

\* Term by term, sums of two functions add.
LEMMA SumPlus ==
    ASSUME NEW f, NEW g, NEW h, NEW S, IsFiniteSet(S), IntOn(f, S), IntOn(g, S),
           \A x \in S : h[x] = f[x] + g[x]
    PROVE  SumFunctionOnSet(h, S) = SumFunctionOnSet(f, S) + SumFunctionOnSet(g, S)
<1> DEFINE Good == {T \in SUBSET S : SumFunctionOnSet(h, T)
                                     = SumFunctionOnSet(f, T) + SumFunctionOnSet(g, T)}
<1>1. ASSUME NEW T \in SUBSET S, \A x \in T : T \ {x} \in Good
      PROVE  T \in Good
  <2>1. IsFiniteSet(T) /\ IntOn(f, T) /\ IntOn(g, T)
    BY FS_Subset DEF IntOn
  <2>2. CASE T = {}
    BY <2>2, SumEmpty
  <2>3. ASSUME NEW x \in T PROVE T \in Good
    <3>1. f[x] \in Int /\ g[x] \in Int /\ h[x] = f[x] + g[x] /\ IntOn(h, T)
      BY <2>1 DEF IntOn
    <3>2. /\ SumFunctionOnSet(f, T) = f[x] + SumFunctionOnSet(f, T \ {x})
          /\ SumFunctionOnSet(g, T) = g[x] + SumFunctionOnSet(g, T \ {x})
          /\ SumFunctionOnSet(h, T) = h[x] + SumFunctionOnSet(h, T \ {x})
      BY <2>1, <3>1, SumRemove
    <3>3. IsFiniteSet(T \ {x}) /\ IntOn(f, T \ {x}) /\ IntOn(g, T \ {x})
      BY <2>1, FS_RemoveElement DEF IntOn
    <3>4. SumFunctionOnSet(f, T \ {x}) \in Int /\ SumFunctionOnSet(g, T \ {x}) \in Int
      BY <3>3, SumInt
    <3>5. SumFunctionOnSet(h, T \ {x})
          = SumFunctionOnSet(f, T \ {x}) + SumFunctionOnSet(g, T \ {x})
      BY <1>1
    <3> HIDE DEF Good
    <3>6. SumFunctionOnSet(h, T) = SumFunctionOnSet(f, T) + SumFunctionOnSet(g, T)
      BY <3>1, <3>2, <3>4, <3>5
    <3> QED
      BY <3>6 DEF Good
  <2> QED
    BY <2>2, <2>3
<1> HIDE DEF Good
<1>2. \A T \in SUBSET S : T \in Good
  BY <1>1, InductionOnSubsets
<1> QED
  BY <1>2 DEF Good

\* Natural numbers come to a natural number.
LEMMA SumNat ==
    ASSUME NEW f, NEW S, IsFiniteSet(S), \A x \in S : f[x] \in Nat
    PROVE  SumFunctionOnSet(f, S) \in Nat
<1> DEFINE Good == {T \in SUBSET S : SumFunctionOnSet(f, T) \in Nat}
<1>1. ASSUME NEW T \in SUBSET S, \A x \in T : T \ {x} \in Good
      PROVE  T \in Good
  <2>1. IsFiniteSet(T) /\ (T # {} => Some(T) \in T)
    BY FS_Subset, SomeIsMember
  <2>2. SumFunctionOnSet(f, T) = IF T = {} THEN 0
                                 ELSE f[Some(T)] + SumFunctionOnSet(f, T \ {Some(T)})
    BY <2>1, SumUnfold
  <2> QED
    BY <1>1, <2>1, <2>2
<1> HIDE DEF Good
<1>2. \A T \in SUBSET S : T \in Good
  BY <1>1, InductionOnSubsets
<1> QED
  BY <1>2 DEF Good

\* No term is more than the sum.
LEMMA SumBounds ==
    ASSUME NEW f, NEW S, IsFiniteSet(S), \A y \in S : f[y] \in Nat, NEW x \in S
    PROVE  f[x] <= SumFunctionOnSet(f, S)
<1>1. IntOn(f, S) /\ IsFiniteSet(S \ {x})
  BY FS_RemoveElement DEF IntOn
<1>2. SumFunctionOnSet(f, S \ {x}) \in Nat
  BY <1>1, SumNat
<1> QED
  BY <1>1, <1>2, SumRemove

-----------------------------------------------------------------------------
(* Sums over parts, images and two indices *)

\* A sum is what it comes to on a part and on the rest.
LEMMA SumSplit ==
    ASSUME NEW f, NEW S, IsFiniteSet(S), IntOn(f, S), NEW R \in SUBSET S
    PROVE  SumFunctionOnSet(f, S) = SumFunctionOnSet(f, R) + SumFunctionOnSet(f, S \ R)
<1> DEFINE g == [x \in S |-> IF x \in R THEN f[x] ELSE 0]
           h == [x \in S |-> IF x \in R THEN 0 ELSE f[x]]
<1>1. /\ IntOn(g, S) /\ IntOn(h, S) /\ \A x \in S : f[x] = g[x] + h[x]
      /\ \A x \in S \ R : g[x] = 0
      /\ \A x \in S \ (S \ R) : h[x] = 0
      /\ \A x \in R : g[x] = f[x]
      /\ \A x \in S \ R : h[x] = f[x]
      /\ IsFiniteSet(R) /\ IsFiniteSet(S \ R) /\ S \ R \in SUBSET S
  BY FS_Subset DEF IntOn
<1> HIDE DEF g, h
<1>2. SumFunctionOnSet(f, S) = SumFunctionOnSet(g, S) + SumFunctionOnSet(h, S)
  BY <1>1, SumPlus
<1>3. /\ SumFunctionOnSet(g, R) = SumFunctionOnSet(g, S)
      /\ SumFunctionOnSet(h, S \ R) = SumFunctionOnSet(h, S)
  BY <1>1, SumSupport
<1>4. /\ SumFunctionOnSet(g, R) = SumFunctionOnSet(f, R)
      /\ SumFunctionOnSet(h, S \ R) = SumFunctionOnSet(f, S \ R)
  BY <1>1, SumAgree
<1> QED
  BY <1>2, <1>3, <1>4

\* What a function makes of finitely many values is finitely many.
LEMMA ImageIsFinite ==
    ASSUME NEW S, IsFiniteSet(S), NEW name
    PROVE  IsFiniteSet({name[x] : x \in S})
<1> DEFINE Names(T) == {name[x] : x \in T}
           Good == {T \in SUBSET S : IsFiniteSet(Names(T))}
<1>1. ASSUME NEW T \in SUBSET S, \A x \in T : T \ {x} \in Good
      PROVE  T \in Good
  <2>1. CASE T = {}
    <3>1. Names(T) = {}
      BY <2>1
    <3> QED
      BY <3>1, FS_EmptySet
  <2>2. ASSUME NEW x \in T PROVE T \in Good
    <3>1. Names(T) = Names(T \ {x}) \cup {name[x]}
      OBVIOUS
    <3>2. IsFiniteSet(Names(T \ {x}))
      BY <1>1
    <3> HIDE DEF Names
    <3>4. IsFiniteSet(Names(T \ {x}) \cup {name[x]})
      BY <3>2, FS_AddElement
    <3>3. IsFiniteSet(Names(T))
      BY <3>1, <3>4
    <3> QED
      BY <3>3
  <2> QED
    BY <2>1, <2>2
<1> HIDE DEF Good
<1>2. \A T \in SUBSET S : T \in Good
  BY <1>1, InductionOnSubsets
<1> QED
  BY <1>2 DEF Good

\* Other names for the terms, one for each, do not change the sum.
Renames(f, S, name, g, N) ==
    /\ \A x, y \in S : name[x] = name[y] => x = y
    /\ \A x \in S : g[name[x]] = f[x]
    /\ N = {name[x] : x \in S}

\* Elements called by other names come to the same.
LEMMA SumRelabel ==
    ASSUME NEW f, NEW S, IsFiniteSet(S), IntOn(f, S), NEW name, NEW g, NEW N,
           Renames(f, S, name, g, N)
    PROVE  SumFunctionOnSet(g, N) = SumFunctionOnSet(f, S)
<1> USE DEF Renames
<1> DEFINE Names(T) == {name[x] : x \in T}
           Good == {T \in SUBSET S : SumFunctionOnSet(g, Names(T)) = SumFunctionOnSet(f, T)}
<1>1. ASSUME NEW T \in SUBSET S, \A x \in T : T \ {x} \in Good
      PROVE  T \in Good
  <2>1. CASE T = {}
    <3>1. Names(T) = {}
      BY <2>1
    <3> QED
      BY <2>1, <3>1, SumEmpty
  <2>2. ASSUME NEW x \in T PROVE T \in Good
    <3>1. /\ IsFiniteSet(T) /\ IntOn(f, T) /\ name[x] \in Names(T)
          /\ Names(T) \ {name[x]} = Names(T \ {x})
      BY FS_Subset DEF IntOn
    <3>2. IsFiniteSet(Names(T)) /\ IntOn(g, Names(T)) /\ g[name[x]] = f[x]
      <4>1. IsFiniteSet(Names(T))
        BY <3>1, ImageIsFinite
      <4> QED
        BY <4>1 DEF IntOn
    <3>3. SumFunctionOnSet(g, Names(T \ {x})) = SumFunctionOnSet(f, T \ {x})
      BY <1>1
    <3> HIDE DEF Names
    <3>4. SumFunctionOnSet(f, T) = f[x] + SumFunctionOnSet(f, T \ {x})
      BY <3>1, SumRemove
    <3>5. SumFunctionOnSet(g, Names(T)) = g[name[x]] + SumFunctionOnSet(g, Names(T) \ {name[x]})
      BY <3>1, <3>2, SumRemove
    <3> QED
      BY <3>1, <3>2, <3>3, <3>4, <3>5
  <2> QED
    BY <2>1, <2>2
<1> HIDE DEF Good
<1>2. \A T \in SUBSET S : T \in Good
  BY <1>1, InductionOnSubsets
<1> QED
  BY <1>2 DEF Good

\* The same terms by row and by column, with the sum of each.
Crossed(S, T, row, column, rowSum, columnSum) ==
    /\ \A x \in S : IntOn(row[x], T)
    /\ \A x \in S, y \in T : column[y][x] = row[x][y]
    /\ \A x \in S : rowSum[x] = SumFunctionOnSet(row[x], T)
    /\ \A y \in T : columnSum[y] = SumFunctionOnSet(column[y], S)

\* The sum of the rows' sums is the sum of the columns' sums.
LEMMA SumSwap ==
    ASSUME NEW S, IsFiniteSet(S), NEW T, IsFiniteSet(T), NEW row, NEW column,
           NEW rowSum, NEW columnSum, Crossed(S, T, row, column, rowSum, columnSum)
    PROVE  SumFunctionOnSet(rowSum, S) = SumFunctionOnSet(columnSum, T)
<1> USE DEF Crossed
<1> DEFINE Part(R) == [y \in T |-> SumFunctionOnSet(column[y], R)]
           Good == {R \in SUBSET S : SumFunctionOnSet(rowSum, R) = SumFunctionOnSet(Part(R), T)}
<1>0. /\ IntOn(rowSum, S)
      /\ \A y \in T : IntOn(column[y], S)
  <2>1. \A x \in S : SumFunctionOnSet(row[x], T) \in Int
    BY SumInt
  <2> QED
    BY <2>1 DEF IntOn
<1>1. ASSUME NEW R \in SUBSET S, \A x \in R : R \ {x} \in Good
      PROVE  R \in Good
  <2>0. /\ IsFiniteSet(R) /\ IntOn(rowSum, R)
        /\ \A y \in T : IntOn(column[y], R)
    BY <1>0, FS_Subset DEF IntOn
  <2>1. CASE R = {}
    <3>1. \A y \in T : Part(R)[y] = 0
      BY <2>1, SumEmpty
    <3> HIDE DEF Part
    <3>2. SumFunctionOnSet(Part(R), T) = 0 /\ SumFunctionOnSet(rowSum, R) = 0
      BY <2>1, <3>1, SumEmpty, SumZero
    <3> QED
      BY <3>2
  <2>2. ASSUME NEW x \in R PROVE R \in Good
    <3>1. SumFunctionOnSet(rowSum, R) = rowSum[x] + SumFunctionOnSet(rowSum, R \ {x})
      BY <2>0, SumRemove
    <3>2. ASSUME NEW y \in T
          PROVE  Part(R)[y] = row[x][y] + Part(R \ {x})[y] /\ Part(R \ {x})[y] \in Int
      <4>1. SumFunctionOnSet(column[y], R) = column[y][x] + SumFunctionOnSet(column[y], R \ {x})
        BY <2>0, SumRemove
      <4>2. IsFiniteSet(R \ {x}) /\ IntOn(column[y], R \ {x})
        BY <2>0, FS_RemoveElement DEF IntOn
      <4>3. SumFunctionOnSet(column[y], R \ {x}) \in Int
        BY <4>2, SumInt
      <4> QED
        BY <4>1, <4>3
    <3>3. SumFunctionOnSet(rowSum, R \ {x}) = SumFunctionOnSet(Part(R \ {x}), T)
      BY <1>1
    <3> DEFINE all == Part(R)
               less == Part(R \ {x})
               new == row[x]
    <3>7. \A y \in T : all[y] = new[y] + less[y] /\ less[y] \in Int
      BY <3>2
    <3> HIDE DEF Part, all, less
    <3>4. IntOn(new, T) /\ IntOn(less, T)
      BY <3>7 DEF IntOn
    <3> HIDE DEF new
    <3>8. SumFunctionOnSet(all, T) = SumFunctionOnSet(new, T) + SumFunctionOnSet(less, T)
      BY <3>4, <3>7, SumPlus
    <3>5. SumFunctionOnSet(Part(R), T)
          = SumFunctionOnSet(row[x], T) + SumFunctionOnSet(Part(R \ {x}), T)
      BY <3>8 DEF all, less, new
    <3>6. rowSum[x] = SumFunctionOnSet(row[x], T)
      OBVIOUS
    <3> QED
      BY <3>1, <3>3, <3>5, <3>6
  <2> QED
    BY <2>1, <2>2
<1> HIDE DEF Good
<1>2. \A R \in SUBSET S : R \in Good
  BY <1>1, InductionOnSubsets
<1>3. SumFunctionOnSet(rowSum, S) = SumFunctionOnSet(Part(S), T)
  BY <1>2 DEF Good
<1>4. \A y \in T : Part(S)[y] = columnSum[y]
  OBVIOUS
<1> HIDE DEF Part
<1>5. SumFunctionOnSet(Part(S), T) = SumFunctionOnSet(columnSum, T)
  BY <1>4, SumAgree
<1> QED
  BY <1>3, <1>5

\* Only one term counts.
LEMMA SumSingle ==
    ASSUME NEW f, NEW S, IsFiniteSet(S), NEW x \in S, f[x] \in Int,
           \A y \in S \ {x} : f[y] = 0
    PROVE  SumFunctionOnSet(f, S) = f[x]
<1>1. IntOn(f, S) /\ IsFiniteSet(S \ {x})
  BY FS_RemoveElement DEF IntOn
<1>2. SumFunctionOnSet(f, S) = f[x] + SumFunctionOnSet(f, S \ {x})
  BY <1>1, SumRemove
<1>3. SumFunctionOnSet(f, S \ {x}) = 0
  BY <1>1, SumZero
<1> QED
  BY <1>2, <1>3

\* Terms sorted into classes add up, class by class, to all of them.
Sorted(f, S, class, T, column, columnSum) ==
    /\ \A x \in S : class[x] \in T
    /\ \A y \in T, x \in S : column[y][x] = IF class[x] = y THEN f[x] ELSE 0
    /\ \A y \in T : columnSum[y] = SumFunctionOnSet(column[y], S)

\* Sorted into classes and added up class by class, the sum is the same.
LEMMA SumByClass ==
    ASSUME NEW S, IsFiniteSet(S), NEW T, IsFiniteSet(T), NEW f, IntOn(f, S),
           NEW class, NEW column, NEW columnSum, Sorted(f, S, class, T, column, columnSum)
    PROVE  SumFunctionOnSet(columnSum, T) = SumFunctionOnSet(f, S)
<1> USE DEF Sorted
<1> DEFINE row == [x \in S |-> [y \in T |-> IF class[x] = y THEN f[x] ELSE 0]]
<1>1. ASSUME NEW x \in S
      PROVE  /\ IntOn(row[x], T)
             /\ f[x] = SumFunctionOnSet(row[x], T)
             /\ \A y \in T : column[y][x] = row[x][y]
  <2>1. /\ row[x][class[x]] = f[x] /\ f[x] \in Int
        /\ \A y \in T \ {class[x]} : row[x][y] = 0
        /\ class[x] \in T
        /\ \A y \in T : column[y][x] = row[x][y]
    BY DEF IntOn
  <2> HIDE DEF row
  <2>2. SumFunctionOnSet(row[x], T) = f[x]
    BY <2>1, SumSingle
  <2> QED
    BY <2>1, <2>2 DEF IntOn
<1> HIDE DEF row
<1>2. \A x \in S : IntOn(row[x], T)
  BY <1>1
<1>3. \A x \in S, y \in T : column[y][x] = row[x][y]
  BY <1>1
<1>4. \A x \in S : f[x] = SumFunctionOnSet(row[x], T)
  BY <1>1
<1>6. Crossed(S, T, row, column, f, columnSum)
  BY <1>2, <1>3, <1>4 DEF Crossed
<1>5. SumFunctionOnSet(f, S) = SumFunctionOnSet(columnSum, T)
  BY <1>6, SumSwap
<1> QED
  BY <1>5

\* A finite set has a member no other one exceeds, in any order that compares any
\* two of them.
LEMMA GreatestExists ==
    ASSUME NEW S, IsFiniteSet(S), S # {}, NEW above,
           \A x, y \in S : <<x, y>> \in above \/ <<y, x>> \in above,
           \A x, y, z \in S : <<x, y>> \in above /\ <<y, z>> \in above => <<x, z>> \in above
    PROVE  \E x \in S : \A y \in S : <<x, y>> \in above
<1> DEFINE Top(x, T) == x \in T /\ \A y \in T : <<x, y>> \in above
           Good == {T \in SUBSET S : T # {} => \E x \in T : Top(x, T)}
<1>1. ASSUME NEW T \in SUBSET S, \A x \in T : T \ {x} \in Good
      PROVE  T \in Good
  <2> SUFFICES ASSUME NEW x \in T PROVE T \in Good
    OBVIOUS
  <2>1. CASE T \ {x} = {}
    <3>1. Top(x, T)
      BY <2>1
    <3> QED
      BY <3>1
  <2>2. CASE T \ {x} # {}
    <3>1. PICK z \in T \ {x} : Top(z, T \ {x})
      BY <1>1, <2>2
    <3>2. CASE <<z, x>> \in above
      <4>1. Top(z, T)
        BY <3>1, <3>2
      <4> QED
        BY <4>1
    <3>3. CASE <<x, z>> \in above
      <4>1. Top(x, T)
        BY <3>1, <3>3
      <4> QED
        BY <4>1
    <3> QED
      BY <3>2, <3>3
  <2> QED
    BY <2>1, <2>2
<1> HIDE DEF Good
<1>2. \A T \in SUBSET S : T \in Good
  BY <1>1, InductionOnSubsets
<1> QED
  BY <1>2 DEF Good

\* The largest of finitely many integers is one of them, and none is above it.
LEMMA MaxIs ==
    ASSUME NEW S \in SUBSET Int, IsFiniteSet(S), S # {}
    PROVE  Max(S) \in S /\ \A y \in S : Max(S) >= y
<1> DEFINE above == {p \in S \X S : p[1] >= p[2]}
<1>1. \A x, y \in S : <<x, y>> \in above <=> x >= y
  OBVIOUS
<1> HIDE DEF above
<1>2. \E x \in S : \A y \in S : <<x, y>> \in above
  <2>0. \A x \in S : x \in Int
    OBVIOUS
  <2>1. ASSUME NEW x \in S, NEW y \in S
        PROVE  <<x, y>> \in above \/ <<y, x>> \in above
    <3>1. x >= y \/ y >= x
      BY <2>0
    <3>2. (<<x, y>> \in above <=> x >= y) /\ (<<y, x>> \in above <=> y >= x)
      BY <1>1
    <3> QED
      BY <3>1, <3>2
  <2>2. ASSUME NEW x \in S, NEW y \in S, NEW z \in S,
               <<x, y>> \in above, <<y, z>> \in above
        PROVE  <<x, z>> \in above
    <3>1. x >= y /\ y >= z
      BY <1>1, <2>2
    <3>2. x >= z
      BY <2>0, <3>1
    <3> QED
      BY <1>1, <3>2
  <2> QED
    BY <2>1, <2>2, GreatestExists
<1>3. \E x \in S : \A y \in S : x >= y
  BY <1>1, <1>2
<1> QED
  BY <1>3 DEF Max

-----------------------------------------------------------------------------
(* Sums over tables *)

\* A sum over a whole table, and what one changed row does to it.
LEMMA TableSum ==
    ASSUME NEW S, IsFiniteSet(S), NEW f, DOMAIN f = S, IntOn(f, S)
    PROVE  SumFunction(f) \in Int
BY SumInt DEF SumFunction

\* One value of a table changed changes what it comes to by as much.
LEMMA TableChange ==
    ASSUME NEW S, IsFiniteSet(S), NEW f, DOMAIN f = S, IntOn(f, S),
           NEW g, DOMAIN g = S, IntOn(g, S), NEW x \in S, \A y \in S \ {x} : f[y] = g[y]
    PROVE  SumFunction(g) = SumFunction(f) - f[x] + g[x]
BY SumChange DEF SumFunction

\* Tables with the same values come to the same.
LEMMA TableSame ==
    ASSUME NEW S, IsFiniteSet(S), NEW f, DOMAIN f = S, NEW g, DOMAIN g = S,
           \A y \in S : f[y] = g[y]
    PROVE  SumFunction(f) = SumFunction(g)
BY SumAgree DEF SumFunction

\* A table of natural numbers comes to one, and no value of it is larger.
LEMMA TableBounds ==
    ASSUME NEW S, IsFiniteSet(S), NEW f, DOMAIN f = S, \A y \in S : f[y] \in Nat
    PROVE  SumFunction(f) \in Nat /\ \A x \in S : f[x] <= SumFunction(f)
BY SumNat, SumBounds DEF SumFunction

\* A table of zeros comes to zero.
LEMMA TableZero ==
    ASSUME NEW S, IsFiniteSet(S), NEW f, DOMAIN f = S, \A y \in S : f[y] = 0
    PROVE  SumFunction(f) = 0
BY SumZero DEF SumFunction

-----------------------------------------------------------------------------
(* Sequences of rows with a target and an amount *)

AmountsFor(s, b) == [k \in DOMAIN s |-> IF s[k].target = b THEN s[k].amount ELSE 0]
AmountsIn(s) == [k \in DOMAIN s |-> s[k].amount]

\* One more row of a sequence adds its own value.
LEMMA OneMore ==
    ASSUME NEW n \in Nat, NEW f, DOMAIN f = 1..n, NEW g, DOMAIN g = 1..(n + 1),
           \A k \in 1..(n + 1) : g[k] \in Nat, \A k \in 1..n : g[k] = f[k]
    PROVE  /\ SumFunction(f) \in Nat
           /\ SumFunction(g) = SumFunction(f) + g[n + 1]
<1>1. IsFiniteSet(1..n) /\ IsFiniteSet(1..(n + 1)) /\ (1..(n + 1)) \ {n + 1} = 1..n /\ n + 1 \in 1..(n + 1)
  <2>1. 1 \in Int /\ n \in Int /\ n + 1 \in Int
    OBVIOUS
  <2>2. IsFiniteSet(1..n) /\ IsFiniteSet(1..(n + 1))
    BY <2>1, FS_Interval
  <2>3. (1..(n + 1)) \ {n + 1} = 1..n /\ n + 1 \in 1..(n + 1)
    OBVIOUS
  <2> QED
    BY <2>2, <2>3
<1>2. IntOn(g, 1..(n + 1)) /\ \A k \in 1..n : f[k] \in Nat
  BY DEF IntOn
<1>3. SumFunctionOnSet(g, 1..(n + 1)) = g[n + 1] + SumFunctionOnSet(g, 1..n)
  BY <1>1, <1>2, SumRemove
<1>4. SumFunctionOnSet(g, 1..n) = SumFunctionOnSet(f, 1..n)
  BY <1>1, SumAgree
<1>5. SumFunctionOnSet(f, 1..n) \in Nat
  BY <1>1, <1>2, SumNat
<1>6. g[n + 1] \in Nat
  BY <1>1
<1> QED
  BY <1>3, <1>4, <1>5, <1>6 DEF SumFunction

\* What a sequence of rows comes to after one more, for one target and in all.
LEMMA AmountsAdd ==
    ASSUME NEW Row, \A r \in Row : r.amount \in Nat, NEW s \in Seq(Row), NEW x \in Row, NEW b
    PROVE  /\ SumFunction(AmountsFor(s, b)) \in Nat
           /\ SumFunction(AmountsFor(Append(s, x), b))
              = SumFunction(AmountsFor(s, b)) + (IF x.target = b THEN x.amount ELSE 0)
           /\ SumFunction(AmountsIn(s)) \in Nat
           /\ SumFunction(AmountsIn(Append(s, x))) = SumFunction(AmountsIn(s)) + x.amount
<1> DEFINE n == Len(s)
           t == Append(s, x)
<1>1. /\ n \in Nat /\ DOMAIN s = 1..n /\ DOMAIN t = 1..(n + 1)
      /\ \A k \in 1..n : t[k] = s[k]
      /\ t[n + 1] = x
      /\ \A k \in 1..(n + 1) : t[k] \in Row
  OBVIOUS
<1> HIDE DEF n, t
<1>2. \A k \in 1..(n + 1) : t[k].amount \in Nat
  BY <1>1
<1>3. /\ DOMAIN AmountsFor(s, b) = 1..n /\ DOMAIN AmountsFor(t, b) = 1..(n + 1)
      /\ \A k \in 1..(n + 1) : AmountsFor(t, b)[k] \in Nat
      /\ \A k \in 1..n : AmountsFor(t, b)[k] = AmountsFor(s, b)[k]
      /\ AmountsFor(t, b)[n + 1] = IF x.target = b THEN x.amount ELSE 0
  BY <1>1, <1>2 DEF AmountsFor
<1>4. /\ DOMAIN AmountsIn(s) = 1..n /\ DOMAIN AmountsIn(t) = 1..(n + 1)
      /\ \A k \in 1..(n + 1) : AmountsIn(t)[k] \in Nat
      /\ \A k \in 1..n : AmountsIn(t)[k] = AmountsIn(s)[k]
      /\ AmountsIn(t)[n + 1] = x.amount
  BY <1>1, <1>2 DEF AmountsIn
<1>5. /\ SumFunction(AmountsFor(s, b)) \in Nat
      /\ SumFunction(AmountsFor(t, b)) = SumFunction(AmountsFor(s, b)) + AmountsFor(t, b)[n + 1]
  BY <1>1, <1>3, OneMore
<1>6. /\ SumFunction(AmountsIn(s)) \in Nat
      /\ SumFunction(AmountsIn(t)) = SumFunction(AmountsIn(s)) + AmountsIn(t)[n + 1]
  BY <1>1, <1>4, OneMore
<1> QED
  BY <1>3, <1>4, <1>5, <1>6 DEF t

\* What a sequence of rows comes to is a natural number.
LEMMA AmountsAreNat ==
    ASSUME NEW Row, \A r \in Row : r.amount \in Nat, NEW s \in Seq(Row), NEW b
    PROVE  SumFunction(AmountsFor(s, b)) \in Nat /\ SumFunction(AmountsIn(s)) \in Nat
<1>1. DOMAIN AmountsFor(s, b) = 1..Len(s) /\ DOMAIN AmountsIn(s) = 1..Len(s)
  BY DEF AmountsFor, AmountsIn
<1>2. \A k \in 1..Len(s) : s[k] \in Row
  OBVIOUS
<1>3. \A k \in 1..Len(s) : s[k].amount \in Nat
  BY <1>2
<1>4. \A k \in 1..Len(s) : AmountsFor(s, b)[k] \in Nat /\ AmountsIn(s)[k] \in Nat
  BY <1>3 DEF AmountsFor, AmountsIn
<1>5. IsFiniteSet(1..Len(s))
  BY FS_Interval
<1> QED
  BY <1>1, <1>4, <1>5, TableBounds

=============================================================================
