---------------------------- MODULE SumTheorems ----------------------------
(***************************************************************************)
(* What SumFunctionOnSet of the community modules computes for every       *)
(* finite set.  The sums of this project's books (of allowances, fees,     *)
(* rewards, reserved amounts, volumes) are all written with it, and the    *)
(* proofs cite the facts below: what one more, one less and one changed    *)
(* element do to a sum.                                                    *)
(*                                                                         *)
(* The operator is a recursive function over the subsets of the set, which *)
(* a prover sees as a CHOOSE; PartialSumExists shows that the choice is of *)
(* something.  Induction is over the subsets of a finite set: a property   *)
(* is given as the set Good of the subsets that have it, and a smallest    *)
(* subset outside Good is contradicted.                                    *)
(***************************************************************************)
EXTENDS Functions, FiniteSetTheorems, TLAPS

(* Induction over the subsets of a finite set: a property that a set has   *)
(* whenever its proper subsets have it is one of all of them.              *)
LEMMA SubsetInduction ==
  ASSUME NEW S, IsFiniteSet(S), NEW Good,
         \A T \in SUBSET S : (\A U \in SUBSET T : U # T => U \in Good) => T \in Good
  PROVE  \A T \in SUBSET S : T \in Good
  <1> DEFINE Bad == {T \in SUBSET S : T \notin Good}
  <1>1. IsWellFoundedOn(StrictSubsetOrdering(S), SUBSET S)
    BY FS_StrictSubsetOrderingWellFounded, FS_FiniteSubsetsOfFinite
  <1>2. SUFFICES ASSUME Bad # {} PROVE FALSE
    OBVIOUS
  <1>3. Bad \subseteq SUBSET S
    OBVIOUS
  <1>4. PICK T \in Bad : \A U \in Bad : ~(<<U, T>> \in StrictSubsetOrdering(S))
    <2> HIDE DEF Bad
    <2> QED
      BY <1>1, <1>2, <1>3, WFMin
  <1>5. \A U \in SUBSET T : U # T => U \in Good
    BY <1>4 DEF StrictSubsetOrdering
  <1> QED
    BY <1>4, <1>5

\* The element of a nonempty set that the fold takes first.
First(S) == CHOOSE x \in S : TRUE

\* The recursive function behind SumFunctionOnSet: the sum of f over every subset of S.
IsPartialSum(g, f, S) ==
    g = [T \in SUBSET S |-> IF T = {} THEN 0 ELSE f[First(T)] + g[T \ {First(T)}]]

(* What the recursion says of each subset.                                 *)
LEMMA PartialSumStep ==
  ASSUME NEW f, NEW S, NEW g, IsPartialSum(g, f, S)
  PROVE  \A T \in SUBSET S : g[T] = IF T = {} THEN 0 ELSE f[First(T)] + g[T \ {First(T)}]
  BY DEF IsPartialSum

(* SumFunctionOnSet is the value at S of a function with that recursion.   *)
LEMMA SumChoice ==
  ASSUME NEW f, NEW S
  PROVE  SumFunctionOnSet(f, S) = (CHOOSE g : IsPartialSum(g, f, S))[S]
  BY DEF SumFunctionOnSet, FoldFunctionOnSet, MapThenFoldSet, IsPartialSum, First

(* Two functions with the recursion agree where both are defined.          *)
LEMMA PartialSumsAgree ==
  ASSUME NEW f, NEW S, NEW T \in SUBSET S, IsFiniteSet(T), NEW g, NEW h,
         IsPartialSum(g, f, S), IsPartialSum(h, f, T)
  PROVE  g[T] = h[T]
  <1> DEFINE Good == {U \in SUBSET T : g[U] = h[U]}
  <1>1. ASSUME NEW U \in SUBSET T, \A V \in SUBSET U : V # U => V \in Good
        PROVE  U \in Good
    <2>1. g[U] = IF U = {} THEN 0 ELSE f[First(U)] + g[U \ {First(U)}]
      BY DEF IsPartialSum
    <2>2. h[U] = IF U = {} THEN 0 ELSE f[First(U)] + h[U \ {First(U)}]
      BY DEF IsPartialSum
    <2>3. U # {} => First(U) \in U
      BY DEF First
    <2>4. U # {} => g[U \ {First(U)}] = h[U \ {First(U)}]
      BY <1>1, <2>3
    <2> QED
      BY <2>1, <2>2, <2>4
  <1> HIDE DEF Good
  <1>2. \A U \in SUBSET T : U \in Good
    BY <1>1, SubsetInduction
  <1> QED
    BY <1>2 DEF Good

(* There is a function with the recursion for every finite set.            *)
LEMMA PartialSumExists ==
  ASSUME NEW f, NEW S, IsFiniteSet(S)
  PROVE  \E g : IsPartialSum(g, f, S)
  <1> DEFINE G(T) == CHOOSE g : IsPartialSum(g, f, T)
             Good == {T \in SUBSET S : \E g : IsPartialSum(g, f, T)}
  <1>1. ASSUME NEW T \in SUBSET S, \A U \in SUBSET T : U # T => U \in Good
        PROVE  T \in Good
    <2> DEFINE rest(U) == U \ {First(U)}
               h == [U \in SUBSET T |-> IF U = {} THEN 0 ELSE f[First(U)] + G(rest(U))[rest(U)]]
    <2>1. \A U \in SUBSET T : U # T => IsPartialSum(G(U), f, U)
      BY <1>1
    <2>2. ASSUME NEW U \in SUBSET T, U # {}
          PROVE  /\ rest(U) \in SUBSET T /\ rest(U) # T
                 /\ First(U) \in U
      BY <2>2 DEF First
    <2>3. ASSUME NEW U \in SUBSET T, U # T, U # {}
          PROVE  G(U)[U] = f[First(U)] + G(rest(U))[rest(U)]
      <3>1. G(U)[U] = f[First(U)] + G(U)[rest(U)]
        <4>1. IsPartialSum(G(U), f, U)
          BY <2>1, <2>3
        <4> HIDE DEF G
        <4> QED
          BY <2>3, <4>1, PartialSumStep
      <3>2. rest(U) \in SUBSET U /\ rest(U) \in SUBSET T /\ rest(U) # T
        BY <2>2, <2>3
      <3>3. IsFiniteSet(rest(U))
        BY <3>2, FS_Subset
      <3>4. G(U)[rest(U)] = G(rest(U))[rest(U)]
        <4>1. IsPartialSum(G(U), f, U) /\ IsPartialSum(G(rest(U)), f, rest(U))
          BY <2>1, <2>3, <3>2
        <4> HIDE DEF G, rest
        <4> QED
          BY <3>2, <3>3, <4>1, PartialSumsAgree
      <3> QED
        BY <3>1, <3>4
    <2>4. ASSUME NEW U \in SUBSET T, U # T
          PROVE  h[U] = G(U)[U]
      <3>1. CASE U = {}
        <4>1. IsPartialSum(G(U), f, U)
          BY <2>1, <2>4
        <4>2. h[U] = 0
          BY <3>1
        <4> HIDE DEF G, h
        <4> QED
          BY <3>1, <4>1, <4>2, PartialSumStep
      <3>2. CASE U # {}
        BY <2>3, <2>4, <3>2
      <3> QED
        BY <3>1, <3>2
    <2>5. ASSUME NEW U \in SUBSET T, U # {}
          PROVE  h[rest(U)] = G(rest(U))[rest(U)]
      <3>1. rest(U) \in SUBSET T /\ rest(U) # T
        BY <2>2, <2>5
      <3> HIDE DEF h, G, rest
      <3> QED
        BY <2>4, <3>1
    <2>6. IsPartialSum(h, f, T)
      <3>1. h = [U \in SUBSET T |-> IF U = {} THEN 0 ELSE f[First(U)] + h[rest(U)]]
        <4> HIDE DEF G
        <4>1. \A U \in SUBSET T : h[U] = IF U = {} THEN 0 ELSE f[First(U)] + h[rest(U)]
          BY <2>5
        <4> QED
          BY <4>1
      <3> HIDE DEF h
      <3> QED
        BY <3>1 DEF IsPartialSum
    <2> QED
      BY <2>6
  <1> HIDE DEF Good
  <1>2. \A T \in SUBSET S : T \in Good
    BY <1>1, SubsetInduction
  <1> QED
    BY <1>2 DEF Good

(* The chosen function has the recursion.                                  *)
LEMMA SumPartial ==
  ASSUME NEW f, NEW S, IsFiniteSet(S)
  PROVE  IsPartialSum(CHOOSE g : IsPartialSum(g, f, S), f, S)
  BY PartialSumExists

(* Nothing sums to zero.                                                   *)
LEMMA SumEmpty ==
  ASSUME NEW f
  PROVE  SumFunctionOnSet(f, {}) = 0
  <1>1. IsFiniteSet({})
    BY FS_EmptySet
  <1>2. IsPartialSum(CHOOSE g : IsPartialSum(g, f, {}), f, {})
    BY <1>1, SumPartial
  <1>3. (CHOOSE g : IsPartialSum(g, f, {}))[{}] = 0
    BY <1>2 DEF IsPartialSum
  <1> QED
    BY <1>3, SumChoice

(* The recursion, for the element taken first.                             *)
LEMMA SumFirst ==
  ASSUME NEW f, NEW S, IsFiniteSet(S), S # {}
  PROVE  /\ First(S) \in S
         /\ SumFunctionOnSet(f, S) = f[First(S)] + SumFunctionOnSet(f, S \ {First(S)})
  <1> DEFINE G(T) == CHOOSE g : IsPartialSum(g, f, T)
             R == S \ {First(S)}
  <1>1. First(S) \in S
    BY DEF First
  <1>2. R \in SUBSET S /\ IsFiniteSet(R)
    BY FS_Subset
  <1>3. IsPartialSum(G(S), f, S) /\ IsPartialSum(G(R), f, R)
    BY <1>2, SumPartial
  <1>4. G(S)[S] = f[First(S)] + G(S)[R]
    BY <1>3 DEF IsPartialSum
  <1>5. G(S)[R] = G(R)[R]
    <2> HIDE DEF G, R
    <2> QED
      BY <1>2, <1>3, PartialSumsAgree
  <1>6. SumFunctionOnSet(f, S) = G(S)[S] /\ SumFunctionOnSet(f, R) = G(R)[R]
    BY SumChoice
  <1> QED
    BY <1>1, <1>4, <1>5, <1>6

(* A sum of integers is an integer.                                        *)
LEMMA SumInt ==
  ASSUME NEW f, NEW S, IsFiniteSet(S), \A x \in S : f[x] \in Int
  PROVE  SumFunctionOnSet(f, S) \in Int
  <1> DEFINE Good == {T \in SUBSET S : SumFunctionOnSet(f, T) \in Int}
  <1>1. ASSUME NEW T \in SUBSET S, \A U \in SUBSET T : U # T => U \in Good
        PROVE  T \in Good
    <2>1. CASE T = {}
      BY <2>1, SumEmpty
    <2>2. CASE T # {}
      <3>1. IsFiniteSet(T)
        BY FS_Subset
      <3>2. First(T) \in T /\ SumFunctionOnSet(f, T) = f[First(T)] + SumFunctionOnSet(f, T \ {First(T)})
        BY <2>2, <3>1, SumFirst
      <3> QED
        BY <1>1, <3>2
    <2> QED
      BY <2>1, <2>2
  <1> HIDE DEF Good
  <1>2. \A T \in SUBSET S : T \in Good
    BY <1>1, SubsetInduction
  <1> QED
    BY <1>2 DEF Good

(* Whichever element is taken out, the sum is that element and the rest.   *)
LEMMA SumOne ==
  ASSUME NEW f, NEW S, IsFiniteSet(S), \A x \in S : f[x] \in Int, NEW a \in S
  PROVE  SumFunctionOnSet(f, S) = f[a] + SumFunctionOnSet(f, S \ {a})
  <1> DEFINE sum(T) == SumFunctionOnSet(f, T)
             Good == {T \in SUBSET S : \A x \in T : sum(T) = f[x] + sum(T \ {x})}
  <1>1. \A T \in SUBSET S : IsFiniteSet(T) /\ sum(T) \in Int
    BY FS_Subset, SumInt
  <1>2. \A T \in SUBSET S : T # {} => First(T) \in T /\ sum(T) = f[First(T)] + sum(T \ {First(T)})
    BY <1>1, SumFirst
  <1> HIDE DEF sum
  <1>3. ASSUME NEW T \in SUBSET S, \A U \in SUBSET T : U # T => U \in Good,
               NEW x \in T
        PROVE  sum(T) = f[x] + sum(T \ {x})
    <2> DEFINE c == First(T)
               both == T \ {x, c}
    <2>1. c \in T /\ sum(T) = f[c] + sum(T \ {c})
      BY <1>2
    <2> HIDE DEF c
    <2>2. CASE x = c
      BY <2>1, <2>2
    <2>3. CASE x # c
      <3>1. T \ {c} \in Good /\ T \ {x} \in Good
        BY <1>3, <2>1
      <3>2. (T \ {c}) \ {x} = both /\ (T \ {x}) \ {c} = both
        OBVIOUS
      <3>3. sum(T \ {c}) = f[x] + sum(both)
        BY <2>3, <3>1, <3>2
      <3>4. sum(T \ {x}) = f[c] + sum(both)
        BY <2>1, <2>3, <3>1, <3>2
      <3>5. f[x] \in Int /\ f[c] \in Int /\ sum(both) \in Int
        BY <1>1, <2>1
      <3> QED
        BY <2>1, <3>3, <3>4, <3>5
    <2> QED
      BY <2>2, <2>3
  <1>4. \A T \in SUBSET S : (\A U \in SUBSET T : U # T => U \in Good) => T \in Good
    BY <1>3
  <1> HIDE DEF Good
  <1>5. S \in Good
    BY <1>4, SubsetInduction
  <1> QED
    BY <1>5 DEF Good, sum

(* One more element adds its value.                                        *)
LEMMA SumAdd ==
  ASSUME NEW f, NEW S, IsFiniteSet(S), NEW a, a \notin S,
         \A x \in S \cup {a} : f[x] \in Int
  PROVE  SumFunctionOnSet(f, S \cup {a}) = f[a] + SumFunctionOnSet(f, S)
  <1>1. IsFiniteSet(S \cup {a})
    BY FS_AddElement
  <1>2. (S \cup {a}) \ {a} = S
    OBVIOUS
  <1> QED
    BY <1>1, <1>2, SumOne

(* The sums of two functions that agree on the set are the same.           *)
LEMMA SumSame ==
  ASSUME NEW f, NEW g, NEW S, IsFiniteSet(S), \A x \in S : f[x] = g[x]
  PROVE  SumFunctionOnSet(f, S) = SumFunctionOnSet(g, S)
  <1> DEFINE Good == {T \in SUBSET S : SumFunctionOnSet(f, T) = SumFunctionOnSet(g, T)}
  <1>1. ASSUME NEW T \in SUBSET S, \A U \in SUBSET T : U # T => U \in Good
        PROVE  T \in Good
    <2>1. CASE T = {}
      BY <2>1, SumEmpty
    <2>2. CASE T # {}
      <3>1. IsFiniteSet(T)
        BY FS_Subset
      <3>2. /\ First(T) \in T
            /\ SumFunctionOnSet(f, T) = f[First(T)] + SumFunctionOnSet(f, T \ {First(T)})
            /\ SumFunctionOnSet(g, T) = g[First(T)] + SumFunctionOnSet(g, T \ {First(T)})
        BY <2>2, <3>1, SumFirst
      <3> QED
        BY <1>1, <3>2
    <2> QED
      BY <2>1, <2>2
  <1> HIDE DEF Good
  <1>2. \A T \in SUBSET S : T \in Good
    BY <1>1, SubsetInduction
  <1> QED
    BY <1>2 DEF Good

(* Changing the value of one element changes the sum by the difference.    *)
LEMMA SumChange ==
  ASSUME NEW f, NEW g, NEW S, IsFiniteSet(S), NEW a \in S,
         \A x \in S : f[x] \in Int /\ g[x] \in Int,
         \A x \in S \ {a} : g[x] = f[x]
  PROVE  SumFunctionOnSet(g, S) = SumFunctionOnSet(f, S) - f[a] + g[a]
  <1>1. IsFiniteSet(S \ {a})
    BY FS_Subset
  <1>2. SumFunctionOnSet(f, S) = f[a] + SumFunctionOnSet(f, S \ {a})
    BY SumOne
  <1>3. SumFunctionOnSet(g, S) = g[a] + SumFunctionOnSet(g, S \ {a})
    BY SumOne
  <1>4. SumFunctionOnSet(g, S \ {a}) = SumFunctionOnSet(f, S \ {a})
    BY <1>1, SumSame
  <1>5. SumFunctionOnSet(f, S \ {a}) \in Int
    BY <1>1, SumInt
  <1> QED
    BY <1>2, <1>3, <1>4, <1>5

(* The larger function has the larger sum.                                 *)
LEMMA SumMonotone ==
  ASSUME NEW f, NEW g, NEW S, IsFiniteSet(S),
         \A x \in S : f[x] \in Int /\ g[x] \in Int /\ f[x] <= g[x]
  PROVE  SumFunctionOnSet(f, S) <= SumFunctionOnSet(g, S)
  <1> DEFINE Good == {T \in SUBSET S : SumFunctionOnSet(f, T) <= SumFunctionOnSet(g, T)}
  <1>1. ASSUME NEW T \in SUBSET S, \A U \in SUBSET T : U # T => U \in Good
        PROVE  T \in Good
    <2>1. CASE T = {}
      BY <2>1, SumEmpty
    <2>2. CASE T # {}
      <3> DEFINE R == T \ {First(T)}
      <3>1. IsFiniteSet(T) /\ IsFiniteSet(R)
        BY FS_Subset
      <3>2. /\ First(T) \in T
            /\ SumFunctionOnSet(f, T) = f[First(T)] + SumFunctionOnSet(f, R)
            /\ SumFunctionOnSet(g, T) = g[First(T)] + SumFunctionOnSet(g, R)
        BY <2>2, <3>1, SumFirst
      <3>3. SumFunctionOnSet(f, R) \in Int /\ SumFunctionOnSet(g, R) \in Int
        BY <3>1, SumInt
      <3>4. SumFunctionOnSet(f, R) <= SumFunctionOnSet(g, R)
        BY <1>1, <3>2
      <3>5. f[First(T)] <= g[First(T)] /\ f[First(T)] \in Int /\ g[First(T)] \in Int
        BY <3>2
      <3> QED
        BY <3>2, <3>3, <3>4, <3>5
    <2> QED
      BY <2>1, <2>2
  <1> HIDE DEF Good
  <1>2. \A T \in SUBSET S : T \in Good
    BY <1>1, SubsetInduction
  <1> QED
    BY <1>2 DEF Good

(* If nothing counts, the sum is zero.                                     *)
LEMMA SumZero ==
  ASSUME NEW f, NEW S, IsFiniteSet(S), \A x \in S : f[x] = 0
  PROVE  SumFunctionOnSet(f, S) = 0
  <1> DEFINE Good == {T \in SUBSET S : SumFunctionOnSet(f, T) = 0}
  <1>1. ASSUME NEW T \in SUBSET S, \A U \in SUBSET T : U # T => U \in Good
        PROVE  T \in Good
    <2>1. CASE T = {}
      BY <2>1, SumEmpty
    <2>2. CASE T # {}
      <3>1. IsFiniteSet(T)
        BY FS_Subset
      <3>2. First(T) \in T /\ SumFunctionOnSet(f, T) = f[First(T)] + SumFunctionOnSet(f, T \ {First(T)})
        BY <2>2, <3>1, SumFirst
      <3> QED
        BY <1>1, <3>2
    <2> QED
      BY <2>1, <2>2
  <1> HIDE DEF Good
  <1>2. \A T \in SUBSET S : T \in Good
    BY <1>1, SubsetInduction
  <1> QED
    BY <1>2 DEF Good

(* A sum of natural numbers is one.                                        *)
LEMMA SumNat ==
  ASSUME NEW f, NEW S, IsFiniteSet(S), \A x \in S : f[x] \in Nat
  PROVE  SumFunctionOnSet(f, S) \in Nat
  <1> DEFINE zero == [x \in S |-> 0]
  <1>1. SumFunctionOnSet(zero, S) = 0
    BY SumZero
  <1>2. SumFunctionOnSet(zero, S) <= SumFunctionOnSet(f, S)
    BY SumMonotone
  <1>3. SumFunctionOnSet(f, S) \in Int
    BY SumInt
  <1> QED
    BY <1>1, <1>2, <1>3

(* The sum over two sets without a common element.                         *)
LEMMA SumUnion ==
  ASSUME NEW f, NEW S, NEW T, IsFiniteSet(S), IsFiniteSet(T), S \cap T = {},
         \A x \in S \cup T : f[x] \in Int
  PROVE  SumFunctionOnSet(f, S \cup T) = SumFunctionOnSet(f, S) + SumFunctionOnSet(f, T)
  <1> DEFINE sum(U) == SumFunctionOnSet(f, U)
             Good == {U \in SUBSET T : sum(S \cup U) = sum(S) + sum(U)}
  <1>1. \A U \in SUBSET T : IsFiniteSet(U) /\ IsFiniteSet(S \cup U) /\ sum(U) \in Int /\ sum(S \cup U) \in Int
    BY FS_Subset, FS_Union, SumInt
  <1>2. sum(S) \in Int /\ sum({}) = 0
    BY SumInt, SumEmpty
  <1>3. ASSUME NEW U \in SUBSET T, \A V \in SUBSET U : V # U => V \in Good
        PROVE  U \in Good
    <2>1. CASE U = {}
      <3>1. S \cup U = S
        BY <2>1
      <3> HIDE DEF sum
      <3> QED
        BY <1>2, <2>1, <3>1
    <2>2. CASE U # {}
      <3>1. PICK a \in U : TRUE
        BY <2>2
      <3> DEFINE R == U \ {a}
      <3>2. sum(U) = f[a] + sum(R)
        <4>1. IsFiniteSet(U) /\ a \in U /\ \A x \in U : f[x] \in Int
          BY <1>1, <3>1
        <4> QED
          BY <4>1, SumOne
      <3>3. (S \cup U) \ {a} = S \cup R
        OBVIOUS
      <3>4. sum(S \cup U) = f[a] + sum((S \cup U) \ {a})
        <4>1. IsFiniteSet(S \cup U) /\ a \in S \cup U /\ \A x \in S \cup U : f[x] \in Int
          BY <1>1, <3>1
        <4> QED
          BY <4>1, SumOne
      <3> HIDE DEF sum
      <3>5. sum(S \cup R) = sum(S) + sum(R) /\ sum(R) \in Int
        BY <1>1, <1>3
      <3>6. f[a] \in Int
        OBVIOUS
      <3> HIDE DEF R
      <3>7. sum(S \cup U) = f[a] + (sum(S) + sum(R))
        BY <3>3, <3>4, <3>5
      <3>8. sum(S \cup U) = sum(S) + sum(U)
        BY <1>2, <3>2, <3>5, <3>6, <3>7
      <3> QED
        BY <3>8
    <2> QED
      BY <2>1, <2>2
  <1> HIDE DEF Good
  <1>4. \A U \in SUBSET T : U \in Good
    BY <1>3, SubsetInduction
  <1> QED
    BY <1>4 DEF Good

(* The sum over a part of the set is no larger.                            *)
LEMMA SumSubset ==
  ASSUME NEW f, NEW S, IsFiniteSet(S), NEW T \in SUBSET S, \A x \in S : f[x] \in Nat
  PROVE  SumFunctionOnSet(f, T) <= SumFunctionOnSet(f, S)
  <1>1. IsFiniteSet(T) /\ IsFiniteSet(S \ T)
    BY FS_Subset
  <1>2. T \cup (S \ T) = S
    OBVIOUS
  <1>3. SumFunctionOnSet(f, S) = SumFunctionOnSet(f, T) + SumFunctionOnSet(f, S \ T)
    BY <1>1, <1>2, SumUnion
  <1>4. SumFunctionOnSet(f, T) \in Nat /\ SumFunctionOnSet(f, S \ T) \in Nat
    BY <1>1, SumNat
  <1> QED
    BY <1>3, <1>4

(* Values of at most k make a sum of at most k for each element.           *)
LEMMA SumBounded ==
  ASSUME NEW f, NEW S, IsFiniteSet(S), NEW k \in Nat, \A x \in S : f[x] \in Int /\ f[x] <= k
  PROVE  SumFunctionOnSet(f, S) <= k * Cardinality(S)
  <1> DEFINE sum(T) == SumFunctionOnSet(f, T)
             Good == {T \in SUBSET S : sum(T) <= k * Cardinality(T)}
  <1>1. ASSUME NEW T \in SUBSET S, \A U \in SUBSET T : U # T => U \in Good
        PROVE  T \in Good
    <2>1. CASE T = {}
      BY <2>1, SumEmpty, FS_EmptySet
    <2>2. CASE T # {}
      <3>1. PICK a \in T : TRUE
        BY <2>2
      <3> DEFINE R == T \ {a}
      <3>2. IsFiniteSet(T) /\ IsFiniteSet(R)
        BY FS_Subset
      <3>3. sum(T) = f[a] + sum(R) /\ sum(R) \in Int
        BY <3>2, SumOne, SumInt
      <3>4. Cardinality(R) = Cardinality(T) - 1 /\ Cardinality(T) \in Nat /\ Cardinality(R) \in Nat
        BY <3>2, FS_RemoveElement, FS_CardinalityType
      <3> HIDE DEF sum
      <3>5. sum(R) <= k * Cardinality(R)
        BY <1>1
      <3>6. k * Cardinality(T) = k * Cardinality(R) + k
        BY <3>4
      <3>7. f[a] \in Int /\ f[a] <= k /\ k * Cardinality(R) \in Int
        BY <3>4
      <3> HIDE DEF R
      <3>8. sum(T) <= k * Cardinality(T)
        BY <3>3, <3>5, <3>6, <3>7
      <3> QED
        BY <3>8
    <2> QED
      BY <2>1, <2>2
  <1> HIDE DEF Good
  <1>2. \A T \in SUBSET S : T \in Good
    BY <1>1, SubsetInduction
  <1> QED
    BY <1>2 DEF Good

-----------------------------------------------------------------------------
\* The same for the sum over the whole domain of a function, which is how the
\* books of the models are written: [x \in Entries |-> what entry x counts].

(* A sum of natural numbers is one, and of nothing it is zero.             *)
LEMMA TotalNat ==
  ASSUME NEW f, IsFiniteSet(DOMAIN f), \A x \in DOMAIN f : f[x] \in Nat
  PROVE  /\ SumFunction(f) \in Nat
         /\ DOMAIN f = {} => SumFunction(f) = 0
         /\ \A x \in DOMAIN f : f[x] <= SumFunction(f)
  <1>1. SumFunction(f) \in Nat
    BY SumNat DEF SumFunction
  <1>2. DOMAIN f = {} => SumFunction(f) = 0
    BY SumEmpty DEF SumFunction
  <1>3. ASSUME NEW x \in DOMAIN f
        PROVE  f[x] <= SumFunction(f)
    <2>1. SumFunctionOnSet(f, DOMAIN f) = f[x] + SumFunctionOnSet(f, DOMAIN f \ {x})
      BY SumOne
    <2>2. SumFunctionOnSet(f, DOMAIN f \ {x}) \in Nat
      BY FS_Subset, SumNat
    <2> QED
      BY <2>1, <2>2 DEF SumFunction
  <1> QED
    BY <1>1, <1>2, <1>3

(* An entry is filed or changed: the sum loses what the entry counted, if   *)
(* there was one, and gains what it counts now.                             *)
LEMMA TotalPut ==
  ASSUME NEW f, NEW g, NEW k, IsFiniteSet(DOMAIN f),
         DOMAIN g = DOMAIN f \cup {k},
         \A x \in DOMAIN f : f[x] \in Nat,
         g[k] \in Nat,
         \A x \in DOMAIN f \ {k} : g[x] = f[x]
  PROVE  /\ IsFiniteSet(DOMAIN g)
         /\ SumFunction(f) \in Nat /\ SumFunction(g) \in Nat
         /\ SumFunction(g) <= SumFunction(f) + g[k]
         /\ k \in DOMAIN f => SumFunction(g) = SumFunction(f) - f[k] + g[k]
         /\ k \notin DOMAIN f => SumFunction(g) = SumFunction(f) + g[k]
  <1>1. IsFiniteSet(DOMAIN g)
    BY FS_AddElement
  <1>2. \A x \in DOMAIN g : g[x] \in Nat
    OBVIOUS
  <1>3. SumFunction(f) \in Nat /\ SumFunction(g) \in Nat
    BY <1>1, <1>2, TotalNat
  <1>4. ASSUME k \in DOMAIN f
        PROVE  SumFunction(g) = SumFunction(f) - f[k] + g[k]
    <2>1. DOMAIN g = DOMAIN f
      BY <1>4
    <2>2. \A x \in DOMAIN f : f[x] \in Int /\ g[x] \in Int
      BY <1>2
    <2>3. SumFunctionOnSet(g, DOMAIN f) = SumFunctionOnSet(f, DOMAIN f) - f[k] + g[k]
      BY <1>4, <2>2, SumChange
    <2> QED
      BY <2>1, <2>3 DEF SumFunction
  <1>5. ASSUME k \notin DOMAIN f
        PROVE  SumFunction(g) = SumFunction(f) + g[k]
    <2>1. \A x \in DOMAIN f \cup {k} : g[x] \in Int
      BY <1>5
    <2>2. SumFunctionOnSet(g, DOMAIN f \cup {k}) = g[k] + SumFunctionOnSet(g, DOMAIN f)
      BY <1>5, <2>1, SumAdd
    <2>3. SumFunctionOnSet(g, DOMAIN f) = SumFunctionOnSet(f, DOMAIN f)
      BY <1>5, SumSame
    <2>4. SumFunctionOnSet(f, DOMAIN f) \in Nat
      BY SumNat
    <2> QED
      BY <2>2, <2>3, <2>4 DEF SumFunction
  <1>6. k \in DOMAIN f => f[k] \in Nat
    OBVIOUS
  <1>7. SumFunction(g) <= SumFunction(f) + g[k]
    BY <1>3, <1>4, <1>5, <1>6
  <1> QED
    BY <1>1, <1>3, <1>4, <1>5, <1>7

(* An entry is dropped: the sum loses what it counted.                      *)
LEMMA TotalDrop ==
  ASSUME NEW f, NEW g, NEW k \in DOMAIN f, IsFiniteSet(DOMAIN f),
         DOMAIN g = DOMAIN f \ {k},
         \A x \in DOMAIN f : f[x] \in Nat,
         \A x \in DOMAIN g : g[x] = f[x]
  PROVE  /\ IsFiniteSet(DOMAIN g)
         /\ SumFunction(f) \in Nat /\ SumFunction(g) \in Nat
         /\ SumFunction(g) = SumFunction(f) - f[k]
  <1>1. IsFiniteSet(DOMAIN g)
    BY FS_Subset
  <1>2. SumFunctionOnSet(f, DOMAIN f) = f[k] + SumFunctionOnSet(f, DOMAIN f \ {k})
    BY SumOne
  <1>3. SumFunctionOnSet(g, DOMAIN g) = SumFunctionOnSet(f, DOMAIN g)
    BY <1>1, SumSame
  <1>4. SumFunctionOnSet(f, DOMAIN g) \in Nat /\ SumFunctionOnSet(f, DOMAIN f) \in Nat
    BY <1>1, SumNat
  <1> QED
    BY <1>1, <1>2, <1>3, <1>4 DEF SumFunction

(* More entries that count more have the larger sum.                        *)
LEMMA TotalMonotone ==
  ASSUME NEW f, NEW g, IsFiniteSet(DOMAIN g), DOMAIN f \subseteq DOMAIN g,
         \A x \in DOMAIN f : f[x] \in Nat /\ f[x] <= g[x],
         \A x \in DOMAIN g : g[x] \in Nat
  PROVE  SumFunction(f) <= SumFunction(g)
  <1>1. IsFiniteSet(DOMAIN f)
    BY FS_Subset
  <1>2. SumFunctionOnSet(f, DOMAIN f) <= SumFunctionOnSet(g, DOMAIN f)
    BY <1>1, SumMonotone
  <1>3. SumFunctionOnSet(g, DOMAIN f) <= SumFunctionOnSet(g, DOMAIN g)
    BY SumSubset
  <1>4. /\ SumFunctionOnSet(f, DOMAIN f) \in Nat
        /\ SumFunctionOnSet(g, DOMAIN f) \in Nat
        /\ SumFunctionOnSet(g, DOMAIN g) \in Nat
    BY <1>1, SumNat
  <1> QED
    BY <1>2, <1>3, <1>4 DEF SumFunction

(* The sum over the only entry.                                             *)
LEMMA TotalSingle ==
  ASSUME NEW f, NEW k, DOMAIN f = {k}, f[k] \in Int
  PROVE  SumFunction(f) = f[k]
  <1>1. IsFiniteSet({k}) /\ {k} \ {k} = {}
    BY FS_Singleton
  <1>2. SumFunctionOnSet(f, {k}) = f[k] + SumFunctionOnSet(f, {k} \ {k})
    BY <1>1, SumOne
  <1>3. SumFunctionOnSet(f, {}) = 0
    BY SumEmpty
  <1>4. SumFunctionOnSet(f, {k}) = f[k] + 0
    BY <1>1, <1>2, <1>3, Zenon
  <1>5. SumFunction(f) = SumFunctionOnSet(f, {k})
    BY Zenon DEF SumFunction
  <1> QED
    BY <1>4, <1>5

(* A renaming of its elements does not change a sum.                      *)
LEMMA SumRenamed ==
  ASSUME NEW f, NEW g, NEW h, NEW S, IsFiniteSet(S),
         \A x \in S : f[x] \in Int /\ g[h[x]] = f[x],
         \A x \in S, y \in S : h[x] = h[y] => x = y
  PROVE  /\ IsFiniteSet({h[x] : x \in S})
         /\ SumFunctionOnSet(g, {h[x] : x \in S}) = SumFunctionOnSet(f, S)
  <1> DEFINE image(T) == {h[x] : x \in T}
             Good == {T \in SUBSET S : /\ IsFiniteSet(image(T))
                                       /\ SumFunctionOnSet(g, image(T)) = SumFunctionOnSet(f, T)}
  <1>1. ASSUME NEW T \in SUBSET S, \A U \in SUBSET T : U # T => U \in Good
        PROVE  T \in Good
    <2>1. CASE T = {}
      <3>1. image(T) = {}
        BY <2>1
      <3> QED
        BY <2>1, <3>1, SumEmpty, FS_EmptySet
    <2>2. CASE T # {}
      <3>1. PICK a \in T : TRUE
        BY <2>2
      <3> DEFINE R == T \ {a}
      <3>2. IsFiniteSet(image(R)) /\ SumFunctionOnSet(g, image(R)) = SumFunctionOnSet(f, R)
        BY <1>1
      <3>3. IsFiniteSet(T)
        BY FS_Subset
      <3>4. image(T) = image(R) \cup {h[a]} /\ h[a] \notin image(R)
        OBVIOUS
      <3>5. SumFunctionOnSet(f, T) = f[a] + SumFunctionOnSet(f, R)
        BY <3>3, SumOne
      <3>6. g[h[a]] = f[a] /\ \A y \in image(R) \cup {h[a]} : g[y] \in Int
        OBVIOUS
      <3> HIDE DEF R, image
      <3>7. SumFunctionOnSet(g, image(T)) = g[h[a]] + SumFunctionOnSet(g, image(R))
        BY <3>2, <3>4, <3>6, SumAdd
      <3>8. IsFiniteSet(image(T))
        BY <3>2, <3>4, FS_AddElement
      <3> QED
        BY <3>2, <3>5, <3>6, <3>7, <3>8
    <2> QED
      BY <2>1, <2>2
  <1> HIDE DEF Good
  <1>2. S \in Good
    BY <1>1, SubsetInduction
  <1> QED
    BY <1>2 DEF Good
=============================================================================
