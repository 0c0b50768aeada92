------------------------------ MODULE SumFacts ------------------------------
(***************************************************************************)
(* What a sum over a finite set (SumFunctionOnSet of the community module  *)
(* Functions) is: nothing for the empty set, and each element counted      *)
(* once.  The proofs about stock, receipts and money rest on these facts.  *)
(*                                                                         *)
(* The induction principles are stated with a set of good cases instead of *)
(* a predicate, so that the backends can instantiate them: a minimal bad   *)
(* case exists because the strict subset ordering is well founded.         *)
(***************************************************************************)
EXTENDS Integers, FiniteSets, FiniteSetTheorems, WellFoundedInduction, Functions, TLAPS

(* Among some subsets of a finite set, one has no smaller one beside it.      *)
LEMMA SmallestCase ==
  ASSUME NEW S, IsFiniteSet(S), NEW Cases \in SUBSET SUBSET S, Cases # {}
  PROVE  \E T \in Cases : \A U \in SUBSET T : U \in Cases => U = T
<1>1. IsWellFoundedOn(StrictSubsetOrdering(S), SUBSET S)
  BY FS_StrictSubsetOrderingWellFounded, FS_FiniteSubsetsOfFinite
<1>2. PICK T \in Cases : \A U \in Cases : ~(<<U, T>> \in StrictSubsetOrdering(S))
  BY <1>1, WFMin
<1> QED BY <1>2 DEF StrictSubsetOrdering

(* A set of subsets of a finite set that has the empty set and grows by any   *)
(* element has all the subsets.                                               *)
LEMMA SubsetInduction ==
  ASSUME NEW S, IsFiniteSet(S), NEW Good \in SUBSET SUBSET S, {} \in Good,
         \A T \in Good : \A x \in S : x \notin T => T \cup {x} \in Good
  PROVE  Good = SUBSET S
<1> DEFINE Bad == (SUBSET S) \ Good
<1>1. SUFFICES ASSUME Bad # {} PROVE FALSE
  OBVIOUS
<1>2. PICK T \in Bad : \A U \in SUBSET T : U \in Bad => U = T
  <2>1. Bad \in SUBSET SUBSET S
    OBVIOUS
  <2> HIDE DEF Bad
  <2> QED BY <1>1, <2>1, SmallestCase
<1>3. PICK x \in T : TRUE
  OBVIOUS
<1>4. T \ {x} \in SUBSET S /\ T \ {x} # T /\ T \ {x} \subseteq T
  BY <1>3
<1>5. T \ {x} \in SUBSET T /\ T \ {x} # T
  BY <1>4
<1>6. T \ {x} \in Good
  BY <1>2, <1>4, <1>5
<1>7. T = (T \ {x}) \cup {x} /\ x \in S /\ x \notin T \ {x}
  OBVIOUS
<1> QED BY <1>6, <1>7

(* The element that a sum takes first.                                        *)
Chosen(T) == CHOOSE x \in T : TRUE

(* g is the recursive function by which SumFunctionOnSet sums f over the sets  *)
(* of D.                                                                       *)
IsPartialSum(g, f, D) ==
  g = [T \in D |-> IF T = {} THEN 0 ELSE f[Chosen(T)] + g[T \ {Chosen(T)}]]

(* The subsets of S with at most n elements.                                   *)
UpTo(S, n) == {T \in SUBSET S : Cardinality(T) <= n}

(* SumFunctionOnSet with its definition expanded.                             *)
LEMMA SumIsChosen ==
  ASSUME NEW f, NEW S
  PROVE  SumFunctionOnSet(f, S) = (CHOOSE g : IsPartialSum(g, f, SUBSET S))[S]
  BY DEF SumFunctionOnSet, FoldFunctionOnSet, MapThenFoldSet, IsPartialSum, Chosen

(* Induction on the naturals, with a set of good numbers.                     *)
LEMMA NatInductionBySets ==
  ASSUME NEW Good \in SUBSET Nat, 0 \in Good, \A n \in Good : n + 1 \in Good
  PROVE  Good = Nat
<1> DEFINE Bad == Nat \ Good
<1>1. SUFFICES ASSUME Bad # {} PROVE FALSE
  OBVIOUS
<1>2. PICK n \in Bad : \A m \in Bad : ~(<<m, n>> \in OpToRel(<, Nat))
  <2>1. Bad \subseteq Nat
    OBVIOUS
  <2> HIDE DEF Bad
  <2> QED BY <1>1, <2>1, NatLessThanWellFounded, WFMin
<1>3. n # 0 /\ n \in Nat /\ n - 1 \in Nat
  OBVIOUS
<1>4. <<n - 1, n>> \in OpToRel(<, Nat)
  BY <1>3 DEF OpToRel
<1>5. n - 1 \in Good
  BY <1>2, <1>3, <1>4
<1>6. (n - 1) + 1 = n
  BY <1>3
<1> QED BY <1>5, <1>6

(* The recursive function that a sum chooses exists: by induction on the size of*)
(* the sets it is defined on.                                                 *)
LEMMA PartialSumExists ==
  ASSUME NEW f, NEW S, IsFiniteSet(S)
  PROVE  \E g : IsPartialSum(g, f, SUBSET S)
<1> DEFINE Good == {n \in Nat : \E g : IsPartialSum(g, f, UpTo(S, n))}
<1>1. 0 \in Good
  <2> DEFINE g == [T \in UpTo(S, 0) |-> 0]
  <2>1. \A T \in UpTo(S, 0) : T = {}
    BY FS_EmptySet, FS_Subset, FS_CardinalityType DEF UpTo
  <2>2. IsPartialSum(g, f, UpTo(S, 0))
    BY <2>1 DEF IsPartialSum
  <2> QED BY <2>2
<1>2. ASSUME NEW n \in Good PROVE n + 1 \in Good
  <2>1. PICK g : IsPartialSum(g, f, UpTo(S, n))
    OBVIOUS
  <2> DEFINE h == [T \in UpTo(S, n + 1) |->
                     IF T = {} THEN 0 ELSE f[Chosen(T)] + g[T \ {Chosen(T)}]]
  <2>2. ASSUME NEW T \in UpTo(S, n + 1), T # {}
        PROVE  T \ {Chosen(T)} \in UpTo(S, n) /\ T \ {Chosen(T)} \in UpTo(S, n + 1)
    <3>1. Chosen(T) \in T
      BY <2>2 DEF Chosen
    <3>2. IsFiniteSet(T) /\ T \in SUBSET S /\ Cardinality(T) \in Nat /\ Cardinality(T) <= n + 1
      BY FS_Subset, FS_CardinalityType DEF UpTo
    <3>3. Cardinality(T \ {Chosen(T)}) = Cardinality(T) - 1
      BY <3>1, <3>2, FS_RemoveElement
    <3> QED BY <3>2, <3>3 DEF UpTo
  <2>3. ASSUME NEW T \in UpTo(S, n) PROVE T \in UpTo(S, n + 1) /\ h[T] = g[T]
    <3>1. T \in UpTo(S, n + 1)
      <4>1. IsFiniteSet(T) /\ Cardinality(T) \in Nat
        BY FS_Subset, FS_CardinalityType DEF UpTo
      <4> QED BY <4>1 DEF UpTo
    <3>2. g[T] = IF T = {} THEN 0 ELSE f[Chosen(T)] + g[T \ {Chosen(T)}]
      BY <2>1 DEF IsPartialSum
    <3> QED BY <3>1, <3>2
  <2>4. IsPartialSum(h, f, UpTo(S, n + 1))
    <3>1. \A T \in UpTo(S, n + 1) : T # {} => h[T \ {Chosen(T)}] = g[T \ {Chosen(T)}]
      BY <2>2, <2>3
    <3> QED BY <3>1 DEF IsPartialSum
  <2> QED BY <2>4
<1>3. Good = Nat
  <2> HIDE DEF Good
  <2>1. Good \in SUBSET Nat
    BY DEF Good
  <2> QED BY <1>1, <1>2, <2>1, NatInductionBySets
<1>4. Cardinality(S) \in Nat /\ UpTo(S, Cardinality(S)) = SUBSET S
  BY FS_Subset, FS_CardinalityType DEF UpTo
<1> HIDE DEF Good
<1>5. Cardinality(S) \in Good
  BY <1>3, <1>4
<1> QED BY <1>4, <1>5 DEF Good

(* The recursive equation of a sum.                                           *)
LEMMA PartialSumEquation ==
  ASSUME NEW f, NEW S, NEW g, IsPartialSum(g, f, SUBSET S)
  PROVE  \A T \in SUBSET S :
           g[T] = IF T = {} THEN 0 ELSE f[Chosen(T)] + g[T \ {Chosen(T)}]
  BY DEF IsPartialSum

(* The function chosen for a set and the one chosen for a larger set agree.   *)
LEMMA PartialSumsAgree ==
  \A f, S, R, g, h :
    IsFiniteSet(S) /\ R \in SUBSET S
    /\ IsPartialSum(g, f, SUBSET S) /\ IsPartialSum(h, f, SUBSET R) => g[R] = h[R]
<1> SUFFICES ASSUME NEW f, NEW S, NEW R \in SUBSET S, NEW g, NEW h, IsFiniteSet(S),
                    IsPartialSum(g, f, SUBSET S), IsPartialSum(h, f, SUBSET R)
             PROVE  g[R] = h[R]
  OBVIOUS
<1> DEFINE Bad == {T \in SUBSET R : g[T] # h[T]}
<1>1. SUFFICES ASSUME Bad # {} PROVE FALSE
  OBVIOUS
<1>2. PICK T \in Bad : \A U \in SUBSET T : U \in Bad => U = T
  <2>1. Bad \in SUBSET SUBSET S
    OBVIOUS
  <2> HIDE DEF Bad
  <2> QED BY <1>1, <2>1, SmallestCase
<1>3. IsFiniteSet(R)
  BY FS_Subset
<1>b. T \in SUBSET S /\ T \in SUBSET R /\ g[T] # h[T]
  OBVIOUS
<1> HIDE DEF Bad
<1>c. g[T] = IF T = {} THEN 0 ELSE f[Chosen(T)] + g[T \ {Chosen(T)}]
  BY <1>b, PartialSumEquation
<1>d. h[T] = IF T = {} THEN 0 ELSE f[Chosen(T)] + h[T \ {Chosen(T)}]
  BY <1>b DEF IsPartialSum
<1>4. /\ g[T] = IF T = {} THEN 0 ELSE f[Chosen(T)] + g[T \ {Chosen(T)}]
      /\ h[T] = IF T = {} THEN 0 ELSE f[Chosen(T)] + h[T \ {Chosen(T)}]
  BY <1>c, <1>d
<1>5. T # {}
  BY <1>b, <1>4
<1>6. Chosen(T) \in T
  BY <1>5 DEF Chosen
<1>7. T \ {Chosen(T)} \in SUBSET T /\ T \ {Chosen(T)} # T
  BY <1>b, <1>6
<1>8. g[T \ {Chosen(T)}] = h[T \ {Chosen(T)}]
  BY <1>2, <1>b, <1>7 DEF Bad
<1> QED BY <1>b, <1>4, <1>8

(* One step of a sum.                                                         *)
LEMMA SumUnfolds ==
  ASSUME NEW f, NEW S, IsFiniteSet(S)
  PROVE  SumFunctionOnSet(f, S) =
           IF S = {} THEN 0 ELSE f[Chosen(S)] + SumFunctionOnSet(f, S \ {Chosen(S)})
<1>1. PICK R : R = S \ {Chosen(S)}
  OBVIOUS
<1>2. IsFiniteSet(R) /\ R \in SUBSET S
  BY <1>1, FS_Subset
<1>3. PICK g : IsPartialSum(g, f, SUBSET S) /\ SumFunctionOnSet(f, S) = g[S]
  BY PartialSumExists, SumIsChosen
<1>4. PICK h : IsPartialSum(h, f, SUBSET R) /\ SumFunctionOnSet(f, R) = h[R]
  BY <1>2, PartialSumExists, SumIsChosen
<1>5. g[R] = h[R]
  BY SMTT(45), <1>2, <1>3, <1>4, PartialSumsAgree
<1>6. g[S] = IF S = {} THEN 0 ELSE f[Chosen(S)] + g[R]
  BY <1>1, <1>3 DEF IsPartialSum
<1> QED BY <1>1, <1>3, <1>4, <1>5, <1>6

(* A sum over no elements is zero.                                            *)
LEMMA SumOfNothing ==
  ASSUME NEW f PROVE SumFunctionOnSet(f, {}) = 0
  BY FS_EmptySet, SumUnfolds

(* A sum of integers is an integer.                                           *)
LEMMA SumIsInt ==
  ASSUME NEW S, IsFiniteSet(S), NEW f, \A x \in S : f[x] \in Int
  PROVE  SumFunctionOnSet(f, S) \in Int
<1> DEFINE Bad == {T \in SUBSET S : SumFunctionOnSet(f, T) \notin Int}
<1>1. SUFFICES ASSUME Bad # {} PROVE FALSE
  OBVIOUS
<1>2. PICK T \in Bad : \A U \in SUBSET T : U \in Bad => U = T
  <2>1. Bad \in SUBSET SUBSET S
    OBVIOUS
  <2> HIDE DEF Bad
  <2> QED BY <1>1, <2>1, SmallestCase
<1>3. SumFunctionOnSet(f, T) =
        IF T = {} THEN 0 ELSE f[Chosen(T)] + SumFunctionOnSet(f, T \ {Chosen(T)})
  BY FS_Subset, SumUnfolds
<1>4. T # {}
  BY <1>3
<1>5. Chosen(T) \in T
  BY <1>4 DEF Chosen
<1>6. T \ {Chosen(T)} \in SUBSET T /\ T \ {Chosen(T)} # T
  BY <1>5
<1>7. SumFunctionOnSet(f, T \ {Chosen(T)}) \in Int
  BY <1>2, <1>6
<1> QED BY <1>3, <1>5, <1>7

(* Any element may be taken out of a sum first: the choice of an order does not*)
(* matter.                                                                    *)
LEMMA SumTakesOut ==
  ASSUME NEW S, IsFiniteSet(S), NEW f, \A x \in S : f[x] \in Int, NEW x \in S
  PROVE  SumFunctionOnSet(f, S) = f[x] + SumFunctionOnSet(f, S \ {x})
<1> DEFINE Bad == {T \in SUBSET S : \E y \in T :
                     SumFunctionOnSet(f, T) # f[y] + SumFunctionOnSet(f, T \ {y})}
<1>1. SUFFICES ASSUME Bad # {} PROVE FALSE
  OBVIOUS
<1>2. PICK T \in Bad : \A U \in SUBSET T : U \in Bad => U = T
  <2>1. Bad \in SUBSET SUBSET S
    OBVIOUS
  <2> HIDE DEF Bad
  <2> QED BY <1>1, <2>1, SmallestCase
<1>3. PICK y \in T : SumFunctionOnSet(f, T) # f[y] + SumFunctionOnSet(f, T \ {y})
  OBVIOUS
<1> DEFINE c == Chosen(T)
<1>4. c \in T /\ T \in SUBSET S
  BY <1>3 DEF Chosen
<1> HIDE DEF c
<1>5. SumFunctionOnSet(f, T) = f[c] + SumFunctionOnSet(f, T \ {c})
  BY <1>4, FS_Subset, SumUnfolds DEF c
<1>6. y # c
  BY <1>3, <1>5
<1> DEFINE U == T \ {c}
           V == T \ {y}
           W == (T \ {c}) \ {y}
<1>7. /\ U \in SUBSET S /\ V \in SUBSET S /\ W \in SUBSET S
      /\ y \in U /\ c \in V /\ U # T /\ V # T /\ U \subseteq T /\ V \subseteq T
      /\ U \ {y} = W /\ V \ {c} = W
  BY <1>4, <1>6
<1>8. U \in SUBSET T /\ V \in SUBSET T
  BY <1>4, <1>7
<1> HIDE DEF U, V, W
<1>9. U \notin Bad /\ V \notin Bad
  <2> HIDE DEF Bad
  <2> QED BY <1>2, <1>7, <1>8
<1>10. SumFunctionOnSet(f, U) = f[y] + SumFunctionOnSet(f, W)
  BY <1>7, <1>9
<1>11. SumFunctionOnSet(f, V) = f[c] + SumFunctionOnSet(f, W)
  BY <1>7, <1>9
<1>12. SumFunctionOnSet(f, W) \in Int /\ f[y] \in Int /\ f[c] \in Int
  <2>1. IsFiniteSet(W)
    BY <1>7, FS_Subset
  <2>2. \A z \in W : f[z] \in Int
    BY <1>7
  <2> QED BY <1>4, <2>1, <2>2, SumIsInt
<1> HIDE DEF Bad
<1>13. SumFunctionOnSet(f, T) = f[y] + SumFunctionOnSet(f, V)
  BY <1>5, <1>10, <1>11, <1>12 DEF U
<1> QED BY <1>3, <1>13 DEF V

(* A new element adds its value.                                              *)
LEMMA SumPutsIn ==
  ASSUME NEW S, IsFiniteSet(S), NEW x, x \notin S,
         NEW f, \A y \in S \cup {x} : f[y] \in Int
  PROVE  SumFunctionOnSet(f, S \cup {x}) = SumFunctionOnSet(f, S) + f[x]
<1>1. IsFiniteSet(S \cup {x}) /\ (S \cup {x}) \ {x} = S
  BY FS_AddElement
<1>2. SumFunctionOnSet(f, S \cup {x}) = f[x] + SumFunctionOnSet(f, S)
  BY <1>1, SumTakesOut
<1>3. SumFunctionOnSet(f, S) \in Int /\ f[x] \in Int
  BY SumIsInt
<1> QED BY <1>2, <1>3

(* A sum over one element is its value.                                       *)
LEMMA SumOfOne ==
  ASSUME NEW f, NEW x, f[x] \in Int
  PROVE  SumFunctionOnSet(f, {x}) = f[x]
<1>1. IsFiniteSet({x}) /\ {x} \ {x} = {} /\ x \in {x} /\ \A y \in {x} : f[y] \in Int
  BY FS_Singleton
<1>2. SumFunctionOnSet(f, {x}) = f[x] + SumFunctionOnSet(f, {x} \ {x})
  BY <1>1, SumTakesOut
<1> QED BY <1>1, <1>2, SumOfNothing

(* A sum depends only on the values of its terms.                             *)
LEMMA SumOfEqualTerms ==
  ASSUME NEW S, IsFiniteSet(S), NEW f, NEW g, \A x \in S : f[x] = g[x]
  PROVE  SumFunctionOnSet(f, S) = SumFunctionOnSet(g, S)
<1> DEFINE Bad == {T \in SUBSET S : SumFunctionOnSet(f, T) # SumFunctionOnSet(g, T)}
<1>1. SUFFICES ASSUME Bad # {} PROVE FALSE
  OBVIOUS
<1>2. PICK T \in Bad : \A U \in SUBSET T : U \in Bad => U = T
  <2>1. Bad \in SUBSET SUBSET S
    OBVIOUS
  <2> HIDE DEF Bad
  <2> QED BY <1>1, <2>1, SmallestCase
<1>3. /\ SumFunctionOnSet(f, T) =
           IF T = {} THEN 0 ELSE f[Chosen(T)] + SumFunctionOnSet(f, T \ {Chosen(T)})
      /\ SumFunctionOnSet(g, T) =
           IF T = {} THEN 0 ELSE g[Chosen(T)] + SumFunctionOnSet(g, T \ {Chosen(T)})
  BY FS_Subset, SumUnfolds
<1>4. T # {}
  BY <1>3
<1>5. Chosen(T) \in T
  BY <1>4 DEF Chosen
<1>6. T \ {Chosen(T)} \in SUBSET T /\ T \ {Chosen(T)} # T
  BY <1>5
<1>7. SumFunctionOnSet(f, T \ {Chosen(T)}) = SumFunctionOnSet(g, T \ {Chosen(T)})
  BY <1>2, <1>6
<1> QED BY <1>3, <1>5, <1>7

(* The sum over a disjoint union is the sum of the sums.                      *)
LEMMA SumOfUnion ==
  ASSUME NEW S, IsFiniteSet(S), NEW T, IsFiniteSet(T), S \cap T = {},
         NEW f, \A x \in S \cup T : f[x] \in Int
  PROVE  SumFunctionOnSet(f, S \cup T) = SumFunctionOnSet(f, S) + SumFunctionOnSet(f, T)
<1> DEFINE Good == {U \in SUBSET T :
             SumFunctionOnSet(f, S \cup U) = SumFunctionOnSet(f, S) + SumFunctionOnSet(f, U)}
<1>1. SumFunctionOnSet(f, S) \in Int
  BY SumIsInt
<1>2. {} \in Good
  BY <1>1, SumOfNothing
<1>3. ASSUME NEW U \in Good, NEW x \in T, x \notin U PROVE U \cup {x} \in Good
  <2>1. IsFiniteSet(U) /\ IsFiniteSet(S \cup U) /\ x \notin S \cup U
    BY <1>3, FS_Subset, FS_Union
  <2>2. SumFunctionOnSet(f, U) \in Int /\ f[x] \in Int
    BY <2>1, SumIsInt
  <2>3. SumFunctionOnSet(f, U \cup {x}) = SumFunctionOnSet(f, U) + f[x]
    BY <1>3, <2>1, SumPutsIn
  <2>4. SumFunctionOnSet(f, (S \cup U) \cup {x}) = SumFunctionOnSet(f, S \cup U) + f[x]
    <3>1. \A y \in (S \cup U) \cup {x} : f[y] \in Int
      OBVIOUS
    <3> HIDE DEF Good
    <3> QED BY <2>1, <3>1, SumPutsIn
  <2>5. (S \cup U) \cup {x} = S \cup (U \cup {x})
    OBVIOUS
  <2>6. SumFunctionOnSet(f, S \cup U) = SumFunctionOnSet(f, S) + SumFunctionOnSet(f, U)
    OBVIOUS
  <2>7. U \cup {x} \in SUBSET T
    OBVIOUS
  <2> HIDE DEF Good
  <2>8. SumFunctionOnSet(f, S \cup (U \cup {x})) = SumFunctionOnSet(f, S \cup U) + f[x]
    BY <2>4, <2>5
  <2>9. SumFunctionOnSet(f, S \cup (U \cup {x}))
          = SumFunctionOnSet(f, S) + SumFunctionOnSet(f, U \cup {x})
    BY <1>1, <2>2, <2>3, <2>6, <2>8
  <2> QED BY <2>7, <2>9 DEF Good
<1>4. Good = SUBSET T
  <2> HIDE DEF Good
  <2>1. Good \in SUBSET SUBSET T
    BY DEF Good
  <2> QED BY <1>2, <1>3, <2>1, SubsetInduction
<1> QED BY <1>4

(* A sum of naturals is a natural.                                            *)
LEMMA SumIsNat ==
  ASSUME NEW S, IsFiniteSet(S), NEW f, \A x \in S : f[x] \in Nat
  PROVE  SumFunctionOnSet(f, S) \in Nat
<1> DEFINE Good == {U \in SUBSET S : SumFunctionOnSet(f, U) \in Nat}
<1>1. {} \in Good
  BY SumOfNothing
<1>2. ASSUME NEW U \in Good, NEW x \in S, x \notin U PROVE U \cup {x} \in Good
  <2>1. IsFiniteSet(U) /\ SumFunctionOnSet(f, U) \in Nat /\ U \cup {x} \in SUBSET S
    BY FS_Subset
  <2>2. \A y \in U \cup {x} : f[y] \in Int
    BY <2>1
  <2> HIDE DEF Good
  <2>3. SumFunctionOnSet(f, U \cup {x}) = SumFunctionOnSet(f, U) + f[x]
    BY <1>2, <2>1, <2>2, SumPutsIn
  <2> QED BY <2>1, <2>3 DEF Good
<1>3. Good = SUBSET S
  <2> HIDE DEF Good
  <2>1. Good \in SUBSET SUBSET S
    BY DEF Good
  <2> QED BY <1>1, <1>2, <2>1, SubsetInduction
<1> QED BY <1>3

(* Some of the terms of a sum of naturals sum to no more than all of them.    *)
LEMMA SumOfSubset ==
  ASSUME NEW S, IsFiniteSet(S), NEW f, \A x \in S : f[x] \in Nat, NEW T \in SUBSET S
  PROVE  /\ SumFunctionOnSet(f, T) \in Nat
         /\ SumFunctionOnSet(f, T) <= SumFunctionOnSet(f, S)
         /\ SumFunctionOnSet(f, S \ T) = SumFunctionOnSet(f, S) - SumFunctionOnSet(f, T)
<1>1. /\ IsFiniteSet(T) /\ IsFiniteSet(S \ T) /\ T \cap (S \ T) = {} /\ T \cup (S \ T) = S
      /\ S \ T \in SUBSET S
  BY FS_Subset
<1>2. SumFunctionOnSet(f, T) \in Nat /\ SumFunctionOnSet(f, S \ T) \in Nat
  BY <1>1, SumIsNat
<1>3. SumFunctionOnSet(f, S) = SumFunctionOnSet(f, T) + SumFunctionOnSet(f, S \ T)
  <2>1. \A x \in T \cup (S \ T) : f[x] \in Int
    BY <1>1
  <2>2. SumFunctionOnSet(f, T \cup (S \ T))
          = SumFunctionOnSet(f, T) + SumFunctionOnSet(f, S \ T)
    BY <1>1, <2>1, SumOfUnion
  <2> QED BY <1>1, <2>2
<1> QED BY <1>2, <1>3

(* The image of a finite set is finite.                                       *)
LEMMA ImageIsFinite ==
  ASSUME NEW S, IsFiniteSet(S), NEW h
  PROVE  IsFiniteSet({h[x] : x \in S})
<1> DEFINE Image(U) == {h[x] : x \in U}
           Good == {U \in SUBSET S : IsFiniteSet(Image(U))}
<1>1. {} \in Good
  <2>1. Image({}) = {}
    OBVIOUS
  <2> QED BY <2>1, FS_EmptySet
<1>2. ASSUME NEW U \in Good, NEW x \in S, x \notin U PROVE U \cup {x} \in Good
  <2>1. Image(U \cup {x}) = Image(U) \cup {h[x]}
    OBVIOUS
  <2>2. IsFiniteSet(Image(U)) /\ U \cup {x} \in SUBSET S
    OBVIOUS
  <2>3. IsFiniteSet(Image(U) \cup {h[x]})
    <3> HIDE DEF Image
    <3> QED BY <2>2, FS_AddElement
  <2> QED BY <2>1, <2>2, <2>3
<1>3. Good = SUBSET S
  <2> HIDE DEF Good
  <2>1. Good \in SUBSET SUBSET S
    BY DEF Good
  <2> QED BY <1>1, <1>2, <2>1, SubsetInduction
<1>4. S \in Good
  BY <1>3
<1> QED BY <1>4

(* A sum may be taken over names of its terms instead.                        *)
LEMMA SumOfImage ==
  ASSUME NEW S, IsFiniteSet(S), NEW f, \A x \in S : f[x] \in Int,
         NEW h, \A x, y \in S : h[x] = h[y] => x = y,
         NEW g, \A x \in S : g[h[x]] = f[x]
  PROVE  SumFunctionOnSet(g, {h[x] : x \in S}) = SumFunctionOnSet(f, S)
<1> DEFINE Image(U) == {h[x] : x \in U}
           Good == {U \in SUBSET S : /\ IsFiniteSet(Image(U))
                                     /\ SumFunctionOnSet(g, Image(U)) = SumFunctionOnSet(f, U)}
<1>1. {} \in Good
  <2>1. Image({}) = {}
    OBVIOUS
  <2> QED BY <2>1, SumOfNothing, FS_EmptySet
<1>2. ASSUME NEW U \in Good, NEW x \in S, x \notin U PROVE U \cup {x} \in Good
  <2>1. Image(U \cup {x}) = Image(U) \cup {h[x]} /\ h[x] \notin Image(U)
    BY <1>2
  <2>2. IsFiniteSet(Image(U)) /\ \A z \in Image(U) \cup {h[x]} : g[z] \in Int
    OBVIOUS
  <2>3. SumFunctionOnSet(g, Image(U)) = SumFunctionOnSet(f, U) /\ g[h[x]] = f[x]
        /\ U \in SUBSET S
    OBVIOUS
  <2> HIDE DEF Image, Good
  <2>4. /\ IsFiniteSet(Image(U) \cup {h[x]})
        /\ SumFunctionOnSet(g, Image(U) \cup {h[x]}) = SumFunctionOnSet(g, Image(U)) + g[h[x]]
    <3>1. PICK V, z : V = Image(U) /\ z = h[x]
      OBVIOUS
    <3>2. IsFiniteSet(V) /\ z \notin V /\ \A y \in V \cup {z} : g[y] \in Int
      BY <2>1, <2>2, <3>1
    <3>3. SumFunctionOnSet(g, V \cup {z}) = SumFunctionOnSet(g, V) + g[z]
      BY <3>2, SumPutsIn
    <3>4. IsFiniteSet(V \cup {z})
      BY <3>2, FS_AddElement
    <3> QED BY <3>1, <3>3, <3>4
  <2>5. SumFunctionOnSet(f, U \cup {x}) = SumFunctionOnSet(f, U) + f[x]
    <3>1. \A y \in U \cup {x} : f[y] \in Int
      BY <2>3
    <3> QED BY <1>2, <2>3, <3>1, FS_Subset, SumPutsIn
  <2>6. U \cup {x} \in SUBSET S
    BY <2>3
  <2> QED BY <2>1, <2>3, <2>4, <2>5, <2>6 DEF Good
<1>3. Good = SUBSET S
  <2> HIDE DEF Good
  <2>1. Good \in SUBSET SUBSET S
    BY DEF Good
  <2> QED BY <1>1, <1>2, <2>1, SubsetInduction
<1>4. S \in Good
  BY <1>3
<1> QED BY <1>4

(* The sum of two sums, term by term.                                         *)
LEMMA SumOfSums ==
  ASSUME NEW S, IsFiniteSet(S), NEW f, NEW g, NEW h,
         \A x \in S : g[x] \in Int /\ h[x] \in Int /\ f[x] = g[x] + h[x]
  PROVE  SumFunctionOnSet(f, S) = SumFunctionOnSet(g, S) + SumFunctionOnSet(h, S)
<1> DEFINE Good == {U \in SUBSET S :
             SumFunctionOnSet(f, U) = SumFunctionOnSet(g, U) + SumFunctionOnSet(h, U)}
<1>1. {} \in Good
  BY SumOfNothing
<1>2. ASSUME NEW U \in Good, NEW x \in S, x \notin U PROVE U \cup {x} \in Good
  <2>1. U \in SUBSET S /\ IsFiniteSet(U)
    BY FS_Subset
  <2>2. \A y \in U \cup {x} : f[y] \in Int /\ g[y] \in Int /\ h[y] \in Int
    BY <2>1
  <2>3. /\ SumFunctionOnSet(f, U \cup {x}) = SumFunctionOnSet(f, U) + f[x]
        /\ SumFunctionOnSet(g, U \cup {x}) = SumFunctionOnSet(g, U) + g[x]
        /\ SumFunctionOnSet(h, U \cup {x}) = SumFunctionOnSet(h, U) + h[x]
    BY <1>2, <2>1, <2>2, SumPutsIn
  <2>4. SumFunctionOnSet(g, U) \in Int /\ SumFunctionOnSet(h, U) \in Int
    BY <2>1, <2>2, SumIsInt
  <2>5. SumFunctionOnSet(f, U) = SumFunctionOnSet(g, U) + SumFunctionOnSet(h, U)
    OBVIOUS
  <2>6. g[x] \in Int /\ h[x] \in Int /\ f[x] = g[x] + h[x] /\ U \cup {x} \in SUBSET S
    BY <2>1
  <2> QED BY <2>3, <2>4, <2>5, <2>6
<1>3. Good = SUBSET S
  <2> HIDE DEF Good
  <2>1. Good \in SUBSET SUBSET S
    BY DEF Good
  <2> QED BY <1>1, <1>2, <2>1, SubsetInduction
<1>4. S \in Good
  BY <1>3
<1> QED BY <1>4

(* Two sums that differ in one term.                                          *)
LEMMA SumWithOneChange ==
  ASSUME NEW S, IsFiniteSet(S), NEW a \in S, NEW f, NEW g,
         \A x \in S : f[x] \in Int /\ g[x] \in Int,
         \A x \in S : x # a => f[x] = g[x]
  PROVE  SumFunctionOnSet(f, S) = SumFunctionOnSet(g, S) + (f[a] - g[a])
<1>1. IsFiniteSet(S \ {a}) /\ S \ {a} \in SUBSET S
  BY FS_Subset
<1>2. /\ SumFunctionOnSet(f, S) = f[a] + SumFunctionOnSet(f, S \ {a})
      /\ SumFunctionOnSet(g, S) = g[a] + SumFunctionOnSet(g, S \ {a})
  BY SumTakesOut
<1>3. SumFunctionOnSet(f, S \ {a}) = SumFunctionOnSet(g, S \ {a})
  BY <1>1, SumOfEqualTerms
<1>4. SumFunctionOnSet(g, S \ {a}) \in Int
  BY <1>1, SumIsInt
<1> QED BY <1>2, <1>3, <1>4

(* A sum of zeros.                                                            *)
LEMMA SumOfZeros ==
  ASSUME NEW S, IsFiniteSet(S), NEW f, \A x \in S : f[x] = 0
  PROVE  SumFunctionOnSet(f, S) = 0
<1>1. SumFunctionOnSet(f, S) = SumFunctionOnSet(f, S) + SumFunctionOnSet(f, S)
  BY SumOfSums
<1>2. PICK total \in Int : total = SumFunctionOnSet(f, S)
  BY SumIsInt
<1>3. total = total + total
  BY <1>1, <1>2, Zenon
<1>4. total = 0
  BY <1>3
<1> QED BY <1>2, <1>4

(* A sum whose terms are within those of another one is within it.             *)
LEMMA SumWithin ==
  ASSUME NEW S, IsFiniteSet(S), NEW f, NEW d,
         \A x \in S : f[x] \in Int /\ d[x] \in Int /\ f[x] \in (-d[x])..d[x]
  PROVE  /\ SumFunctionOnSet(f, S) \in Int /\ SumFunctionOnSet(d, S) \in Int
         /\ SumFunctionOnSet(f, S) \in (-SumFunctionOnSet(d, S))..SumFunctionOnSet(d, S)
<1> DEFINE Good == {U \in SUBSET S :
             SumFunctionOnSet(f, U) \in (-SumFunctionOnSet(d, U))..SumFunctionOnSet(d, U)}
<1>1. {} \in Good
  BY SumOfNothing
<1>2. ASSUME NEW U \in Good, NEW x \in S, x \notin U PROVE U \cup {x} \in Good
  <2>1. U \in SUBSET S /\ IsFiniteSet(U) /\ U \cup {x} \in SUBSET S
    BY FS_Subset
  <2>2. \A y \in U \cup {x} : f[y] \in Int /\ d[y] \in Int
    BY <2>1
  <2>3. /\ SumFunctionOnSet(f, U \cup {x}) = SumFunctionOnSet(f, U) + f[x]
        /\ SumFunctionOnSet(d, U \cup {x}) = SumFunctionOnSet(d, U) + d[x]
    BY <1>2, <2>1, <2>2, SumPutsIn
  <2>4. SumFunctionOnSet(f, U) \in Int /\ SumFunctionOnSet(d, U) \in Int
    BY <2>1, <2>2, SumIsInt
  <2>5. SumFunctionOnSet(f, U) \in (-SumFunctionOnSet(d, U))..SumFunctionOnSet(d, U)
    OBVIOUS
  <2>6. f[x] \in (-d[x])..d[x] /\ f[x] \in Int /\ d[x] \in Int
    OBVIOUS
  <2> HIDE DEF Good
  <2>7. SumFunctionOnSet(f, U \cup {x})
          \in (-SumFunctionOnSet(d, U \cup {x}))..SumFunctionOnSet(d, U \cup {x})
    BY <2>3, <2>4, <2>5, <2>6
  <2> QED BY <2>1, <2>7 DEF Good
<1>3. Good = SUBSET S
  <2> HIDE DEF Good
  <2>1. Good \in SUBSET SUBSET S
    BY DEF Good
  <2> QED BY <1>1, <1>2, <2>1, SubsetInduction
<1>4. SumFunctionOnSet(f, S) \in Int /\ SumFunctionOnSet(d, S) \in Int
  BY SumIsInt
<1> QED BY <1>3, <1>4

Multiples(c) == {c * k : k \in Int}

(* Sums, differences and opposites of multiples are multiples, and a multiple   *)
(* less than one step above zero is not above it.                               *)
LEMMA MultiplesAdd ==
  ASSUME NEW c \in Nat \ {0}
  PROVE  /\ 0 \in Multiples(c) /\ Multiples(c) \subseteq Int
         /\ \A m, n \in Multiples(c) : m + n \in Multiples(c) /\ m - n \in Multiples(c)
         /\ \A m \in Multiples(c) : -m \in Multiples(c) /\ (m < c => m <= 0)
<1>1. 0 \in Multiples(c) /\ Multiples(c) \subseteq Int
  <2>1. c * 0 = 0 /\ 0 \in Int
    OBVIOUS
  <2> QED BY <2>1 DEF Multiples
<1>2. ASSUME NEW m \in Multiples(c), NEW n \in Multiples(c)
      PROVE  m + n \in Multiples(c) /\ m - n \in Multiples(c)
  <2>1. PICK j \in Int, k \in Int : m = c * j /\ n = c * k
    BY DEF Multiples
  <2>2. m + n = c * (j + k) /\ m - n = c * (j - k) /\ j + k \in Int /\ j - k \in Int
    BY <2>1
  <2> QED BY <2>2 DEF Multiples
<1>3. ASSUME NEW m \in Multiples(c) PROVE -m \in Multiples(c) /\ (m < c => m <= 0)
  <2>1. PICK k \in Int : m = c * k
    BY DEF Multiples
  <2>2. -m = c * (-k) /\ -k \in Int
    BY <2>1
  <2>3. k <= 0 \/ k >= 1
    OBVIOUS
  <2>4. k <= 0 => m <= 0
    BY <2>1
  <2>5. k >= 1 => m >= c
    BY <2>1
  <2>6. m \in Int
    BY <2>1
  <2> QED BY <2>2, <2>3, <2>4, <2>5, <2>6 DEF Multiples
<1> QED BY <1>1, <1>2, <1>3

(* A sum of multiples is a multiple.                                          *)
LEMMA SumOfMultiples ==
  ASSUME NEW S, IsFiniteSet(S), NEW f, NEW c \in Nat \ {0},
         \A x \in S : f[x] \in Multiples(c)
  PROVE  SumFunctionOnSet(f, S) \in Multiples(c)
<1> DEFINE Good == {U \in SUBSET S : SumFunctionOnSet(f, U) \in Multiples(c)}
<1>1. {} \in Good
  BY SumOfNothing, MultiplesAdd
<1>2. ASSUME NEW U \in Good, NEW x \in S, x \notin U PROVE U \cup {x} \in Good
  <2>1. U \in SUBSET S /\ IsFiniteSet(U) /\ U \cup {x} \in SUBSET S
        /\ SumFunctionOnSet(f, U) \in Multiples(c)
    BY FS_Subset
  <2> HIDE DEF Good
  <2>2. \A y \in U \cup {x} : f[y] \in Int
    BY <2>1, MultiplesAdd
  <2>3. SumFunctionOnSet(f, U \cup {x}) = SumFunctionOnSet(f, U) + f[x]
    BY <1>2, <2>1, <2>2, SumPutsIn
  <2>4. SumFunctionOnSet(f, U) + f[x] \in Multiples(c)
    BY <2>1, MultiplesAdd
  <2> QED BY <2>1, <2>3, <2>4 DEF Good
<1>3. Good = SUBSET S
  <2> HIDE DEF Good
  <2>1. Good \in SUBSET SUBSET S
    BY DEF Good
  <2> QED BY <1>1, <1>2, <2>1, SubsetInduction
<1> QED BY <1>3

(* g[a] sums f over the elements of I that a function puts in group a of A.    *)
SumsGroups(g, f, I, group, A) ==
  /\ \A i \in I : group[i] \in A
  /\ \A a \in A : g[a] = SumFunctionOnSet(f, {i \in I : group[i] = a})

(* A sum may be taken group by group.                                         *)
LEMMA SumByGroups ==
  ASSUME NEW I, IsFiniteSet(I), NEW A, IsFiniteSet(A),
         NEW f, \A i \in I : f[i] \in Int,
         NEW group, NEW g, SumsGroups(g, f, I, group, A)
  PROVE  SumFunctionOnSet(g, A) = SumFunctionOnSet(f, I)
<1> DEFINE Group(U, a) == {i \in U : group[i] = a}
           Part(U) == [a \in A |-> SumFunctionOnSet(f, Group(U, a))]
           Good == {U \in SUBSET I : SumFunctionOnSet(Part(U), A) = SumFunctionOnSet(f, U)}
<1> USE DEF SumsGroups
<1>0. \A U \in SUBSET I : \A a \in A : IsFiniteSet(Group(U, a)) /\ Part(U)[a] \in Int
  <2> SUFFICES ASSUME NEW U \in SUBSET I, NEW a \in A
               PROVE  IsFiniteSet(Group(U, a)) /\ Part(U)[a] \in Int
    OBVIOUS
  <2>1. Group(U, a) \in SUBSET I /\ \A i \in Group(U, a) : f[i] \in Int
    OBVIOUS
  <2>2. Part(U)[a] = SumFunctionOnSet(f, Group(U, a))
    OBVIOUS
  <2> HIDE DEF Group, Part
  <2>3. IsFiniteSet(Group(U, a))
    BY <2>1, FS_Subset
  <2> QED BY <2>1, <2>2, <2>3, SumIsInt
<1>1. {} \in Good
  <2>1. \A a \in A : Group({}, a) = {}
    OBVIOUS
  <2>2. \A a \in A : Part({})[a] = 0
    BY <2>1, SumOfNothing
  <2> HIDE DEF Part
  <2>3. SumFunctionOnSet(Part({}), A) = 0
    BY <2>2, SumOfZeros
  <2> QED BY <2>3, SumOfNothing
<1>2. ASSUME NEW U \in Good, NEW x \in I, x \notin U PROVE U \cup {x} \in Good
  <2>1. /\ U \in SUBSET I /\ U \cup {x} \in SUBSET I /\ group[x] \in A /\ f[x] \in Int
        /\ SumFunctionOnSet(Part(U), A) = SumFunctionOnSet(f, U)
    OBVIOUS
  <2> DEFINE V == U \cup {x}
  <2>2. \A a \in A : a # group[x] => Part(V)[a] = Part(U)[a]
    <3>1. \A a \in A : a # group[x] => Group(V, a) = Group(U, a)
      OBVIOUS
    <3> QED BY <3>1
  <2>3. Part(V)[group[x]] = Part(U)[group[x]] + f[x]
    <3>1. Group(V, group[x]) = Group(U, group[x]) \cup {x} /\ x \notin Group(U, group[x])
      BY <1>2
    <3>2. \A y \in Group(U, group[x]) \cup {x} : f[y] \in Int
      BY <2>1
    <3>3. IsFiniteSet(Group(U, group[x]))
      BY <1>0, <2>1
    <3>4. PICK W : W = Group(U, group[x])
      OBVIOUS
    <3>5. SumFunctionOnSet(f, W \cup {x}) = SumFunctionOnSet(f, W) + f[x]
      <4> HIDE DEF Group
      <4>1. IsFiniteSet(W) /\ x \notin W /\ \A y \in W \cup {x} : f[y] \in Int
        BY <3>1, <3>2, <3>3, <3>4
      <4> QED BY ZenonT(60), <4>1, SumPutsIn
    <3>6. /\ Part(V)[group[x]] = SumFunctionOnSet(f, Group(V, group[x]))
          /\ Part(U)[group[x]] = SumFunctionOnSet(f, Group(U, group[x]))
      BY <2>1
    <3> HIDE DEF Group, Part
    <3> QED BY <3>1, <3>4, <3>5, <3>6
  <2>4. PICK p, q : p = Part(V) /\ q = Part(U)
    OBVIOUS
  <2>5. \A a \in A : p[a] \in Int /\ q[a] \in Int
    <3> HIDE DEF Part
    <3> QED BY <1>0, <2>1, <2>4
  <2>6. \A a \in A : a # group[x] => p[a] = q[a]
    <3> HIDE DEF Part
    <3> QED BY <2>2, <2>4
  <2>7. p[group[x]] - q[group[x]] = f[x]
    <3> HIDE DEF Part
    <3> QED BY <2>1, <2>3, <2>4, <2>5
  <2>8. SumFunctionOnSet(p, A) = SumFunctionOnSet(q, A) + f[x]
    <3>1. PICK b \in A : b = group[x]
      BY <2>1
    <3>2. SumFunctionOnSet(p, A) = SumFunctionOnSet(q, A) + (p[b] - q[b])
      BY <2>5, <2>6, <3>1, SumWithOneChange
    <3> QED BY <2>7, <3>1, <3>2
  <2>9. SumFunctionOnSet(f, V) = SumFunctionOnSet(f, U) + f[x]
    <3>1. IsFiniteSet(U) /\ \A y \in U \cup {x} : f[y] \in Int
      BY <2>1, FS_Subset
    <3> QED BY ZenonT(60), <1>2, <3>1, SumPutsIn
  <2> HIDE DEF Part
  <2> QED BY <2>1, <2>4, <2>8, <2>9
<1>3. Good = SUBSET I
  <2> HIDE DEF Good
  <2>1. Good \in SUBSET SUBSET I
    BY DEF Good
  <2> QED BY <1>1, <1>2, <2>1, SubsetInduction
<1>4. I \in Good
  BY <1>3
<1>5. SumFunctionOnSet(Part(I), A) = SumFunctionOnSet(f, I)
  BY <1>4
<1>6. PICK part : part = Part(I)
  OBVIOUS
<1>7. \A a \in A : part[a] = g[a]
  BY <1>6
<1>8. SumFunctionOnSet(part, A) = SumFunctionOnSet(g, A)
  BY <1>7, SumOfEqualTerms
<1> QED BY <1>5, <1>6, <1>8
=============================================================================
