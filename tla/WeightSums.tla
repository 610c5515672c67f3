----------------------------- MODULE WeightSums -----------------------------
(***************************************************************************)
(* Facts about the weight sums the models are stated with: the sum        *)
(* MapThenSumSet(LAMBDA i : c[i], S) of the natural numbers c[i] over a    *)
(* finite set S, as the committee occurrences of verifiers.rs and the      *)
(* signer weights of accumulator.rs are added up.                          *)
(*                                                                         *)
(* MapThenFoldSet is a recursive function over the subsets of S, so a      *)
(* fact about its value needs, first, that a function satisfying its       *)
(* defining equation exists: it is built layer by layer over the subsets  *)
(* of at most n elements.  Each induction is a least counterexample under  *)
(* the well-founded < on Nat.                                              *)
(***************************************************************************)
EXTENDS Naturals, FiniteSets, FiniteSetsExt, TLAPS, FiniteSetTheorems,
        WellFoundedInduction

(* The sum of the c[i] for i in S.                                         *)
Sum(c, S) == MapThenSumSet(LAMBDA i : c[i], S)

(* The element the fold takes out of a non-empty set.                      *)
Pick(s) == CHOOSE x \in s : TRUE

(* One unfolding of the fold's defining equation.                          *)
Unfold(c, g, s) == IF s = {} THEN 0 ELSE c[Pick(s)] + g[s \ {Pick(s)}]

(* g is the function MapThenFoldSet defines over the subsets of S.         *)
IsFold(c, S, g) == g = [s \in SUBSET S |-> Unfold(c, g, s)]

LEMMA SumIsFold ==
  ASSUME NEW c, NEW S
  PROVE  Sum(c, S) = (CHOOSE g : IsFold(c, S, g))[S]
BY DEF Sum, MapThenSumSet, MapThenFoldSet, IsFold, Unfold, Pick

(* A non-empty set of naturals has a least element.                        *)
LEMMA NatLeast ==
  ASSUME NEW T \in SUBSET Nat, T # {}
  PROVE  \E m \in T : \A y \in T : m <= y
<1>1. PICK m \in T : \A y \in T : ~(<<y, m>> \in OpToRel(<, Nat))
  BY NatLessThanWellFounded, WFMin
<1>2. ASSUME NEW y \in T PROVE m <= y
  <2>1. y \in Nat /\ m \in Nat
    OBVIOUS
  <2>2. ~(y < m)
    BY <1>1, <2>1 DEF OpToRel
  <2> QED
    BY <2>1, <2>2
<1> QED
  BY <1>2

(* The empty sum is 0.                                                     *)
LEMMA SumEmpty ==
  ASSUME NEW c
  PROVE  Sum(c, {}) = 0
<1> DEFINE g0 == [s \in SUBSET {} |-> 0]
<1>1. IsFold(c, {}, g0)
  <2>1. SUBSET {} = {{}}
    OBVIOUS
  <2> QED
    BY <2>1 DEF IsFold, Unfold
<1>2. IsFold(c, {}, CHOOSE g : IsFold(c, {}, g))
  BY <1>1
<1> QED
  BY <1>2, SumIsFold DEF IsFold, Unfold

(* The element the fold takes out of a non-empty finite set, and what is  *)
(* left.                                                                    *)
LEMMA PickFacts ==
  ASSUME NEW s, IsFiniteSet(s), s # {}
  PROVE  /\ Pick(s) \in s
         /\ Cardinality(s \ {Pick(s)}) = Cardinality(s) - 1
         /\ Cardinality(s) >= 1
<1>1. Pick(s) \in s
  BY DEF Pick
<1>2. Cardinality(s) \in Nat /\ Cardinality(s) # 0
  BY FS_CardinalityType, FS_EmptySet
<1>3. Cardinality(s \ {Pick(s)}) = Cardinality(s) - 1
  BY <1>1, FS_RemoveElement
<1> QED
  BY <1>1, <1>2, <1>3

-----------------------------------------------------------------------------
(* Existence of the fold over a finite set of indices with natural values. *)

(* The subsets of S of at most n elements, and a natural-valued function  *)
(* on them that satisfies the fold's equation.                            *)
Layer(S, n) == {s \in SUBSET S : Cardinality(s) <= n}

Good(c, S, g, n) ==
  /\ g \in [Layer(S, n) -> Nat]
  /\ \A s \in Layer(S, n) : g[s] = Unfold(c, g, s)

LEMMA GoodStep ==
  ASSUME NEW c, NEW S, IsFiniteSet(S), \A i \in S : c[i] \in Nat,
         NEW n \in Nat, NEW g, Good(c, S, g, n)
  PROVE  \E h : Good(c, S, h, n + 1)
<1> DEFINE h == [s \in Layer(S, n + 1) |->
                   IF Cardinality(s) <= n THEN g[s]
                   ELSE c[Pick(s)] + g[s \ {Pick(s)}]]
<1>0. \A s \in SUBSET S : IsFiniteSet(s) /\ Cardinality(s) \in Nat
  BY FS_Subset, FS_CardinalityType
<1>1. ASSUME NEW s \in Layer(S, n + 1), s # {}
      PROVE  /\ s \ {Pick(s)} \in Layer(S, n)
             /\ h[s \ {Pick(s)}] = g[s \ {Pick(s)}]
             /\ c[Pick(s)] \in Nat
  <2>1. s \in SUBSET S /\ Cardinality(s) <= n + 1
    BY DEF Layer
  <2>2. Pick(s) \in s /\ Cardinality(s \ {Pick(s)}) = Cardinality(s) - 1
    BY <1>0, <1>1, <2>1, PickFacts
  <2>3. s \ {Pick(s)} \in Layer(S, n) /\ s \ {Pick(s)} \in Layer(S, n + 1)
    BY <1>0, <2>1, <2>2 DEF Layer
  <2>4. Cardinality(s \ {Pick(s)}) <= n
    BY <2>3 DEF Layer
  <2> QED
    BY <2>1, <2>2, <2>3, <2>4
<1>2. ASSUME NEW s \in Layer(S, n + 1) PROVE h[s] \in Nat /\ h[s] = Unfold(c, h, s)
  <2>0. g \in [Layer(S, n) -> Nat] /\ \A t \in Layer(S, n) : g[t] = Unfold(c, g, t)
    BY DEF Good
  <2>1. CASE s = {}
    <3>1. Cardinality(s) = 0 /\ s \in Layer(S, n)
      BY <2>1, FS_EmptySet DEF Layer
    <3>2. g[s] = 0
      BY <2>0, <2>1, <3>1 DEF Unfold
    <3> QED
      BY <2>1, <3>1, <3>2 DEF Unfold
  <2>2. CASE s # {}
    <3>1. /\ s \ {Pick(s)} \in Layer(S, n)
          /\ h[s \ {Pick(s)}] = g[s \ {Pick(s)}]
          /\ c[Pick(s)] \in Nat
      BY <2>2, <1>1
    <3>2. g[s \ {Pick(s)}] \in Nat
      BY <3>1, <2>0
    <3>3. Unfold(c, h, s) = c[Pick(s)] + g[s \ {Pick(s)}]
      BY <2>2, <3>1 DEF Unfold
    <3>4. CASE Cardinality(s) <= n
      <4>1. s \in Layer(S, n)
        BY <3>4 DEF Layer
      <4>2. g[s] = Unfold(c, g, s)
        BY <4>1, <2>0
      <4>3. h[s] = g[s]
        BY <3>4
      <4> QED
        BY <2>2, <3>1, <3>2, <3>3, <4>2, <4>3 DEF Unfold
    <3>5. CASE ~(Cardinality(s) <= n)
      <4>1. h[s] = c[Pick(s)] + g[s \ {Pick(s)}]
        BY <3>5
      <4> QED
        BY <3>1, <3>2, <3>3, <4>1
    <3> QED
      BY <3>4, <3>5
  <2> QED
    BY <2>1, <2>2
<1>3. Good(c, S, h, n + 1)
  BY <1>2 DEF Good
<1> QED
  BY <1>3

LEMMA FoldExists ==
  ASSUME NEW c, NEW S, IsFiniteSet(S), \A i \in S : c[i] \in Nat
  PROVE  \E g : IsFold(c, S, g)
<1>1. Good(c, S, [s \in Layer(S, 0) |-> 0], 0)
  <2>1. \A s \in Layer(S, 0) : s = {}
    BY FS_Subset, FS_CardinalityType, FS_EmptySet DEF Layer
  <2> QED
    BY <2>1 DEF Good, Unfold
<1>2. \A n \in Nat : \E g : Good(c, S, g, n)
  <2> DEFINE Fail == {n \in Nat : ~\E g : Good(c, S, g, n)}
  <2> SUFFICES ASSUME Fail # {} PROVE FALSE
    OBVIOUS
  <2>1. PICK m \in Fail : \A y \in Fail : m <= y
    BY NatLeast
  <2>2. m # 0
    BY <2>1, <1>1
  <2>3. m - 1 \in Nat /\ m - 1 \notin Fail /\ (m - 1) + 1 = m
    BY <2>1, <2>2
  <2>4. PICK g : Good(c, S, g, m - 1)
    BY <2>3
  <2>5. \E h : Good(c, S, h, (m - 1) + 1)
    BY <2>3, <2>4, GoodStep
  <2> QED
    BY <2>1, <2>3, <2>5
<1>3. Layer(S, Cardinality(S)) = SUBSET S
  BY FS_Subset DEF Layer
<1>4. PICK g : Good(c, S, g, Cardinality(S))
  BY <1>2, FS_CardinalityType
<1>5. IsFold(c, S, g)
  BY <1>3, <1>4 DEF IsFold, Good
<1> QED
  BY <1>5

(* The function the fold is defined by.                                  *)
FoldOf(c, S) == CHOOSE g : IsFold(c, S, g)

(* A sum of naturals over a finite set is a natural.                      *)
LEMMA SumNat ==
  ASSUME NEW c, NEW S, IsFiniteSet(S), \A i \in S : c[i] \in Nat
  PROVE  Sum(c, S) \in Nat
<1> DEFINE f == FoldOf(c, S)
           Bad == {s \in SUBSET S : f[s] \notin Nat}
           Sizes == {Cardinality(s) : s \in Bad}
<1>1. IsFold(c, S, f)
  BY FoldExists DEF FoldOf
<1>2. \A s \in SUBSET S : f[s] = Unfold(c, f, s)
  BY <1>1 DEF IsFold
<1>0. \A s \in SUBSET S : IsFiniteSet(s) /\ Cardinality(s) \in Nat
  BY FS_Subset, FS_CardinalityType
<1>3. SUFFICES Bad = {}
  BY <1>3, SumIsFold DEF FoldOf
<1>4. SUFFICES ASSUME Bad # {} PROVE FALSE
  OBVIOUS
<1>5. Sizes \subseteq Nat /\ Sizes # {}
  BY <1>0, <1>4
<1>6. PICK m \in Sizes : \A y \in Sizes : m <= y
  BY <1>5, NatLeast
<1>7. PICK s \in Bad : Cardinality(s) = m
  BY <1>6
<1>8. s # {}
  <2>1. f[{}] = 0
    BY <1>2 DEF Unfold
  <2> QED
    BY <1>7, <2>1
<1>9. /\ Pick(s) \in s
      /\ Cardinality(s \ {Pick(s)}) = m - 1
      /\ m \in Nat
  BY <1>0, <1>7, <1>8, PickFacts
<1>10. f[s \ {Pick(s)}] \in Nat
  <2>1. s \ {Pick(s)} \in SUBSET S
    BY <1>7
  <2>2. ~(s \ {Pick(s)} \in Bad)
    BY <1>6, <1>9, <2>1
  <2> QED
    BY <2>1, <2>2
<1>11. f[s] = c[Pick(s)] + f[s \ {Pick(s)}]
  BY <1>2, <1>7, <1>8 DEF Unfold
<1>12. c[Pick(s)] \in Nat
  BY <1>7, <1>9
<1> QED
  BY <1>7, <1>10, <1>11, <1>12

-----------------------------------------------------------------------------
(* Uniqueness of the fold, and what it gives: the sum unfolds at any       *)
(* element, grows by c[x] when x is added, and grows with the set.         *)

(* g satisfies the fold's equation on the subsets of U.                   *)
IsFoldOn(c, U, g) == \A s \in SUBSET U : g[s] = Unfold(c, g, s)

(* Two functions that satisfy the fold's equation on the subsets of U     *)
(* agree there.                                                            *)
LEMMA FoldAgree ==
  ASSUME NEW c, NEW U, IsFiniteSet(U), NEW g, NEW h,
         IsFoldOn(c, U, g), IsFoldOn(c, U, h)
  PROVE  \A s \in SUBSET U : g[s] = h[s]
<1> DEFINE Bad == {s \in SUBSET U : g[s] # h[s]}
           Sizes == {Cardinality(s) : s \in Bad}
<1>0. \A s \in SUBSET U : IsFiniteSet(s) /\ Cardinality(s) \in Nat
  BY FS_Subset, FS_CardinalityType
<1>1. SUFFICES ASSUME Bad # {} PROVE FALSE
  OBVIOUS
<1>2. Sizes \subseteq Nat /\ Sizes # {}
  BY <1>0, <1>1
<1>3. PICK m \in Sizes : \A y \in Sizes : m <= y
  BY <1>2, NatLeast
<1>4. PICK s \in Bad : Cardinality(s) = m
  BY <1>3
<1>5. s # {}
  <2>1. g[{}] = 0 /\ h[{}] = 0
    BY DEF IsFoldOn, Unfold
  <2> QED
    BY <1>4, <2>1
<1>6. /\ Pick(s) \in s
      /\ Cardinality(s \ {Pick(s)}) = m - 1
      /\ m \in Nat
  BY <1>0, <1>4, <1>5, PickFacts
<1>7. g[s \ {Pick(s)}] = h[s \ {Pick(s)}]
  <2>1. s \ {Pick(s)} \in SUBSET U
    BY <1>4
  <2>2. ~(s \ {Pick(s)} \in Bad)
    BY <1>3, <1>6, <2>1
  <2> QED
    BY <2>1, <2>2
<1>8. g[s] = c[Pick(s)] + g[s \ {Pick(s)}] /\ h[s] = c[Pick(s)] + h[s \ {Pick(s)}]
  BY <1>4, <1>5 DEF IsFoldOn, Unfold
<1> QED
  BY <1>4, <1>7, <1>8

(* The fold over S is a fold.                                              *)
LEMMA FoldOfIsFold ==
  ASSUME NEW c, NEW S, IsFiniteSet(S), \A i \in S : c[i] \in Nat
  PROVE  IsFold(c, S, FoldOf(c, S))
BY FoldExists DEF FoldOf

(* The fold over S, at a subset U, is the sum over U.                      *)
LEMMA FoldAtSubset ==
  ASSUME NEW c, NEW S, IsFiniteSet(S), \A i \in S : c[i] \in Nat,
         NEW U \in SUBSET S
  PROVE  FoldOf(c, S)[U] = Sum(c, U)
<1>1. IsFiniteSet(U) /\ \A i \in U : c[i] \in Nat
  BY FS_Subset
<1>2. IsFold(c, S, FoldOf(c, S)) /\ IsFold(c, U, FoldOf(c, U))
  BY <1>1, FoldOfIsFold
<1>3. IsFoldOn(c, U, FoldOf(c, S)) /\ IsFoldOn(c, U, FoldOf(c, U))
  BY <1>2 DEF IsFold, IsFoldOn
<1>4. \A s \in SUBSET U : FoldOf(c, S)[s] = FoldOf(c, U)[s]
  BY <1>1, <1>3, FoldAgree
<1>5. FoldOf(c, S)[U] = FoldOf(c, U)[U]
  BY <1>4
<1> QED
  BY <1>5, SumIsFold DEF FoldOf

(* The sum over a non-empty set unfolds at the element the fold picks.    *)
LEMMA SumUnfold ==
  ASSUME NEW c, NEW S, IsFiniteSet(S), \A i \in S : c[i] \in Nat, S # {}
  PROVE  Sum(c, S) = c[Pick(S)] + Sum(c, S \ {Pick(S)})
<1>1. Sum(c, S) = FoldOf(c, S)[S]
  BY SumIsFold DEF FoldOf
<1>2. FoldOf(c, S)[S] = c[Pick(S)] + FoldOf(c, S)[S \ {Pick(S)}]
  <2>1. IsFold(c, S, FoldOf(c, S))
    BY FoldOfIsFold
  <2> QED
    BY <2>1 DEF IsFold, Unfold
<1>3. FoldOf(c, S)[S \ {Pick(S)}] = Sum(c, S \ {Pick(S)})
  BY FoldAtSubset
<1> QED
  BY <1>1, <1>2, <1>3

(* The subsets of S at some element of which the sum does not unfold, and *)
(* the sizes of a collection of sets.                                      *)
RemoveBad(c, S) == {T \in SUBSET S : \E z \in T : Sum(c, T) # c[z] + Sum(c, T \ {z})}

SizesOf(B) == {Cardinality(T) : T \in B}

(* The sum over a set is the weight of any one of its elements plus the   *)
(* sum over the others: the order in which the fold takes the elements    *)
(* does not matter.                                                        *)
LEMMA SumRemove ==
  ASSUME NEW c, NEW S, IsFiniteSet(S), \A i \in S : c[i] \in Nat, NEW y \in S
  PROVE  Sum(c, S) = c[y] + Sum(c, S \ {y})
<1>0. \A T \in SUBSET S : /\ IsFiniteSet(T) /\ Cardinality(T) \in Nat
                          /\ \A i \in T : c[i] \in Nat
  BY FS_Subset, FS_CardinalityType
<1>1. \A T \in SUBSET S : Sum(c, T) \in Nat
  BY <1>0, SumNat
<1>2. SUFFICES ASSUME RemoveBad(c, S) # {} PROVE FALSE
  BY DEF RemoveBad
<1>3. SizesOf(RemoveBad(c, S)) \subseteq Nat /\ SizesOf(RemoveBad(c, S)) # {}
  BY <1>0, <1>2 DEF SizesOf, RemoveBad
<1>4. PICK m \in SizesOf(RemoveBad(c, S)) :
        \A n \in SizesOf(RemoveBad(c, S)) : m <= n
  BY <1>3, NatLeast
<1>5. \A U \in RemoveBad(c, S) : m <= Cardinality(U)
  BY <1>4 DEF SizesOf
<1>6. PICK T \in RemoveBad(c, S) : Cardinality(T) = m
  BY <1>4 DEF SizesOf
<1>7. T \in SUBSET S
  BY <1>6 DEF RemoveBad
<1>8. PICK z \in T : Sum(c, T) # c[z] + Sum(c, T \ {z})
  BY <1>6 DEF RemoveBad
<1>9. /\ Pick(T) \in T /\ Cardinality(T \ {Pick(T)}) = m - 1 /\ m \in Nat
  BY <1>0, <1>6, <1>7, <1>8, PickFacts
<1>10. Sum(c, T) = c[Pick(T)] + Sum(c, T \ {Pick(T)})
  BY <1>0, <1>7, <1>8, SumUnfold
<1>11. Pick(T) # z
  BY <1>8, <1>10
<1>12. Cardinality(T \ {z}) = m - 1
  BY <1>0, <1>6, <1>7, FS_RemoveElement
<1>13. T \ {Pick(T)} \notin RemoveBad(c, S)
  BY <1>5, <1>9
<1>14. T \ {z} \notin RemoveBad(c, S)
  BY <1>5, <1>9, <1>12
<1>15. Sum(c, T \ {Pick(T)}) = c[z] + Sum(c, (T \ {Pick(T)}) \ {z})
  BY <1>7, <1>11, <1>13 DEF RemoveBad
<1>16. Sum(c, T \ {z}) = c[Pick(T)] + Sum(c, (T \ {Pick(T)}) \ {z})
  <2>1. Sum(c, T \ {z}) = c[Pick(T)] + Sum(c, (T \ {z}) \ {Pick(T)})
    BY <1>7, <1>9, <1>11, <1>14 DEF RemoveBad
  <2>2. (T \ {z}) \ {Pick(T)} = (T \ {Pick(T)}) \ {z}
    OBVIOUS
  <2> QED
    BY <2>1, <2>2
<1>17. /\ c[Pick(T)] \in Nat /\ c[z] \in Nat
       /\ Sum(c, (T \ {Pick(T)}) \ {z}) \in Nat
  BY <1>0, <1>1, <1>7, <1>9
<1> QED
  BY <1>8, <1>10, <1>15, <1>16, <1>17

(* Adding an element adds its weight.                                     *)
LEMMA SumAdd ==
  ASSUME NEW c, NEW S, IsFiniteSet(S), NEW x, x \notin S,
         \A i \in S \cup {x} : c[i] \in Nat
  PROVE  Sum(c, S \cup {x}) = Sum(c, S) + c[x]
<1>1. IsFiniteSet(S \cup {x})
  BY FS_AddElement
<1>2. Sum(c, S \cup {x}) = c[x] + Sum(c, (S \cup {x}) \ {x})
  BY <1>1, SumRemove
<1>3. (S \cup {x}) \ {x} = S
  OBVIOUS
<1>4. Sum(c, S) \in Nat /\ c[x] \in Nat
  BY SumNat
<1> QED
  BY <1>2, <1>3, <1>4

(* The sets between S and T whose sum is below the sum over S.            *)
MonoBad(c, S, T) == {U \in SUBSET T : S \subseteq U /\ Sum(c, U) < Sum(c, S)}

(* The sum grows with the set.                                            *)
LEMMA SumMono ==
  ASSUME NEW c, NEW T, IsFiniteSet(T), \A i \in T : c[i] \in Nat,
         NEW S \in SUBSET T
  PROVE  Sum(c, S) <= Sum(c, T)
<1>0. \A U \in SUBSET T : /\ IsFiniteSet(U) /\ Cardinality(U) \in Nat
                          /\ \A i \in U : c[i] \in Nat
  BY FS_Subset, FS_CardinalityType
<1>1. \A U \in SUBSET T : Sum(c, U) \in Nat
  BY <1>0, SumNat
<1>2. SUFFICES ASSUME MonoBad(c, S, T) # {} PROVE FALSE
  BY <1>1 DEF MonoBad
<1>3. SizesOf(MonoBad(c, S, T)) \subseteq Nat /\ SizesOf(MonoBad(c, S, T)) # {}
  BY <1>0, <1>2 DEF SizesOf, MonoBad
<1>4. PICK m \in SizesOf(MonoBad(c, S, T)) :
        \A n \in SizesOf(MonoBad(c, S, T)) : m <= n
  BY <1>3, NatLeast
<1>5. \A V \in MonoBad(c, S, T) : m <= Cardinality(V)
  BY <1>4 DEF SizesOf
<1>6. PICK U \in MonoBad(c, S, T) : Cardinality(U) = m
  BY <1>4 DEF SizesOf
<1>7. U \in SUBSET T /\ S \subseteq U /\ Sum(c, U) < Sum(c, S)
  BY <1>6 DEF MonoBad
<1>8. PICK z \in U : z \notin S
  BY <1>1, <1>7
<1>9. Cardinality(U \ {z}) = m - 1 /\ m \in Nat
  BY <1>0, <1>6, <1>7, FS_RemoveElement
<1>10. U \ {z} \notin MonoBad(c, S, T)
  BY <1>5, <1>9
<1>11. Sum(c, S) <= Sum(c, U \ {z})
  BY <1>1, <1>7, <1>8, <1>10 DEF MonoBad
<1>12. Sum(c, U) = c[z] + Sum(c, U \ {z})
  BY <1>0, <1>7, SumRemove
<1>13. c[z] \in Nat /\ Sum(c, U \ {z}) \in Nat /\ Sum(c, S) \in Nat
  BY <1>0, <1>1, <1>7
<1> QED
  BY <1>7, <1>11, <1>12, <1>13

(* A sum only depends on the values over its set.                          *)
LEMMA SumCongruent ==
  ASSUME NEW c, NEW d, NEW S, IsFiniteSet(S), \A i \in S : c[i] \in Nat,
         \A i \in S : d[i] = c[i]
  PROVE  Sum(d, S) = Sum(c, S)
<1>1. \A i \in S : d[i] \in Nat
  OBVIOUS
<1>2. IsFold(c, S, FoldOf(c, S)) /\ IsFold(d, S, FoldOf(d, S))
  BY <1>1, FoldOfIsFold
<1>3. \A s \in SUBSET S : s # {} => Pick(s) \in s
  BY DEF Pick
<1>4. IsFoldOn(d, S, FoldOf(c, S))
  BY <1>2, <1>3 DEF IsFold, IsFoldOn, Unfold
<1>5. IsFoldOn(d, S, FoldOf(d, S))
  BY <1>2 DEF IsFold, IsFoldOn
<1>6. FoldOf(c, S)[S] = FoldOf(d, S)[S]
  BY <1>4, <1>5, FoldAgree
<1>7. FoldOf(c, S)[S] = Sum(c, S) /\ FoldOf(d, S)[S] = Sum(d, S)
  BY <1>1, FoldAtSubset
<1> QED
  BY <1>6, <1>7

(* Adding one to the value at one element adds one to the sum.            *)
LEMMA SumIncrement ==
  ASSUME NEW c, NEW d, NEW S, IsFiniteSet(S), \A i \in S : c[i] \in Nat,
         NEW k \in S, d[k] = c[k] + 1, \A i \in S \ {k} : d[i] = c[i]
  PROVE  Sum(d, S) = Sum(c, S) + 1
<1>1. \A i \in S : d[i] \in Nat
  OBVIOUS
<1>2. Sum(c, S) = c[k] + Sum(c, S \ {k}) /\ Sum(d, S) = d[k] + Sum(d, S \ {k})
  BY <1>1, SumRemove
<1>3. IsFiniteSet(S \ {k})
  BY FS_RemoveElement
<1>4. Sum(d, S \ {k}) = Sum(c, S \ {k})
  BY <1>3, SumCongruent
<1>5. Sum(c, S \ {k}) \in Nat
  BY <1>3, SumNat
<1> QED
  BY <1>2, <1>4, <1>5

(* The sum of zeros is zero.                                               *)
LEMMA SumZero ==
  ASSUME NEW c, NEW S, IsFiniteSet(S), \A i \in S : c[i] = 0
  PROVE  Sum(c, S) = 0
<1> DEFINE g0 == [s \in SUBSET S |-> 0]
<1>1. \A s \in SUBSET S : s # {} => Pick(s) \in s
  BY DEF Pick
<1>2. IsFoldOn(c, S, g0)
  BY <1>1 DEF IsFoldOn, Unfold
<1>0. \A i \in S : c[i] \in Nat
  OBVIOUS
<1>3. IsFoldOn(c, S, FoldOf(c, S))
  <2>1. IsFold(c, S, FoldOf(c, S))
    BY <1>0, FoldOfIsFold
  <2> QED
    BY <2>1 DEF IsFold, IsFoldOn
<1>4. g0[S] = FoldOf(c, S)[S]
  BY <1>2, <1>3, FoldAgree
<1> QED
  BY <1>0, <1>4, FoldAtSubset

=============================================================================
