---------------------------- MODULE BasisProofs ----------------------------
(***************************************************************************)
(* Proofs about SpreadBasis for any history: any number of orders, any      *)
(* window and any set of verticals.                                         *)
(*                                                                         *)
(* What the code computes in loops over the orders is defined by recursion, *)
(* and is proved by induction all the same: an induction over 0..n or over  *)
(* the subsets of a set is stated of the set of numbers or of subsets that  *)
(* have the property, and a recursion of the function that makes one value  *)
(* of the one before.                                                       *)
(***************************************************************************)
EXTENDS SpreadBasis, FiniteSetTheorems, SequenceTheorems, TLAPS

-----------------------------------------------------------------------------
(* Induction and recursion.                                                 *)

(* Good is closed under adding what the rest of a subset vouches for.       *)
LEMMA SubsetInduction ==
  ASSUME NEW D, IsFiniteSet(D), NEW Good,
         \A T \in SUBSET D : (\A U \in SUBSET T : U # T => U \in Good) => T \in Good
  PROVE  SUBSET D \subseteq Good
<1> DEFINE Bad == {T \in SUBSET D : T \notin Good}
<1> SUFFICES ASSUME Bad # {} PROVE FALSE
  OBVIOUS
<1>1. IsWellFoundedOn(StrictSubsetOrdering(D), FiniteSubsetsOf(D))
  BY FS_StrictSubsetOrderingWellFounded
<1>2. Bad \subseteq FiniteSubsetsOf(D)
  BY FS_Subset DEF FiniteSubsetsOf
<1>3. PICK T \in Bad : \A U \in Bad : ~ (<<U, T>> \in StrictSubsetOrdering(D))
  <2> HIDE DEF Bad
  <2> QED
    BY <1>1, <1>2, WFMin
<1>4. \A U \in SUBSET T : U # T => U \in Good
  BY <1>3 DEF StrictSubsetOrdering
<1> QED
  BY <1>3, <1>4

LEMMA PrefixInduction ==
  ASSUME NEW n \in Nat, NEW Good, 0 \in Good,
         \A k \in 1..n : k - 1 \in Good => k \in Good
  PROVE  0..n \subseteq Good
<1> DEFINE G == {T \in SUBSET (1..n) : \A k \in 0..n : T = 1..k => k \in Good}
<1>1. \A T \in SUBSET (1..n) :
        (\A U \in SUBSET T : U # T => U \in G) => T \in G
  <2> SUFFICES ASSUME NEW T \in SUBSET (1..n),
                      \A U \in SUBSET T : U # T => U \in G,
                      NEW k \in 0..n, T = 1..k
               PROVE  k \in Good
    OBVIOUS
  <2>1. CASE k = 0
    BY <2>1
  <2>2. CASE k # 0
    <3>1. k \in 1..n /\ k - 1 \in 0..n
      BY <2>2
    <3>2. 1..(k - 1) \subseteq T /\ k \in T /\ k \notin 1..(k - 1)
      BY <3>1
    <3>3. 1..(k - 1) \in G
      BY <3>2
    <3> QED
      BY <3>1, <3>3
  <2> QED
    BY <2>1, <2>2
<1>2. SUBSET (1..n) \subseteq G
  <2>1. IsFiniteSet(1..n)
    BY FS_Interval
  <2> DEFINE D == 1..n
  <2> HIDE DEF G, D
  <2> SUFFICES SUBSET D \subseteq G
    BY DEF D
  <2>2. IsFiniteSet(D)
    BY <2>1 DEF D
  <2>3. \A T \in SUBSET D : (\A U \in SUBSET T : U # T => U \in G) => T \in G
    BY <1>1 DEF D
  <2> QED
    BY <2>2, <2>3, SubsetInduction
<1> SUFFICES ASSUME NEW k \in 0..n PROVE k \in Good
  OBVIOUS
<1>3. 1..k \in SUBSET (1..n)
  OBVIOUS
<1>4. 1..k \in G
  BY <1>2, <1>3
<1> QED
  BY <1>4

(* The values of n steps, the first of them base.                           *)
Steps(n, V) == [1..n -> [V -> V]]
Iterations(n, V, base, step) ==
  {h \in [0..n -> V] : h[0] = base /\ \A k \in 1..n : h[k] = step[k][h[k - 1]]}

(* What is said step by step of a value and the one before it has an answer. *)
LEMMA PrefixRecursion ==
  ASSUME NEW n \in Nat, NEW V, NEW base \in V, NEW step \in Steps(n, V)
  PROVE  \E h : h \in Iterations(n, V, base, step)
<1> USE DEF Steps
<1> DEFINE Good == {m \in 0..n : \E h \in [0..m -> V] :
                      h[0] = base /\ \A k \in 1..m : h[k] = step[k][h[k - 1]]}
<1>1. 0 \in Good
  <2> DEFINE h == [k \in 0..0 |-> base]
  <2>1. h \in [0..0 -> V] /\ h[0] = base /\ 0 \in 0..n
    OBVIOUS
  <2>2. \A k \in 1..0 : h[k] = step[k][h[k - 1]]
    OBVIOUS
  <2> QED
    BY <2>1, <2>2
<1>2. \A m \in 1..n : m - 1 \in Good => m \in Good
  <2> SUFFICES ASSUME NEW m \in 1..n, m - 1 \in Good PROVE m \in Good
    OBVIOUS
  <2>1. PICK h \in [0..(m - 1) -> V] :
          h[0] = base /\ \A k \in 1..(m - 1) : h[k] = step[k][h[k - 1]]
    OBVIOUS
  <2> DEFINE g == [k \in 0..m |-> IF k = m THEN step[m][h[m - 1]] ELSE h[k]]
  <2>2. step[m][h[m - 1]] \in V
    BY <2>1
  <2>3. g \in [0..m -> V] /\ g[0] = base
    BY <2>1, <2>2
  <2>4. \A k \in 1..m : g[k] = step[k][g[k - 1]]
    <3> SUFFICES ASSUME NEW k \in 1..m PROVE g[k] = step[k][g[k - 1]]
      OBVIOUS
    <3>1. CASE k = m
      BY <3>1
    <3>2. CASE k # m
      BY <3>2, <2>1
    <3> QED
      BY <3>1, <3>2
  <2>5. \E f \in [0..m -> V] :
          f[0] = base /\ \A k \in 1..m : f[k] = step[k][f[k - 1]]
    <3> HIDE DEF g
    <3> QED
      BY <2>3, <2>4
  <2>6. m \in 0..n
    OBVIOUS
  <2> HIDE DEF g
  <2> QED
    BY <2>5, <2>6
<1>3. 0..n \subseteq Good
  <2> HIDE DEF Good
  <2> QED
    BY <1>1, <1>2, PrefixInduction
<1>4. n \in Good
  BY <1>3
<1> QED
  BY <1>4 DEF Iterations

-----------------------------------------------------------------------------
(* Sums of integers over a finite set (SumFunctionOnSet).                   *)

Pick(T) == CHOOSE x \in T : TRUE

SumEquation(f, D, h) ==
  h = [T \in SUBSET D |-> IF T = {} THEN 0 ELSE f[Pick(T)] + h[T \ {Pick(T)}]]

(* By recursion on how many are left: in step k, sets of k elements.        *)
LEMMA SumExists ==
  ASSUME NEW D, IsFiniteSet(D), NEW f, \A x \in D : f[x] \in Int
  PROVE  \E h \in [SUBSET D -> Int] : SumEquation(f, D, h)
<1> DEFINE V == [SUBSET D -> Int]
           n == Cardinality(D)
           Next1(h) == [T \in SUBSET D |->
                         IF T = {} THEN 0 ELSE f[Pick(T)] + h[T \ {Pick(T)}]]
           zero == [T \in SUBSET D |-> 0]
           one == [h \in V |-> Next1(h)]
           step == [k \in 1..n |-> one]
<1>1. n \in Nat
  BY FS_CardinalityType
<1>2. \A T \in SUBSET D : T # {} => Pick(T) \in T
  BY DEF Pick
<1>3. zero \in V
  OBVIOUS
<1>4. \A h \in V : Next1(h) \in V
  BY <1>2
<1>5. step \in Steps(n, V)
  <2>1. one \in [V -> V]
    <3> HIDE DEF V, Next1
    <3> QED
      BY <1>4
  <2> HIDE DEF V, one, n
  <2> QED
    BY <2>1 DEF Steps
<1>6. PICK it \in [0..n -> V] : it[0] = zero /\ \A k \in 1..n : it[k] = step[k][it[k - 1]]
  <2>1. \E h : h \in Iterations(n, V, zero, step)
    <3> HIDE DEF V, step, zero, n
    <3> QED
      BY <1>1, <1>3, <1>5, PrefixRecursion
  <2> HIDE DEF V, step, zero, n
  <2> QED
    BY <2>1 DEF Iterations
<1>7. \A k \in 1..n : it[k] = Next1(it[k - 1])
  <2> SUFFICES ASSUME NEW k \in 1..n PROVE it[k] = Next1(it[k - 1])
    OBVIOUS
  <2>1. k - 1 \in 0..n
    BY <1>1
  <2>2. it[k] = step[k][it[k - 1]] /\ it[k - 1] \in V
    <3> HIDE DEF V, step, n
    <3> QED
      BY <1>6, <2>1
  <2>3. step[k] = one
    <3> HIDE DEF one, n
    <3> QED
      OBVIOUS
  <2> HIDE DEF V, Next1, n, step
  <2> QED
    BY <2>2, <2>3 DEF one
<1>8. \A T \in SUBSET D : Cardinality(T) \in 0..n
  BY FS_CardinalityType, FS_Subset
<1> DEFINE h == [T \in SUBSET D |-> it[Cardinality(T)][T]]
<1>9. h \in V
  BY <1>6, <1>8
<1>10. \A T \in SUBSET D :
         h[T] = IF T = {} THEN 0 ELSE f[Pick(T)] + h[T \ {Pick(T)}]
  <2> SUFFICES ASSUME NEW T \in SUBSET D
               PROVE  h[T] = IF T = {} THEN 0 ELSE f[Pick(T)] + h[T \ {Pick(T)}]
    OBVIOUS
  <2>1. CASE T = {}
    <3>1. h[T] = it[0][T]
      BY <2>1, FS_EmptySet
    <3> QED
      BY <2>1, <3>1, <1>6
  <2>2. CASE T # {}
    <3> DEFINE U == T \ {Pick(T)}
    <3>1. Cardinality(U) = Cardinality(T) - 1 /\ U \in SUBSET D /\ Cardinality(T) \in 1..n
      <4>1. IsFiniteSet(T) /\ Pick(T) \in T
        BY <1>2, <2>2, FS_Subset
      <4>2. Cardinality(U) = Cardinality(T) - 1
        BY <4>1, FS_RemoveElement
      <4>3. Cardinality(T) # 0
        BY <4>1, <2>2, FS_EmptySet
      <4> QED
        BY <4>2, <4>3, <1>8, <1>1
    <3>2. it[Cardinality(T)] = Next1(it[Cardinality(T) - 1])
      BY <3>1, <1>7
    <3>3. h[T] = it[Cardinality(T)][T] /\ h[U] = it[Cardinality(T) - 1][U]
      BY <3>1
    <3> HIDE DEF h
    <3> QED
      BY <2>2, <3>2, <3>3
  <2> QED
    BY <2>1, <2>2
<1>11. SumEquation(f, D, h)
  <2>1. h = [T \in SUBSET D |-> h[T]]
    BY <1>9
  <2>2. [T \in SUBSET D |-> h[T]] =
        [T \in SUBSET D |-> IF T = {} THEN 0 ELSE f[Pick(T)] + h[T \ {Pick(T)}]]
    BY <1>10
  <2> HIDE DEF h
  <2> QED
    BY <2>1, <2>2 DEF SumEquation
<1> QED
  BY <1>9, <1>11

LEMMA SumUnfolded ==
  ASSUME NEW f, NEW T
  PROVE  SumFunctionOnSet(f, T) = (CHOOSE h : SumEquation(f, T, h))[T]
BY DEF SumFunctionOnSet, FoldFunctionOnSet, MapThenFoldSet, SumEquation, Pick

(* One function gives the sum over every subset.                            *)
LEMMA SumFunctionIs ==
  ASSUME NEW D, IsFiniteSet(D), NEW f, \A x \in D : f[x] \in Int,
         NEW h, SumEquation(f, D, h)
  PROVE  \A T \in SUBSET D : SumFunctionOnSet(f, T) = h[T]
<1> SUFFICES ASSUME NEW T \in SUBSET D PROVE SumFunctionOnSet(f, T) = h[T]
  OBVIOUS
<1> DEFINE g == CHOOSE k : SumEquation(f, T, k)
<1>1. IsFiniteSet(T)
  BY FS_Subset
<1>2. SumEquation(f, T, g)
  <2>1. \E k : SumEquation(f, T, k)
    BY <1>1, SumExists
  <2> QED
    BY <2>1
<1> DEFINE Good == {U \in SUBSET T : g[U] = h[U]}
<1> HIDE DEF g
<1>3. \A U \in SUBSET T : (\A W \in SUBSET U : W # U => W \in Good) => U \in Good
  <2> SUFFICES ASSUME NEW U \in SUBSET T, \A W \in SUBSET U : W # U => W \in Good
               PROVE  g[U] = h[U]
    OBVIOUS
  <2>0. U \in SUBSET D
    OBVIOUS
  <2>1. g[U] = IF U = {} THEN 0 ELSE f[Pick(U)] + g[U \ {Pick(U)}]
    BY <1>2 DEF SumEquation
  <2>2. h[U] = IF U = {} THEN 0 ELSE f[Pick(U)] + h[U \ {Pick(U)}]
    BY <2>0 DEF SumEquation
  <2>3. U # {} => U \ {Pick(U)} \in SUBSET U /\ U \ {Pick(U)} # U
    BY DEF Pick
  <2>4. U # {} => g[U \ {Pick(U)}] = h[U \ {Pick(U)}]
    BY <2>3
  <2> QED
    BY <2>1, <2>2, <2>4
<1>4. SUBSET T \subseteq Good
  <2> HIDE DEF Good
  <2> QED
    BY <1>1, <1>3, SubsetInduction
<1> QED
  BY <1>4, SumUnfolded DEF g

(* Any element may be taken out first.                                      *)
LEMMA SumRemove ==
  ASSUME NEW D, IsFiniteSet(D), NEW f, \A x \in D : f[x] \in Int
  PROVE  /\ SumFunctionOnSet(f, {}) = 0
         /\ \A T \in SUBSET D : SumFunctionOnSet(f, T) \in Int
         /\ \A T \in SUBSET D : \A x \in T :
              SumFunctionOnSet(f, T) = f[x] + SumFunctionOnSet(f, T \ {x})
<1>1. PICK h \in [SUBSET D -> Int] : SumEquation(f, D, h)
  BY SumExists
<1>2. \A T \in SUBSET D : SumFunctionOnSet(f, T) = h[T]
  BY <1>1, SumFunctionIs
<1>3. h[{}] = 0
  BY <1>1 DEF SumEquation
<1> DEFINE Good == {T \in SUBSET D : \A x \in T : h[T] = f[x] + h[T \ {x}]}
<1>4. \A T \in SUBSET D : (\A U \in SUBSET T : U # T => U \in Good) => T \in Good
  <2> SUFFICES ASSUME NEW T \in SUBSET D, \A U \in SUBSET T : U # T => U \in Good,
                      NEW x \in T
               PROVE  h[T] = f[x] + h[T \ {x}]
    OBVIOUS
  <2> DEFINE y == Pick(T)
  <2>1. y \in T
    BY DEF Pick
  <2>2. h[T] = f[y] + h[T \ {y}]
    BY <1>1 DEF SumEquation
  <2>3. CASE x = y
    BY <2>2, <2>3
  <2>4. CASE x # y
    <3> HIDE DEF y
    <3>1. T \ {y} \in Good /\ T \ {x} \in Good
      BY <2>1
    <3>2. h[T \ {y}] = f[x] + h[(T \ {y}) \ {x}]
      BY <2>4, <3>1
    <3>3. h[T \ {x}] = f[y] + h[(T \ {x}) \ {y}]
      BY <2>1, <2>4, <3>1
    <3>4. (T \ {y}) \ {x} = (T \ {x}) \ {y}
      OBVIOUS
    <3>5. f[x] \in Int /\ f[y] \in Int /\ h[(T \ {x}) \ {y}] \in Int
      BY <2>1
    <3> DEFINE a == f[x]  b == f[y]  r == h[(T \ {x}) \ {y}]
    <3>6. h[T] = b + (a + r) /\ h[T \ {x}] = b + r /\ a \in Int /\ b \in Int /\ r \in Int
      BY <2>2, <3>2, <3>3, <3>4, <3>5
    <3> HIDE DEF a, b, r
    <3>7. h[T] = a + h[T \ {x}]
      BY <3>6
    <3> QED
      BY <3>7 DEF a
  <2> QED
    BY <2>3, <2>4
<1>5. SUBSET D \subseteq Good
  <2> HIDE DEF Good
  <2> QED
    BY <1>4, SubsetInduction
<1>6. \A T \in SUBSET D : \A x \in T : h[T] = f[x] + h[T \ {x}]
  BY <1>5
<1> QED
  BY <1>2, <1>3, <1>6

(* A sum over a subset of the set of another has all the other's laws.      *)
LEMMA SumLaws ==
  ASSUME NEW T, IsFiniteSet(T), NEW f, \A x \in T : f[x] \in Int
  PROVE  /\ SumFunctionOnSet(f, T) \in Int
         /\ T = {} => SumFunctionOnSet(f, T) = 0
         /\ \A x \in T : /\ SumFunctionOnSet(f, T) = f[x] + SumFunctionOnSet(f, T \ {x})
                        /\ SumFunctionOnSet(f, T \ {x}) \in Int
<1>1. /\ SumFunctionOnSet(f, {}) = 0
      /\ \A U \in SUBSET T : SumFunctionOnSet(f, U) \in Int
      /\ \A U \in SUBSET T : \A x \in U :
           SumFunctionOnSet(f, U) = f[x] + SumFunctionOnSet(f, U \ {x})
  BY SumRemove, SMTT(30)
<1>2. T \in SUBSET T /\ \A x \in T : T \ {x} \in SUBSET T
  OBVIOUS
<1>3. /\ SumFunctionOnSet(f, T) \in Int
      /\ T = {} => SumFunctionOnSet(f, T) = 0
  BY <1>1, <1>2
<1>4. \A x \in T : /\ SumFunctionOnSet(f, T) = f[x] + SumFunctionOnSet(f, T \ {x})
                   /\ SumFunctionOnSet(f, T \ {x}) \in Int
  BY <1>1, <1>2
<1> QED
  BY <1>3, <1>4

(* Term by term: what adds up in every term adds up in the sum.             *)
LEMMA SumAdd ==
  ASSUME NEW D, IsFiniteSet(D), NEW f, NEW g, NEW h,
         \A x \in D : f[x] \in Int /\ g[x] \in Int /\ h[x] = f[x] + g[x]
  PROVE  SumFunctionOnSet(h, D) = SumFunctionOnSet(f, D) + SumFunctionOnSet(g, D)
<1> DEFINE Good == {T \in SUBSET D :
             SumFunctionOnSet(h, T) = SumFunctionOnSet(f, T) + SumFunctionOnSet(g, T)}
<1>1. \A T \in SUBSET D : (\A U \in SUBSET T : U # T => U \in Good) => T \in Good
  <2> SUFFICES ASSUME NEW T \in SUBSET D, \A U \in SUBSET T : U # T => U \in Good
               PROVE  SumFunctionOnSet(h, T) =
                        SumFunctionOnSet(f, T) + SumFunctionOnSet(g, T)
    OBVIOUS
  <2>1. IsFiniteSet(T) /\ \A x \in T : f[x] \in Int /\ g[x] \in Int /\ h[x] \in Int
    BY FS_Subset
  <2>2. CASE T = {}
    BY <2>1, <2>2, SumLaws
  <2>3. CASE T # {}
    <3>1. PICK x \in T : TRUE
      BY <2>3
    <3>2. /\ SumFunctionOnSet(f, T) = f[x] + SumFunctionOnSet(f, T \ {x})
          /\ SumFunctionOnSet(g, T) = g[x] + SumFunctionOnSet(g, T \ {x})
          /\ SumFunctionOnSet(h, T) = h[x] + SumFunctionOnSet(h, T \ {x})
          /\ SumFunctionOnSet(f, T \ {x}) \in Int
          /\ SumFunctionOnSet(g, T \ {x}) \in Int
          /\ SumFunctionOnSet(h, T \ {x}) \in Int
      BY <2>1, SumLaws
    <3>3. T \ {x} \in Good
      OBVIOUS
    <3>4. /\ h[x] = f[x] + g[x] /\ f[x] \in Int /\ g[x] \in Int
          /\ SumFunctionOnSet(h, T \ {x}) =
               SumFunctionOnSet(f, T \ {x}) + SumFunctionOnSet(g, T \ {x})
      BY <3>3
    <3> QED
      BY <3>2, <3>4
  <2> QED
    BY <2>2, <2>3
<1>2. SUBSET D \subseteq Good
  <2> HIDE DEF Good
  <2> QED
    BY <1>1, SubsetInduction
<1> QED
  BY <1>2

(* What is nothing outside T adds up over T alone.                          *)
LEMMA SumSubset ==
  ASSUME NEW D, IsFiniteSet(D), NEW T \in SUBSET D, NEW f,
         \A x \in D : f[x] \in Int, \A x \in D \ T : f[x] = 0
  PROVE  SumFunctionOnSet(f, D) = SumFunctionOnSet(f, T)
<1> DEFINE Good == {U \in SUBSET D : T \subseteq U =>
                      SumFunctionOnSet(f, U) = SumFunctionOnSet(f, T)}
<1>1. \A U \in SUBSET D : (\A W \in SUBSET U : W # U => W \in Good) => U \in Good
  <2> SUFFICES ASSUME NEW U \in SUBSET D, \A W \in SUBSET U : W # U => W \in Good,
                      T \subseteq U, U # T
               PROVE  SumFunctionOnSet(f, U) = SumFunctionOnSet(f, T)
    OBVIOUS
  <2>1. PICK x \in U : x \notin T
    OBVIOUS
  <2>2. U \ {x} \in Good
    OBVIOUS
  <2>3. SumFunctionOnSet(f, U \ {x}) = SumFunctionOnSet(f, T)
    BY <2>1, <2>2
  <2>4. IsFiniteSet(U)
    BY FS_Subset
  <2>5. /\ SumFunctionOnSet(f, U) = f[x] + SumFunctionOnSet(f, U \ {x})
        /\ SumFunctionOnSet(f, U \ {x}) \in Int
    BY <2>4, SumLaws
  <2>6. f[x] = 0
    BY <2>1
  <2> QED
    BY <2>3, <2>5, <2>6
<1>2. SUBSET D \subseteq Good
  <2> HIDE DEF Good
  <2> QED
    BY <1>1, SubsetInduction
<1> QED
  BY <1>2

LEMMA SumZero ==
  ASSUME NEW D, IsFiniteSet(D), NEW f, \A x \in D : f[x] = 0
  PROVE  SumFunctionOnSet(f, D) = 0
<1>1. SumFunctionOnSet(f, D) = SumFunctionOnSet(f, {})
  BY SumSubset
<1>2. IsFiniteSet({})
  BY FS_EmptySet
<1> QED
  BY <1>1, <1>2, SumLaws

LEMMA SumEqual ==
  ASSUME NEW D, IsFiniteSet(D), NEW f, NEW g,
         \A x \in D : f[x] \in Int /\ g[x] = f[x]
  PROVE  SumFunctionOnSet(g, D) = SumFunctionOnSet(f, D)
<1> DEFINE zero == [x \in D |-> 0]
<1>1. \A x \in D : zero[x] \in Int /\ zero[x] = 0 /\ g[x] = f[x] + zero[x]
  OBVIOUS
<1> HIDE DEF zero
<1>2. SumFunctionOnSet(g, D) = SumFunctionOnSet(f, D) + SumFunctionOnSet(zero, D)
  BY <1>1, SumAdd
<1>3. SumFunctionOnSet(zero, D) = 0 /\ SumFunctionOnSet(f, D) \in Int
  BY <1>1, SumZero, SumLaws
<1> QED
  BY <1>2, <1>3

LEMMA SumOne ==
  ASSUME NEW D, IsFiniteSet(D), NEW f, NEW a \in D, f[a] \in Int,
         \A x \in D \ {a} : f[x] = 0
  PROVE  SumFunctionOnSet(f, D) = f[a]
<1>1. \A x \in D : f[x] \in Int
  OBVIOUS
<1>2. SumFunctionOnSet(f, D) = f[a] + SumFunctionOnSet(f, D \ {a})
  BY <1>1, SumLaws
<1>3. IsFiniteSet(D \ {a})
  BY FS_Subset
<1>4. SumFunctionOnSet(f, D \ {a}) = 0
  BY <1>3, SumZero
<1> QED
  BY <1>2, <1>4

(* One term below nothing and none above it.                                *)
LEMMA SumNegative ==
  ASSUME NEW D, IsFiniteSet(D), NEW f, \A x \in D : f[x] \in Int /\ f[x] <= 0,
         NEW a \in D, f[a] < 0
  PROVE  SumFunctionOnSet(f, D) < 0
<1> DEFINE Good == {T \in SUBSET D : SumFunctionOnSet(f, T) <= 0}
<1>1. \A T \in SUBSET D : (\A U \in SUBSET T : U # T => U \in Good) => T \in Good
  <2> SUFFICES ASSUME NEW T \in SUBSET D, \A U \in SUBSET T : U # T => U \in Good
               PROVE  SumFunctionOnSet(f, T) <= 0
    OBVIOUS
  <2>1. IsFiniteSet(T) /\ \A x \in T : f[x] \in Int
    BY FS_Subset
  <2>2. CASE T = {}
    BY <2>1, <2>2, SumLaws
  <2>3. CASE T # {}
    <3>1. PICK x \in T : TRUE
      BY <2>3
    <3>2. /\ SumFunctionOnSet(f, T) = f[x] + SumFunctionOnSet(f, T \ {x})
          /\ SumFunctionOnSet(f, T \ {x}) \in Int
      BY <2>1, SumLaws
    <3>3. T \ {x} \in Good
      OBVIOUS
    <3>4. SumFunctionOnSet(f, T \ {x}) <= 0 /\ f[x] \in Int /\ f[x] <= 0
      BY <3>3
    <3> QED
      BY <3>2, <3>4
  <2> QED
    BY <2>2, <2>3
<1>2. D \ {a} \in Good
  <2> HIDE DEF Good
  <2>1. SUBSET D \subseteq Good
    BY <1>1, SubsetInduction
  <2> QED
    BY <2>1
<1>3. /\ SumFunctionOnSet(f, D) = f[a] + SumFunctionOnSet(f, D \ {a})
      /\ SumFunctionOnSet(f, D \ {a}) \in Int
  BY SumLaws
<1>4. SumFunctionOnSet(f, D \ {a}) <= 0
  BY <1>2
<1> QED
  BY <1>3, <1>4

LEMMA Greatest ==
  ASSUME NEW D, IsFiniteSet(D), D # {}, NEW f, \A x \in D : f[x] \in Int
  PROVE  \E x \in D : \A y \in D : f[y] <= f[x]
<1> DEFINE Good == {T \in SUBSET D : T # {} => \E x \in T : \A y \in T : f[y] <= f[x]}
<1>1. \A T \in SUBSET D : (\A U \in SUBSET T : U # T => U \in Good) => T \in Good
  <2> SUFFICES ASSUME NEW T \in SUBSET D, \A U \in SUBSET T : U # T => U \in Good,
                      T # {}
               PROVE  \E x \in T : \A y \in T : f[y] <= f[x]
    OBVIOUS
  <2>1. PICK x \in T : TRUE
    OBVIOUS
  <2>2. T \ {x} \in Good
    OBVIOUS
  <2>3. CASE T = {x}
    BY <2>3
  <2>4. CASE T # {x}
    <3>1. PICK y \in T \ {x} : \A z \in T \ {x} : f[z] <= f[y]
      BY <2>2, <2>4
    <3>2. CASE f[x] <= f[y]
      BY <3>1, <3>2
    <3>3. CASE f[y] < f[x]
      BY <3>1, <3>3
    <3> QED
      BY <3>1, <3>2, <3>3
  <2> QED
    BY <2>3, <2>4
<1>2. D \in Good
  <2> HIDE DEF Good
  <2>1. SUBSET D \subseteq Good
    BY <1>1, SubsetInduction
  <2> QED
    BY <2>1
<1> QED
  BY <1>2

LEMMA SumOfFunction ==
  ASSUME NEW D, NEW f, DOMAIN f = D
  PROVE  SumFunction(f) = SumFunctionOnSet(f, D)
BY DEF SumFunction, SumFunctionOnSet, FoldFunction, FoldFunctionOnSet, MapThenFoldSet

-----------------------------------------------------------------------------
(* The account's orders.                                                    *)

Orders == [s: Structures, purpose: {"entry", "exit"}, qty: Nat, filled: Nat,
           open: BOOLEAN, price: 0..LimitDebit, shows: Shows,
           clear: BOOLEAN, mleg: BOOLEAN]

(* An entry is for one contract and fills at a debit; an exit is done when  *)
(* its quantity is.                                                        *)
Coherent(o) ==
  /\ o.purpose = "entry" =>
       /\ o.mleg /\ o.filled \in {0, 1}
       /\ o.open => o.filled = 0
       /\ o.filled = 1 => o.price \in Prices
  /\ o.purpose = "exit" => o.filled <= o.qty /\ (o.open => o.filled < o.qty)
  /\ o.open => o.shows # "nothing"

BasisTypes == log \in Seq(Orders) /\ \A i \in Indices : Coherent(log[i])

Books1 == [complete: BOOLEAN, lots: Seq(Nat)]
BooksType == [Structures -> Books1]

LEMMA LimitType == Limit \in Nat
BY BasisAssumption

LEMMA EntryDebitType ==
  ASSUME NEW o \in Orders
  PROVE  EntryDebit(o) \in Nat
BY BasisAssumption DEF Orders, EntryDebit

LEMMA ConsumeType ==
  ASSUME NEW S, NEW lots \in Seq(S), NEW n \in Nat
  PROVE  /\ Consume(lots, n) \in Seq(S)
         /\ Len(Consume(lots, n)) = IF n <= Len(lots) THEN Len(lots) - n ELSE 0
         /\ \A k \in 1..Len(Consume(lots, n)) : Consume(lots, n)[k] = lots[k + n]
<1>1. Len(lots) \in Nat /\ \A k \in (n + 1)..Len(lots) : k \in 1..Len(lots)
  OBVIOUS
<1> QED
  BY <1>1 DEF Consume

LEMMA ApplyType ==
  ASSUME NEW o \in Orders, Coherent(o), NEW books \in BooksType
  PROVE  Apply(o, books) \in BooksType
<1>1. o.s \in Structures /\ books[o.s] \in Books1 /\ o.filled \in Nat
  BY DEF Orders, BooksType
<1>2. Incomplete(books, o.s) \in BooksType
  BY <1>1 DEF Incomplete, BooksType, Books1
<1>3. [books EXCEPT ![o.s] =
        [complete |-> @.complete /\ o.filled <= Len(@.lots),
         lots |-> Consume(@.lots, o.filled)]] \in BooksType
  <2>1. Consume(books[o.s].lots, o.filled) \in Seq(Nat)
    BY <1>1, ConsumeType DEF Books1
  <2>2. [complete |-> books[o.s].complete /\ o.filled <= Len(books[o.s].lots),
         lots |-> Consume(books[o.s].lots, o.filled)] \in Books1
    BY <1>1, <2>1 DEF Books1
  <2> QED
    BY <2>2 DEF BooksType
<1>4. [books EXCEPT ![o.s] =
        [complete |-> TRUE,
         lots |-> @.lots \o [k \in 1..o.filled |-> EntryDebit(o)]]] \in BooksType
  <2>1. [k \in 1..o.filled |-> EntryDebit(o)] \in Seq(Nat)
    BY <1>1, EntryDebitType
  <2>2. books[o.s].lots \o [k \in 1..o.filled |-> EntryDebit(o)] \in Seq(Nat)
    BY <1>1, <2>1 DEF Books1
  <2>3. [complete |-> TRUE,
         lots |-> books[o.s].lots \o [k \in 1..o.filled |-> EntryDebit(o)]] \in Books1
    BY <2>2 DEF Books1
  <2> QED
    BY <2>3 DEF BooksType
<1> QED
  BY <1>2, <1>3, <1>4 DEF Apply

(* Book by book, what one order changes.                                    *)
BookStep(k, old) == IF k \in Window THEN Apply(log[k], old) ELSE old

BooksEquation(h) ==
  h = [k \in 0..Len(log) |-> IF k = 0 THEN NewBooks ELSE BookStep(k, h[k - 1])]

LEMMA BooksExist ==
  ASSUME BasisTypes
  PROVE  \E h : BooksEquation(h)
<1> DEFINE n == Len(log)
           V == BooksType
           step == [k \in 1..n |-> [b \in V |-> BookStep(k, b)]]
<1>1. n \in Nat
  BY DEF BasisTypes
<1>2. \A k \in 1..n : \A b \in V : BookStep(k, b) \in V
  BY ApplyType DEF BookStep, BasisTypes, Indices
<1>3. step \in Steps(n, V)
  <2> HIDE DEF V, n
  <2> QED
    BY <1>2 DEF Steps
<1>4. NewBooks \in V
  BY DEF NewBooks, BooksType, Books1
<1>5. PICK h : h \in Iterations(n, V, NewBooks, step)
  <2> HIDE DEF V, step, n
  <2> QED
    BY <1>1, <1>3, <1>4, PrefixRecursion
<1>6. h \in [0..n -> V] /\ h[0] = NewBooks /\ \A k \in 1..n : h[k] = BookStep(k, h[k - 1])
  <2>1. h \in [0..n -> V] /\ h[0] = NewBooks /\ \A k \in 1..n : h[k] = step[k][h[k - 1]]
    <3> HIDE DEF V, step, n
    <3> QED
      BY <1>5 DEF Iterations
  <2>2. \A k \in 1..n : k - 1 \in 0..n
    BY <1>1
  <2>3. \A k \in 1..n : \A b \in V : step[k][b] = BookStep(k, b)
    <3> HIDE DEF V, n
    <3> QED
      OBVIOUS
  <2> HIDE DEF V, step, n
  <2> QED
    BY <2>1, <2>2, <2>3
<1>7. h = [k \in 0..n |-> IF k = 0 THEN NewBooks ELSE BookStep(k, h[k - 1])]
  <2>1. \A k \in 0..n : h[k] = IF k = 0 THEN NewBooks ELSE BookStep(k, h[k - 1])
    BY <1>1, <1>6
  <2> HIDE DEF V, n
  <2> QED
    BY <1>6, <2>1
<1> QED
  BY <1>7 DEF BooksEquation

(* The books after each order.                                              *)
After == CHOOSE h : BooksEquation(h)

LEMMA BooksAfter ==
  ASSUME BasisTypes
  PROVE  /\ After[0] = NewBooks
         /\ \A k \in 1..Len(log) : After[k] = BookStep(k, After[k - 1])
         /\ \A k \in 0..Len(log) : After[k] \in BooksType
         /\ Books = After[Len(log)]
<1>1. Len(log) \in Nat
  BY DEF BasisTypes
<1>2. BooksEquation(After)
  BY BooksExist DEF After
<1>3. After[0] = NewBooks /\ \A k \in 1..Len(log) : After[k] = BookStep(k, After[k - 1])
  BY <1>1, <1>2 DEF BooksEquation
<1> DEFINE Good == {k \in 0..Len(log) : After[k] \in BooksType}
<1>0. NewBooks \in BooksType
  BY DEF NewBooks, BooksType, Books1
<1>4. 0 \in Good
  BY <1>0, <1>1, <1>3
<1>5. \A k \in 1..Len(log) : k - 1 \in Good => k \in Good
  BY <1>1, <1>3, ApplyType DEF BookStep, BasisTypes, Indices
<1>6. 0..Len(log) \subseteq Good
  <2> HIDE DEF Good
  <2> QED
    BY <1>1, <1>4, <1>5, PrefixInduction
<1>7. Books = After[Len(log)]
  BY DEF Books, After, BooksEquation, BookStep
<1> QED
  BY <1>3, <1>6, <1>7

-----------------------------------------------------------------------------
(* What was bought of s.                                                    *)

BoughtStep(s, k, old) ==
  IF log[k].s = s /\ log[k].purpose = "entry"
  THEN old \o [n \in 1..log[k].filled |-> log[k].price] ELSE old

BoughtEquation(s, h) ==
  h = [k \in 0..Len(log) |-> IF k = 0 THEN <<>> ELSE BoughtStep(s, k, h[k - 1])]

LEMMA OrderTypes ==
  ASSUME BasisTypes
  PROVE  /\ Len(log) \in Nat
         /\ \A k \in 1..Len(log) :
              /\ log[k] \in Orders /\ Coherent(log[k])
              /\ log[k].filled \in Nat /\ log[k].price \in Nat
              /\ log[k].s \in Structures /\ log[k].qty \in Nat
              /\ log[k].purpose \in {"entry", "exit"}
<1>1. Len(log) \in Nat /\ \A k \in 1..Len(log) : log[k] \in Orders /\ Coherent(log[k])
  BY DEF BasisTypes, Indices
<1>2. \A o \in Orders : /\ o.filled \in Nat /\ o.price \in Nat
                        /\ o.s \in Structures /\ o.qty \in Nat
                        /\ o.purpose \in {"entry", "exit"}
  BY BasisAssumption DEF Orders
<1> QED
  BY <1>1, <1>2

LEMMA BoughtStepType ==
  ASSUME BasisTypes, NEW s, NEW k \in 1..Len(log), NEW old \in Seq(Nat)
  PROVE  BoughtStep(s, k, old) \in Seq(Nat)
<1>1. [n \in 1..log[k].filled |-> log[k].price] \in Seq(Nat)
  BY OrderTypes
<1>2. old \o [n \in 1..log[k].filled |-> log[k].price] \in Seq(Nat)
  BY <1>1
<1> QED
  BY <1>2 DEF BoughtStep

LEMMA BoughtExists ==
  ASSUME BasisTypes, NEW s
  PROVE  \E h : BoughtEquation(s, h)
<1> DEFINE n == Len(log)
           V == Seq(Nat)
           step == [k \in 1..n |-> [b \in V |-> BoughtStep(s, k, b)]]
<1>1. n \in Nat
  BY DEF BasisTypes
<1>2. \A k \in 1..n : \A b \in V : BoughtStep(s, k, b) \in V
  BY BoughtStepType
<1>3. step \in Steps(n, V)
  <2> HIDE DEF V, n
  <2> QED
    BY <1>2 DEF Steps
<1>4. <<>> \in V
  OBVIOUS
<1>5. PICK h : h \in Iterations(n, V, <<>>, step)
  <2> HIDE DEF V, step, n
  <2> QED
    BY <1>1, <1>3, <1>4, PrefixRecursion
<1>6. h \in [0..n -> V] /\ h[0] = <<>> /\ \A k \in 1..n : h[k] = BoughtStep(s, k, h[k - 1])
  <2>1. h \in [0..n -> V] /\ h[0] = <<>> /\ \A k \in 1..n : h[k] = step[k][h[k - 1]]
    <3> HIDE DEF V, step, n
    <3> QED
      BY <1>5 DEF Iterations
  <2>2. \A k \in 1..n : k - 1 \in 0..n
    BY <1>1
  <2>3. \A k \in 1..n : \A b \in V : step[k][b] = BoughtStep(s, k, b)
    <3> HIDE DEF V, n
    <3> QED
      OBVIOUS
  <2> HIDE DEF V, step, n
  <2> QED
    BY <2>1, <2>2, <2>3
<1>7. h = [k \in 0..n |-> IF k = 0 THEN <<>> ELSE BoughtStep(s, k, h[k - 1])]
  <2>1. \A k \in 0..n : h[k] = IF k = 0 THEN <<>> ELSE BoughtStep(s, k, h[k - 1])
    BY <1>1, <1>6
  <2> HIDE DEF V, n
  <2> QED
    BY <1>6, <2>1
<1> QED
  BY <1>7 DEF BoughtEquation

BoughtAfter(s) == CHOOSE h : BoughtEquation(s, h)

LEMMA BoughtSteps ==
  ASSUME BasisTypes, NEW s
  PROVE  /\ BoughtAfter(s)[0] = <<>>
         /\ \A k \in 1..Len(log) : BoughtAfter(s)[k] = BoughtStep(s, k, BoughtAfter(s)[k - 1])
         /\ \A k \in 0..Len(log) : BoughtAfter(s)[k] \in Seq(Nat)
         /\ Bought(s) = BoughtAfter(s)[Len(log)]
<1> DEFINE h == BoughtAfter(s)
<1>1. Len(log) \in Nat
  BY DEF BasisTypes
<1>2. BoughtEquation(s, h)
  BY BoughtExists DEF BoughtAfter
<1>7. Bought(s) = h[Len(log)]
  BY DEF Bought, BoughtAfter, BoughtEquation, BoughtStep
<1> HIDE DEF h
<1>3. h[0] = <<>> /\ \A k \in 1..Len(log) : h[k] = BoughtStep(s, k, h[k - 1])
  BY <1>1, <1>2 DEF BoughtEquation
<1> DEFINE Good == {k \in 0..Len(log) : h[k] \in Seq(Nat)}
<1>4. 0 \in Good
  <2>1. <<>> \in Seq(Nat)
    OBVIOUS
  <2>2. h[0] = <<>> /\ 0 \in 0..Len(log)
    BY <1>1, <1>3
  <2>3. h[0] \in Seq(Nat)
    BY <2>1, <2>2
  <2> QED
    BY <2>2, <2>3
<1>5. \A k \in 1..Len(log) : k - 1 \in Good => k \in Good
  BY <1>1, <1>3, BoughtStepType
<1>6. 0..Len(log) \subseteq Good
  <2> HIDE DEF Good
  <2> QED
    BY <1>1, <1>4, <1>5, PrefixInduction
<1> QED
  BY <1>3, <1>6, <1>7 DEF h

-----------------------------------------------------------------------------
(* The lots the history comes to are the newest that were bought, priced at *)
(* no less than they cost.                                                  *)

(* lots is the end of bought, with prices on the safe side.                 *)
Newest(lots, bought) ==
  /\ Len(lots) <= Len(bought)
  /\ \A j \in 1..Len(lots) : lots[j] >= bought[Len(bought) - Len(lots) + j]

LEMMA NewestEmpty ==
  ASSUME NEW bought \in Seq(Nat)
  PROVE  Newest(<<>>, bought)
BY DEF Newest

LEMMA NewestConsumed ==
  ASSUME NEW lots \in Seq(Nat), NEW bought \in Seq(Nat), NEW n \in Nat, Newest(lots, bought)
  PROVE  Newest(Consume(lots, n), bought)
<1> DEFINE rest == Consume(lots, n)
<1>1. /\ rest \in Seq(Nat)
      /\ Len(rest) = IF n <= Len(lots) THEN Len(lots) - n ELSE 0
      /\ \A k \in 1..Len(rest) : rest[k] = lots[k + n]
  BY ConsumeType
<1> HIDE DEF rest
<1>2. Len(rest) <= Len(bought)
  BY <1>1 DEF Newest
<1>3. \A j \in 1..Len(rest) : rest[j] >= bought[Len(bought) - Len(rest) + j]
  <2> SUFFICES ASSUME NEW j \in 1..Len(rest)
               PROVE  rest[j] >= bought[Len(bought) - Len(rest) + j]
    OBVIOUS
  <2>1. n <= Len(lots) /\ j + n \in 1..Len(lots)
    BY <1>1
  <2>2. lots[j + n] >= bought[Len(bought) - Len(lots) + (j + n)]
    BY <2>1 DEF Newest
  <2>3. Len(bought) - Len(lots) + (j + n) = Len(bought) - Len(rest) + j
    BY <1>1, <2>1
  <2> QED
    BY <1>1, <2>2, <2>3
<1>4. Newest(rest, bought)
  BY <1>2, <1>3 DEF Newest
<1> QED
  BY <1>4 DEF rest

LEMMA LenConcat ==
  ASSUME NEW a \in Seq(Nat), NEW b \in Seq(Nat)
  PROVE  Len(a \o b) = Len(a) + Len(b) /\ Len(a) \in Nat /\ Len(b) \in Nat
OBVIOUS

LEMMA NewestBought ==
  ASSUME NEW lots \in Seq(Nat), NEW bought \in Seq(Nat), Newest(lots, bought),
         NEW more \in Seq(Nat), NEW paid \in Seq(Nat), Len(more) = Len(paid),
         \A j \in 1..Len(more) : more[j] >= paid[j]
  PROVE  Newest(lots \o more, bought \o paid)
<1>1. /\ Len(lots \o more) = Len(lots) + Len(more)
      /\ Len(bought \o paid) = Len(bought) + Len(more)
      /\ Len(lots) \in Nat /\ Len(more) \in Nat /\ Len(bought) \in Nat
  BY LenConcat
<1>2. Len(lots) <= Len(bought)
  BY DEF Newest
<1>3. ASSUME NEW j \in 1..Len(lots \o more)
      PROVE  (lots \o more)[j] >=
               (bought \o paid)[Len(bought \o paid) - Len(lots \o more) + j]
  <2> DEFINE at == Len(bought) - Len(lots) + j
  <2>1. Len(bought \o paid) - Len(lots \o more) + j = at /\ at \in 1..Len(bought \o paid)
    BY <1>1, <1>2
  <2>2. CASE j <= Len(lots)
    <3>1. j \in 1..Len(lots) /\ at \in 1..Len(bought)
      BY <2>2, <1>2
    <3>2. lots[j] >= bought[at]
      BY <3>1 DEF Newest
    <3>3. (lots \o more)[j] = lots[j] /\ (bought \o paid)[at] = bought[at]
      BY <3>1, <2>1
    <3> QED
      BY <2>1, <3>2, <3>3
  <2>3. CASE j > Len(lots)
    <3>1. j - Len(lots) \in 1..Len(more) /\ at - Len(bought) = j - Len(lots) /\ at > Len(bought)
      BY <2>3, <1>1, <1>2
    <3>2. (lots \o more)[j] = more[j - Len(lots)]
      BY <2>3, <1>1
    <3>3. (bought \o paid)[at] = paid[at - Len(bought)]
      BY <2>1, <3>1
    <3> QED
      BY <2>1, <3>1, <3>2, <3>3
  <2>4. j \in Nat
    BY <1>1
  <2>5. j <= Len(lots) \/ j > Len(lots)
    BY <2>4, <1>1
  <2> QED
    BY <2>2, <2>3, <2>5, Zenon
<1>4. Len(lots \o more) <= Len(bought \o paid)
  BY <1>1, <1>2
<1> DEFINE L == lots \o more
           B == bought \o paid
<1>5. Len(L) <= Len(B) /\ \A j \in 1..Len(L) : L[j] >= B[Len(B) - Len(L) + j]
  BY <1>3, <1>4, Zenon
<1> HIDE DEF L, B
<1>6. Newest(L, B)
  BY <1>5 DEF Newest
<1> QED
  BY <1>6 DEF L, B

(* Book by book, what an order does.                                        *)
ApplyTo(o, b) ==
  IF ~o.mleg THEN b
  ELSE IF ~o.clear THEN [complete |-> FALSE, lots |-> <<>>]
  ELSE IF o.filled = 0 THEN b
  ELSE IF o.purpose = "exit"
  THEN [complete |-> b.complete /\ o.filled <= Len(b.lots),
        lots |-> Consume(b.lots, o.filled)]
  ELSE IF EntryDebit(o) = 0 THEN [complete |-> FALSE, lots |-> <<>>]
  ELSE IF ~b.complete THEN b
  ELSE [complete |-> TRUE, lots |-> b.lots \o [k \in 1..o.filled |-> EntryDebit(o)]]

LEMMA ApplyOne ==
  ASSUME NEW o \in Orders, NEW books \in BooksType, NEW s \in Structures
  PROVE  Apply(o, books)[s] = IF o.s = s THEN ApplyTo(o, books[s]) ELSE books[s]
<1>1. books \in [Structures -> Books1] /\ o.s \in Structures
  BY DEF BooksType, Orders
<1>3. ASSUME NEW v PROVE [books EXCEPT ![o.s] = v][s] = IF o.s = s THEN v ELSE books[s]
  BY <1>1
<1>4. Incomplete(books, o.s)[s] =
        IF o.s = s THEN [complete |-> FALSE, lots |-> <<>>] ELSE books[s]
  BY <1>3 DEF Incomplete
<1>6. CASE ~o.mleg
  BY <1>6 DEF Apply, ApplyTo
<1>7. CASE o.mleg /\ ~o.clear
  BY <1>7, <1>4 DEF Apply, ApplyTo
<1>8. CASE o.mleg /\ o.clear /\ o.filled = 0
  BY <1>8 DEF Apply, ApplyTo
<1>9. CASE o.mleg /\ o.clear /\ o.filled # 0 /\ o.purpose = "exit"
  BY <1>9, <1>1 DEF Apply, ApplyTo
<1>10. CASE o.mleg /\ o.clear /\ o.filled # 0 /\ o.purpose # "exit" /\ EntryDebit(o) = 0
  BY <1>10, <1>4 DEF Apply, ApplyTo
<1>11. CASE o.mleg /\ o.clear /\ o.filled # 0 /\ o.purpose # "exit" /\ EntryDebit(o) # 0
            /\ ~books[o.s].complete
  BY <1>11 DEF Apply, ApplyTo
<1>12. CASE o.mleg /\ o.clear /\ o.filled # 0 /\ o.purpose # "exit" /\ EntryDebit(o) # 0
            /\ books[o.s].complete
  BY <1>12, <1>1 DEF Apply, ApplyTo
<1> QED
  BY <1>6, <1>7, <1>8, <1>9, <1>10, <1>11, <1>12

LEMMA OneMore ==
  ASSUME NEW lots \in Seq(Nat), NEW x \in Nat
  PROVE  /\ lots \o [n \in 1..0 |-> x] = lots
         /\ [n \in 1..1 |-> x] \in Seq(Nat)
         /\ Len([n \in 1..1 |-> x]) = 1
         /\ [n \in 1..1 |-> x][1] = x
         /\ Len(lots \o [n \in 1..1 |-> x]) = Len(lots) + 1
<1>1. [n \in 1..0 |-> x] = <<>>
  OBVIOUS
<1>2. lots \o <<>> = lots
  BY ConcatEmptySeq
<1>3. [n \in 1..1 |-> x] \in Seq(Nat) /\ Len([n \in 1..1 |-> x]) = 1
  OBVIOUS
<1>4. Len(lots \o [n \in 1..1 |-> x]) = Len(lots) + 1
  BY <1>3, ConcatProperties
<1> QED
  BY <1>1, <1>2, <1>3, <1>4

(* A window leaves out older orders only.                                   *)
LEMMA WindowIsNewest ==
  ASSUME BasisTypes, NEW i \in Window, NEW j \in Closed, i <= j
  PROVE  j \in Window
<1> DEFINE from(k) == {m \in Closed : m >= k}
<1>1. Closed \subseteq 1..Len(log) /\ Len(log) \in Nat
  BY DEF Closed, Indices, BasisTypes
<1>2. IsFiniteSet(1..Len(log)) /\ IsFiniteSet(from(i)) /\ from(j) \subseteq from(i)
  <2>1. IsFiniteSet(1..Len(log))
    BY <1>1, FS_Interval
  <2>0. i \in Int /\ j \in Int /\ \A m \in Closed : m \in Int
    BY <1>1 DEF Window
  <2>3. \A m \in Closed : m >= j => m >= i
    BY <2>0
  <2>2. from(i) \subseteq 1..Len(log) /\ from(j) \subseteq from(i)
    BY <1>1, <2>3
  <2> QED
    BY <2>1, <2>2, FS_Subset
<1>3. Cardinality(from(j)) <= Cardinality(from(i)) /\ Cardinality(from(j)) \in Nat
      /\ Cardinality(from(i)) \in Nat
  <2> HIDE DEF from
  <2>1. IsFiniteSet(from(j))
    BY <1>2, FS_Subset
  <2> QED
    BY <1>2, <2>1, FS_Subset, FS_CardinalityType
<1>4. Cardinality(from(i)) <= Limit
  BY DEF Window
<1>5. Cardinality(from(j)) <= Limit
  <2> HIDE DEF from
  <2> QED
    BY <1>3, <1>4, LimitType
<1> QED
  BY <1>5 DEF Window

(* What the recovery knows of s after k orders.                             *)
Known(s, k) ==
  /\ Newest(After[k][s].lots, BoughtAfter(s)[k])
  /\ ~After[k][s].complete => After[k][s].lots = <<>>
  /\ (\A j \in 1..k : j \notin Window) => After[k][s].lots = <<>>

LEMMA KnownStep ==
  ASSUME BasisTypes, NEW s \in Structures, NEW k \in 1..Len(log), Known(s, k - 1)
  PROVE  Known(s, k)
<1> DEFINE o == log[k]
           b == After[k - 1][s]
           B == BoughtAfter(s)[k - 1]
<1>1. /\ After[k] = BookStep(k, After[k - 1]) /\ After[k - 1] \in BooksType
      /\ BoughtAfter(s)[k] = BoughtStep(s, k, B) /\ B \in Seq(Nat)
  <2>1. k - 1 \in 0..Len(log)
    BY OrderTypes
  <2> QED
    BY <2>1, BooksAfter, BoughtSteps
<1>2. b \in Books1 /\ b.lots \in Seq(Nat) /\ b.complete \in BOOLEAN
  BY <1>1 DEF BooksType, Books1
<1>3. /\ o \in Orders /\ Coherent(o) /\ o.filled \in Nat /\ o.price \in Nat
      /\ o.purpose \in {"entry", "exit"}
  BY OrderTypes
<1>4. /\ Newest(b.lots, B)
      /\ ~b.complete => b.lots = <<>>
      /\ (\A j \in 1..(k - 1) : j \notin Window) => b.lots = <<>>
  BY DEF Known
<1>5. /\ BoughtAfter(s)[k] =
           IF o.s = s /\ o.purpose = "entry"
           THEN B \o [n \in 1..o.filled |-> o.price] ELSE B
      /\ After[k][s] = IF k \in Window /\ o.s = s THEN ApplyTo(o, b) ELSE b
  BY <1>1, <1>3, ApplyOne DEF BoughtStep, BookStep
<1>6. 1..(k - 1) \subseteq 1..k /\ k \in 1..k
  BY OrderTypes
<1> HIDE DEF o, b, B
<1>7. CASE o.s # s
  BY <1>4, <1>5, <1>6, <1>7 DEF Known
<1>8. CASE o.s = s /\ o.purpose = "exit" /\ k \notin Window
  BY <1>4, <1>5, <1>6, <1>8 DEF Known
<1>9. CASE o.s = s /\ o.filled = 0 /\ k \notin Window
  <2>1. BoughtAfter(s)[k] = B
    BY <1>9, <1>5, <1>1, <1>3, OneMore
  <2> QED
    BY <1>4, <1>5, <1>6, <1>9, <2>1 DEF Known
<1>10. CASE o.s = s /\ o.purpose = "entry" /\ o.filled # 0 /\ k \notin Window
  <2>1. k \in Closed
    BY <1>10, <1>3 DEF Coherent, Closed, Indices, o
  <2>2. \A j \in 1..(k - 1) : j \notin Window
    <3> SUFFICES ASSUME NEW j \in 1..(k - 1), j \in Window PROVE FALSE
      OBVIOUS
    <3>1. j <= k
      BY OrderTypes
    <3> QED
      BY <1>10, <2>1, <3>1, WindowIsNewest
  <2>3. b.lots = <<>>
    BY <1>4, <2>2
  <2>4. After[k][s] = b /\ BoughtAfter(s)[k] \in Seq(Nat)
    <3>1. k \in 0..Len(log)
      BY OrderTypes
    <3> QED
      BY <3>1, <1>5, <1>10, BoughtSteps
  <2>5. Newest(<<>>, BoughtAfter(s)[k])
    BY <2>4, NewestEmpty
  <2> QED
    BY <2>3, <2>4, <2>5 DEF Known
<1>11. CASE o.s = s /\ k \in Window
  <2>1. BoughtAfter(s)[k] \in Seq(Nat)
    <3>1. k \in 0..Len(log)
      BY OrderTypes
    <3> QED
      BY <3>1, BoughtSteps
  <2>2. After[k][s] = ApplyTo(o, b) /\ ~ (\A j \in 1..k : j \notin Window)
    BY <1>5, <1>6, <1>11
  <2>3. SUFFICES /\ Newest(ApplyTo(o, b).lots, BoughtAfter(s)[k])
                 /\ ~ApplyTo(o, b).complete => ApplyTo(o, b).lots = <<>>
    BY <2>2 DEF Known
  <2>4. CASE ~o.mleg \/ (o.clear /\ o.filled = 0)
    <3>1. ApplyTo(o, b) = b
      BY <2>4 DEF ApplyTo
    <3>2. BoughtAfter(s)[k] = B
      <4>1. CASE o.purpose = "exit"
        BY <4>1, <1>5
      <4>2. CASE o.purpose = "entry"
        <5>1. o.filled = 0
          BY <2>4, <4>2, <1>3 DEF Coherent
        <5> QED
          BY <4>2, <5>1, <1>5, <1>1, <1>3, OneMore
      <4> QED
        BY <4>1, <4>2, <1>3
    <3> QED
      BY <3>1, <3>2, <1>4
  <2>5. CASE o.mleg /\ (~o.clear \/ (o.filled # 0 /\ o.purpose = "entry" /\ EntryDebit(o) = 0))
    <3>1. ApplyTo(o, b) = [complete |-> FALSE, lots |-> <<>>]
      BY <2>5 DEF ApplyTo
    <3>2. ApplyTo(o, b).lots = <<>>
      BY <3>1
    <3> QED
      BY <3>2, <2>1, NewestEmpty
  <2>6. CASE o.mleg /\ o.clear /\ o.filled # 0 /\ o.purpose = "exit"
    <3>1. /\ ApplyTo(o, b).lots = Consume(b.lots, o.filled)
          /\ ApplyTo(o, b).complete <=> b.complete /\ o.filled <= Len(b.lots)
      BY <2>6, <1>2 DEF ApplyTo
    <3>2. BoughtAfter(s)[k] = B
      BY <2>6, <1>5
    <3>3. Newest(Consume(b.lots, o.filled), B)
      BY <1>1, <1>2, <1>3, <1>4, NewestConsumed
    <3>4. ~ApplyTo(o, b).complete => Consume(b.lots, o.filled) = <<>>
      <4> SUFFICES ASSUME ~ApplyTo(o, b).complete PROVE Consume(b.lots, o.filled) = <<>>
        OBVIOUS
      <4> DEFINE rest == Consume(b.lots, o.filled)
      <4>1. /\ rest \in Seq(Nat)
            /\ Len(rest) = IF o.filled <= Len(b.lots) THEN Len(b.lots) - o.filled ELSE 0
        BY <1>2, <1>3, ConsumeType
      <4>2. b.complete \/ b.lots = <<>>
        BY <1>4
      <4>3. Len(rest) = 0
        BY <4>1, <4>2, <3>1, <1>3, <2>6
      <4> HIDE DEF rest
      <4>4. rest = <<>>
        BY <4>1, <4>3
      <4> QED
        BY <4>4 DEF rest
    <3> QED
      BY <3>1, <3>2, <3>3, <3>4
  <2>7. CASE /\ o.mleg /\ o.clear /\ o.filled # 0 /\ o.purpose = "entry" /\ EntryDebit(o) # 0
             /\ ~b.complete
    <3>1. ApplyTo(o, b) = b /\ b.lots = <<>>
      BY <2>7, <1>4 DEF ApplyTo
    <3>2. Newest(<<>>, BoughtAfter(s)[k])
      BY <2>1, NewestEmpty
    <3> QED
      BY <3>1, <3>2
  <2>8. CASE /\ o.mleg /\ o.clear /\ o.filled # 0 /\ o.purpose = "entry" /\ EntryDebit(o) # 0
             /\ b.complete
    <3>1. /\ ApplyTo(o, b).complete
          /\ ApplyTo(o, b).lots = b.lots \o [n \in 1..o.filled |-> EntryDebit(o)]
      BY <2>8 DEF ApplyTo
    <3>2. o.filled = 1 /\ o.price \in Prices
      BY <2>8, <1>3 DEF Coherent
    <3>3. BoughtAfter(s)[k] = B \o [n \in 1..1 |-> o.price]
      BY <2>8, <1>11, <1>5, <3>2
    <3>4. EntryDebit(o) >= o.price /\ EntryDebit(o) \in Nat
      BY <3>2, <2>8, <1>3, EntryDebitType, BasisAssumption DEF EntryDebit
    <3> DEFINE more == [n \in 1..1 |-> EntryDebit(o)]
               paid == [n \in 1..1 |-> o.price]
    <3>5. /\ more \in Seq(Nat) /\ Len(more) = 1 /\ more[1] = EntryDebit(o)
          /\ paid \in Seq(Nat) /\ Len(paid) = 1 /\ paid[1] = o.price
      BY <3>4, <1>3, <1>1, OneMore
    <3> HIDE DEF more, paid
    <3>6. Len(more) = Len(paid) /\ \A j \in 1..Len(more) : more[j] >= paid[j]
      BY <3>4, <3>5
    <3>7. Newest(b.lots \o more, B \o paid)
      BY <1>1, <1>2, <1>4, <3>5, <3>6, NewestBought
    <3> QED
      BY <3>1, <3>2, <3>3, <3>7 DEF more, paid
  <2> QED
    BY <2>4, <2>5, <2>6, <2>7, <2>8, <1>3
<1> QED
  BY <1>3, <1>7, <1>8, <1>9, <1>10, <1>11

(* The lots recovered are the newest that were bought, none priced below    *)
(* what it cost.                                                           *)
LEMMA RecoveredAreNewest ==
  ASSUME BasisTypes, NEW s \in Structures
  PROVE  /\ Recovered[s] \in Seq(Nat) /\ Bought(s) \in Seq(Nat)
         /\ Newest(Recovered[s], Bought(s))
<1> DEFINE Good == {k \in 0..Len(log) : Known(s, k)}
<1>1. Len(log) \in Nat
  BY OrderTypes
<1>2. 0 \in Good
  <2>1. After[0][s].lots = <<>> /\ After[0][s].complete
    BY BooksAfter DEF NewBooks
  <2>2. BoughtAfter(s)[0] \in Seq(Nat)
    BY <1>1, BoughtSteps
  <2> QED
    BY <1>1, <2>1, <2>2, NewestEmpty DEF Known
<1>3. \A k \in 1..Len(log) : k - 1 \in Good => k \in Good
  BY <1>1, KnownStep
<1>4. Len(log) \in Good
  <2> HIDE DEF Good
  <2>1. 0..Len(log) \subseteq Good
    BY <1>1, <1>2, <1>3, PrefixInduction
  <2> QED
    BY <1>1, <2>1
<1>5. Known(s, Len(log)) /\ Books = After[Len(log)] /\ Bought(s) = BoughtAfter(s)[Len(log)]
  BY <1>4, BooksAfter, BoughtSteps
<1>6. Books \in BooksType /\ Bought(s) \in Seq(Nat)
  <2>1. Len(log) \in 0..Len(log)
    BY <1>1
  <2> QED
    BY <1>5, <2>1, BooksAfter, BoughtSteps
<1>7. Recovered[s] = IF Books[s].complete THEN Books[s].lots ELSE <<>>
  BY DEF Recovered
<1>8. Books[s].lots \in Seq(Nat)
  BY <1>6 DEF BooksType, Books1
<1>9. Newest(Books[s].lots, Bought(s)) /\ (~Books[s].complete => Books[s].lots = <<>>)
  BY <1>5 DEF Known
<1>10. Recovered[s] = Books[s].lots
  BY <1>7, <1>9
<1> QED
  BY <1>6, <1>8, <1>9, <1>10

-----------------------------------------------------------------------------
(* The positions are what the spreads still held add up to, leg by leg.     *)

NetTermsOf(l, s) == [i \in 1..Len(l) |-> IF l[i].s = s THEN Filled(l[i]) ELSE 0]
NetIn(l, s, k) == SumFunctionOnSet(NetTermsOf(l, s), 1..k)

NetTerms(s) == NetTermsOf(log, s)
NetTo(s, k) == NetIn(log, s, k)

LegTerms(c) == [i \in Indices |-> Filled(log[i]) * Side(log[i].s, c)]
LegTo(c, k) == SumFunctionOnSet(LegTerms(c), 1..k)

(* What k orders of each spread have left on contract c.                    *)
SpreadTerms(c, k) == [u \in Structures |-> NetTo(u, k) * Side(u, c)]

LEMMA StructuresFinite == IsFiniteSet(Structures)
BY BasisAssumption

LEMMA SideType ==
  ASSUME NEW s, NEW c
  PROVE  Side(s, c) \in {-1, 0, 1}
BY DEF Side

LEMMA SideTimes ==
  ASSUME NEW s, NEW c, NEW a \in Int, NEW b \in Int
  PROVE  /\ a * Side(s, c) \in Int
         /\ (a + b) * Side(s, c) = a * Side(s, c) + b * Side(s, c)
         /\ 0 * Side(s, c) = 0
<1>1. Side(s, c) = -1 \/ Side(s, c) = 0 \/ Side(s, c) = 1
  BY SideType
<1> QED
  BY <1>1

LEMMA TermTypes ==
  ASSUME BasisTypes
  PROVE  \A k \in 1..Len(log) :
           /\ Filled(log[k]) \in Int
           /\ \A s : /\ NetTerms(s)[k] = IF log[k].s = s THEN Filled(log[k]) ELSE 0
                     /\ NetTerms(s)[k] \in Int
           /\ \A c : /\ LegTerms(c)[k] = Filled(log[k]) * Side(log[k].s, c)
                     /\ LegTerms(c)[k] \in Int
<1> SUFFICES ASSUME NEW k \in 1..Len(log)
             PROVE  /\ Filled(log[k]) \in Int
                    /\ \A s : /\ NetTerms(s)[k] = IF log[k].s = s THEN Filled(log[k]) ELSE 0
                              /\ NetTerms(s)[k] \in Int
                    /\ \A c : /\ LegTerms(c)[k] = Filled(log[k]) * Side(log[k].s, c)
                              /\ LegTerms(c)[k] \in Int
  OBVIOUS
<1>1. Filled(log[k]) \in Int
  BY OrderTypes DEF Filled
<1>2. \A s : /\ NetTerms(s)[k] = IF log[k].s = s THEN Filled(log[k]) ELSE 0
             /\ NetTerms(s)[k] \in Int
  BY <1>1 DEF NetTerms, NetTermsOf, Indices
<1>3. \A c : /\ LegTerms(c)[k] = Filled(log[k]) * Side(log[k].s, c)
             /\ LegTerms(c)[k] \in Int
  BY <1>1, SideTimes DEF LegTerms, Indices
<1> QED
  BY <1>1, <1>2, <1>3

(* A sum over one more order is that order more.                            *)
LEMMA SumPrefix ==
  ASSUME NEW n \in Nat, NEW f, \A k \in 1..n : f[k] \in Int
  PROVE  /\ SumFunctionOnSet(f, 1..0) = 0
         /\ \A k \in 0..n : SumFunctionOnSet(f, 1..k) \in Int
         /\ \A k \in 1..n : SumFunctionOnSet(f, 1..k) = SumFunctionOnSet(f, 1..(k - 1)) + f[k]
<1>1. \A k \in 0..n : IsFiniteSet(1..k) /\ 1..k \subseteq 1..n
  BY FS_Interval
<1>2. ASSUME NEW k \in 0..n
      PROVE  /\ SumFunctionOnSet(f, 1..k) \in Int
             /\ k = 0 => SumFunctionOnSet(f, 1..k) = 0
             /\ k # 0 => SumFunctionOnSet(f, 1..k) =
                           f[k] + SumFunctionOnSet(f, (1..k) \ {k})
  <2> DEFINE T == 1..k
  <2>1. IsFiniteSet(T) /\ (\A x \in T : f[x] \in Int) /\ (k = 0 => T = {}) /\ (k # 0 => k \in T)
    BY <1>1
  <2> HIDE DEF T
  <2>2. /\ SumFunctionOnSet(f, T) \in Int
        /\ T = {} => SumFunctionOnSet(f, T) = 0
        /\ \A x \in T : SumFunctionOnSet(f, T) = f[x] + SumFunctionOnSet(f, T \ {x})
    BY <2>1, SumLaws
  <2>3. /\ SumFunctionOnSet(f, T) \in Int
        /\ k = 0 => SumFunctionOnSet(f, T) = 0
        /\ k # 0 => SumFunctionOnSet(f, T) = f[k] + SumFunctionOnSet(f, T \ {k})
    BY <2>1, <2>2
  <2> QED
    BY <2>3 DEF T
<1>3. \A k \in 1..n : k \in 0..n /\ k # 0 /\ (1..k) \ {k} = 1..(k - 1) /\ k - 1 \in 0..n
  OBVIOUS
<1>4. \A k \in 0..n : SumFunctionOnSet(f, 1..k) \in Int
  BY <1>2
<1>5. ASSUME NEW k \in 1..n
      PROVE  SumFunctionOnSet(f, 1..k) = SumFunctionOnSet(f, 1..(k - 1)) + f[k]
  <2>1. SumFunctionOnSet(f, 1..k) = f[k] + SumFunctionOnSet(f, 1..(k - 1))
    BY <1>2, <1>3
  <2>2. SumFunctionOnSet(f, 1..(k - 1)) \in Int /\ f[k] \in Int
    BY <1>3, <1>4
  <2> QED
    BY <2>1, <2>2
<1>6. SumFunctionOnSet(f, 1..0) = 0
  BY <1>2
<1> QED
  BY <1>4, <1>5, <1>6

LEMMA NetSteps ==
  ASSUME BasisTypes, NEW s
  PROVE  /\ NetTo(s, 0) = 0
         /\ \A k \in 0..Len(log) : NetTo(s, k) \in Int
         /\ \A k \in 1..Len(log) : NetTo(s, k) = NetTo(s, k - 1) + NetTerms(s)[k]
         /\ Net(s) = NetTo(s, Len(log))
<1> DEFINE f == NetTerms(s)
<1>1. Len(log) \in Nat /\ \A k \in 1..Len(log) : f[k] \in Int
  BY OrderTypes, TermTypes
<1>2. Net(s) = SumFunctionOnSet(f, 1..Len(log))
  <2>1. DOMAIN f = 1..Len(log)
    BY DEF NetTerms, NetTermsOf
  <2> HIDE DEF f
  <2>2. SumFunction(f) = SumFunctionOnSet(f, 1..Len(log))
    BY <2>1, SumOfFunction
  <2> QED
    BY <2>2 DEF f, Net, NetTerms, NetTermsOf, Indices
<1> HIDE DEF f
<1>3. /\ SumFunctionOnSet(f, 1..0) = 0
      /\ \A k \in 0..Len(log) : SumFunctionOnSet(f, 1..k) \in Int
      /\ \A k \in 1..Len(log) : SumFunctionOnSet(f, 1..k) = SumFunctionOnSet(f, 1..(k - 1)) + f[k]
  BY <1>1, SumPrefix
<1> QED
  BY <1>2, <1>3 DEF NetTo, NetIn, NetTerms, f

LEMMA LegSteps ==
  ASSUME BasisTypes, NEW c
  PROVE  /\ LegTo(c, 0) = 0
         /\ \A k \in 0..Len(log) : LegTo(c, k) \in Int
         /\ \A k \in 1..Len(log) : LegTo(c, k) = LegTo(c, k - 1) + LegTerms(c)[k]
         /\ Position(c) = LegTo(c, Len(log))
<1> DEFINE f == LegTerms(c)
<1>1. Len(log) \in Nat /\ \A k \in 1..Len(log) : f[k] \in Int
  BY OrderTypes, TermTypes
<1>2. Position(c) = SumFunctionOnSet(f, 1..Len(log))
  <2>1. DOMAIN f = 1..Len(log)
    BY DEF LegTerms, Indices
  <2> HIDE DEF f
  <2>2. SumFunction(f) = SumFunctionOnSet(f, 1..Len(log))
    BY <2>1, SumOfFunction
  <2> QED
    BY <2>2 DEF f, Position, LegTerms
<1> HIDE DEF f
<1>3. /\ SumFunctionOnSet(f, 1..0) = 0
      /\ \A k \in 0..Len(log) : SumFunctionOnSet(f, 1..k) \in Int
      /\ \A k \in 1..Len(log) : SumFunctionOnSet(f, 1..k) = SumFunctionOnSet(f, 1..(k - 1)) + f[k]
  BY <1>1, SumPrefix
<1> QED
  BY <1>2, <1>3 DEF LegTo, f

LEMMA LegStep ==
  ASSUME BasisTypes, NEW c, NEW k \in 1..Len(log),
         LegTo(c, k - 1) = SumFunctionOnSet(SpreadTerms(c, k - 1), Structures)
  PROVE  LegTo(c, k) = SumFunctionOnSet(SpreadTerms(c, k), Structures)
<1> DEFINE s == log[k].s
           f == SpreadTerms(c, k - 1)
           g == [u \in Structures |-> NetTerms(u)[k] * Side(u, c)]
           h == SpreadTerms(c, k)
<1>1. s \in Structures /\ k \in 0..Len(log) /\ k - 1 \in 0..Len(log)
  BY OrderTypes
<1>2. ASSUME NEW u \in Structures
      PROVE  f[u] \in Int /\ g[u] \in Int /\ h[u] = f[u] + g[u]
  <2>1. /\ NetTo(u, k - 1) \in Int /\ NetTerms(u)[k] \in Int
        /\ NetTo(u, k) = NetTo(u, k - 1) + NetTerms(u)[k]
    BY <1>1, NetSteps, TermTypes
  <2>2. /\ f[u] = NetTo(u, k - 1) * Side(u, c)
        /\ g[u] = NetTerms(u)[k] * Side(u, c)
        /\ h[u] = NetTo(u, k) * Side(u, c)
    BY DEF SpreadTerms
  <2> DEFINE a == NetTo(u, k - 1)  b == NetTerms(u)[k]
  <2>3. /\ a * Side(u, c) \in Int /\ b * Side(u, c) \in Int
        /\ (a + b) * Side(u, c) = a * Side(u, c) + b * Side(u, c)
    <3>1. a \in Int /\ b \in Int
      BY <2>1
    <3> HIDE DEF a, b
    <3> QED
      BY <3>1, SideTimes
  <2>4. h[u] = (a + b) * Side(u, c)
    BY <2>1, <2>2
  <2> HIDE DEF f, g, h
  <2> QED
    BY <2>2, <2>3, <2>4
<1>3. \A u \in Structures \ {s} : g[u] = 0
  <2> SUFFICES ASSUME NEW u \in Structures \ {s} PROVE g[u] = 0
    OBVIOUS
  <2>1. NetTerms(u)[k] = 0
    BY TermTypes
  <2> QED
    BY <2>1, SideTimes
<1>4. g[s] = LegTerms(c)[k] /\ LegTerms(c)[k] \in Int
  <2>1. NetTerms(s)[k] = Filled(log[k])
    BY TermTypes
  <2>2. g[s] = Filled(log[k]) * Side(s, c)
    BY <1>1, <2>1
  <2> QED
    BY <2>2, TermTypes
<1>5. LegTo(c, k) = LegTo(c, k - 1) + LegTerms(c)[k] /\ LegTo(c, k - 1) \in Int
  BY <1>1, LegSteps
<1> HIDE DEF f, g, h, s
<1>6. SumFunctionOnSet(h, Structures) =
        SumFunctionOnSet(f, Structures) + SumFunctionOnSet(g, Structures)
  BY <1>2, SumAdd, StructuresFinite
<1>7. SumFunctionOnSet(g, Structures) = g[s]
  BY <1>1, <1>2, <1>3, SumOne, StructuresFinite
<1>8. LegTo(c, k - 1) = SumFunctionOnSet(f, Structures)
  BY DEF f
<1>9. LegTo(c, k) = SumFunctionOnSet(h, Structures)
  BY <1>4, <1>5, <1>6, <1>7, <1>8
<1> QED
  BY <1>9 DEF h

LEMMA PositionIsHeld ==
  ASSUME BasisTypes, NEW c
  PROVE  Position(c) = SumFunctionOnSet([u \in Structures |-> Net(u) * Side(u, c)], Structures)
<1> DEFINE Good == {k \in 0..Len(log) :
                      LegTo(c, k) = SumFunctionOnSet(SpreadTerms(c, k), Structures)}
<1>1. Len(log) \in Nat
  BY OrderTypes
<1>2. 0 \in Good
  <2> DEFINE f == SpreadTerms(c, 0)
  <2>1. \A u \in Structures : f[u] = 0
    BY NetSteps, SideTimes DEF SpreadTerms
  <2> HIDE DEF f
  <2>2. SumFunctionOnSet(f, Structures) = 0
    BY <2>1, SumZero, StructuresFinite
  <2>3. LegTo(c, 0) = 0
    BY LegSteps
  <2> QED
    BY <1>1, <2>2, <2>3 DEF f
<1>3. \A k \in 1..Len(log) : k - 1 \in Good => k \in Good
  BY <1>1, LegStep
<1>4. Len(log) \in Good
  <2> HIDE DEF Good
  <2>1. 0..Len(log) \subseteq Good
    BY <1>1, <1>2, <1>3, PrefixInduction
  <2> QED
    BY <1>1, <2>1
<1>5. [u \in Structures |-> Net(u) * Side(u, c)] = SpreadTerms(c, Len(log))
  BY NetSteps DEF SpreadTerms
<1> QED
  BY <1>4, <1>5, LegSteps

LEMMA NetType ==
  ASSUME BasisTypes, NEW s
  PROVE  Net(s) \in Int
<1>1. Len(log) \in 0..Len(log)
  BY OrderTypes
<1> QED
  BY <1>1, NetSteps

-----------------------------------------------------------------------------
(* What is managed.                                                         *)

LEMMA HeldLots ==
  ASSUME BasisTypes, NEW s \in Structures, Net(s) = Len(Recovered[s])
  PROVE  /\ TrueLots(s) \in Seq(Nat) /\ Len(Recovered[s]) = Len(TrueLots(s))
         /\ \A k \in DOMAIN TrueLots(s) : Recovered[s][k] >= TrueLots(s)[k]
<1> DEFINE B == Bought(s)  R == Recovered[s]  n == Len(R)  T == TrueLots(s)
<1>1. R \in Seq(Nat) /\ B \in Seq(Nat) /\ Newest(R, B)
  BY RecoveredAreNewest
<1>2. T = SubSeq(B, Len(B) - n + 1, Len(B))
  BY DEF TrueLots
<1> HIDE DEF B, R, T
<1>3. n \in Nat /\ Len(B) \in Nat /\ n <= Len(B)
  BY <1>1 DEF Newest
<1>4. /\ T \in Seq(Nat) /\ Len(T) = n
      /\ \A k \in 1..n : T[k] = B[Len(B) - n + k]
  <2>1. Len(B) - n + 1 \in 1..(Len(B) + 1) /\ Len(B) \in (Len(B) - n + 1 - 1)..Len(B)
    BY <1>3
  <2> DEFINE m == Len(B) - n + 1
  <2>2. /\ SubSeq(B, m, Len(B)) \in Seq(Nat)
        /\ Len(SubSeq(B, m, Len(B))) = Len(B) - m + 1
        /\ \A i \in 1..(Len(B) - m + 1) : SubSeq(B, m, Len(B))[i] = B[m + i - 1]
    <3> HIDE DEF m, n
    <3> QED
      BY <1>1, <1>3, <2>1, SubSeqProperties DEF m
  <2>3. Len(B) - m + 1 = n /\ \A k \in 1..n : m + k - 1 = Len(B) - n + k
    BY <1>3
  <2> HIDE DEF n
  <2> QED
    BY <1>2, <2>2, <2>3
<1>5. \A k \in 1..n : R[k] >= B[Len(B) - n + k]
  BY <1>1 DEF Newest
<1>6. DOMAIN T = 1..n
  BY <1>4
<1>7. T \in Seq(Nat) /\ Len(R) = Len(T) /\ \A k \in DOMAIN T : R[k] >= T[k]
  BY <1>4, <1>5, <1>6
<1> QED
  BY <1>7 DEF R, T

(* s and every spread that its component reaches by a shared contract.      *)
LEMMA ComponentLaws ==
  ASSUME NEW H, NEW s \in H
  PROVE  /\ Component(H, s) \subseteq H /\ s \in Component(H, s)
         /\ \A w \in Component(H, s), u \in H : w \cap u # {} => u \in Component(H, s)
BY DEF Component, ClosedUnder

LEMMA ManagedMatches ==
  ASSUME BasisTypes, NEW s \in ManagedSpreads
  PROVE  LET H == HistorySpreads(Recovered)
             C == Component(H, s)
         IN /\ s \in H /\ s \in Structures /\ IsVertical(s) /\ H \subseteq Structures
            /\ C \subseteq Structures /\ s \in C
            /\ \A w \in C, u \in H : w \cap u # {} => u \in C
            /\ \A c \in UNION C : Position(c) =
                 SumFunctionOnSet([u \in C |-> Len(Recovered[u]) * Side(u, c)], C)
<1> DEFINE H == HistorySpreads(Recovered)
           C == Component(H, s)
<1>1. s \in H /\ Matches(Positions, Recovered, C)
  BY DEF ManagedSpreads, ManagedIn
<1>2. s \in Structures /\ IsVertical(s) /\ H \subseteq Structures
  BY <1>1 DEF HistorySpreads
<1>3. /\ C \subseteq Structures /\ s \in C
      /\ \A w \in C, u \in H : w \cap u # {} => u \in C
  <2> HIDE DEF H
  <2> QED
    BY <1>1, <1>2, ComponentLaws
<1> HIDE DEF C
<1>4. ASSUME NEW c \in UNION C
      PROVE  Position(c) =
               SumFunctionOnSet([u \in C |-> Len(Recovered[u]) * Side(u, c)], C)
  <2> DEFINE f == [u \in C |-> Len(Recovered[u]) * Side(u, c)]
  <2>0. c \in Contracts
    BY <1>3 DEF Contracts
  <2>1. Position(c) = SumFunction(f)
    BY <1>1, <1>3, <2>0 DEF Matches, Predicted, Positions
  <2>2. DOMAIN f = C
    OBVIOUS
  <2> HIDE DEF f
  <2>3. SumFunction(f) = SumFunctionOnSet(f, C)
    BY <2>2, SumOfFunction
  <2> QED
    BY <2>1, <2>3 DEF f
<1>5. /\ s \in H /\ s \in Structures /\ IsVertical(s) /\ H \subseteq Structures
      /\ C \subseteq Structures /\ s \in C
      /\ \A w \in C, u \in H : w \cap u # {} => u \in C
      /\ \A c \in UNION C : Position(c) =
           SumFunctionOnSet([u \in C |-> Len(Recovered[u]) * Side(u, c)], C)
  BY <1>1, <1>2, <1>3, <1>4
<1> QED
  BY <1>5 DEF C

LEMMA NoOrders ==
  ASSUME BasisTypes, NEW u \in Structures, \A i \in Indices : log[i].s # u
  PROVE  Net(u) = 0 /\ Len(Recovered[u]) = 0
<1>1. Len(log) \in Nat /\ Indices = 1..Len(log)
  BY OrderTypes DEF Indices
<1>2. \A k \in 1..Len(log) : NetTerms(u)[k] = 0 /\ BoughtAfter(u)[k] = BoughtAfter(u)[k - 1]
  BY <1>1, TermTypes, BoughtSteps DEF BoughtStep
<1> DEFINE Good == {k \in 0..Len(log) : NetTo(u, k) = 0 /\ BoughtAfter(u)[k] = <<>>}
<1>3. 0 \in Good
  BY <1>1, NetSteps, BoughtSteps
<1>4. \A k \in 1..Len(log) : k - 1 \in Good => k \in Good
  BY <1>1, <1>2, NetSteps
<1>5. Len(log) \in Good
  <2> HIDE DEF Good
  <2>1. 0..Len(log) \subseteq Good
    BY <1>1, <1>3, <1>4, PrefixInduction
  <2> QED
    BY <1>1, <2>1
<1>6. Net(u) = 0 /\ Bought(u) = <<>>
  BY <1>5, NetSteps, BoughtSteps
<1>7. Recovered[u] \in Seq(Nat) /\ Newest(Recovered[u], <<>>)
  BY <1>6, RecoveredAreNewest
<1>8. Len(Recovered[u]) = 0
  BY <1>7 DEF Newest
<1> QED
  BY <1>6, <1>8

(* On a contract that no other spread counts on the positions count s alone. *)
LEMMA OwnLegCounts ==
  ASSUME BasisTypes, NEW s \in ManagedSpreads, NEW c \in s,
         \A u \in Structures \ {s} : c \in u => Net(u) = 0 /\ Len(Recovered[u]) = 0
  PROVE  Net(s) = Len(Recovered[s])
<1> DEFINE C == Component(HistorySpreads(Recovered), s)
           f == [u \in Structures |-> Net(u) * Side(u, c)]
           g == [u \in C |-> Len(Recovered[u]) * Side(u, c)]
<1>1. /\ s \in Structures /\ IsVertical(s) /\ C \subseteq Structures /\ s \in C
      /\ Position(c) = SumFunctionOnSet(g, C)
  BY ManagedMatches
<1>2. Position(c) = SumFunctionOnSet(f, Structures)
  BY PositionIsHeld
<1>3. \A u \in Structures : Net(u) \in Int
  BY NetType
<1>4. \A u \in Structures : Recovered[u] \in Seq(Nat) /\ Len(Recovered[u]) \in Int
  BY RecoveredAreNewest
<1>5. Side(s, c) = 1 \/ Side(s, c) = -1
  BY DEF Side
<1>6. \A u \in Structures \ {s} : Net(u) * Side(u, c) = 0 /\ Len(Recovered[u]) * Side(u, c) = 0
  <2> SUFFICES ASSUME NEW u \in Structures \ {s}
               PROVE  Net(u) * Side(u, c) = 0 /\ Len(Recovered[u]) * Side(u, c) = 0
    OBVIOUS
  <2>1. CASE c \in u
    BY <2>1, SideTimes
  <2>2. CASE c \notin u
    <3>1. Side(u, c) = 0
      BY <2>2 DEF Side
    <3> QED
      BY <3>1, <1>3, <1>4
  <2> QED
    BY <2>1, <2>2
<1>7. /\ f[s] = Net(s) * Side(s, c) /\ f[s] \in Int
      /\ \A u \in Structures \ {s} : f[u] = 0
  BY <1>1, <1>3, <1>5, <1>6
<1>8. /\ g[s] = Len(Recovered[s]) * Side(s, c) /\ g[s] \in Int
      /\ \A u \in C \ {s} : g[u] = 0
  <2> HIDE DEF C
  <2> QED
    BY <1>1, <1>4, <1>5, <1>6
<1>9. IsFiniteSet(C) /\ IsFiniteSet(Structures)
  BY <1>1, StructuresFinite, FS_Subset
<1>10. f[s] = g[s]
  <2> HIDE DEF f, g, C
  <2>1. SumFunctionOnSet(f, Structures) = f[s]
    BY <1>1, <1>7, <1>9, SumOne
  <2>2. SumFunctionOnSet(g, C) = g[s]
    BY <1>1, <1>8, <1>9, SumOne
  <2> QED
    BY <1>1, <1>2, <2>1, <2>2
<1> DEFINE a == Net(s)  b == Len(Recovered[s])
<1>11. a * Side(s, c) = b * Side(s, c) /\ a \in Int /\ b \in Int
  BY <1>1, <1>3, <1>4, <1>7, <1>8, <1>10
<1> HIDE DEF a, b
<1>12. a = b
  BY <1>5, <1>11
<1> QED
  BY <1>12 DEF a, b

HeldAsManaged(s) ==
  /\ Len(Recovered[s]) = Len(TrueLots(s))
  /\ \A k \in DOMAIN TrueLots(s) : Recovered[s][k] >= TrueLots(s)[k]

LEMMA OwnLegHeld ==
  ASSUME BasisTypes, NEW s \in ManagedSpreads, OwnLeg(s)
  PROVE  HeldAsManaged(s)
<1>1. s \in Structures
  BY ManagedMatches
<1>2. PICK c \in s : \A i \in Indices : log[i].s # s => c \notin log[i].s
  BY DEF OwnLeg
<1>3. ASSUME NEW u \in Structures \ {s}, c \in u
      PROVE  Net(u) = 0 /\ Len(Recovered[u]) = 0
  BY <1>2, <1>3, NoOrders
<1>4. Net(s) = Len(Recovered[s])
  BY <1>3, OwnLegCounts
<1> QED
  BY <1>1, <1>4, HeldLots DEF HeldAsManaged

-----------------------------------------------------------------------------
(* The account keeps its types.                                             *)

LEMMA AppendKeepsTypes ==
  ASSUME BasisTypes, NEW o \in Orders, Coherent(o), log' = Append(log, o)
  PROVE  /\ BasisTypes'
         /\ Len(log') = Len(log) + 1 /\ log'[Len(log) + 1] = o
         /\ \A i \in 1..Len(log) : log'[i] = log[i]
<1>1. /\ log' \in Seq(Orders) /\ Len(log') = Len(log) + 1 /\ Len(log) \in Nat
      /\ log'[Len(log) + 1] = o
      /\ \A i \in 1..Len(log) : log'[i] = log[i]
  BY AppendProperties DEF BasisTypes
<1>2. \A i \in 1..Len(log') : Coherent(log'[i])
  BY <1>1 DEF BasisTypes, Indices
<1> QED
  BY <1>1, <1>2 DEF BasisTypes, Indices

LEMMA UpdateKeepsTypes ==
  ASSUME BasisTypes, NEW i \in Indices, NEW o \in Orders, Coherent(o),
         log' = [log EXCEPT ![i] = o]
  PROVE  /\ BasisTypes'
         /\ Len(log') = Len(log) /\ log'[i] = o
         /\ \A j \in 1..Len(log) : j # i => log'[j] = log[j]
<1>1. Len(log) \in Nat /\ log \in [1..Len(log) -> Orders] /\ i \in 1..Len(log)
  BY DEF BasisTypes, Indices
<1>2. /\ log' \in Seq(Orders) /\ Len(log') = Len(log) /\ log'[i] = o
      /\ \A j \in 1..Len(log) : j # i => log'[j] = log[j]
  BY <1>1 DEF BasisTypes
<1>3. \A j \in 1..Len(log') : Coherent(log'[j])
  BY <1>2 DEF BasisTypes, Indices
<1> QED
  BY <1>2, <1>3 DEF BasisTypes, Indices

LEMMA OrderIs ==
  ASSUME NEW s \in Structures, NEW purpose \in {"entry", "exit"}, NEW qty \in Nat,
         NEW clear \in BOOLEAN, purpose = "exit" => qty > 0
  PROVE  Order(s, purpose, qty, clear) \in Orders /\ Coherent(Order(s, purpose, qty, clear))
BY BasisAssumption DEF Order, Orders, Coherent, Shows

LEMMA ExitQuantity ==
  ASSUME BasisTypes, NEW held, NEW s \in ManagedIn(held, Recovered)
  PROVE  s \in Structures /\ Len(Recovered[s]) \in Nat /\ Len(Recovered[s]) > 0
<1>1. s \in Structures /\ Recovered[s] # <<>>
  BY DEF ManagedIn, HistorySpreads
<1>2. Recovered[s] \in Seq(Nat)
  BY <1>1, RecoveredAreNewest
<1> DEFINE R == Recovered[s]
<1>3. R # <<>> /\ R \in Seq(Nat)
  BY <1>1, <1>2
<1> HIDE DEF R
<1>4. Len(R) \in Nat /\ Len(R) > 0
  BY <1>3
<1> QED
  BY <1>1, <1>4 DEF R

(* The orders that a fill, a close and a close by legs make of another.      *)
EntryFilled(x, p, shows) ==
  [x EXCEPT !.filled = 1, !.open = FALSE, !.price = p, !.shows = shows]
ExitFilled(x) == [x EXCEPT !.filled = @ + 1, !.open = x.filled + 1 < x.qty]
OrderClosed(x) == [x EXCEPT !.open = FALSE]
LegsClosed(x) == [x EXCEPT !.filled = 1, !.open = FALSE, !.mleg = FALSE]

SameOrder(o, x) ==
  o.s = x.s /\ o.purpose = x.purpose /\ o.clear = x.clear /\ o.mleg = x.mleg /\ o.qty = x.qty

LEMMA EntryFilledIs ==
  ASSUME NEW x \in Orders, x.purpose = "entry", Coherent(x), NEW p \in Prices, NEW shows \in Shows
  PROVE  LET o == EntryFilled(x, p, shows)
         IN o \in Orders /\ Coherent(o) /\ o.filled = 1 /\ SameOrder(o, x)
<1>1. p \in 0..LimitDebit
  BY BasisAssumption
<1> QED
  BY <1>1, Zenon DEF Orders, Coherent, EntryFilled, SameOrder

LEMMA ExitFilledIs ==
  ASSUME NEW x \in Orders, x.purpose = "exit", Coherent(x), x.open
  PROVE  LET o == ExitFilled(x)
         IN o \in Orders /\ Coherent(o) /\ o.filled = x.filled + 1 /\ SameOrder(o, x)
<1> DEFINE n == x.filled + 1
           b == (x.filled + 1 < x.qty)
           o == [x EXCEPT !.filled = n, !.open = b]
<1>1. x.filled \in Nat /\ x.qty \in Nat /\ x.filled < x.qty /\ x.shows # "nothing"
  BY DEF Orders, Coherent
<1>2. n \in Nat /\ b \in BOOLEAN /\ n <= x.qty /\ (b => n < x.qty)
  BY <1>1
<1>3. /\ o \in Orders /\ o.filled = n /\ o.open = b /\ o.shows = x.shows
      /\ o.s = x.s /\ o.purpose = x.purpose /\ o.clear = x.clear
      /\ o.mleg = x.mleg /\ o.qty = x.qty
  <2> HIDE DEF n, b
  <2> QED
    BY <1>2, Zenon DEF Orders
<1>4. Coherent(o)
  <2> HIDE DEF n, b, o
  <2> QED
    BY <1>1, <1>2, <1>3 DEF Coherent
<1>5. o = ExitFilled(x)
  BY DEF ExitFilled
<1>6. o \in Orders /\ Coherent(o) /\ o.filled = x.filled + 1 /\ SameOrder(o, x)
  <2> HIDE DEF o
  <2> QED
    BY <1>3, <1>4 DEF SameOrder
<1> HIDE DEF o
<1> QED
  BY <1>5, <1>6

LEMMA OrderClosedIs ==
  ASSUME NEW x \in Orders, Coherent(x), x.open
  PROVE  LET o == OrderClosed(x)
         IN o \in Orders /\ Coherent(o) /\ o.filled = x.filled /\ SameOrder(o, x)
BY Zenon DEF Orders, Coherent, OrderClosed, SameOrder

LEMMA LegsClosedIs ==
  ASSUME NEW x \in Orders, x.purpose = "exit", x.qty = 1
  PROVE  LET o == LegsClosed(x)
         IN o \in Orders /\ Coherent(o) /\ ~o.mleg /\ ~o.open /\ o.purpose = "exit"
<1> DEFINE o == LegsClosed(x)
<1>1. /\ o \in Orders /\ o.filled = 1 /\ o.open = FALSE /\ o.mleg = FALSE
      /\ o.purpose = "exit" /\ o.qty = 1
  <2>1. 1 \in Nat
    OBVIOUS
  <2> QED
    BY <2>1, Zenon DEF Orders, LegsClosed
<1> HIDE DEF o
<1>2. o \in Orders /\ Coherent(o) /\ ~o.mleg /\ ~o.open /\ o.purpose = "exit"
  BY <1>1 DEF Coherent
<1> QED
  BY <1>2 DEF o

-----------------------------------------------------------------------------
(* With a complete, clear history the recovery counts what is held.         *)

(* Every exit was sent for no more than the orders before it have left, and *)
(* when no other exit of the same spread was open.                         *)
CoveredIn(l) ==
  \A i \in 1..Len(l) : l[i].purpose = "exit" =>
    /\ l[i].qty <= NetIn(l, l[i].s, i - 1)
    /\ \A j \in 1..(i - 1) : l[j].s = l[i].s /\ l[j].purpose = "exit" => ~l[j].open

Covered == CoveredIn(log)

(* None of the open orders of s has filled.                                 *)
Whole(s) == \A i \in Indices : log[i].s = s /\ log[i].open => log[i].filled = 0

LEMMA PlainWindow ==
  ASSUME BasisTypes, Plain
  PROVE  Window = Closed
<1>1. Closed \subseteq 1..Len(log) /\ Len(log) \in Nat /\ Len(log) <= Limit /\ Limit \in Nat
  BY OrderTypes, LimitType DEF Closed, Indices, Plain
<1>2. IsFiniteSet(1..Len(log)) /\ Cardinality(1..Len(log)) = Len(log)
  <2> DEFINE n == Len(log)
  <2>1. n \in Nat
    BY <1>1
  <2> HIDE DEF n
  <2>2. /\ IsFiniteSet(1..n)
        /\ Cardinality(1..n) = IF 1 > n THEN 0 ELSE n - 1 + 1
    BY <2>1, FS_Interval
  <2>3. Cardinality(1..n) = n
    BY <2>1, <2>2
  <2> QED
    BY <2>2, <2>3 DEF n
<1>3. ASSUME NEW i \in Closed PROVE Cardinality({j \in Closed : j >= i}) <= Limit
  <2> DEFINE T == {j \in Closed : j >= i}
  <2>1. T \subseteq 1..Len(log)
    BY <1>1
  <2> HIDE DEF T
  <2>2. Cardinality(T) <= Cardinality(1..Len(log)) /\ Cardinality(T) \in Nat
    BY <1>2, <2>1, FS_Subset, FS_CardinalityType
  <2>3. Cardinality(T) <= Limit
    BY <1>1, <1>2, <2>2
  <2> QED
    BY <2>3 DEF T
<1> QED
  BY <1>3 DEF Window

(* What k orders of s tell the recovery of what they leave.                 *)
Tallies(s, k) ==
  /\ After[k][s].complete
  /\ NetTo(s, k) \in 0..Len(After[k][s].lots)
  /\ Whole(s) => NetTo(s, k) = Len(After[k][s].lots)

LEMMA PlainStep ==
  ASSUME BasisTypes, Plain, Covered, NEW s \in Structures, NEW k \in 1..Len(log),
         Tallies(s, k - 1)
  PROVE  Tallies(s, k)
<1> DEFINE o == log[k]
           b == After[k - 1][s]
           m == NetTo(s, k - 1)
<1>0. k - 1 \in 0..Len(log) /\ k \in Indices
  BY OrderTypes DEF Indices
<1>1. After[k] = BookStep(k, After[k - 1]) /\ After[k - 1] \in BooksType
  BY <1>0, BooksAfter
<1>2. b \in Books1 /\ b.lots \in Seq(Nat) /\ b.complete \in BOOLEAN
  BY <1>1 DEF BooksType, Books1
<1>3. /\ o \in Orders /\ Coherent(o) /\ o.filled \in Nat /\ o.qty \in Nat
      /\ o.purpose \in {"entry", "exit"}
      /\ o.mleg /\ o.clear /\ o.shows # "nothing" /\ o.shows \in Shows
  BY <1>0, OrderTypes DEF Plain, Orders
<1>4. After[k][s] = IF k \in Window /\ o.s = s THEN ApplyTo(o, b) ELSE b
  BY <1>1, <1>3, ApplyOne DEF BookStep
<1>5. k \in Window <=> ~o.open
  BY <1>0, PlainWindow DEF Closed
<1>6. /\ NetTo(s, k) = m + NetTerms(s)[k] /\ m \in Int
      /\ NetTerms(s)[k] = IF o.s = s THEN Filled(o) ELSE 0
  BY <1>0, NetSteps, TermTypes
<1>7. o.s = s /\ o.purpose = "exit" => o.filled <= m
  BY <1>0, <1>3, <1>6 DEF Covered, CoveredIn, NetTo, Indices, Coherent
<1>8. Whole(s) /\ o.s = s /\ o.open => o.filled = 0
  BY <1>0 DEF Whole
<1>9. b.complete /\ m \in 0..Len(b.lots) /\ (Whole(s) => m = Len(b.lots))
  BY DEF Tallies
<1>10. Tallies(s, k) <=>
         /\ After[k][s].complete
         /\ NetTo(s, k) \in 0..Len(After[k][s].lots)
         /\ Whole(s) => NetTo(s, k) = Len(After[k][s].lots)
  BY DEF Tallies
<1> HIDE DEF o, b, m
<1>11. CASE o.s # s
  BY <1>4, <1>6, <1>9, <1>10, <1>11
<1>12. CASE o.s = s /\ o.filled = 0
  <2>1. Filled(o) = 0
    BY <1>3, <1>12 DEF Filled
  <2>2. ApplyTo(o, b) = b
    BY <1>3, <1>12 DEF ApplyTo
  <2> QED
    BY <1>4, <1>6, <1>9, <1>10, <1>12, <2>1, <2>2
<1>13. CASE o.s = s /\ o.filled # 0 /\ o.purpose = "exit"
  <2>1. Filled(o) = 0 - o.filled /\ NetTo(s, k) = m - o.filled
    BY <1>3, <1>6, <1>13 DEF Filled
  <2>2. CASE o.open
    <3>1. After[k][s] = b /\ ~Whole(s)
      BY <1>4, <1>5, <1>8, <1>13, <2>2
    <3> QED
      BY <1>2, <1>3, <1>6, <1>7, <1>9, <1>10, <1>13, <2>1, <3>1
  <2>3. CASE ~o.open
    <3>1. After[k][s] = ApplyTo(o, b)
      BY <1>4, <1>5, <1>13, <2>3
    <3>2. /\ ApplyTo(o, b).lots = Consume(b.lots, o.filled)
          /\ ApplyTo(o, b).complete <=> b.complete /\ o.filled <= Len(b.lots)
      BY <1>2, <1>3, <1>13 DEF ApplyTo
    <3>3. Len(Consume(b.lots, o.filled)) =
            IF o.filled <= Len(b.lots) THEN Len(b.lots) - o.filled ELSE 0
      BY <1>2, <1>3, ConsumeType
    <3>4. o.filled <= Len(b.lots) /\ Len(b.lots) \in Nat
      BY <1>2, <1>3, <1>7, <1>9, <1>13
    <3>5. Len(ApplyTo(o, b).lots) = Len(b.lots) - o.filled
      BY <3>2, <3>3, <3>4
    <3> QED
      BY <1>3, <1>6, <1>7, <1>9, <1>10, <1>13, <2>1, <3>1, <3>2, <3>4, <3>5
  <2> QED
    BY <2>2, <2>3
<1>14. CASE o.s = s /\ o.filled # 0 /\ o.purpose = "entry"
  <2>1. /\ Filled(o) = 1 /\ o.filled = 1 /\ o.price \in Prices /\ ~o.open
        /\ After[k][s] = ApplyTo(o, b)
    BY <1>3, <1>4, <1>5, <1>14 DEF Filled, Coherent
  <2>2. EntryDebit(o) # 0 /\ EntryDebit(o) \in Nat
    <3>1. o.price > 0 /\ LimitDebit > 0
      <4>1. o.price \in 1..LimitDebit /\ LimitDebit \in Nat
        BY <2>1, BasisAssumption
      <4> QED
        BY <4>1
    <3> QED
      BY <1>3, <3>1, EntryDebitType DEF EntryDebit, Shows
  <2>3. /\ ApplyTo(o, b).complete
        /\ ApplyTo(o, b).lots = b.lots \o [n \in 1..1 |-> EntryDebit(o)]
    BY <1>3, <1>9, <1>14, <2>1, <2>2 DEF ApplyTo
  <2>4. Len(ApplyTo(o, b).lots) = Len(b.lots) + 1 /\ Len(b.lots) \in Nat
    BY <1>2, <2>2, <2>3, OneMore
  <2>5. NetTo(s, k) = m + 1
    BY <1>6, <1>14, <2>1
  <2> QED
    BY <1>6, <1>9, <1>10, <2>1, <2>3, <2>4, <2>5
<1> QED
  BY <1>3, <1>11, <1>12, <1>13, <1>14

(* A working exit is not yet taken from the recovered lots, and nothing     *)
(* else is missing there.                                                  *)
LEMMA PlainCounts ==
  ASSUME BasisTypes, Plain, Covered, NEW s \in Structures
  PROVE  /\ Net(s) \in 0..Len(Recovered[s])
         /\ Whole(s) => Len(Recovered[s]) = Net(s)
<1> DEFINE Good == {k \in 0..Len(log) : Tallies(s, k)}
<1>1. Len(log) \in Nat
  BY OrderTypes
<1>2. 0 \in Good
  BY <1>1, BooksAfter, NetSteps DEF NewBooks, Tallies
<1>3. \A k \in 1..Len(log) : k - 1 \in Good => k \in Good
  BY <1>1, PlainStep
<1>4. Len(log) \in Good
  <2> HIDE DEF Good
  <2>1. 0..Len(log) \subseteq Good
    BY <1>1, <1>2, <1>3, PrefixInduction
  <2> QED
    BY <1>1, <2>1
<1>5. Tallies(s, Len(log)) /\ Net(s) = NetTo(s, Len(log)) /\ Books[s] = After[Len(log)][s]
  BY <1>4, BooksAfter, NetSteps
<1>6. Recovered[s] = After[Len(log)][s].lots
  BY <1>5 DEF Recovered, Tallies
<1> QED
  BY <1>5, <1>6 DEF Tallies

(* With nothing half filled the positions are the recovered lots, however   *)
(* the spreads share contracts.                                            *)
LEMMA SettledCounts ==
  ASSUME BasisTypes, Settled, Covered
  PROVE  /\ \A u \in Structures : Len(Recovered[u]) = Net(u)
         /\ \A u \in Structures : Len(Recovered[u]) # 0 => IsVertical(u)
<1>1. Plain /\ \A u : Whole(u)
  BY DEF Settled, Plain, Whole
<1>2. ASSUME NEW u \in Structures PROVE Len(Recovered[u]) = Net(u)
  BY <1>1, PlainCounts
<1>3. ASSUME NEW u \in Structures, Len(Recovered[u]) # 0 PROVE IsVertical(u)
  <2>1. PICK i \in Indices : log[i].s = u
    BY <1>3, NoOrders
  <2> QED
    BY <2>1 DEF Settled
<1> QED
  BY <1>2, <1>3

(* The order of contracts in which a debit vertical is long its first.      *)
Rank(c) == IF c.type = "call" THEN c.strike ELSE 0 - c.strike

LEMMA LongLegFirst ==
  ASSUME NEW s \in Structures, IsVertical(s)
  PROVE  /\ \A c \in s : Rank(c) \in Int
         /\ \E d \in s : Rank(d) > Rank(LongLeg(s))
<1>1. PICK a \in s, b \in s : a # b /\ s = {a, b}
  BY BasisAssumption
<1>2. /\ \A c \in s : c.strike \in Int
      /\ a.strike \in Int /\ b.strike \in Int
  BY BasisAssumption
<1>3. a.type = b.type /\ a.strike # b.strike
  <2>1. {c.type : c \in s} = {a.type, b.type} /\ {c.strike : c \in s} = {a.strike, b.strike}
    BY <1>1
  <2>2. Cardinality({a.type, b.type}) = 1 /\ Cardinality({a.strike, b.strike}) = 2
    BY <2>1 DEF IsVertical
  <2>3. \A x, y : Cardinality({x, y}) = IF x = y THEN 1 ELSE 2
    <3> TAKE x, y
    <3>1. IsFiniteSet({x}) /\ Cardinality({x}) = 1
      BY FS_Singleton
    <3>2. Cardinality({x} \cup {y}) = IF y \in {x} THEN 1 ELSE 1 + 1
      BY <3>1, FS_AddElement
    <3>3. {x} \cup {y} = {x, y} /\ (y \in {x} <=> x = y)
      OBVIOUS
    <3> QED
      BY <3>2, <3>3
  <2>4. /\ Cardinality({a.type, b.type}) = IF a.type = b.type THEN 1 ELSE 2
        /\ Cardinality({a.strike, b.strike}) = IF a.strike = b.strike THEN 1 ELSE 2
    BY <2>3, Zenon
  <2> QED
    BY <2>2, <2>4
<1>4. /\ LongLeg(s) \in s
      /\ \A d \in s : IF LongLeg(s).type = "call" THEN LongLeg(s).strike <= d.strike
                                               ELSE LongLeg(s).strike >= d.strike
  <2>1. \E c \in s : \A d \in s :
          IF c.type = "call" THEN c.strike <= d.strike ELSE c.strike >= d.strike
    <3>1. CASE (a.type = "call") <=> (a.strike <= b.strike)
      BY <1>1, <1>2, <1>3, <3>1
    <3>2. CASE ~((a.type = "call") <=> (a.strike <= b.strike))
      BY <1>1, <1>2, <1>3, <3>2
    <3> QED
      BY <3>1, <3>2
  <2> QED
    BY <2>1 DEF LongLeg
<1> DEFINE l == LongLeg(s)
<1> HIDE DEF l
<1>5. /\ l \in s
      /\ \A d \in s : IF l.type = "call" THEN l.strike <= d.strike ELSE l.strike >= d.strike
  BY <1>4 DEF l
<1>6. \E d \in s : Rank(d) > Rank(l)
  <2>1. CASE l = a
    BY <1>1, <1>2, <1>3, <1>5, <2>1 DEF Rank
  <2>2. CASE l = b
    BY <1>1, <1>2, <1>3, <1>5, <2>2 DEF Rank
  <2> QED
    BY <1>1, <1>5, <2>1, <2>2
<1>7. \A c \in s : Rank(c) \in Int
  BY <1>2 DEF Rank
<1> QED
  BY <1>6, <1>7 DEF l

(* What is recovered of s beyond what is held: the part of a working exit   *)
(* that has filled.                                                        *)
Excess(s) == Len(Recovered[s]) - Net(s)

(* In a complete, clear history nothing managed is in excess.  Where        *)
(* something is, take of the contracts concerned the one of highest rank:   *)
(* whatever is in excess is short in it, so the positions are not those of  *)
(* the recovered lots.                                                     *)
LEMMA PlainManagedCounts ==
  ASSUME BasisTypes, Plain, Covered, NEW s \in ManagedSpreads
  PROVE  Net(s) = Len(Recovered[s])
<1> DEFINE H == HistorySpreads(Recovered)
           C == Component(H, s)
<1>1. /\ s \in C /\ s \in Structures /\ H \subseteq Structures /\ C \subseteq Structures
      /\ \A w \in C, u \in H : w \cap u # {} => u \in C
      /\ \A c \in UNION C : Position(c) =
           SumFunctionOnSet([u \in C |-> Len(Recovered[u]) * Side(u, c)], C)
  BY ManagedMatches
<1>2. C \subseteq H /\ \A u \in C : IsVertical(u)
  <2>1. C \subseteq H
    <3> HIDE DEF H
    <3> QED
      BY ManagedMatches, ComponentLaws DEF H
  <2> QED
    BY <2>1 DEF HistorySpreads
<1>3. \A u \in Structures : /\ Recovered[u] \in Seq(Nat) /\ Len(Recovered[u]) \in Nat
                            /\ Net(u) \in Int /\ 0 <= Net(u) /\ Excess(u) \in Nat
  BY RecoveredAreNewest, PlainCounts, NetType DEF Excess
<1>4. \A u \in Structures \ H : IsVertical(u) => Net(u) = 0
  <2> SUFFICES ASSUME NEW u \in Structures \ H, IsVertical(u) PROVE Net(u) = 0
    OBVIOUS
  <2>1. Recovered[u] = <<>>
    BY DEF HistorySpreads
  <2>2. Len(Recovered[u]) = 0
    BY <2>1
  <2> QED
    BY <2>2, PlainCounts
<1>5. IsFiniteSet(Structures) /\ IsFiniteSet(C) /\ \A u \in Structures : IsFiniteSet(u)
  <2>1. ASSUME NEW u \in Structures PROVE IsFiniteSet(u)
    <3>1. PICK a \in u, b \in u : u = {a, b}
      BY BasisAssumption
    <3>2. IsFiniteSet({a}) /\ {a} \cup {b} = {a, b}
      BY FS_Singleton
    <3> QED
      BY <3>1, <3>2, FS_AddElement
  <2> QED
    BY <1>1, <2>1, StructuresFinite, FS_Subset
<1> DEFINE Bad == {u \in C : Excess(u) > 0}
<1> SUFFICES ASSUME s \in Bad PROVE FALSE
  BY <1>1, <1>3 DEF Excess
<1> HIDE DEF H, C
<1>6. PICK c \in UNION Bad : \A d \in UNION Bad : Rank(d) <= Rank(c)
  <2> DEFINE T == UNION Bad
             f == [d \in T |-> Rank(d)]
  <2>1. Bad \subseteq Structures /\ IsFiniteSet(Bad) /\ \A u \in Bad : IsFiniteSet(u)
    BY <1>1, <1>5, FS_Subset
  <2>2. IsFiniteSet(T)
    BY <2>1, FS_UNION
  <2>3. T # {}
    BY <1>1, BasisAssumption
  <2>4. \A d \in T : f[d] = Rank(d) /\ f[d] \in Int
    BY <1>1, <1>2, LongLegFirst
  <2> HIDE DEF T, f
  <2>5. \E x \in T : \A y \in T : f[y] <= f[x]
    BY <2>2, <2>3, <2>4, Greatest
  <2> QED
    BY <2>4, <2>5 DEF T
<1>7. PICK w \in Bad : c \in w
  OBVIOUS
<1>8. \A u \in Bad : c \in u => Side(u, c) = -1
  <2> SUFFICES ASSUME NEW u \in Bad, c \in u, c = LongLeg(u) PROVE FALSE
    BY <1>2 DEF Side
  <2>1. u \in Structures /\ IsVertical(u)
    BY <1>1, <1>2
  <2>2. PICK d \in u : Rank(d) > Rank(c)
    BY <2>1, LongLegFirst
  <2>3. Rank(d) <= Rank(c) /\ Rank(c) \in Int /\ Rank(d) \in Int
    BY <1>6, <2>1, <2>2, LongLegFirst
  <2> QED
    BY <2>2, <2>3
<1> DEFINE f == [u \in Structures |-> Net(u) * Side(u, c)]
           g == [u \in C |-> Len(Recovered[u]) * Side(u, c)]
           e == [u \in Structures |-> IF u \in C THEN g[u] ELSE 0]
           h == [u \in Structures |-> e[u] - f[u]]
<1>9. Position(c) = SumFunctionOnSet(g, C) /\ Position(c) = SumFunctionOnSet(f, Structures)
  BY <1>1, <1>7, PositionIsHeld
<1>10. ASSUME NEW u \in Structures
       PROVE  /\ f[u] \in Int /\ e[u] \in Int /\ (u \in C => g[u] = e[u])
              /\ h[u] \in Int /\ h[u] <= 0 /\ e[u] = f[u] + h[u]
              /\ u = w => h[u] < 0
  <2> DEFINE n == Net(u)  r == Len(Recovered[u])
  <2>1. n \in Int /\ r \in Int /\ 0 <= n /\ Excess(u) = r - n /\ r - n >= 0
    BY <1>3 DEF Excess
  <2>2. f[u] = n * Side(u, c) /\ e[u] = IF u \in C THEN r * Side(u, c) ELSE 0
    OBVIOUS
  <2>3. h[u] = e[u] - f[u] /\ (u \in C => g[u] = e[u])
    OBVIOUS
  <2>4. c \notin u => Side(u, c) = 0
    BY DEF Side
  <2>5. u \notin C /\ c \in u => n = 0 \/ Side(u, c) = 1
    <3>1. u \notin C /\ c \in u => u \notin H
      BY <1>1, <1>7
    <3> QED
      BY <1>4, <3>1 DEF Side
  <2>6. u \in C => u \in Bad \/ r = n
    BY <2>1
  <2>7. u = w => u \in C /\ u \in Bad /\ c \in u /\ r - n > 0
    BY <1>7, <2>1
  <2>8. Side(u, c) = -1 \/ Side(u, c) = 0 \/ Side(u, c) = 1
    BY SideType
  <2>9. u \in Bad /\ c \in u => Side(u, c) = -1
    BY <1>8
  <2> HIDE DEF n, r, Bad, e, f, g, h
  <2>10. f[u] \in Int /\ e[u] \in Int
    BY <2>1, <2>2, <2>8
  <2>11. h[u] <= 0 /\ (u = w => h[u] < 0)
    <3>1. CASE Side(u, c) = 0
      BY <2>1, <2>2, <2>3, <2>7, <2>9, <3>1
    <3>2. CASE Side(u, c) = -1
      BY <2>1, <2>2, <2>3, <2>4, <2>5, <2>6, <2>7, <3>2
    <3>3. CASE Side(u, c) = 1
      BY <2>1, <2>2, <2>3, <2>4, <2>5, <2>6, <2>7, <2>9, <3>3
    <3> QED
      BY <2>8, <3>1, <3>2, <3>3
  <2> QED
    BY <2>3, <2>10, <2>11
<1>11. \A u \in Structures \ C : e[u] = 0
  OBVIOUS
<1>12. w \in Structures
  BY <1>1
<1> HIDE DEF e, f, g, h
<1>13. SumFunctionOnSet(e, Structures) = SumFunctionOnSet(e, C)
  BY <1>1, <1>5, <1>10, <1>11, SumSubset
<1>14. SumFunctionOnSet(g, C) = SumFunctionOnSet(e, C)
  BY <1>1, <1>5, <1>10, SumEqual
<1>15. SumFunctionOnSet(e, Structures) =
         SumFunctionOnSet(f, Structures) + SumFunctionOnSet(h, Structures)
  BY <1>5, <1>10, SumAdd
<1>16. SumFunctionOnSet(h, Structures) < 0
  BY <1>5, <1>10, <1>12, SumNegative
<1>17. /\ SumFunctionOnSet(f, Structures) \in Int
       /\ SumFunctionOnSet(h, Structures) \in Int
  BY <1>5, <1>10, SumLaws
<1> DEFINE F == SumFunctionOnSet(f, Structures)
           E == SumFunctionOnSet(h, Structures)
<1>18. F \in Int /\ E \in Int /\ E < 0
  BY <1>16, <1>17
<1>19. F = F + E
  BY <1>9, <1>13, <1>14, <1>15, Zenon
<1> HIDE DEF F, E
<1> QED
  BY <1>18, <1>19

LEMMA ManagedHeld ==
  ASSUME BasisTypes, Plain => Covered
  PROVE  ManagedIsHeld
<1>1. ASSUME NEW s \in ManagedSpreads, OwnLeg(s) \/ Plain PROVE HeldAsManaged(s)
  <2>1. CASE OwnLeg(s)
    BY <2>1, OwnLegHeld
  <2>2. CASE Plain
    <3>1. s \in Structures /\ Net(s) = Len(Recovered[s])
      BY <2>2, ManagedMatches, PlainManagedCounts
    <3> QED
      BY <3>1, HeldLots DEF HeldAsManaged
  <2> QED
    BY <1>1, <2>1, <2>2
<1> QED
  BY <1>1 DEF HeldAsManaged, ManagedIsHeld

LEMMA SettledMatches ==
  ASSUME BasisTypes, Settled, Covered, NEW s \in HistorySpreads(Recovered)
  PROVE  Matches(Positions, Recovered, Component(HistorySpreads(Recovered), s))
<1> DEFINE H == HistorySpreads(Recovered)
           C == Component(H, s)
<1>1. /\ \A u \in Structures : Len(Recovered[u]) = Net(u) /\ Recovered[u] \in Seq(Nat)
      /\ \A u \in Structures : Len(Recovered[u]) # 0 => IsVertical(u)
  BY SettledCounts, RecoveredAreNewest
<1>2. /\ H \subseteq Structures
      /\ \A u \in Structures : Len(Recovered[u]) # 0 => u \in H
  <2>1. ASSUME NEW u \in Structures, Len(Recovered[u]) # 0 PROVE Recovered[u] # <<>>
    <3> SUFFICES ASSUME Recovered[u] = <<>> PROVE FALSE
      OBVIOUS
    <3> QED
      BY <2>1
  <2> QED
    BY <1>1, <2>1 DEF HistorySpreads
<1>3. C \subseteq H /\ \A w \in C, u \in H : w \cap u # {} => u \in C
  BY ComponentLaws
<1>0. \A c \in UNION C : Positions[c] = Position(c)
  <2>1. UNION C \subseteq Contracts
    <3> HIDE DEF C
    <3> QED
      BY <1>2, <1>3 DEF Contracts
  <2> QED
    BY <2>1 DEF Positions
<1> SUFFICES ASSUME NEW c \in UNION C PROVE Position(c) = Predicted(Recovered, C, c)
  BY <1>0 DEF Matches
<1> DEFINE f == [u \in Structures |-> Net(u) * Side(u, c)]
           g == [u \in C |-> Len(Recovered[u]) * Side(u, c)]
<1>4. \A u \in Structures : Net(u) \in Int /\ f[u] = Net(u) * Side(u, c) /\ f[u] \in Int
  BY NetType, SideTimes
<1>5. ASSUME NEW u \in Structures \ C PROVE f[u] = 0
  <2>1. CASE Net(u) = 0
    BY <1>4, <2>1, SideTimes
  <2>2. CASE c \notin u
    <3>1. Side(u, c) = 0
      BY <2>2 DEF Side
    <3> QED
      BY <1>4, <3>1
  <2>3. CASE Net(u) # 0 /\ c \in u
    <3>1. u \in H
      BY <2>3, <1>1, <1>2
    <3>2. PICK w \in C : c \in w
      OBVIOUS
    <3>3. w \cap u # {}
      BY <2>3, <3>2
    <3> QED
      BY <1>3, <3>1, <3>2, <3>3
  <2> QED
    BY <2>1, <2>2, <2>3
<1>6. \A u \in C : g[u] = f[u] /\ f[u] \in Int
  <2> HIDE DEF C
  <2> QED
    BY <1>1, <1>2, <1>3, <1>4
<1>7. C \subseteq Structures /\ IsFiniteSet(Structures) /\ IsFiniteSet(C)
  BY <1>2, <1>3, StructuresFinite, FS_Subset
<1>8. Position(c) = SumFunctionOnSet(f, Structures)
  BY PositionIsHeld
<1>9. Predicted(Recovered, C, c) = SumFunctionOnSet(g, C)
  <2>1. Predicted(Recovered, C, c) = SumFunction(g)
    BY DEF Predicted
  <2>2. DOMAIN g = C
    OBVIOUS
  <2> HIDE DEF g
  <2> QED
    BY <2>1, <2>2, SumOfFunction
<1> HIDE DEF f, g, C
<1>10. SumFunctionOnSet(f, Structures) = SumFunctionOnSet(f, C)
  BY <1>4, <1>5, <1>7, SumSubset
<1>11. SumFunctionOnSet(g, C) = SumFunctionOnSet(f, C)
  BY <1>6, <1>7, SumEqual
<1> QED
  BY <1>8, <1>9, <1>10, <1>11

LEMMA SettledManaged ==
  ASSUME BasisTypes, Settled, Covered
  PROVE  {s \in Structures : TrueLots(s) # <<>>} \subseteq ManagedSpreads
<1> SUFFICES ASSUME NEW s \in Structures, TrueLots(s) # <<>>
             PROVE  s \in ManagedSpreads
  OBVIOUS
<1>1. /\ Len(Recovered[s]) = Net(s) /\ Recovered[s] \in Seq(Nat)
      /\ Len(Recovered[s]) # 0 => IsVertical(s)
  BY SettledCounts, RecoveredAreNewest
<1>2. Len(Recovered[s]) = Len(TrueLots(s)) /\ TrueLots(s) \in Seq(Nat)
  BY <1>1, HeldLots
<1>3. Len(Recovered[s]) # 0
  <2> DEFINE T == TrueLots(s)
  <2>1. T \in Seq(Nat) /\ T # <<>>
    BY <1>2
  <2> HIDE DEF T
  <2>2. Len(T) # 0
    BY <2>1
  <2> QED
    BY <1>2, <2>2 DEF T
<1>4. Recovered[s] # <<>>
  <2> SUFFICES ASSUME Recovered[s] = <<>> PROVE FALSE
    OBVIOUS
  <2> QED
    BY <1>3
<1>5. s \in HistorySpreads(Recovered)
  BY <1>1, <1>3, <1>4 DEF HistorySpreads
<1> QED
  BY <1>5, SettledMatches DEF ManagedSpreads, ManagedIn

-----------------------------------------------------------------------------
(* Every step submits one order, changes an open one, or reads.             *)

Stages == {"positions", "orders", "history", "submit"}

ReadTypes ==
  /\ reading.at \in Stages
  /\ reading.at = "submit" => reading.s \in Structures /\ reading.qty \in Nat \ {0}

Submits(o) ==
  /\ Coherent(o) /\ log' = Append(log, o)
  /\ \/ o.purpose = "entry" /\ UNCHANGED reading
     \/ o.purpose = "exit" /\ ~o.mleg /\ ~o.open /\ UNCHANGED reading
     \/ /\ o.purpose = "exit" /\ reading.at = "submit"
        /\ o.s = reading.s /\ o.qty = reading.qty /\ reading' = NoReading

Changes(i, o) ==
  /\ Coherent(o) /\ log[i].open /\ log' = [log EXCEPT ![i] = o]
  /\ SameOrder(o, log[i]) /\ o.filled >= log[i].filled /\ UNCHANGED reading

Reads == ReadPositions \/ ReadOrders \/ ReadHistory \/ EndCycle

LEMMA BasisStep ==
  ASSUME BasisTypes, ReadTypes, BasisNext
  PROVE  \/ \E o \in Orders : Submits(o)
         \/ \E i \in Indices : \E o \in Orders : Changes(i, o)
         \/ Reads
<1>1. CASE \E s \in Structures, clear \in BOOLEAN : Enter(s, clear)
  <2>1. PICK s \in Structures, clear \in BOOLEAN : Enter(s, clear)
    BY <1>1
  <2> DEFINE o == Order(s, "entry", 1, clear)
  <2>2. o \in Orders /\ Coherent(o)
    BY OrderIs
  <2>3. log' = Append(log, o) /\ o.purpose = "entry" /\ UNCHANGED reading
    BY <2>1 DEF Enter, SubmitOrder, Order
  <2> HIDE DEF o
  <2> QED
    BY <2>2, <2>3 DEF Submits
<1>2. CASE \E clear \in BOOLEAN : SendExit(clear)
  <2>1. PICK clear \in BOOLEAN : SendExit(clear)
    BY <1>2
  <2> DEFINE s == reading.s
             q == reading.qty
             o == Order(s, "exit", q, clear)
  <2>2. s \in Structures /\ q \in Nat /\ q > 0
    BY <2>1 DEF SendExit, ReadTypes
  <2>3. o \in Orders /\ Coherent(o)
    <3> HIDE DEF q, s
    <3> QED
      BY <2>2, OrderIs
  <2>4. /\ log' = Append(log, o) /\ o.purpose = "exit" /\ o.s = s /\ o.qty = q
        /\ reading.at = "submit" /\ reading' = NoReading
    BY <2>1 DEF SendExit, SubmitOrder, Order
  <2> HIDE DEF o
  <2> QED
    BY <2>3, <2>4 DEF Submits
<1>3. CASE \E s \in Structures : CloseByLegs(s)
  <2>1. PICK s \in Structures : CloseByLegs(s)
    BY <1>3
  <2> DEFINE o == LegsClosed(Order(s, "exit", 1, TRUE))
  <2> DEFINE x == Order(s, "exit", 1, TRUE)
  <2>2. x \in Orders /\ x.purpose = "exit" /\ x.qty = 1
    BY BasisAssumption DEF Order, Orders, Shows
  <2>3. o \in Orders /\ Coherent(o) /\ ~o.mleg /\ ~o.open /\ o.purpose = "exit"
    <3> HIDE DEF x
    <3> QED
      BY <2>2, LegsClosedIs DEF x
  <2>4. log' = Append(log, o) /\ UNCHANGED reading
    BY <2>1 DEF CloseByLegs, LegsClosed
  <2> HIDE DEF o
  <2> QED
    BY <2>3, <2>4 DEF Submits
<1>0. \A i \in Indices : /\ log[i] \in Orders /\ Coherent(log[i]) /\ log[i].filled \in Nat
                         /\ log[i].purpose = "entry" /\ log[i].open => log[i].filled = 0
  BY OrderTypes DEF Indices, Coherent
<1>4. CASE \E i \in Indices, p \in Prices, shows \in Shows : FillEntry(i, p, shows)
  <2>1. PICK i \in Indices, p \in Prices, shows \in Shows : FillEntry(i, p, shows)
    BY <1>4
  <2> DEFINE o == EntryFilled(log[i], p, shows)
  <2>2. log[i].open /\ log[i].purpose = "entry" /\ log' = [log EXCEPT ![i] = o] /\ UNCHANGED reading
    BY <2>1 DEF FillEntry, EntryFilled
  <2>3. o \in Orders /\ Coherent(o) /\ o.filled = 1 /\ SameOrder(o, log[i])
    BY <1>0, <2>2, EntryFilledIs
  <2> HIDE DEF o
  <2>4. o.filled >= log[i].filled
    BY <1>0, <2>2, <2>3
  <2> QED
    BY <2>2, <2>3, <2>4 DEF Changes
<1>5. CASE \E i \in Indices : FillExitOrder(i)
  <2>1. PICK i \in Indices : FillExitOrder(i)
    BY <1>5
  <2> DEFINE o == ExitFilled(log[i])
  <2>2. log[i].open /\ log[i].purpose = "exit" /\ log' = [log EXCEPT ![i] = o] /\ UNCHANGED reading
    BY <2>1 DEF FillExitOrder, ExitFilled
  <2>3. o \in Orders /\ Coherent(o) /\ o.filled = log[i].filled + 1 /\ SameOrder(o, log[i])
    BY <1>0, <2>2, ExitFilledIs
  <2> HIDE DEF o
  <2>4. o.filled >= log[i].filled
    BY <1>0, <2>3
  <2> QED
    BY <2>2, <2>3, <2>4 DEF Changes
<1>6. CASE \E i \in Indices : Close(i)
  <2>1. PICK i \in Indices : Close(i)
    BY <1>6
  <2> DEFINE o == OrderClosed(log[i])
  <2>2. log[i].open /\ log' = [log EXCEPT ![i] = o] /\ UNCHANGED reading
    BY <2>1 DEF Close, OrderClosed
  <2>3. o \in Orders /\ Coherent(o) /\ o.filled = log[i].filled /\ SameOrder(o, log[i])
    BY <1>0, <2>2, OrderClosedIs
  <2> HIDE DEF o
  <2>4. o.filled >= log[i].filled
    BY <1>0, <2>3
  <2> QED
    BY <2>2, <2>3, <2>4 DEF Changes
<1> QED
  BY <1>1, <1>2, <1>3, <1>4, <1>5, <1>6 DEF BasisNext, Reads

LEMMA ReadsTypes ==
  ASSUME BasisTypes, ReadTypes, Reads
  PROVE  ReadTypes' /\ UNCHANGED log
<1>1. CASE ReadPositions
  BY <1>1 DEF ReadPositions, ReadTypes, NoReading, Stages
<1>2. CASE ReadOrders
  BY <1>2 DEF ReadOrders, ReadTypes, NoReading, Stages
<1>3. CASE ReadHistory
  <2>1. PICK s \in ManagedIn(reading.held, Recovered) :
          reading' = [NoReading EXCEPT !.at = "submit", !.s = s, !.qty = Len(Recovered[s])]
    BY <1>3 DEF ReadHistory
  <2> DEFINE q == Len(Recovered[s])
  <2>2. s \in Structures /\ q \in Nat \ {0}
    BY ExitQuantity
  <2>3. reading' = [NoReading EXCEPT !.at = "submit", !.s = s, !.qty = q]
    BY <2>1
  <2> HIDE DEF q
  <2>4. ReadTypes'
    BY <2>2, <2>3 DEF ReadTypes, NoReading, Stages
  <2> QED
    BY <1>3, <2>4 DEF ReadHistory
<1>4. CASE EndCycle
  BY <1>4 DEF EndCycle, ReadTypes, NoReading, Stages
<1> QED
  BY <1>1, <1>2, <1>3, <1>4 DEF Reads

(* The orders of the account are of the kinds the code sends, each with its *)
(* fills within its quantity, and the exit about to be sent is for a spread *)
(* and at least one contract.                                              *)
THEOREM AccountTypes == BasisSpec => [](BasisTypes /\ ReadTypes)
<1>1. BasisInit => BasisTypes /\ ReadTypes
  BY DEF BasisInit, BasisTypes, Indices, ReadTypes, NoReading, Stages
<1>2. BasisTypes /\ ReadTypes /\ [BasisNext]_basisVars => BasisTypes' /\ ReadTypes'
  <2> SUFFICES ASSUME BasisTypes, ReadTypes, [BasisNext]_basisVars
               PROVE  BasisTypes' /\ ReadTypes'
    OBVIOUS
  <2>1. CASE \E o \in Orders : Submits(o)
    BY <2>1, AppendKeepsTypes DEF Submits, ReadTypes, NoReading, Stages
  <2>2. CASE \E i \in Indices : \E o \in Orders : Changes(i, o)
    BY <2>2, UpdateKeepsTypes DEF Changes, ReadTypes
  <2>3. CASE Reads
    <3>1. ReadTypes' /\ UNCHANGED log
      BY <2>3, ReadsTypes
    <3> QED
      BY <3>1 DEF BasisTypes, Indices
  <2>4. CASE UNCHANGED basisVars
    BY <2>4 DEF basisVars, BasisTypes, Indices, ReadTypes
  <2> QED
    BY <2>1, <2>2, <2>3, <2>4, BasisStep
<1> QED
  BY <1>1, <1>2, PTL DEF BasisSpec

-----------------------------------------------------------------------------
(* What was read stays true of what an exit needs, until it is sent.        *)

LEMMA SumMonotone ==
  ASSUME NEW n \in Nat, NEW f, NEW g,
         \A k \in 1..n : f[k] \in Int /\ g[k] \in Int /\ f[k] <= g[k]
  PROVE  \A k \in 0..n : /\ SumFunctionOnSet(f, 1..k) \in Int
                         /\ SumFunctionOnSet(g, 1..k) \in Int
                         /\ SumFunctionOnSet(f, 1..k) <= SumFunctionOnSet(g, 1..k)
<1> DEFINE F(k) == SumFunctionOnSet(f, 1..k)
           G(k) == SumFunctionOnSet(g, 1..k)
<1>1. /\ F(0) = 0 /\ G(0) = 0
      /\ \A k \in 0..n : F(k) \in Int /\ G(k) \in Int
      /\ \A k \in 1..n : F(k) = F(k - 1) + f[k] /\ G(k) = G(k - 1) + g[k]
  BY SumPrefix
<1> HIDE DEF F, G
<1> DEFINE Good == {k \in 0..n : F(k) <= G(k)}
<1>2. 0 \in Good
  BY <1>1
<1>3. \A k \in 1..n : k - 1 \in Good => k \in Good
  <2> SUFFICES ASSUME NEW k \in 1..n, k - 1 \in Good PROVE F(k) <= G(k)
    OBVIOUS
  <2>1. /\ F(k) = F(k - 1) + f[k] /\ G(k) = G(k - 1) + g[k] /\ F(k - 1) <= G(k - 1)
        /\ F(k - 1) \in Int /\ G(k - 1) \in Int /\ f[k] \in Int /\ g[k] \in Int /\ f[k] <= g[k]
    BY <1>1
  <2> QED
    BY <2>1
<1>4. 0..n \subseteq Good
  <2> HIDE DEF Good
  <2> QED
    BY <1>2, <1>3, PrefixInduction
<1>5. \A k \in 0..n : F(k) \in Int /\ G(k) \in Int /\ F(k) <= G(k)
  BY <1>1, <1>4
<1> QED
  BY <1>5 DEF F, G

CoverInv == Plain => Covered

NoExitOf(s) ==
  \A i \in Indices : log[i].s = s /\ log[i].purpose = "exit" => ~log[i].open

(* Spreads not seen to have an open exit get none before the cycle sends    *)
(* one, so what is left of a spread to be closed only grows.                *)
ReadInv ==
  /\ reading.at = "history" => \A s \in Structures \ reading.pending : NoExitOf(s)
  /\ reading.at = "submit" =>
       /\ NoExitOf(reading.s)
       /\ Plain => reading.qty <= NetIn(log, reading.s, Len(log))

(* Fills before an order only add to what it finds, unless they are exits.  *)
LEMMA NetGrows ==
  ASSUME NEW l, NEW m, NEW s, NEW n \in Nat, n <= Len(l), n <= Len(m),
         Len(l) \in Nat, Len(m) \in Nat,
         \A k \in 1..n : /\ Filled(l[k]) \in Int /\ Filled(m[k]) \in Int /\ m[k].s = l[k].s
                         /\ l[k].s = s => Filled(l[k]) <= Filled(m[k])
  PROVE  NetIn(l, s, n) \in Int /\ NetIn(m, s, n) \in Int /\ NetIn(l, s, n) <= NetIn(m, s, n)
<1> DEFINE f == NetTermsOf(l, s)  g == NetTermsOf(m, s)
<1>1. ASSUME NEW k \in 1..n PROVE f[k] \in Int /\ g[k] \in Int /\ f[k] <= g[k]
  <2>1. k \in 1..Len(l) /\ k \in 1..Len(m)
    OBVIOUS
  <2>2. /\ f[k] = IF l[k].s = s THEN Filled(l[k]) ELSE 0
        /\ g[k] = IF l[k].s = s THEN Filled(m[k]) ELSE 0
    BY <2>1 DEF NetTermsOf
  <2> HIDE DEF f, g
  <2> QED
    BY <2>2
<1> HIDE DEF f, g
<1>2. \A k \in 0..n : /\ SumFunctionOnSet(f, 1..k) \in Int
                      /\ SumFunctionOnSet(g, 1..k) \in Int
                      /\ SumFunctionOnSet(f, 1..k) <= SumFunctionOnSet(g, 1..k)
  BY <1>1, SumMonotone
<1>3. n \in 0..n
  OBVIOUS
<1> QED
  BY <1>2, <1>3 DEF NetIn, f, g

LEMMA PlainBefore ==
  ASSUME BasisTypes, NEW o \in Orders, Submits(o), Plain'
  PROVE  Plain
<1>1. /\ Len(log') = Len(log) + 1 /\ Len(log) \in Nat
      /\ \A i \in 1..Len(log) : log'[i] = log[i]
  BY AppendKeepsTypes, OrderTypes DEF Submits
<1> QED
  BY <1>1, LimitType DEF Plain, Indices

LEMMA PlainAtChange ==
  ASSUME BasisTypes, NEW i0 \in Indices, NEW o \in Orders, Changes(i0, o), Plain'
  PROVE  Plain
<1> DEFINE n == Len(log)
           m == log'
<1>1. /\ Len(m) = n /\ m[i0] = o /\ n \in Nat /\ i0 \in 1..n
      /\ \A j \in 1..n : j # i0 => m[j] = log[j]
  BY UpdateKeepsTypes, OrderTypes DEF Changes, Indices
<1>2. SameOrder(o, log[i0]) /\ log[i0].shows # "nothing"
  BY <1>1, OrderTypes DEF Changes, Coherent
<1>3. ASSUME NEW j \in 1..n PROVE log[j].mleg /\ log[j].clear /\ log[j].shows # "nothing"
  <2>1. m[j].mleg /\ m[j].clear /\ m[j].shows # "nothing"
    BY <1>1 DEF Plain, Indices, m
  <2> HIDE DEF m
  <2> QED
    BY <1>1, <1>2, <2>1 DEF SameOrder
<1> QED
  BY <1>1, <1>3 DEF Plain, Indices

LEMMA SubmitKeepsCover ==
  ASSUME BasisTypes, ReadTypes, ReadInv, CoverInv, NEW o \in Orders, Submits(o)
  PROVE  CoverInv'
<1> SUFFICES ASSUME Plain' PROVE CoveredIn(log')
  BY DEF CoverInv, Covered
<1> DEFINE n == Len(log)
           m == log'
<1>1. /\ Len(m) = n + 1 /\ m[n + 1] = o /\ n \in Nat
      /\ \A i \in 1..n : m[i] = log[i]
  BY AppendKeepsTypes, OrderTypes DEF Submits
<1>2. Plain /\ CoveredIn(log)
  <2>1. Plain
    BY PlainBefore
  <2> QED
    BY <2>1 DEF CoverInv, Covered
<1>3. \A k \in 1..n : Filled(log[k]) \in Int /\ log[k].qty \in Nat
  BY TermTypes, OrderTypes
<1> HIDE DEF m
<1>4. ASSUME NEW s, NEW k \in 0..n
      PROVE  NetIn(log, s, k) \in Int /\ NetIn(m, s, k) \in Int /\ NetIn(log, s, k) <= NetIn(m, s, k)
  <2>1. \A j \in 1..k : /\ Filled(log[j]) \in Int /\ Filled(m[j]) \in Int /\ m[j].s = log[j].s
                        /\ log[j].s = s => Filled(log[j]) <= Filled(m[j])
    BY <1>1, <1>3
  <2>2. k \in Nat /\ k <= Len(log) /\ k <= Len(m) /\ Len(log) \in Nat /\ Len(m) \in Nat
    BY <1>1
  <2> QED
    BY <2>1, <2>2, NetGrows
<1>5. ASSUME NEW i \in 1..n, m[i].purpose = "exit"
      PROVE  /\ m[i].qty <= NetIn(m, m[i].s, i - 1)
             /\ \A j \in 1..(i - 1) : m[j].s = m[i].s /\ m[j].purpose = "exit" => ~m[j].open
  <2>1. i - 1 \in 0..n /\ m[i] = log[i] /\ \A j \in 1..(i - 1) : m[j] = log[j]
    BY <1>1
  <2>2. /\ log[i].qty <= NetIn(log, log[i].s, i - 1) /\ log[i].qty \in Nat
        /\ \A j \in 1..(i - 1) :
             log[j].s = log[i].s /\ log[j].purpose = "exit" => ~log[j].open
    BY <1>2, <1>3, <1>5, <2>1 DEF CoveredIn
  <2> DEFINE a == NetIn(log, log[i].s, i - 1)  b == NetIn(m, log[i].s, i - 1)
  <2>3. a \in Int /\ b \in Int /\ a <= b
    BY <1>4, <2>1
  <2>4. log[i].qty <= b
    <3>1. log[i].qty <= a /\ log[i].qty \in Nat
      BY <2>2
    <3> HIDE DEF a, b
    <3> QED
      BY <2>3, <3>1
  <2> QED
    BY <2>1, <2>2, <2>4
<1>6. ASSUME o.purpose = "exit"
      PROVE  /\ o.qty <= NetIn(m, o.s, n)
             /\ \A j \in 1..n : m[j].s = o.s /\ m[j].purpose = "exit" => ~m[j].open
  <2>1. o.mleg
    <3>1. n + 1 \in 1..Len(m)
      BY <1>1
    <3> QED
      BY <1>1, <3>1 DEF Plain, Indices, m
  <2>2. /\ o.s = reading.s /\ o.qty = reading.qty /\ reading.at = "submit"
        /\ \A i \in Indices : log[i].s = o.s /\ log[i].purpose = "exit" => ~log[i].open
    BY <1>6, <2>1 DEF Submits, ReadInv, NoExitOf
  <2>4. o.qty \in Nat /\ o.qty <= NetIn(log, o.s, n)
    BY <1>2, <2>2 DEF ReadInv, ReadTypes
  <2>5. n \in 0..n
    BY <1>1
  <2> DEFINE a == NetIn(log, o.s, n)  b == NetIn(m, o.s, n)
  <2>6. a \in Int /\ b \in Int /\ a <= b
    BY <1>4, <2>5
  <2>8. o.qty <= b
    <3>1. o.qty <= a /\ o.qty \in Nat
      BY <2>4
    <3> HIDE DEF a, b
    <3> QED
      BY <2>6, <3>1
  <2>7. \A j \in 1..n : m[j] = log[j] /\ j \in Indices
    BY <1>1 DEF Indices
  <2> QED
    BY <2>2, <2>7, <2>8
<1>7. ASSUME NEW i \in 1..(n + 1), m[i].purpose = "exit"
      PROVE  /\ m[i].qty <= NetIn(m, m[i].s, i - 1)
             /\ \A j \in 1..(i - 1) : m[j].s = m[i].s /\ m[j].purpose = "exit" => ~m[j].open
  <2>1. CASE i \in 1..n
    BY <1>5, <1>7, <2>1
  <2>2. CASE i = n + 1
    <3>1. i - 1 = n /\ m[i] = o
      BY <1>1, <2>2
    <3> QED
      BY <1>6, <1>7, <3>1
  <2> QED
    BY <1>1, <2>1, <2>2
<1>8. CoveredIn(m)
  BY <1>1, <1>7 DEF CoveredIn
<1> QED
  BY <1>8 DEF m

LEMMA ChangeKeepsCover ==
  ASSUME BasisTypes, CoverInv, NEW i0 \in Indices, NEW o \in Orders, Changes(i0, o)
  PROVE  CoverInv'
<1> SUFFICES ASSUME Plain' PROVE CoveredIn(log')
  BY DEF CoverInv, Covered
<1> DEFINE n == Len(log)
           m == log'
<1>1. /\ Len(m) = n /\ m[i0] = o /\ n \in Nat /\ i0 \in 1..n
      /\ \A j \in 1..n : j # i0 => m[j] = log[j]
  BY UpdateKeepsTypes, OrderTypes DEF Changes, Indices
<1>2. /\ log[i0].open /\ SameOrder(o, log[i0]) /\ o.filled >= log[i0].filled
      /\ o.filled \in Nat /\ log[i0].filled \in Nat /\ log[i0].shows # "nothing"
      /\ o.purpose \in {"entry", "exit"}
  BY <1>1, OrderTypes DEF Changes, Orders, Coherent
<1>3. Plain /\ CoveredIn(log)
  <2>2. Plain
    BY PlainAtChange
  <2> QED
    BY <2>2 DEF CoverInv, Covered
<1>4. \A k \in 1..n : /\ Filled(log[k]) \in Int /\ log[k].qty \in Nat
                      /\ log[k].purpose \in {"entry", "exit"}
  BY TermTypes, OrderTypes
<1> HIDE DEF m
<1>5. \A k \in 1..n : m[k].s = log[k].s /\ m[k].purpose = log[k].purpose
                      /\ m[k].qty = log[k].qty /\ (m[k].open => log[k].open)
  BY <1>1, <1>2 DEF SameOrder
<1>6. ASSUME NEW k \in 1..n, ~ (k = i0 /\ o.purpose = "exit")
      PROVE  Filled(m[k]) \in Int /\ Filled(log[k]) <= Filled(m[k])
  <2>1. CASE k # i0
    BY <1>1, <1>4, <2>1
  <2>2. CASE k = i0
    <3>1. m[k] = o /\ o.purpose = "entry" /\ log[k].purpose = "entry"
      BY <1>1, <1>2, <1>6, <2>2 DEF SameOrder
    <3>2. Filled(m[k]) = o.filled /\ Filled(log[k]) = log[k].filled
      BY <3>1 DEF Filled
    <3> QED
      BY <1>2, <2>2, <3>2
  <2> QED
    BY <2>1, <2>2
<1>7. ASSUME NEW i \in 1..n, m[i].purpose = "exit"
      PROVE  /\ m[i].qty <= NetIn(m, m[i].s, i - 1)
             /\ \A j \in 1..(i - 1) : m[j].s = m[i].s /\ m[j].purpose = "exit" => ~m[j].open
  <2> DEFINE s == log[i].s
  <2>1. /\ log[i].qty <= NetIn(log, s, i - 1) /\ log[i].qty \in Nat
        /\ \A j \in 1..(i - 1) : log[j].s = s /\ log[j].purpose = "exit" => ~log[j].open
    BY <1>1, <1>3, <1>4, <1>5, <1>7 DEF CoveredIn
  <2>2. i - 1 \in Nat /\ i - 1 <= n /\ 1..(i - 1) \subseteq 1..n
    BY <1>1
  <2>3. ASSUME NEW k \in 1..(i - 1)
        PROVE  /\ Filled(log[k]) \in Int /\ Filled(m[k]) \in Int /\ m[k].s = log[k].s
               /\ log[k].s = s => Filled(log[k]) <= Filled(m[k])
    <3>1. k \in 1..n
      BY <2>2
    <3>2. Filled(m[k]) \in Int
      <4>1. m \in Seq(Orders) /\ k \in 1..Len(m)
        <5>1. m \in Seq(Orders)
          BY UpdateKeepsTypes DEF Changes, BasisTypes, m
        <5> QED
          BY <3>1, <1>1, <5>1
      <4>2. m[k] \in Orders
        BY <4>1
      <4>3. m[k].filled \in Nat
        BY <4>2 DEF Orders
      <4> QED
        BY <4>3 DEF Filled
    <3>3. log[k].s = s => ~ (k = i0 /\ o.purpose = "exit")
      BY <1>2, <2>1 DEF SameOrder
    <3> QED
      BY <1>4, <1>5, <1>6, <3>1, <3>2, <3>3
  <2> DEFINE a == NetIn(log, s, i - 1)  b == NetIn(m, s, i - 1)
  <2>4. a \in Int /\ b \in Int /\ a <= b
    <3> HIDE DEF s
    <3> QED
      BY <1>1, <2>2, <2>3, NetGrows
  <2>5. log[i].qty <= b
    <3>1. log[i].qty <= a /\ log[i].qty \in Nat
      BY <2>1
    <3> HIDE DEF a, b
    <3> QED
      BY <2>4, <3>1
  <2>6. m[i].s = s /\ m[i].qty = log[i].qty
    BY <1>5
  <2>7. \A j \in 1..(i - 1) : m[j].s = m[i].s /\ m[j].purpose = "exit" => ~m[j].open
    BY <1>5, <2>1, <2>2, <2>6
  <2> QED
    BY <2>5, <2>6, <2>7
<1>8. CoveredIn(m)
  BY <1>1, <1>7 DEF CoveredIn
<1> QED
  BY <1>8 DEF m

(* A submitted order leaves what was read in place, or ends the cycle.      *)
LEMMA SubmitKeepsRead ==
  ASSUME BasisTypes, ReadTypes, ReadInv, NEW o \in Orders, Submits(o)
  PROVE  ReadInv'
<1>1. /\ Len(log') = Len(log) + 1 /\ log'[Len(log) + 1] = o /\ Len(log) \in Nat
      /\ \A i \in 1..Len(log) : log'[i] = log[i]
  BY AppendKeepsTypes, OrderTypes DEF Submits
<1>2. CASE reading' = NoReading
  BY <1>2 DEF ReadInv, NoReading
<1>3. CASE UNCHANGED reading /\ (o.purpose = "exit" => ~o.mleg /\ ~o.open)
  <2>1. ASSUME NEW s, NoExitOf(s) PROVE NoExitOf(s)'
    BY <1>1, <1>3, <2>1 DEF NoExitOf, Indices
  <2>2. ASSUME NEW s, Plain'
        PROVE  /\ Plain
               /\ NetIn(log, s, Len(log)) \in Int /\ NetIn(log', s, Len(log')) \in Int
               /\ NetIn(log, s, Len(log)) <= NetIn(log', s, Len(log'))
    <3> DEFINE n == Len(log)
               m == log'
               f == NetTermsOf(m, s)
               a == NetIn(log, s, n)
               b == NetIn(m, s, n)
               c == NetIn(m, s, n + 1)
    <3>1. Plain
      BY <2>2, PlainBefore
    <3>2. o.purpose = "entry" /\ o.filled \in Nat
      <4>1. n + 1 \in 1..Len(m)
        BY <1>1
      <4>2. o.mleg
        BY <1>1, <2>2, <4>1 DEF Plain, Indices, m
      <4> QED
        BY <1>3, <4>2 DEF Orders
    <3>3. \A k \in 1..n : Filled(log[k]) \in Int
      BY TermTypes
    <3> HIDE DEF m
    <3>4. \A k \in 1..n : /\ Filled(log[k]) \in Int /\ Filled(m[k]) \in Int /\ m[k].s = log[k].s
                          /\ log[k].s = s => Filled(log[k]) <= Filled(m[k])
      BY <1>1, <3>3 DEF m
    <3>5. a \in Int /\ b \in Int /\ a <= b
      BY <1>1, <3>4, NetGrows DEF m
    <3>6. /\ \A k \in 1..(n + 1) : f[k] \in Int
          /\ f[n + 1] >= 0
      <4>1. \A k \in 1..(n + 1) : f[k] = IF m[k].s = s THEN Filled(m[k]) ELSE 0
        BY <1>1 DEF NetTermsOf, m
      <4>2. m[n + 1] = o /\ Filled(o) = o.filled
        BY <1>1, <3>2 DEF Filled, m
      <4> HIDE DEF f
      <4> QED
        BY <1>1, <3>2, <3>4, <4>1, <4>2
    <3>7. c \in Int /\ c = b + f[n + 1]
      <4> HIDE DEF f
      <4>1. /\ \A k \in 0..(n + 1) : SumFunctionOnSet(f, 1..k) \in Int
            /\ \A k \in 1..(n + 1) :
                 SumFunctionOnSet(f, 1..k) = SumFunctionOnSet(f, 1..(k - 1)) + f[k]
        <5>1. n + 1 \in Nat
          BY <1>1
        <5> DEFINE w == n + 1
        <5>2. w \in Nat /\ \A k \in 1..w : f[k] \in Int
          BY <3>6, <5>1
        <5> HIDE DEF w
        <5>3. /\ \A k \in 0..w : SumFunctionOnSet(f, 1..k) \in Int
              /\ \A k \in 1..w :
                   SumFunctionOnSet(f, 1..k) = SumFunctionOnSet(f, 1..(k - 1)) + f[k]
          BY <5>2, SumPrefix
        <5> QED
          BY <5>3 DEF w
      <4>2. n + 1 \in 1..(n + 1) /\ n + 1 \in 0..(n + 1) /\ n + 1 - 1 = n
        BY <1>1
      <4> QED
        BY <4>1, <4>2 DEF NetIn, f
    <3>8. f[n + 1] \in Int
      BY <1>1, <3>6
    <3> DEFINE e == f[n + 1]
    <3>9. e \in Int /\ e >= 0 /\ c = b + e
      BY <3>6, <3>7, <3>8
    <3>10. a \in Int /\ c \in Int /\ a <= c
      <4> HIDE DEF a, b, c, e
      <4> QED
        BY <3>5, <3>7, <3>9
    <3>11. Len(m) = n + 1
      BY <1>1 DEF m
    <3> QED
      BY <3>1, <3>10, <3>11 DEF m
  <2> DEFINE a == NetIn(log, reading.s, Len(log))
             b == NetIn(log', reading.s, Len(log'))
  <2>3. ASSUME Plain', reading.at = "submit", reading.qty \in Nat PROVE reading.qty <= b
    <3>1. Plain /\ a \in Int /\ b \in Int /\ a <= b
      BY <2>2, <2>3
    <3>2. reading.qty <= a
      BY <2>3, <3>1 DEF ReadInv
    <3> HIDE DEF a, b
    <3> QED
      BY <2>3, <3>1, <3>2
  <2>4. reading.at = "submit" /\ Plain' => reading.qty <= b
    BY <2>3 DEF ReadTypes
  <2> QED
    BY <1>3, <2>1, <2>4 DEF ReadInv
<1> QED
  BY <1>2, <1>3 DEF Submits

(* Of a spread without an open exit only entries change.                    *)
LEMMA ChangeKeepsRead ==
  ASSUME BasisTypes, ReadTypes, ReadInv, NEW i0 \in Indices, NEW o \in Orders, Changes(i0, o)
  PROVE  ReadInv'
<1> DEFINE n == Len(log)
           m == log'
<1>1. /\ Len(m) = n /\ m[i0] = o /\ n \in Nat /\ i0 \in 1..n
      /\ \A j \in 1..n : j # i0 => m[j] = log[j]
  BY UpdateKeepsTypes, OrderTypes DEF Changes, Indices
<1>2. /\ log[i0].open /\ SameOrder(o, log[i0]) /\ o.filled >= log[i0].filled
      /\ o.filled \in Nat /\ log[i0].filled \in Nat /\ UNCHANGED reading
      /\ o.purpose \in {"entry", "exit"}
  BY <1>1, OrderTypes DEF Changes, Orders
<1>3. \A k \in 1..n : Filled(log[k]) \in Int
  BY TermTypes
<1> HIDE DEF m
<1>4. ASSUME NEW s, NoExitOf(s) PROVE NoExitOf(s)'
  BY <1>1, <1>2, <1>4 DEF NoExitOf, Indices, SameOrder, m
<1>5. ASSUME NEW s, NoExitOf(s)
      PROVE  NetIn(log, s, n) \in Int /\ NetIn(m, s, n) \in Int /\ NetIn(log, s, n) <= NetIn(m, s, n)
  <2>1. ASSUME NEW k \in 1..n
        PROVE  /\ Filled(log[k]) \in Int /\ Filled(m[k]) \in Int /\ m[k].s = log[k].s
               /\ log[k].s = s => Filled(log[k]) <= Filled(m[k])
    <3>1. CASE k # i0
      BY <1>1, <1>3, <3>1
    <3>2. CASE k = i0
      <4>1. m[k] = o /\ o.s = log[k].s /\ o.purpose = log[k].purpose
        BY <1>1, <1>2, <3>2 DEF SameOrder
      <4>2. Filled(m[k]) \in Int /\ (o.purpose = "entry" => Filled(log[k]) <= Filled(m[k]))
        BY <1>2, <3>2, <4>1 DEF Filled
      <4>3. log[k].s = s => log[k].purpose # "exit"
        BY <1>2, <1>5, <3>2 DEF NoExitOf
      <4> QED
        BY <1>2, <1>3, <4>1, <4>2, <4>3
    <3> QED
      BY <3>1, <3>2
  <2>2. n \in Nat /\ Len(log) = n /\ Len(m) = n /\ n <= n
    BY <1>1
  <2> QED
    BY <2>1, <2>2, NetGrows
<1>6. ASSUME Plain', reading.at = "submit"
      PROVE  reading.qty <= NetIn(m, reading.s, n)
  <2> DEFINE a == NetIn(log, reading.s, n)  b == NetIn(m, reading.s, n)
  <2>1. Plain /\ NoExitOf(reading.s) /\ reading.qty <= a /\ reading.qty \in Nat
    BY <1>6, PlainAtChange DEF ReadInv, ReadTypes
  <2>2. a \in Int /\ b \in Int /\ a <= b
    BY <1>5, <2>1
  <2> HIDE DEF a, b
  <2>3. reading.qty <= b
    BY <2>1, <2>2
  <2> QED
    BY <2>3 DEF b
<1> QED
  BY <1>1, <1>2, <1>4, <1>6 DEF ReadInv, m

(* The history shows of a spread without an open exit exactly what is left  *)
(* of it.                                                                  *)
LEMMA WithoutExit ==
  ASSUME BasisTypes, Plain, CoverInv, NEW s \in Structures, NoExitOf(s)
  PROVE  /\ Len(Recovered[s]) = NetIn(log, s, Len(log))
         /\ Len(Recovered[s]) = Len(TrueLots(s))
<1>1. \A i \in Indices : /\ log[i].purpose = "entry" /\ log[i].open => log[i].filled = 0
                         /\ log[i].purpose \in {"entry", "exit"}
  BY OrderTypes DEF Coherent, Indices, Orders
<1>2. Whole(s)
  BY <1>1 DEF Whole, NoExitOf
<1>3. Len(Recovered[s]) = Net(s)
  BY <1>2, PlainCounts DEF CoverInv
<1>4. Net(s) = NetIn(log, s, Len(log))
  BY NetSteps DEF NetTo
<1> QED
  BY <1>3, <1>4, HeldLots

LEMMA ReadsKeepRead ==
  ASSUME BasisTypes, ReadTypes, ReadInv, CoverInv, Reads
  PROVE  ReadInv'
<1>0. UNCHANGED log
  BY ReadsTypes
<1>1. CASE ReadPositions
  BY <1>1 DEF ReadPositions, ReadInv, NoReading
<1>2. CASE ReadOrders
  <2>1. reading'.at = "history" /\ reading'.pending = WithExit
    BY <1>2 DEF ReadOrders, NoReading
  <2>2. \A s \in Structures \ WithExit : NoExitOf(s)
    BY DEF WithExit, NoExitOf
  <2> QED
    BY <1>0, <2>1, <2>2 DEF ReadInv, NoExitOf, Indices
<1>3. CASE ReadHistory
  <2>1. PICK s \in ManagedIn(reading.held, Recovered) \ reading.pending :
          reading' = [NoReading EXCEPT !.at = "submit", !.s = s, !.qty = Len(Recovered[s])]
    BY <1>3 DEF ReadHistory
  <2> DEFINE q == Len(Recovered[s])
  <2>2. s \in Structures /\ NoExitOf(s)
    <3>1. s \in Structures
      BY <2>1, ExitQuantity
    <3> QED
      BY <1>3, <3>1 DEF ReadHistory, ReadInv
  <2>3. Plain => q = NetIn(log, s, Len(log)) /\ q \in Nat
    BY <2>1, <2>2, WithoutExit, ExitQuantity
  <2>4. reading'.at = "submit" /\ reading'.s = s /\ reading'.qty = q
    BY <2>1 DEF NoReading
  <2> HIDE DEF q
  <2> QED
    BY <1>0, <2>2, <2>3, <2>4 DEF ReadInv, NoExitOf, Indices, Plain
<1>4. CASE EndCycle
  BY <1>4 DEF EndCycle, ReadInv, NoReading
<1> QED
  BY <1>1, <1>2, <1>3, <1>4 DEF Reads

(* In a complete, clear history every exit was sent for contracts that the  *)
(* orders before it had left, one exit of a spread at a time: what the      *)
(* cycle read says so until it has sent.                                   *)
THEOREM ExitsAreCovered == BasisSpec => [](ReadInv /\ CoverInv)
<1>1. BasisInit => ReadInv /\ CoverInv
  BY DEF BasisInit, CoverInv, Covered, CoveredIn, ReadInv, NoReading
<1>2. BasisTypes /\ ReadTypes /\ ReadInv /\ CoverInv /\ [BasisNext]_basisVars
        => ReadInv' /\ CoverInv'
  <2> SUFFICES ASSUME BasisTypes, ReadTypes, ReadInv, CoverInv, [BasisNext]_basisVars
               PROVE  ReadInv' /\ CoverInv'
    OBVIOUS
  <2>1. CASE \E o \in Orders : Submits(o)
    BY <2>1, SubmitKeepsCover, SubmitKeepsRead
  <2>2. CASE \E i \in Indices : \E o \in Orders : Changes(i, o)
    BY <2>2, ChangeKeepsCover, ChangeKeepsRead
  <2>3. CASE Reads
    <3>1. ReadInv' /\ UNCHANGED log
      BY <2>3, ReadsKeepRead, ReadsTypes
    <3> QED
      BY <3>1 DEF CoverInv, Covered, Plain, Indices
  <2>4. CASE UNCHANGED basisVars
    BY <2>4 DEF basisVars, CoverInv, Covered, Plain, Indices, ReadInv, NoExitOf
  <2> QED
    BY <2>1, <2>2, <2>3, <2>4, BasisStep
<1> QED
  BY <1>1, <1>2, AccountTypes, PTL DEF BasisSpec

(* ManagedIsHeld of SpreadBasis, for every history and every set of          *)
(* structures: a managed spread is held lot by lot and priced at no less    *)
(* than it cost, where it has a leg to itself whatever                      *)
(* recover_open_spread_entry_basis was not shown, else where nothing was    *)
(* left out.                                                               *)
THEOREM ManagedSpreadsAreHeld == BasisSpec => []ManagedIsHeld
<1>1. BasisTypes /\ CoverInv => ManagedIsHeld
  BY ManagedHeld DEF CoverInv
<1> QED
  BY <1>1, AccountTypes, ExitsAreCovered, PTL

(* ExitsWhatIsHeld of SpreadBasis, for every set of structures and every    *)
(* history with nothing left out: no exit is sent for more than is held     *)
(* when it is sent, whatever fills, expires or is entered between the reads *)
(* of positions, orders and history and the sending.                        *)
THEOREM ExitsAreOfWhatIsHeld == BasisSpec => ExitsWhatIsHeld
<1> DEFINE Sent == Plain => \A i \in DOMAIN log' \ DOMAIN log :
             (log'[i].purpose = "exit" /\ log'[i].mleg)
               => log'[i].qty <= Len(TrueLots(log'[i].s))
<1>1. BasisTypes /\ ReadTypes /\ ReadInv /\ CoverInv /\ [BasisNext]_basisVars
        => Sent \/ UNCHANGED log
  <2> SUFFICES ASSUME BasisTypes, ReadTypes, ReadInv, CoverInv, Plain, BasisNext
               PROVE  Sent \/ UNCHANGED log
    BY DEF basisVars
  <2>0. DOMAIN log = 1..Len(log) /\ Len(log) \in Nat
    BY DEF BasisTypes
  <2>1. CASE \E o \in Orders : Submits(o)
    <3>1. PICK o \in Orders : Submits(o)
      BY <2>1
    <3>2. /\ Len(log') = Len(log) + 1 /\ log'[Len(log) + 1] = o /\ log' \in Seq(Orders)
      BY <3>1, AppendKeepsTypes DEF Submits, BasisTypes
    <3>3. DOMAIN log' \ DOMAIN log = {Len(log) + 1}
      BY <2>0, <3>2
    <3>4. ASSUME o.purpose = "exit", o.mleg PROVE o.qty <= Len(TrueLots(o.s))
      <4>1. /\ o.s = reading.s /\ o.qty = reading.qty /\ reading.at = "submit"
            /\ o.qty \in Nat /\ o.s \in Structures
        BY <3>1, <3>4 DEF Submits, ReadTypes
      <4>2. NoExitOf(o.s) /\ o.qty <= NetIn(log, o.s, Len(log))
        BY <4>1 DEF ReadInv
      <4>3. /\ Len(Recovered[o.s]) = NetIn(log, o.s, Len(log))
            /\ Len(Recovered[o.s]) = Len(TrueLots(o.s))
        BY <4>1, <4>2, WithoutExit
      <4> QED
        BY <4>2, <4>3
    <3> QED
      BY <3>2, <3>3, <3>4
  <2>2. CASE \E i \in Indices : \E o \in Orders : Changes(i, o)
    <3>1. Len(log') = Len(log) /\ log' \in Seq(Orders)
      BY <2>2, UpdateKeepsTypes DEF Changes, BasisTypes
    <3>2. DOMAIN log' \ DOMAIN log = {}
      BY <2>0, <3>1
    <3> QED
      BY <3>2
  <2>3. CASE Reads
    BY <2>3, ReadsTypes
  <2> QED
    BY <2>1, <2>2, <2>3, BasisStep
<1>2. BasisTypes /\ ReadTypes /\ ReadInv /\ CoverInv /\ [BasisNext]_basisVars => [Sent]_log
  BY <1>1
<1> QED
  BY <1>2, AccountTypes, ExitsAreCovered, PTL DEF BasisSpec, ExitsWhatIsHeld

(* HeldIsManaged of SpreadBasis, for every set of structures and every      *)
(* history: with nothing left out and nothing half filled, every vertical   *)
(* held is managed, however the verticals share contracts.                  *)
THEOREM HeldSpreadsAreManaged == BasisSpec => []HeldIsManaged
<1>1. BasisTypes /\ CoverInv => HeldIsManaged
  <2> SUFFICES ASSUME BasisTypes, CoverInv, Settled
               PROVE  {s \in Structures : TrueLots(s) # <<>>} \subseteq ManagedSpreads
    BY DEF HeldIsManaged
  <2>1. Covered
    BY DEF CoverInv, Settled, Plain
  <2> QED
    BY <2>1, SettledManaged
<1> QED
  BY <1>1, AccountTypes, ExitsAreCovered, PTL
=============================================================================
