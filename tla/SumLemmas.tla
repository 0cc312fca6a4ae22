----------------------------- MODULE SumLemmas -----------------------------
(***************************************************************************)
(* Folds and sums over finite sets, as the community modules Folds and     *)
(* Functions define them, by a recursive function on the subsets.  The     *)
(* provers cannot instantiate the library's induction theorems, which take *)
(* an operator as a parameter; induction for sets does as well.            *)
(***************************************************************************)
EXTENDS Integers, FiniteSets, Functions, TLAPS, FiniteSetTheorems, WellFoundedInduction

-----------------------------------------------------------------------------
(* Induction.                                                              *)

\* Induction, for a set of numbers.
LEMMA Induction ==
    ASSUME NEW P, 0 \in P, \A n \in Nat : n \in P => n + 1 \in P
    PROVE  Nat \subseteq P
<1>1. SUFFICES ASSUME Nat \ P # {} PROVE FALSE
  OBVIOUS
<1>2. PICK n \in Nat \ P : \A m \in Nat \ P : ~(<<m, n>> \in OpToRel(<, Nat))
  BY <1>1, NatLessThanWellFounded, WFMin
<1>3. \A m \in Nat \ P : ~(m < n)
  BY <1>2 DEF OpToRel
<1>4. n # 0 /\ n - 1 \in Nat
  OBVIOUS
<1>5. n - 1 \in P
  BY <1>3, <1>4
<1> QED BY <1>4, <1>5

\* The element a sum takes next.
Pick(s) == CHOOSE x \in s : TRUE

\* The size of a finite set, and of what is left of it without the element picked.
LEMMA Sizes ==
    ASSUME NEW S, IsFiniteSet(S), NEW s \in SUBSET S
    PROVE  /\ Cardinality(s) \in Nat /\ (Cardinality(s) = 0 => s = {})
           /\ s # {} => Pick(s) \in s /\ Cardinality(s \ {Pick(s)}) = Cardinality(s) - 1
<1>1. IsFiniteSet(s) /\ Cardinality(s) \in Nat
  BY FS_Subset, FS_CardinalityType
<1>2. s # {} => Pick(s) \in s
  BY DEF Pick
<1> QED BY <1>1, <1>2, FS_RemoveElement, FS_EmptySet

\* Induction over the subsets of a finite set, an element at a time.
LEMMA SubsetInduction ==
    ASSUME NEW S, IsFiniteSet(S), NEW Q, {} \in Q,
           \A s \in SUBSET S : s # {} /\ s \ {Pick(s)} \in Q => s \in Q
    PROVE  SUBSET S \subseteq Q
<1> DEFINE P == { n \in Nat : \A s \in SUBSET S : Cardinality(s) <= n => s \in Q }
<1>1. 0 \in P
  <2>1. ASSUME NEW s \in SUBSET S, Cardinality(s) <= 0 PROVE s = {}
    <3>1. Cardinality(s) \in Nat
      BY Sizes
    <3>2. Cardinality(s) = 0
      BY <2>1, <3>1
    <3> QED BY <3>2, Sizes
  <2> QED BY <2>1
<1>2. ASSUME NEW n \in Nat, n \in P PROVE n + 1 \in P
  <2>1. ASSUME NEW s \in SUBSET S, Cardinality(s) <= n + 1, s # {} PROVE s \in Q
    <3>1. Cardinality(s \ {Pick(s)}) = Cardinality(s) - 1 /\ Cardinality(s) \in Nat
      BY <2>1, Sizes
    <3>2. s \ {Pick(s)} \in Q
      BY <1>2, <2>1, <3>1
    <3> QED BY <2>1, <3>2
  <2> QED BY <2>1
<1>3. Nat \subseteq P
  <2> HIDE DEF P
  <2> QED BY <1>1, <1>2, Induction
<1>4. \A s \in SUBSET S : Cardinality(s) \in Nat
  BY Sizes
<1> QED BY <1>3, <1>4

-----------------------------------------------------------------------------
(* Folds.                                                                  *)

\* g folds F, a function of an element and of the fold of the others, over each set of D.
Folds(g, F, base, Y, D) ==
    /\ g \in [D -> Y]
    /\ \A s \in D : g[s] = IF s = {} THEN base ELSE F[<<Pick(s), g[s \ {Pick(s)}]>>]

\* There are folds over the subsets of a finite set.
LEMMA FoldsExist ==
    ASSUME NEW S, IsFiniteSet(S), NEW Y, NEW base \in Y, NEW F \in [S \X Y -> Y]
    PROVE  \E g : Folds(g, F, base, Y, SUBSET S)
<1> DEFINE D(n) == { s \in SUBSET S : Cardinality(s) <= n }
           P == { n \in Nat : \E g : Folds(g, F, base, Y, D(n)) }
<1>1. \A s \in SUBSET S : /\ Cardinality(s) \in Nat /\ (Cardinality(s) = 0 => s = {})
                          /\ s # {} => Pick(s) \in s /\ Cardinality(s \ {Pick(s)}) = Cardinality(s) - 1
  BY Sizes
<1>2. 0 \in P
  <2>1. ASSUME NEW s \in D(0) PROVE s = {}
    <3>1. Cardinality(s) <= 0 /\ Cardinality(s) \in Nat
      BY <1>1
    <3>2. Cardinality(s) = 0
      BY <3>1
    <3> QED BY <1>1, <3>2
  <2>2. Folds([s \in D(0) |-> base], F, base, Y, D(0))
    BY <2>1 DEF Folds
  <2> QED BY <2>2
<1>3. ASSUME NEW n \in Nat, n \in P PROVE n + 1 \in P
  <2>1. PICK g : Folds(g, F, base, Y, D(n))
    BY <1>3
  <2> DEFINE h == [s \in D(n + 1) |-> IF s = {} THEN base ELSE F[<<Pick(s), g[s \ {Pick(s)}]>>]]
  <2>2. \A s \in D(n + 1) : s # {} => s \ {Pick(s)} \in D(n) /\ Pick(s) \in S
    BY <1>1
  <2>3. h \in [D(n + 1) -> Y]
    BY <2>1, <2>2 DEF Folds
  <2>4. \A s \in D(n) : s \in D(n + 1) /\ h[s] = g[s]
    BY <1>1, <2>1 DEF Folds
  <2>5. \A s \in D(n + 1) : h[s] = IF s = {} THEN base ELSE F[<<Pick(s), g[s \ {Pick(s)}]>>]
    OBVIOUS
  <2>6. Folds(h, F, base, Y, D(n + 1))
    <3> HIDE DEF D, h
    <3>1. \A s \in D(n + 1) : h[s] = IF s = {} THEN base ELSE F[<<Pick(s), h[s \ {Pick(s)}]>>]
      BY <2>2, <2>4, <2>5
    <3> QED BY <2>3, <3>1 DEF Folds
  <2> HIDE DEF D, h
  <2> QED BY <2>6
<1>4. Nat \subseteq P
  <2> HIDE DEF P
  <2> QED BY <1>2, <1>3, Induction
<1>5. D(Cardinality(S)) = SUBSET S /\ Cardinality(S) \in Nat
  BY <1>1, FS_Subset
<1> QED BY <1>4, <1>5

-----------------------------------------------------------------------------
(* Sums of integers.                                                       *)

\* g sums V over each set of D.
Sums(g, V, D) ==
    /\ g \in [D -> Int]
    /\ \A s \in D : g[s] = IF s = {} THEN 0 ELSE V[Pick(s)] + g[s \ {Pick(s)}]

\* There are sums over the subsets of a finite set.
LEMMA SumsExist ==
    ASSUME NEW S, IsFiniteSet(S), NEW V \in [S -> Int]
    PROVE  \E g : Sums(g, V, SUBSET S)
<1> DEFINE F == [p \in S \X Int |-> V[p[1]] + p[2]]
<1>1. F \in [S \X Int -> Int] /\ 0 \in Int
  OBVIOUS
<1>2. \A x \in S, n \in Int : F[<<x, n>>] = V[x] + n
  OBVIOUS
<1> HIDE DEF F
<1>3. PICK g : Folds(g, F, 0, Int, SUBSET S)
  BY <1>1, FoldsExist
<1>4. ASSUME NEW s \in SUBSET S, s # {} PROVE F[<<Pick(s), g[s \ {Pick(s)}]>>] = V[Pick(s)] + g[s \ {Pick(s)}]
  <2>1. Pick(s) \in S /\ g[s \ {Pick(s)}] \in Int
    BY <1>3, <1>4, Sizes DEF Folds
  <2> QED BY <1>2, <2>1
<1> QED BY <1>3, <1>4 DEF Folds, Sums

\* SumFunctionOnSet is such a sum, whatever set it is asked for.
LEMMA SumsAre ==
    ASSUME NEW S, IsFiniteSet(S), NEW V, NEW f, Sums(f, V, SUBSET S), NEW A \in SUBSET S
    PROVE  SumFunctionOnSet(V, A) = f[A]
<1> DEFINE step(g) == [s \in SUBSET A |-> IF s = {} THEN 0
                                         ELSE V[CHOOSE x \in s : TRUE] + g[s \ {CHOOSE x \in s : TRUE}]]
           h == CHOOSE g : g = step(g)
           Q == { s \in SUBSET A : h[s] = f[s] }
<1>1. \A s \in SUBSET A : f[s] = IF s = {} THEN 0 ELSE V[Pick(s)] + f[s \ {Pick(s)}]
  BY DEF Sums
<1>2. [s \in SUBSET A |-> f[s]] = step([s \in SUBSET A |-> f[s]])
  BY <1>1 DEF Pick
<1>3. h = step(h)
  BY <1>2
<1>4. SumFunctionOnSet(V, A) = h[A]
  BY DEF SumFunctionOnSet, FoldFunctionOnSet, MapThenFoldSet
<1>5. \A s \in SUBSET A : h[s] = IF s = {} THEN 0 ELSE V[Pick(s)] + h[s \ {Pick(s)}]
  BY <1>3 DEF Pick
<1> HIDE DEF h, step
<1>6. {} \in Q
  BY <1>1, <1>5
<1>7. ASSUME NEW s \in SUBSET A, s # {}, s \ {Pick(s)} \in Q PROVE s \in Q
  BY <1>1, <1>5, <1>7
<1>8. SUBSET A \subseteq Q
  <2> HIDE DEF Q
  <2>1. IsFiniteSet(A)
    BY FS_Subset
  <2> QED BY <1>6, <1>7, <2>1, SubsetInduction
<1> QED BY <1>4, <1>8

\* So is SumFunction.
LEMMA SumIs ==
    ASSUME NEW S, IsFiniteSet(S), NEW V \in [S -> Int]
    PROVE  \E g : Sums(g, V, SUBSET S) /\ SumFunction(V) = g[S]
<1>1. PICK g : Sums(g, V, SUBSET S)
  BY SumsExist
<1>2. SumFunction(V) = SumFunctionOnSet(V, S)
  BY DEF SumFunction
<1> QED BY <1>1, <1>2, SumsAre

\* A sum of integers is an integer and grows with them.
LEMMA SumGrows ==
    ASSUME NEW S, IsFiniteSet(S), NEW V \in [S -> Int], NEW W \in [S -> Int],
           \A x \in S : V[x] <= W[x]
    PROVE  SumFunction(V) \in Int /\ SumFunction(V) <= SumFunction(W)
<1>1. PICK f : Sums(f, V, SUBSET S) /\ SumFunction(V) = f[S]
  BY SumIs
<1>2. PICK g : Sums(g, W, SUBSET S) /\ SumFunction(W) = g[S]
  BY SumIs
<1> DEFINE Q == { s \in SUBSET S : f[s] <= g[s] }
<1>3. {} \in Q
  <2>1. {} \in SUBSET S
    OBVIOUS
  <2>2. f[{}] = 0 /\ g[{}] = 0
    BY <1>1, <1>2, <2>1 DEF Sums
  <2> QED BY <2>2
<1>4. ASSUME NEW s \in SUBSET S, s # {}, s \ {Pick(s)} \in Q PROVE s \in Q
  <2>1. Pick(s) \in S
    BY <1>4, Sizes
  <2>2. /\ V[Pick(s)] \in Int /\ W[Pick(s)] \in Int /\ V[Pick(s)] <= W[Pick(s)]
        /\ f[s \ {Pick(s)}] \in Int /\ g[s \ {Pick(s)}] \in Int
        /\ f[s \ {Pick(s)}] <= g[s \ {Pick(s)}]
    BY <1>1, <1>2, <1>4, <2>1 DEF Sums
  <2>3. f[s] = V[Pick(s)] + f[s \ {Pick(s)}] /\ g[s] = W[Pick(s)] + g[s \ {Pick(s)}]
    BY <1>1, <1>2, <1>4 DEF Sums
  <2> QED BY <2>2, <2>3
<1>5. SUBSET S \subseteq Q
  <2> HIDE DEF Q
  <2> QED BY <1>3, <1>4, SubsetInduction
<1>6. f[S] <= g[S] /\ f[S] \in Int
  BY <1>1, <1>5 DEF Sums
<1> QED BY <1>1, <1>2, <1>6

\* A sum of natural numbers is one.
LEMMA SumsNat ==
    ASSUME NEW S, IsFiniteSet(S), NEW V \in [S -> Nat], NEW f, Sums(f, V, SUBSET S)
    PROVE  \A s \in SUBSET S : f[s] \in Nat
<1> DEFINE Q == { s \in SUBSET S : f[s] \in Nat }
<1>1. {} \in Q
  <2>1. {} \in SUBSET S
    OBVIOUS
  <2>2. f[{}] = 0
    BY <2>1 DEF Sums
  <2> QED BY <2>2
<1>2. ASSUME NEW s \in SUBSET S, s # {}, s \ {Pick(s)} \in Q PROVE s \in Q
  <2>1. V[Pick(s)] \in Nat /\ f[s \ {Pick(s)}] \in Nat
    BY <1>2, Sizes
  <2>2. f[s] = V[Pick(s)] + f[s \ {Pick(s)}]
    BY <1>2 DEF Sums
  <2> QED BY <2>1, <2>2
<1>3. SUBSET S \subseteq Q
  <2> HIDE DEF Q
  <2> QED BY <1>1, <1>2, SubsetInduction
<1> QED BY <1>3

\* So is SumFunction of natural numbers.
LEMMA SumNat ==
    ASSUME NEW S, IsFiniteSet(S), NEW V \in [S -> Nat]
    PROVE  SumFunction(V) \in Nat
<1>1. V \in [S -> Int]
  OBVIOUS
<1>2. PICK f : Sums(f, V, SUBSET S) /\ SumFunction(V) = f[S]
  BY <1>1, SumIs
<1> QED BY <1>2, SumsNat

\* A sum of numbers is no smaller than any of them.
LEMMA SumCovers ==
    ASSUME NEW S, IsFiniteSet(S), NEW V \in [S -> Nat], NEW x \in S
    PROVE  V[x] <= SumFunction(V)
<1>1. PICK f : Sums(f, V, SUBSET S) /\ SumFunction(V) = f[S]
  <2>1. V \in [S -> Int]
    OBVIOUS
  <2> QED BY <2>1, SumIs
<1>5. \A s \in SUBSET S : f[s] \in Nat
  BY <1>1, SumsNat
<1> DEFINE Q == { s \in SUBSET S : x \in s => V[x] <= f[s] }
<1>2. {} \in Q
  OBVIOUS
<1>3. ASSUME NEW s \in SUBSET S, s # {}, s \ {Pick(s)} \in Q PROVE s \in Q
  <2>1. Pick(s) \in S
    BY <1>3, Sizes
  <2>2. /\ f[s] = V[Pick(s)] + f[s \ {Pick(s)}] /\ V[x] \in Nat
        /\ V[Pick(s)] \in Nat /\ f[s \ {Pick(s)}] \in Nat
    BY <1>1, <1>3, <1>5, <2>1 DEF Sums
  <2>3. x \in s /\ x # Pick(s) => V[x] <= f[s \ {Pick(s)}]
    BY <1>3
  <2> QED BY <2>2, <2>3
<1>4. SUBSET S \subseteq Q
  <2> HIDE DEF Q
  <2> QED BY <1>2, <1>3, SubsetInduction
<1> QED BY <1>1, <1>4

\* The order in which a sum takes its elements does not matter.
LEMMA SumAdds ==
    ASSUME NEW S, IsFiniteSet(S), NEW V \in [S -> Int], NEW f, Sums(f, V, SUBSET S),
           NEW A \in SUBSET S, NEW x \in A
    PROVE  f[A] = V[x] + f[A \ {x}]
<1> DEFINE Q == { s \in SUBSET S : \A y \in s : f[s] = V[y] + f[s \ {y}] }
           P == { n \in Nat : \A s \in SUBSET S : Cardinality(s) <= n => s \in Q }
<1>1. \A s \in SUBSET S : f[s] \in Int /\ Cardinality(s) \in Nat
  BY Sizes DEF Sums
<1>2. 0 \in P
  <2>1. ASSUME NEW s \in SUBSET S, Cardinality(s) <= 0 PROVE s = {}
    <3>1. Cardinality(s) = 0
      BY <1>1, <2>1
    <3> QED BY <3>1, Sizes
  <2> QED BY <2>1
<1>3. ASSUME NEW n \in Nat, n \in P PROVE n + 1 \in P
  <2>1. ASSUME NEW s \in SUBSET S, Cardinality(s) <= n + 1, NEW y \in s
        PROVE  f[s] = V[y] + f[s \ {y}]
    <3> DEFINE p == Pick(s)
    <3>1. p \in s /\ Cardinality(s \ {p}) = Cardinality(s) - 1
      BY Sizes
    <3>2. f[s] = V[p] + f[s \ {p}]
      BY DEF Sums
    <3>3. CASE y = p
      BY <3>2, <3>3
    <3>4. CASE y # p
      <4>1. IsFiniteSet(s) /\ Cardinality(s \ {y}) = Cardinality(s) - 1
        BY FS_Subset, FS_RemoveElement
      <4>2. Cardinality(s \ {p}) <= n /\ Cardinality(s \ {y}) <= n
        BY <1>1, <2>1, <3>1, <4>1
      <4>3. s \ {p} \in Q /\ s \ {y} \in Q
        BY <1>3, <4>2
      <4>4. f[s \ {p}] = V[y] + f[(s \ {p}) \ {y}]
        BY <3>4, <4>3
      <4>5. f[s \ {y}] = V[p] + f[(s \ {y}) \ {p}]
        BY <3>1, <3>4, <4>3
      <4>6. (s \ {p}) \ {y} = (s \ {y}) \ {p}
        OBVIOUS
      <4>7. V[p] \in Int /\ V[y] \in Int /\ f[(s \ {y}) \ {p}] \in Int
        BY <1>1, <3>1
      <4>8. ASSUME NEW a \in Int, NEW b \in Int, NEW c \in Int PROVE a + (b + c) = b + (a + c)
        OBVIOUS
      <4>9. f[s] = V[p] + (V[y] + f[(s \ {y}) \ {p}])
        BY <3>2, <4>4, <4>6
      <4>10. f[s] = V[y] + (V[p] + f[(s \ {y}) \ {p}])
        BY <4>7, <4>8, <4>9
      <4> QED BY <4>5, <4>10
    <3> QED BY <3>3, <3>4
  <2> QED BY <2>1
<1>4. Nat \subseteq P
  <2> HIDE DEF P
  <2> QED BY <1>2, <1>3, Induction
<1> QED BY <1>1, <1>4

\* A sum of multiples is the multiple of the sum.
LEMMA SumScales ==
    ASSUME NEW S, IsFiniteSet(S), NEW V \in [S -> Int], NEW k \in Int
    PROVE  SumFunction([x \in S |-> V[x] * k]) = SumFunction(V) * k
<1> DEFINE W == [x \in S |-> V[x] * k]
<1>1. W \in [S -> Int] /\ \A x \in S : W[x] = V[x] * k
  OBVIOUS
<1> HIDE DEF W
<1>2. PICK f : Sums(f, V, SUBSET S) /\ SumFunction(V) = f[S]
  BY SumIs
<1>3. PICK g : Sums(g, W, SUBSET S) /\ SumFunction(W) = g[S]
  BY <1>1, SumIs
<1> DEFINE Q == { s \in SUBSET S : g[s] = f[s] * k }
<1>4. {} \in Q
  <2>1. {} \in SUBSET S
    OBVIOUS
  <2>2. f[{}] = 0 /\ g[{}] = 0
    BY <1>2, <1>3, <2>1 DEF Sums
  <2> QED BY <2>2
<1>5. ASSUME NEW s \in SUBSET S, s # {}, s \ {Pick(s)} \in Q PROVE s \in Q
  <2>1. Pick(s) \in S
    BY <1>5, Sizes
  <2>2. /\ V[Pick(s)] \in Int /\ W[Pick(s)] = V[Pick(s)] * k /\ f[s \ {Pick(s)}] \in Int
        /\ g[s \ {Pick(s)}] = f[s \ {Pick(s)}] * k
    BY <1>1, <1>2, <1>5, <2>1 DEF Sums
  <2>3. f[s] = V[Pick(s)] + f[s \ {Pick(s)}] /\ g[s] = W[Pick(s)] + g[s \ {Pick(s)}]
    BY <1>2, <1>3, <1>5 DEF Sums
  <2>4. \A a, b \in Int : (a + b) * k = a * k + b * k
    OBVIOUS
  <2> QED BY <2>2, <2>3, <2>4
<1>6. SUBSET S \subseteq Q
  <2> HIDE DEF Q
  <2> QED BY <1>4, <1>5, SubsetInduction
<1> QED BY <1>2, <1>3, <1>6 DEF W

=============================================================================
