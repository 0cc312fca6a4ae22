----------------------------- MODULE GatesProofs -----------------------------
(***************************************************************************)
(* What the arithmetic of a verdict promises, for every jury that the      *)
(* validators let pass, and any number of members and dimensions: means    *)
(* stay between what they are taken of, and grow with it.                  *)
(***************************************************************************)
EXTENDS Gates, SumLemmas

\* Fractions with a positive denominator.
Frac == Int \X (Nat \ {0})

-----------------------------------------------------------------------------
(* Products.                                                               *)

\* A product grows with its factor.
LEMMA Times ==
    ASSUME NEW a \in Int, NEW b \in Int, a <= b, NEW c \in Nat
    PROVE  a * c <= b * c
<1>1. (b - a) \in Nat /\ b = a + (b - a)
  OBVIOUS
<1>2. (b - a) * c \in Nat
  BY <1>1
<1>3. b * c = a * c + (b - a) * c
  OBVIOUS
<1> QED BY <1>2, <1>3

\* A positive factor may be cancelled.
LEMMA Cancel ==
    ASSUME NEW a \in Int, NEW b \in Int, NEW c \in Nat \ {0}, a * c <= b * c
    PROVE  a <= b
<1>1. SUFFICES ASSUME b + 1 <= a PROVE FALSE
  OBVIOUS
<1>2. (b + 1) * c <= a * c
  BY <1>1, Times
<1>3. (b + 1) * c = b * c + c
  OBVIOUS
<1> QED BY <1>2, <1>3

\* The sum of two fractions.
LEMMA PlusType ==
    ASSUME NEW x \in Frac, NEW y \in Frac
    PROVE  /\ Plus(x, y) \in Frac
           /\ Plus(x, y)[1] = x[1] * y[2] + y[1] * x[2]
           /\ Plus(x, y)[2] = x[2] * y[2]
<1>1. x[1] \in Int /\ y[1] \in Int /\ x[2] \in Nat \ {0} /\ y[2] \in Nat \ {0}
  BY DEF Frac
<1>2. x[2] * y[2] \in Nat \ {0} /\ x[1] * y[2] + y[1] * x[2] \in Int
  BY <1>1
<1> QED BY <1>2 DEF Plus, Frac

-----------------------------------------------------------------------------
(* Folds of fractions.                                                     *)

\* g adds up V over each set of D.
Adds(g, V, D) ==
    /\ g \in [D -> Frac]
    /\ \A s \in D : g[s] = IF s = {} THEN <<0, 1>> ELSE Plus(V[Pick(s)], g[s \ {Pick(s)}])

\* The fold in _weighted_mean adds up what it is given.
LEMMA FoldAdds ==
    ASSUME NEW S, IsFiniteSet(S), NEW V \in [S -> Frac]
    PROVE  \E g : Adds(g, V, SUBSET S) /\ FoldFunction(Plus, <<0, 1>>, V) = g[S]
<1> DEFINE F == [p \in S \X Frac |-> Plus(V[p[1]], p[2])]
           step(g) == [s \in SUBSET S |-> IF s = {} THEN <<0, 1>>
                                          ELSE Plus(V[CHOOSE x \in s : TRUE], g[s \ {CHOOSE x \in s : TRUE}])]
           h == CHOOSE g : g = step(g)
<1>1. F \in [S \X Frac -> Frac]
  <2>1. ASSUME NEW p \in S \X Frac PROVE Plus(V[p[1]], p[2]) \in Frac
    BY PlusType
  <2> QED BY <2>1
<1>2. \A x \in S, y \in Frac : F[<<x, y>>] = Plus(V[x], y)
  OBVIOUS
<1>3. <<0, 1>> \in Frac
  BY DEF Frac
<1> HIDE DEF F
<1>4. PICK f : Folds(f, F, <<0, 1>>, Frac, SUBSET S)
  BY <1>1, <1>3, FoldsExist
<1>5. ASSUME NEW s \in SUBSET S, s # {}
      PROVE  F[<<Pick(s), f[s \ {Pick(s)}]>>] = Plus(V[Pick(s)], f[s \ {Pick(s)}])
  <2>1. Pick(s) \in S /\ f[s \ {Pick(s)}] \in Frac
    BY <1>4, <1>5, Sizes DEF Folds
  <2> QED BY <1>2, <2>1
<1>6. Adds(f, V, SUBSET S)
  BY <1>4, <1>5 DEF Folds, Adds
<1>7. f = step(f)
  BY <1>6 DEF Adds, Pick
<1>8. h = step(h)
  BY <1>7
<1>9. FoldFunction(Plus, <<0, 1>>, V) = h[S]
  BY DEF FoldFunction, FoldFunctionOnSet, MapThenFoldSet
<1>10. \A s \in SUBSET S : h[s] = IF s = {} THEN <<0, 1>> ELSE Plus(V[Pick(s)], h[s \ {Pick(s)}])
  BY <1>8 DEF Pick
<1> HIDE DEF h, step
<1> DEFINE Q == { s \in SUBSET S : h[s] = f[s] }
<1>11. {} \in Q
  <2>1. {} \in SUBSET S
    OBVIOUS
  <2>2. h[{}] = <<0, 1>> /\ f[{}] = <<0, 1>>
    BY <1>6, <1>10, <2>1 DEF Adds
  <2> QED BY <2>2
<1>12. ASSUME NEW s \in SUBSET S, s # {}, s \ {Pick(s)} \in Q PROVE s \in Q
  BY <1>6, <1>10, <1>12 DEF Adds
<1>13. SUBSET S \subseteq Q
  <2> HIDE DEF Q
  <2> QED BY <1>11, <1>12, SubsetInduction
<1> QED BY <1>6, <1>9, <1>13

-----------------------------------------------------------------------------
(* Weights and weighted means.                                             *)

\* What members weigh is a sum.
LEMMA WeightSums ==
    ASSUME NEW j, ValidJury(j)
    PROVE  \E f : /\ Sums(f, j.weight, SUBSET DOMAIN j.weight)
                  /\ \A A \in SUBSET DOMAIN j.weight : WeightOf(j, A) = f[A]
<1> DEFINE M == DOMAIN j.weight
           V == j.weight
<1>1. IsFiniteSet(M) /\ V \in [M -> Nat \ {0}]
  BY DEF ValidJury
<1> HIDE DEF M, V
<1>2. V \in [M -> Int]
  BY <1>1
<1>3. PICK f : Sums(f, V, SUBSET M)
  BY <1>1, <1>2, SumsExist
<1>4. ASSUME NEW A \in SUBSET M PROVE WeightOf(j, A) = f[A]
  BY <1>1, <1>3, SumsAre DEF WeightOf, V
<1> QED BY <1>3, <1>4 DEF M, V

\* Some members weigh something, and each of them its weight.
LEMMA Weight ==
    ASSUME NEW j, ValidJury(j), NEW A \in SUBSET DOMAIN j.weight
    PROVE  /\ WeightOf(j, A) \in Nat
           /\ A # {} => WeightOf(j, A) \in Nat \ {0}
           /\ \A m \in A : /\ j.weight[m] \in Nat \ {0}
                           /\ WeightOf(j, A) = j.weight[m] + WeightOf(j, A \ {m})
<1> DEFINE M == DOMAIN j.weight
           V == j.weight
<1>1. IsFiniteSet(M) /\ V \in [M -> Nat \ {0}]
  BY DEF ValidJury
<1>2. PICK f : Sums(f, V, SUBSET M) /\ \A B \in SUBSET M : WeightOf(j, B) = f[B]
  BY WeightSums
<1>3. A \in SUBSET M
  OBVIOUS
<1> HIDE DEF M, V
<1>4. V \in [M -> Int] /\ V \in [M -> Nat]
  BY <1>1
<1>5. \A B \in SUBSET M : f[B] \in Nat
  BY <1>1, <1>2, <1>4, SumsNat
<1>6. ASSUME NEW m \in A
      PROVE  V[m] \in Nat \ {0} /\ f[A] = V[m] + f[A \ {m}] /\ A \ {m} \in SUBSET M
  <2>1. m \in M /\ A \ {m} \in SUBSET M
    BY <1>3
  <2>2. V[m] \in Nat \ {0}
    BY <1>1, <2>1
  <2>3. Sums(f, V, SUBSET M)
    BY <1>2
  <2>4. IsFiniteSet(M)
    BY <1>1
  <2>5. f[A] = V[m] + f[A \ {m}]
    BY <1>3, <1>4, <1>6, <2>3, <2>4, SumAdds
  <2> QED BY <2>1, <2>2, <2>5
<1>7. ASSUME A # {} PROVE f[A] \in Nat \ {0}
  <2>1. PICK m \in A : TRUE
    BY <1>7
  <2>2. V[m] \in Nat \ {0} /\ f[A] = V[m] + f[A \ {m}] /\ f[A \ {m}] \in Nat
    BY <1>5, <1>6
  <2> QED BY <2>2
<1>8. WeightOf(j, A) = f[A] /\ \A m \in A : WeightOf(j, A \ {m}) = f[A \ {m}]
  BY <1>2, <1>3, <1>6
<1>9. WeightOf(j, A) \in Nat /\ (A # {} => WeightOf(j, A) \in Nat \ {0})
  BY <1>3, <1>5, <1>7, <1>8
<1>10. \A m \in A : V[m] \in Nat \ {0} /\ WeightOf(j, A) = V[m] + WeightOf(j, A \ {m})
  BY <1>6, <1>8
<1> QED BY <1>9, <1>10 DEF V

\* More members weigh no less.
LEMMA WeightGrows ==
    ASSUME NEW j, ValidJury(j), NEW B \in SUBSET DOMAIN j.weight, NEW A \in SUBSET B
    PROVE  WeightOf(j, A) <= WeightOf(j, B)
<1> DEFINE C == B \ A
           Q == { s \in SUBSET C : WeightOf(j, A) <= WeightOf(j, A \cup s) }
<1>1. \A D \in SUBSET B : WeightOf(j, D) \in Nat
  BY Weight
<1>2. {} \in Q
  <2>1. A \cup {} = A /\ {} \in SUBSET C /\ WeightOf(j, A) \in Nat
    BY <1>1
  <2> QED BY <2>1
<1>3. ASSUME NEW s \in SUBSET C, s # {}, s \ {Pick(s)} \in Q PROVE s \in Q
  <2> DEFINE x == Pick(s)
             D == A \cup s
  <2>1. x \in s
    BY <1>3 DEF Pick
  <2>2. D \in SUBSET DOMAIN j.weight /\ D \in SUBSET B /\ x \in D /\ D \ {x} = A \cup (s \ {x})
        /\ D \ {x} \in SUBSET B
    BY <2>1
  <2>3. WeightOf(j, A) <= WeightOf(j, D \ {x})
    BY <1>3, <2>2
  <2> HIDE DEF D, x
  <2>4. j.weight[x] \in Nat /\ WeightOf(j, D) = j.weight[x] + WeightOf(j, D \ {x})
    <3>1. D \in SUBSET DOMAIN j.weight
      BY <2>2
    <3>2. \A m \in D : /\ j.weight[m] \in Nat \ {0}
                       /\ WeightOf(j, D) = j.weight[m] + WeightOf(j, D \ {m})
      BY <3>1, Weight
    <3> QED BY <2>2, <3>2
  <2>5. WeightOf(j, A) <= WeightOf(j, D)
    BY <1>1, <2>2, <2>3, <2>4
  <2> QED BY <2>5 DEF D
<1>4. SUBSET C \subseteq Q
  <2>1. IsFiniteSet(C)
    BY FS_Subset DEF ValidJury
  <2> HIDE DEF Q, C
  <2> QED BY <1>2, <1>3, <2>1, SubsetInduction
<1>5. C \in Q /\ A \cup C = B
  BY <1>4
<1> QED BY <1>5

\* f adds up the weights of members, g what they weigh in with.
MeanOf(j, A, v, f, g, V) ==
    /\ Sums(f, j.weight, SUBSET A) /\ Adds(g, V, SUBSET A)
    /\ V \in [A -> Frac]
    /\ \A m \in A : V[m][1] = j.weight[m] * v[m][1] /\ V[m][2] = v[m][2]
    /\ f[A] = WeightOf(j, A) /\ Mean(j, v) = <<g[A][1], g[A][2] * WeightOf(j, A)>>
    /\ \A s \in SUBSET A : f[s] \in Nat

\* The two sums that make up a mean.
LEMMA MeanIs ==
    ASSUME NEW j, ValidJury(j), NEW A \in SUBSET DOMAIN j.weight, NEW v \in [A -> Frac]
    PROVE  \E f, g, V : MeanOf(j, A, v, f, g, V)
<1> DEFINE V == [m \in A |-> <<j.weight[m] * v[m][1], v[m][2]>>]
<1>1. IsFiniteSet(A)
  BY FS_Subset DEF ValidJury
<1>2. ASSUME NEW m \in A PROVE /\ j.weight[m] * v[m][1] \in Int /\ v[m][2] \in Nat \ {0}
                               /\ V[m] = <<j.weight[m] * v[m][1], v[m][2]>>
  <2>1. j.weight[m] \in Nat
    BY DEF ValidJury
  <2>2. v[m][1] \in Int /\ v[m][2] \in Nat \ {0}
    BY DEF Frac
  <2> QED BY <2>1, <2>2
<1>3. V \in [A -> Frac]
  BY <1>2 DEF Frac
<1>4. Mean(j, v) = LET sum == FoldFunction(Plus, <<0, 1>>, V)
                   IN  <<sum[1], sum[2] * WeightOf(j, A)>>
  BY DEF Mean
<1>5. \A m \in A : V[m][1] = j.weight[m] * v[m][1] /\ V[m][2] = v[m][2]
  BY <1>2
<1> HIDE DEF V
<1>6. PICK g : Adds(g, V, SUBSET A) /\ FoldFunction(Plus, <<0, 1>>, V) = g[A]
  BY <1>1, <1>3, FoldAdds
<1>7. PICK f : /\ Sums(f, j.weight, SUBSET DOMAIN j.weight)
               /\ \A B \in SUBSET DOMAIN j.weight : WeightOf(j, B) = f[B]
  BY WeightSums
<1> DEFINE fA == [s \in SUBSET A |-> f[s]]
<1>8. Sums(fA, j.weight, SUBSET A)
  BY <1>7 DEF Sums
<1>9. fA[A] = WeightOf(j, A) /\ \A s \in SUBSET A : fA[s] \in Nat
  <2>1. \A s \in SUBSET A : WeightOf(j, s) = f[s] /\ WeightOf(j, s) \in Nat
    BY <1>7, Weight
  <2> QED BY <2>1
<1> HIDE DEF fA
<1>10. Mean(j, v) = <<g[A][1], g[A][2] * WeightOf(j, A)>>
  BY <1>4, <1>6
<1>11. MeanOf(j, A, v, fA, g, V)
  BY <1>3, <1>5, <1>6, <1>8, <1>9, <1>10 DEF MeanOf
<1> QED BY <1>11

\* The mean of equal fractions is what they are equal to.
LEMMA MeanOfEqual ==
    ASSUME NEW j, ValidJury(j), NEW A \in SUBSET DOMAIN j.weight, A # {},
           NEW v \in [A -> Frac], NEW k \in Int, \A m \in A : v[m][1] = k * v[m][2]
    PROVE  Mean(j, v) \in Frac /\ Mean(j, v)[1] = k * Mean(j, v)[2]
<1>0. PICK f, g, V : MeanOf(j, A, v, f, g, V)
  BY MeanIs
<1>1. /\ Sums(f, j.weight, SUBSET A) /\ Adds(g, V, SUBSET A)
      /\ V \in [A -> Frac]
      /\ \A m \in A : V[m][1] = j.weight[m] * v[m][1] /\ V[m][2] = v[m][2]
      /\ f[A] = WeightOf(j, A) /\ Mean(j, v) = <<g[A][1], g[A][2] * WeightOf(j, A)>>
      /\ \A s \in SUBSET A : f[s] \in Nat
  BY <1>0 DEF MeanOf
<1>2. IsFiniteSet(A)
  BY FS_Subset DEF ValidJury
<1> DEFINE Q == { s \in SUBSET A : g[s][1] = k * f[s] * g[s][2] }
<1>3. {} \in Q
  <2>1. {} \in SUBSET A
    OBVIOUS
  <2>2. g[{}] = <<0, 1>> /\ f[{}] = 0
    BY <1>1, <2>1 DEF Adds, Sums
  <2> QED BY <2>2
<1>4. ASSUME NEW s \in SUBSET A, s # {}, s \ {Pick(s)} \in Q PROVE s \in Q
  <2> DEFINE m == Pick(s)
             r == s \ {m}
  <2>1. m \in A /\ r \in SUBSET A
    BY <1>2, <1>4, Sizes
  <2>2. g[s] = Plus(V[m], g[r]) /\ f[s] = j.weight[m] + f[r]
    BY <1>1, <1>4 DEF Adds, Sums
  <2>3. g[r] \in Frac /\ V[m] \in Frac /\ f[r] \in Nat
    BY <1>1, <2>1 DEF Adds
  <2>4. V[m][1] = j.weight[m] * (k * v[m][2]) /\ V[m][2] = v[m][2] /\ g[r][1] = k * f[r] * g[r][2]
    BY <1>1, <1>4, <2>1
  <2>5. j.weight[m] \in Nat /\ v[m][2] \in Nat /\ g[r][2] \in Nat
    BY <2>1, <2>3 DEF ValidJury, Frac
  <2>6. g[s][1] = V[m][1] * g[r][2] + g[r][1] * V[m][2] /\ g[s][2] = V[m][2] * g[r][2]
    BY <2>2, <2>3, PlusType
  <2>7. ASSUME NEW w \in Nat, NEW q \in Nat, NEW d \in Nat, NEW n \in Nat
        PROVE  (w * (k * q)) * d + (k * n * d) * q = k * (w + n) * (q * d)
    OBVIOUS
  <2>8. g[s][1] = k * f[s] * g[s][2]
    <3> HIDE DEF m, r
    <3>1. g[s][1] = (j.weight[m] * (k * v[m][2])) * g[r][2] + (k * f[r] * g[r][2]) * v[m][2]
      BY <2>4, <2>6
    <3>2. g[s][1] = k * (j.weight[m] + f[r]) * (v[m][2] * g[r][2])
      BY <2>3, <2>5, <2>7, <3>1
    <3> QED BY <2>2, <2>4, <2>6, <3>2
  <2> QED BY <2>8
<1>5. SUBSET A \subseteq Q
  <2> HIDE DEF Q
  <2> QED BY <1>2, <1>3, <1>4, SubsetInduction
<1>6. g[A] \in Frac /\ f[A] \in Nat \ {0}
  <2>1. A \in SUBSET A
    OBVIOUS
  <2> QED BY <1>1, <2>1, Weight DEF Adds
<1>7. g[A][1] = k * f[A] * g[A][2]
  BY <1>5
<1>8. g[A][2] \in Nat \ {0} /\ g[A][1] \in Int
  BY <1>6 DEF Frac
<1>9. k * f[A] * g[A][2] = k * (g[A][2] * f[A]) /\ g[A][2] * f[A] \in Nat \ {0}
  BY <1>6, <1>8
<1> QED BY <1>1, <1>7, <1>8, <1>9 DEF Frac

\* Fractions with one denominator, the first no greater.
Below(x, y) == x \in Frac /\ y \in Frac /\ x[2] = y[2] /\ x[1] <= y[1]

\* A mean grows with what it is taken of.
LEMMA MeanGrows ==
    ASSUME NEW j, ValidJury(j), NEW A \in SUBSET DOMAIN j.weight, A # {},
           NEW v \in [A -> Frac], NEW w \in [A -> Frac], \A m \in A : Below(v[m], w[m])
    PROVE  Below(Mean(j, v), Mean(j, w))
<1>1. PICK e, g, V : MeanOf(j, A, v, e, g, V)
  BY MeanIs
<1>2. PICK f, h, W : MeanOf(j, A, w, f, h, W)
  BY MeanIs
<1>3. /\ Adds(g, V, SUBSET A) /\ V \in [A -> Frac]
      /\ \A m \in A : V[m][1] = j.weight[m] * v[m][1] /\ V[m][2] = v[m][2]
      /\ Mean(j, v) = <<g[A][1], g[A][2] * WeightOf(j, A)>>
  BY <1>1 DEF MeanOf
<1>4. /\ Adds(h, W, SUBSET A) /\ W \in [A -> Frac]
      /\ \A m \in A : W[m][1] = j.weight[m] * w[m][1] /\ W[m][2] = w[m][2]
      /\ Mean(j, w) = <<h[A][1], h[A][2] * WeightOf(j, A)>>
  BY <1>2 DEF MeanOf
<1>5. IsFiniteSet(A)
  BY FS_Subset DEF ValidJury
<1>6. \A m \in A : Below(V[m], W[m])
  <2> TAKE m \in A
  <2>1. v[m][1] \in Int /\ w[m][1] \in Int /\ v[m][1] <= w[m][1] /\ v[m][2] = w[m][2]
    BY DEF Below, Frac
  <2>2. j.weight[m] \in Nat
    BY DEF ValidJury
  <2>3. v[m][1] * j.weight[m] <= w[m][1] * j.weight[m]
    BY <2>1, <2>2, Times
  <2>4. V[m][1] <= W[m][1]
    BY <1>3, <1>4, <2>1, <2>2, <2>3
  <2> QED BY <1>3, <1>4, <2>1, <2>4 DEF Below
<1> DEFINE Q == { s \in SUBSET A : Below(g[s], h[s]) }
<1>7. {} \in Q
  <2>1. {} \in SUBSET A
    OBVIOUS
  <2>2. g[{}] = <<0, 1>> /\ h[{}] = <<0, 1>>
    BY <1>3, <1>4, <2>1 DEF Adds
  <2> QED BY <2>1, <2>2 DEF Below, Frac
<1>8. ASSUME NEW s \in SUBSET A, s # {}, s \ {Pick(s)} \in Q PROVE s \in Q
  <2> DEFINE m == Pick(s)
             r == s \ {m}
  <2>1. m \in A /\ r \in SUBSET A
    BY <1>5, <1>8, Sizes
  <2>2. g[s] = Plus(V[m], g[r]) /\ h[s] = Plus(W[m], h[r])
    BY <1>3, <1>4, <1>8 DEF Adds
  <2>3. Below(g[r], h[r]) /\ Below(V[m], W[m])
    BY <1>6, <1>8, <2>1
  <2> HIDE DEF m, r
  <2>4. /\ g[r] \in Frac /\ h[r] \in Frac /\ V[m] \in Frac /\ W[m] \in Frac
        /\ g[r][2] = h[r][2] /\ V[m][2] = W[m][2] /\ g[r][1] <= h[r][1] /\ V[m][1] <= W[m][1]
    BY <2>3 DEF Below
  <2>5. /\ g[s][1] = V[m][1] * g[r][2] + g[r][1] * V[m][2] /\ g[s][2] = V[m][2] * g[r][2]
        /\ g[s] \in Frac
    BY <2>2, <2>4, PlusType
  <2>6. /\ h[s][1] = W[m][1] * g[r][2] + h[r][1] * V[m][2] /\ h[s][2] = V[m][2] * g[r][2]
        /\ h[s] \in Frac
    BY <2>2, <2>4, PlusType
  <2>7. /\ V[m][1] \in Int /\ W[m][1] \in Int /\ g[r][1] \in Int /\ h[r][1] \in Int
        /\ g[r][2] \in Nat /\ V[m][2] \in Nat
    BY <2>4 DEF Frac
  <2>8. V[m][1] * g[r][2] <= W[m][1] * g[r][2] /\ g[r][1] * V[m][2] <= h[r][1] * V[m][2]
    BY <2>4, <2>7, Times
  <2>9. ASSUME NEW a \in Int, NEW b \in Int, NEW c \in Int, NEW d \in Int, a <= b, c <= d
        PROVE  a + c <= b + d
    BY <2>9
  <2>10. /\ V[m][1] * g[r][2] \in Int /\ W[m][1] * g[r][2] \in Int
         /\ g[r][1] * V[m][2] \in Int /\ h[r][1] * V[m][2] \in Int
    BY <2>7
  <2>11. g[s][1] <= h[s][1]
    BY <2>5, <2>6, <2>8, <2>9, <2>10
  <2> QED BY <2>5, <2>6, <2>11 DEF Below
<1>9. SUBSET A \subseteq Q
  <2> HIDE DEF Q
  <2> QED BY <1>5, <1>7, <1>8, SubsetInduction
<1>10. g[A] \in Frac /\ h[A] \in Frac /\ g[A][2] = h[A][2] /\ g[A][1] <= h[A][1]
  BY <1>9 DEF Below
<1>11. WeightOf(j, A) \in Nat \ {0}
  BY Weight
<1>12. g[A][2] * WeightOf(j, A) \in Nat \ {0} /\ g[A][1] \in Int /\ h[A][1] \in Int
  BY <1>10, <1>11 DEF Frac
<1>13. Mean(j, v) \in Frac /\ Mean(j, w) \in Frac
  BY <1>3, <1>4, <1>10, <1>12 DEF Frac
<1> QED BY <1>3, <1>4, <1>10, <1>13 DEF Below

-----------------------------------------------------------------------------
(* A better review.                                                        *)

\* In which dimensions a review is at least as good as another.
AsGood(j, r, r2) == \A d \in Dim(j) : Quality(j, d, Judged(j, r, d)) <= Quality(j, d, Judged(j, r2, d))

\* What is judged is on the scale, and so is its quality.
LEMMA Judgement ==
    ASSUME NEW j, ValidJury(j), NEW r \in Review(j), NEW d \in Dim(j)
    PROVE  Judged(j, r, d) \in Score(j) /\ Quality(j, d, Judged(j, r, d)) \in Score(j)
<1>1. j.min \in Int /\ j.max \in Int
  BY DEF ValidJury
<1>2. r.scores[d] \in Score(j)
  BY DEF Review
<1>3. Judged(j, r, d) \in Score(j)
  BY <1>2 DEF Judged, ValidJury
<1>4. \A s \in Score(j) : Quality(j, d, s) \in Score(j)
  BY <1>1 DEF Quality, Score
<1> QED BY <1>3, <1>4

\* What a member says of itself grows with the quality of each dimension.
LEMMA SelfGrows ==
    ASSUME NEW j, ValidJury(j), NEW r \in Review(j), NEW r2 \in Review(j), AsGood(j, r, r2)
    PROVE  Below(SelfOverall(j, r), SelfOverall(j, r2))
<1> DEFINE q(x, d) == Quality(j, d, Judged(j, x, d))
           f(x) == [d \in Dim(j) |-> j.dimWeight[d] * q(x, d)]
           n == SumFunction(j.dimWeight)
<1>1. IsFiniteSet(Dim(j)) /\ j.dimWeight \in [Dim(j) -> Nat] /\ j.dimWeight \in [Dim(j) -> Nat \ {0}]
  BY DEF ValidJury
<1>2. n \in Nat \ {0}
  <2>1. PICK d \in Dim(j) : TRUE
    BY DEF ValidJury
  <2>2. n \in Nat
    BY <1>1, SumNat
  <2>3. j.dimWeight[d] <= n
    BY <1>1, <2>1, SumCovers
  <2>4. j.dimWeight[d] \in Nat \ {0}
    BY <1>1
  <2> HIDE DEF n
  <2> QED BY <2>2, <2>3, <2>4
<1>3. \A x \in {r, r2}, d \in Dim(j) : q(x, d) \in Int
  <2>1. j.min \in Int /\ j.max \in Int
    BY DEF ValidJury
  <2>2. Score(j) \subseteq Int
    BY <2>1 DEF Score
  <2> QED BY <2>2, Judgement
<1>4. \A d \in Dim(j) : q(r, d) <= q(r2, d)
  BY DEF AsGood
<1> HIDE DEF q, n
<1>5. \A x \in {r, r2} : f(x) \in [Dim(j) -> Int]
  <2>1. ASSUME NEW x \in {r, r2}, NEW d \in Dim(j) PROVE j.dimWeight[d] * q(x, d) \in Int
    <3>1. j.dimWeight[d] \in Int /\ q(x, d) \in Int
      BY <1>1, <1>3
    <3> QED BY <3>1
  <2> QED BY <2>1
<1>6. \A d \in Dim(j) : f(r)[d] <= f(r2)[d]
  <2> TAKE d \in Dim(j)
  <2>1. q(r, d) \in Int /\ q(r2, d) \in Int /\ q(r, d) <= q(r2, d) /\ j.dimWeight[d] \in Nat
    BY <1>1, <1>3, <1>4
  <2>2. q(r, d) * j.dimWeight[d] <= q(r2, d) * j.dimWeight[d]
    BY <2>1, Times
  <2>3. j.dimWeight[d] * q(r, d) <= j.dimWeight[d] * q(r2, d)
    BY <2>1, <2>2
  <2> QED BY <2>3
<1>7. /\ SelfOverall(j, r) = <<SumFunction(f(r)), n>>
      /\ SelfOverall(j, r2) = <<SumFunction(f(r2)), n>>
  BY DEF SelfOverall, q, n
<1>8. f(r) \in [Dim(j) -> Int] /\ f(r2) \in [Dim(j) -> Int]
  BY <1>5
<1> HIDE DEF f
<1>9. SumFunction(f(r)) \in Int /\ SumFunction(f(r)) <= SumFunction(f(r2))
  BY <1>1, <1>6, <1>8, SumGrows
<1>10. SumFunction(f(r2)) \in Int
  <2>1. \A d \in Dim(j) : f(r2)[d] <= f(r2)[d]
    BY <1>8
  <2> QED BY <1>1, <1>8, <2>1, SumGrows
<1> QED BY <1>2, <1>7, <1>9, <1>10 DEF Below, Frac

\* The half of the peers and the half of the member.
LEMMA HalvesGrow ==
    ASSUME NEW x, NEW x2, NEW y, NEW y2, Below(x, x2), Below(y, y2)
    PROVE  Below(<<Plus(x, y)[1], 2 * Plus(x, y)[2]>>, <<Plus(x2, y2)[1], 2 * Plus(x2, y2)[2]>>)
<1>1. /\ x \in Frac /\ x2 \in Frac /\ y \in Frac /\ y2 \in Frac
      /\ x[2] = x2[2] /\ y[2] = y2[2] /\ x[1] <= x2[1] /\ y[1] <= y2[1]
  BY DEF Below
<1>2. /\ x[1] \in Int /\ x2[1] \in Int /\ y[1] \in Int /\ y2[1] \in Int
      /\ x[2] \in Nat \ {0} /\ y[2] \in Nat \ {0}
  BY <1>1 DEF Frac
<1>3. /\ Plus(x, y)[1] = x[1] * y[2] + y[1] * x[2] /\ Plus(x, y)[2] = x[2] * y[2]
      /\ Plus(x2, y2)[1] = x2[1] * y[2] + y2[1] * x[2] /\ Plus(x2, y2)[2] = x[2] * y[2]
  BY <1>1, PlusType
<1>4. x[1] * y[2] <= x2[1] * y[2] /\ y[1] * x[2] <= y2[1] * x[2]
  BY <1>1, <1>2, Times
<1>5. /\ x[1] * y[2] \in Int /\ y[1] * x[2] \in Int /\ x2[1] * y[2] \in Int /\ y2[1] * x[2] \in Int
      /\ x[2] * y[2] \in Nat \ {0}
  BY <1>2
<1>6. ASSUME NEW a \in Int, NEW b \in Int, NEW c \in Int, NEW d \in Int, a <= b, c <= d
      PROVE  a + c <= b + d
  BY <1>6
<1>7. x[1] * y[2] + y[1] * x[2] <= x2[1] * y[2] + y2[1] * x[2]
  BY <1>4, <1>5, <1>6
<1>8. Plus(x, y)[1] \in Int /\ Plus(x2, y2)[1] \in Int /\ 2 * (x[2] * y[2]) \in Nat \ {0}
  BY <1>3, <1>5
<1> QED BY <1>3, <1>7, <1>8 DEF Below, Frac

\* Reviews and evaluations of some members by some members.
Reviewed(j, A, E, r, p) ==
    /\ A \in SUBSET DOMAIN j.weight /\ E \in SUBSET DOMAIN j.weight
    /\ r \in [A -> Review(j)] /\ p \in [E -> [A -> Score(j)]]

\* A member's overall grows with its own review and with its peers' scores.
LEMMA EffectiveGrows ==
    ASSUME NEW j, ValidJury(j), NEW A, NEW E, NEW r, NEW r2, NEW p, NEW p2,
           Reviewed(j, A, E, r, p), Reviewed(j, A, E, r2, p2),
           NEW m \in A, AsGood(j, r[m], r2[m]),
           \A e \in E \ {m} : p[e][m] <= p2[e][m]
    PROVE  Below(EffectiveOverall(j, m, r, p), EffectiveOverall(j, m, r2, p2))
<1> DEFINE other == E \ {m}
           v(q) == [e \in other |-> <<q[e][m], 1>>]
<1>1. DOMAIN p = E /\ DOMAIN p2 = E /\ r[m] \in Review(j) /\ r2[m] \in Review(j)
      /\ other \in SUBSET DOMAIN j.weight
  BY DEF Reviewed
<1>2. Below(SelfOverall(j, r[m]), SelfOverall(j, r2[m]))
  BY <1>1, SelfGrows
<1>3. CASE other = {}
  BY <1>1, <1>2, <1>3 DEF EffectiveOverall
<1>4. CASE other # {}
  <2>1. j.min \in Int /\ j.max \in Int
    BY DEF ValidJury
  <2>2. \A e \in other : p[e][m] \in Int /\ p2[e][m] \in Int
    BY <2>1 DEF Reviewed, Score
  <2>3. \A e \in other : Below(v(p)[e], v(p2)[e])
    BY <2>2 DEF Below, Frac
  <2>4. v(p) \in [other -> Frac] /\ v(p2) \in [other -> Frac]
    BY <2>2 DEF Frac
  <2>5. EffectiveOverall(j, m, r, p)
        = << Plus(SelfOverall(j, r[m]), Mean(j, v(p)))[1],
             2 * Plus(SelfOverall(j, r[m]), Mean(j, v(p)))[2] >>
    BY <1>1, <1>4 DEF EffectiveOverall
  <2>6. EffectiveOverall(j, m, r2, p2)
        = << Plus(SelfOverall(j, r2[m]), Mean(j, v(p2)))[1],
             2 * Plus(SelfOverall(j, r2[m]), Mean(j, v(p2)))[2] >>
    BY <1>1, <1>4 DEF EffectiveOverall
  <2> HIDE DEF v, other
  <2>7. Below(Mean(j, v(p)), Mean(j, v(p2)))
    BY <1>1, <1>4, <2>3, <2>4, MeanGrows
  <2> QED BY <1>2, <2>5, <2>6, <2>7, HalvesGrow
<1> QED BY <1>3, <1>4

\* Nobody's review is worse, nobody withdraws an approval, no peer's score falls.
Improved(j, A, E, r, p, r2, p2) ==
    /\ Reviewed(j, A, E, r, p) /\ Reviewed(j, A, E, r2, p2)
    /\ \A m \in A : /\ AsGood(j, r[m], r2[m])
                    /\ r[m].approves => r2[m].approves
                    /\ \A e \in E \ {m} : p[e][m] <= p2[e][m]

\* Then the average does not fall.
LEMMA AverageGrows ==
    ASSUME NEW j, ValidJury(j), NEW A, NEW E, NEW r, NEW r2, NEW p, NEW p2, A # {},
           Improved(j, A, E, r, p, r2, p2)
    PROVE  Below(AvgOverall(j, r, p), AvgOverall(j, r2, p2))
<1> DEFINE v == [m \in A |-> EffectiveOverall(j, m, r, p)]
           w == [m \in A |-> EffectiveOverall(j, m, r2, p2)]
<1>1. Reviewed(j, A, E, r, p) /\ Reviewed(j, A, E, r2, p2)
  BY DEF Improved
<1>2. A \in SUBSET DOMAIN j.weight /\ DOMAIN r = A /\ DOMAIN r2 = A
  BY <1>1 DEF Reviewed
<1>3. ASSUME NEW m \in A PROVE Below(EffectiveOverall(j, m, r, p), EffectiveOverall(j, m, r2, p2))
  <2>1. AsGood(j, r[m], r2[m]) /\ \A e \in E \ {m} : p[e][m] <= p2[e][m]
    BY DEF Improved
  <2> QED BY <1>1, <2>1, EffectiveGrows
<1>4. \A m \in A : Below(v[m], w[m])
  BY <1>3
<1>5. v \in [A -> Frac] /\ w \in [A -> Frac]
  BY <1>3 DEF Below
<1>6. AvgOverall(j, r, p) = Mean(j, v) /\ AvgOverall(j, r2, p2) = Mean(j, w)
  BY <1>2 DEF AvgOverall
<1> HIDE DEF v, w
<1>7. Below(Mean(j, v), Mean(j, w))
  BY <1>2, <1>4, <1>5, MeanGrows
<1> QED BY <1>6, <1>7

\* A fraction below another is so against any bound.
LEMMA BelowBounds ==
    ASSUME NEW x, NEW y, Below(x, y), NEW n \in Int
    PROVE  (AtLeast(x, n) => AtLeast(y, n)) /\ (AtMost(y, n) => AtMost(x, n))
<1>1. x[1] \in Int /\ y[1] \in Int /\ x[2] \in Int /\ x[2] = y[2] /\ x[1] <= y[1]
  BY DEF Below, Frac
<1>2. n * x[2] \in Int
  BY <1>1
<1> QED BY <1>1, <1>2 DEF AtLeast, AtMost

\* Nor does an agreement become none,
LEMMA AgreementGrows ==
    ASSUME NEW j, ValidJury(j), NEW A, NEW E, NEW r, NEW r2, NEW p, NEW p2,
           Improved(j, A, E, r, p, r2, p2), Agrees(j, r)
    PROVE  Agrees(j, r2)
<1> DEFINE S == { m \in A : r[m].approves }
           T == { m \in A : r2[m].approves }
<1>1. A \in SUBSET DOMAIN j.weight /\ DOMAIN r = A /\ DOMAIN r2 = A
  BY DEF Improved, Reviewed
<1>2. S \in SUBSET T /\ T \in SUBSET DOMAIN j.weight /\ S \in SUBSET DOMAIN j.weight
  BY <1>1 DEF Improved
<1>3. 100 * WeightOf(j, S) >= j.agreement * WeightOf(j, A)
  BY <1>1 DEF Agrees
<1> HIDE DEF S, T
<1>4. WeightOf(j, S) <= WeightOf(j, T)
  BY <1>2, WeightGrows
<1>5. WeightOf(j, S) \in Nat /\ WeightOf(j, T) \in Nat /\ WeightOf(j, A) \in Nat
  BY <1>1, <1>2, Weight
<1>6. j.agreement \in Int
  BY DEF ValidJury
<1>7. j.agreement * WeightOf(j, A) \in Int
  BY <1>5, <1>6
<1>8. 100 * WeightOf(j, T) >= j.agreement * WeightOf(j, A)
  BY <1>3, <1>4, <1>5, <1>7
<1> QED BY <1>1, <1>8 DEF Agrees, T

\* and a dimension that passes goes on passing, whichever its direction.
LEMMA PassingGrows ==
    ASSUME NEW j, ValidJury(j), NEW A, NEW E, NEW r, NEW r2, NEW p, NEW p2, A # {},
           Improved(j, A, E, r, p, r2, p2), NEW d \in DOMAIN j.approveAt, Passes(j, d, r)
    PROVE  Passes(j, d, r2)
<1> DEFINE v(x) == [m \in A |-> <<Judged(j, x[m], d), 1>>]
<1>1. /\ A \in SUBSET DOMAIN j.weight /\ DOMAIN r = A /\ DOMAIN r2 = A
      /\ \A m \in A : r[m] \in Review(j) /\ r2[m] \in Review(j)
  BY DEF Improved, Reviewed
<1>2. d \in Dim(j) /\ j.approveAt[d] \in Int /\ j.min \in Int /\ j.max \in Int
  BY DEF ValidJury, Score
<1>3. \A m \in A : Judged(j, r[m], d) \in Int /\ Judged(j, r2[m], d) \in Int
  <2>1. Score(j) \subseteq Int
    BY <1>2 DEF Score
  <2> QED BY <1>1, <1>2, <2>1, Judgement
<1>4. \A m \in A : Quality(j, d, Judged(j, r[m], d)) <= Quality(j, d, Judged(j, r2[m], d))
  BY <1>2 DEF Improved, AsGood
<1>5. v(r) \in [A -> Frac] /\ v(r2) \in [A -> Frac]
  BY <1>3 DEF Frac
<1>6. CASE d \in j.lower
  <2>1. \A m \in A : Judged(j, r2[m], d) <= Judged(j, r[m], d)
    BY <1>2, <1>3, <1>4, <1>6 DEF Quality
  <2>2. \A m \in A : Below(v(r2)[m], v(r)[m])
    BY <1>3, <2>1 DEF Below, Frac
  <2>3. AtMost(Mean(j, v(r)), j.approveAt[d])
    BY <1>1, <1>6 DEF Passes
  <2>4. Passes(j, d, r2) <=> AtMost(Mean(j, v(r2)), j.approveAt[d])
    BY <1>1, <1>6 DEF Passes
  <2> HIDE DEF v
  <2>5. Below(Mean(j, v(r2)), Mean(j, v(r)))
    BY <1>1, <1>5, <2>2, MeanGrows
  <2> QED BY <1>2, <2>3, <2>4, <2>5, BelowBounds
<1>7. CASE d \notin j.lower
  <2>1. \A m \in A : Judged(j, r[m], d) <= Judged(j, r2[m], d)
    BY <1>3, <1>4, <1>7 DEF Quality
  <2>2. \A m \in A : Below(v(r)[m], v(r2)[m])
    BY <1>3, <2>1 DEF Below, Frac
  <2>3. AtLeast(Mean(j, v(r)), j.approveAt[d])
    BY <1>1, <1>7 DEF Passes
  <2>4. Passes(j, d, r2) <=> AtLeast(Mean(j, v(r2)), j.approveAt[d])
    BY <1>1, <1>7 DEF Passes
  <2> HIDE DEF v
  <2>5. Below(Mean(j, v(r)), Mean(j, v(r2)))
    BY <1>1, <1>5, <2>2, MeanGrows
  <2> QED BY <1>2, <2>3, <2>4, <2>5, BelowBounds
<1> QED BY <1>6, <1>7

\* When the gate is passed.
Approved(j, r, p) ==
    /\ AtLeast(AvgOverall(j, r, p), j.overall) /\ Agrees(j, r)
    /\ \A d \in DOMAIN j.approveAt : Passes(j, d, r)

\* The three verdicts, told apart.
LEMMA Verdicts ==
    ASSUME NEW j, NEW r, NEW p
    PROVE  /\ Verdict(j, r, p) \in {"APPROVE", "REWORK", "REJECT"}
           /\ Verdict(j, r, p) = "APPROVE" <=> Approved(j, r, p)
           /\ Verdict(j, r, p) = "REJECT"
                <=> ~Approved(j, r, p) /\ AtMost(AvgOverall(j, r, p), j.reject)
<1>1. Verdict(j, r, p) = IF Approved(j, r, p) THEN "APPROVE"
                         ELSE IF AtMost(AvgOverall(j, r, p), j.reject) THEN "REJECT" ELSE "REWORK"
  <2>1. CASE Approved(j, r, p)
    BY <2>1, Zenon DEF Verdict, Approved
  <2>2. CASE ~Approved(j, r, p)
    BY <2>2, Zenon DEF Verdict, Approved
  <2> QED BY <2>1, <2>2
<1> QED BY <1>1

\* A better review never makes the verdict worse.
LEMMA VerdictGrows ==
    ASSUME NEW j, ValidJury(j), NEW A, NEW E, NEW r, NEW r2, NEW p, NEW p2, A # {},
           Improved(j, A, E, r, p, r2, p2)
    PROVE  /\ Verdict(j, r, p) = "APPROVE" => Verdict(j, r2, p2) = "APPROVE"
           /\ Verdict(j, r2, p2) = "REJECT" => Verdict(j, r, p) = "REJECT"
<1>1. Below(AvgOverall(j, r, p), AvgOverall(j, r2, p2))
  BY AverageGrows
<1>2. j.overall \in Int /\ j.reject \in Int
  <2>1. j.min \in Int /\ j.max \in Int
    BY DEF ValidJury
  <2> QED BY <2>1 DEF ValidJury, Score
<1>3. ASSUME Approved(j, r, p) PROVE Approved(j, r2, p2)
  <2>1. AtLeast(AvgOverall(j, r2, p2), j.overall)
    BY <1>1, <1>2, <1>3, BelowBounds DEF Approved
  <2>2. Agrees(j, r2)
    BY <1>3, AgreementGrows DEF Approved
  <2>3. \A d \in DOMAIN j.approveAt : Passes(j, d, r2)
    BY <1>3, PassingGrows DEF Approved
  <2> QED BY <2>1, <2>2, <2>3 DEF Approved
<1>4. AtMost(AvgOverall(j, r2, p2), j.reject) => AtMost(AvgOverall(j, r, p), j.reject)
  BY <1>1, <1>2, BelowBounds
<1> QED BY <1>3, <1>4, Verdicts

-----------------------------------------------------------------------------
(* Evidence, and the best of reviews.                                      *)

\* In a dimension for which there is evidence the average is the evidence.
LEMMA EvidenceBinds ==
    ASSUME NEW j, ValidJury(j), NEW A \in SUBSET DOMAIN j.weight, A # {}, NEW r, DOMAIN r = A,
           NEW d \in DOMAIN j.approveAt, d \in DOMAIN j.evidence, Passes(j, d, r)
    PROVE  IF d \in j.lower THEN j.evidence[d] <= j.approveAt[d]
                            ELSE j.evidence[d] >= j.approveAt[d]
<1> DEFINE k == j.evidence[d]
           v == [m \in A |-> <<k, 1>>]
<1>1. k \in Int /\ j.approveAt[d] \in Int
  <2>1. j.min \in Int /\ j.max \in Int
    BY DEF ValidJury
  <2> QED BY <2>1 DEF ValidJury, Score
<1>2. [m \in A |-> <<Judged(j, r[m], d), 1>>] = v
  BY DEF Judged
<1>3. v \in [A -> Frac] /\ \A m \in A : v[m][1] = k * v[m][2]
  BY <1>1 DEF Frac
<1>4. IF d \in j.lower THEN AtMost(Mean(j, v), j.approveAt[d])
                       ELSE AtLeast(Mean(j, v), j.approveAt[d])
  BY <1>2 DEF Passes
<1> HIDE DEF v, k
<1>5. Mean(j, v) \in Frac /\ Mean(j, v)[1] = k * Mean(j, v)[2]
  BY <1>1, <1>3, MeanOfEqual
<1>6. Mean(j, v)[2] \in Nat \ {0}
  BY <1>5 DEF Frac
<1>7. CASE d \in j.lower
  <2>1. k * Mean(j, v)[2] <= j.approveAt[d] * Mean(j, v)[2]
    BY <1>4, <1>5, <1>7 DEF AtMost
  <2>2. k <= j.approveAt[d]
    BY <1>1, <1>6, <2>1, Cancel
  <2> QED BY <1>7, <2>2 DEF k
<1>8. CASE d \notin j.lower
  <2>1. j.approveAt[d] * Mean(j, v)[2] <= k * Mean(j, v)[2]
    <3>1. k * Mean(j, v)[2] >= j.approveAt[d] * Mean(j, v)[2]
      BY <1>4, <1>5, <1>8 DEF AtLeast
    <3>2. k * Mean(j, v)[2] \in Int /\ j.approveAt[d] * Mean(j, v)[2] \in Int
      BY <1>1, <1>6
    <3> QED BY <3>1, <3>2
  <2>2. j.approveAt[d] <= k
    BY <1>1, <1>6, <2>1, Cancel
  <2> QED BY <1>1, <1>8, <2>2 DEF k
<1> QED BY <1>7, <1>8

\* A fraction that is a whole number.
Whole(x, k) == x \in Frac /\ x[1] = k * x[2]

\* Two halves that are the same whole number make it up.
LEMMA WholeHalves ==
    ASSUME NEW k \in Int, NEW x, Whole(x, k), NEW y, Whole(y, k)
    PROVE  Whole(<<Plus(x, y)[1], 2 * Plus(x, y)[2]>>, k)
<1>1. x \in Frac /\ y \in Frac /\ x[1] = k * x[2] /\ y[1] = k * y[2]
  BY DEF Whole
<1>2. x[2] \in Nat \ {0} /\ y[2] \in Nat \ {0}
  BY <1>1 DEF Frac
<1>3. Plus(x, y)[1] = (k * x[2]) * y[2] + (k * y[2]) * x[2] /\ Plus(x, y)[2] = x[2] * y[2]
  BY <1>1, PlusType
<1>4. ASSUME NEW a \in Int, NEW b \in Int
      PROVE  (k * a) * b + (k * b) * a = k * (2 * (a * b))
  OBVIOUS
<1>5. x[2] \in Int /\ y[2] \in Int /\ 2 * (x[2] * y[2]) \in Nat \ {0} /\ k * (2 * (x[2] * y[2])) \in Int
  BY <1>2
<1>6. Plus(x, y)[1] = k * (2 * (x[2] * y[2]))
  BY <1>3, <1>4, <1>5
<1> QED BY <1>3, <1>5, <1>6 DEF Whole, Frac

\* The best in a dimension.
BestScore(j, d) == IF d \in j.lower THEN j.min ELSE j.max

\* When every dimension is judged best, by everybody, and the peers agree, the gate
\* is passed, whatever the weights and the thresholds.
LEMMA BestIsApproved ==
    ASSUME NEW j, ValidJury(j), NEW A, NEW E, NEW r, NEW p, A # {}, Reviewed(j, A, E, r, p),
           \A m \in A : /\ r[m].approves
                        /\ \A d \in Dim(j) : Judged(j, r[m], d) = BestScore(j, d)
                        /\ \A e \in E : p[e][m] = j.max
    PROVE  Verdict(j, r, p) = "APPROVE"
<1>1. /\ A \in SUBSET DOMAIN j.weight /\ E \in SUBSET DOMAIN j.weight /\ DOMAIN r = A /\ DOMAIN p = E
  BY DEF Reviewed
<1>2. /\ j.min \in Int /\ j.max \in Int /\ j.overall \in Int /\ j.overall <= j.max
      /\ j.agreement \in 0..100
      /\ \A d \in DOMAIN j.approveAt : /\ d \in Dim(j) /\ j.approveAt[d] \in Int
                                       /\ j.min <= j.approveAt[d] /\ j.approveAt[d] <= j.max
  <2>1. j.min \in Int /\ j.max \in Int
    BY DEF ValidJury
  <2> QED BY <2>1 DEF ValidJury, Score
<1>3. \A m \in A, d \in Dim(j) : Quality(j, d, Judged(j, r[m], d)) = j.max
  <2> TAKE m \in A, d \in Dim(j)
  <2>1. Judged(j, r[m], d) = BestScore(j, d)
    OBVIOUS
  <2> QED BY <1>2, <2>1 DEF Quality, BestScore
<1>4. ASSUME NEW m \in A PROVE Whole(SelfOverall(j, r[m]), j.max)
  <2> DEFINE V == j.dimWeight
             n == SumFunction(V)
  <2>1. IsFiniteSet(Dim(j)) /\ V \in [Dim(j) -> Nat] /\ V \in [Dim(j) -> Int] /\ DOMAIN V = Dim(j)
        /\ V \in [Dim(j) -> Nat \ {0}]
    BY DEF ValidJury
  <2>2. [d \in Dim(j) |-> V[d] * Quality(j, d, Judged(j, r[m], d))] = [d \in Dim(j) |-> V[d] * j.max]
    BY <1>3
  <2>3. SelfOverall(j, r[m]) = <<SumFunction([d \in Dim(j) |-> V[d] * j.max]), n>>
    BY <2>2 DEF SelfOverall
  <2>4. PICK d \in Dim(j) : TRUE
    BY DEF ValidJury
  <2> HIDE DEF V
  <2>5. SumFunction([d2 \in Dim(j) |-> V[d2] * j.max]) = SumFunction(V) * j.max
    BY <1>2, <2>1, SumScales
  <2>6. n \in Nat
    BY <2>1, SumNat
  <2>7. V[d] <= n
    BY <2>1, <2>4, SumCovers
  <2>8. V[d] \in Nat \ {0}
    BY <2>1, <2>4
  <2>9. SelfOverall(j, r[m]) = <<n * j.max, n>>
    BY <2>3, <2>5
  <2> HIDE DEF n
  <2>10. n \in Nat \ {0} /\ n * j.max = j.max * n /\ n * j.max \in Int
    BY <1>2, <2>6, <2>7, <2>8
  <2> QED BY <2>9, <2>10 DEF Whole, Frac
<1>5. ASSUME NEW m \in A PROVE Whole(EffectiveOverall(j, m, r, p), j.max)
  <2> DEFINE other == E \ {m}
             v == [e \in other |-> <<p[e][m], 1>>]
  <2>1. CASE other = {}
    BY <1>1, <1>4, <2>1 DEF EffectiveOverall
  <2>2. CASE other # {}
    <3>1. v \in [other -> Frac] /\ \A e \in other : v[e][1] = j.max * v[e][2]
      <4>1. \A e \in other : p[e][m] = j.max
        OBVIOUS
      <4> QED BY <1>2, <4>1 DEF Frac
    <3>2. EffectiveOverall(j, m, r, p)
          = << Plus(SelfOverall(j, r[m]), Mean(j, v))[1], 2 * Plus(SelfOverall(j, r[m]), Mean(j, v))[2] >>
      BY <1>1, <2>2 DEF EffectiveOverall
    <3>3. other \in SUBSET DOMAIN j.weight
      BY <1>1
    <3> HIDE DEF v, other
    <3>4. Whole(Mean(j, v), j.max)
      BY <1>2, <2>2, <3>1, <3>3, MeanOfEqual DEF Whole
    <3> QED BY <1>2, <1>4, <3>2, <3>4, WholeHalves
  <2> QED BY <2>1, <2>2
<1>6. Whole(AvgOverall(j, r, p), j.max)
  <2> DEFINE v == [m \in A |-> EffectiveOverall(j, m, r, p)]
  <2>1. v \in [A -> Frac] /\ \A m \in A : v[m][1] = j.max * v[m][2]
    BY <1>5 DEF Whole
  <2>2. AvgOverall(j, r, p) = Mean(j, v)
    BY <1>1 DEF AvgOverall
  <2> HIDE DEF v
  <2>3. A \in SUBSET DOMAIN j.weight /\ j.max \in Int
    BY <1>1, <1>2
  <2>4. Mean(j, v) \in Frac /\ Mean(j, v)[1] = j.max * Mean(j, v)[2]
    BY <2>1, <2>3, MeanOfEqual
  <2> QED BY <2>2, <2>4 DEF Whole
<1>7. ASSUME NEW x, NEW k \in Int, NEW n \in Int, Whole(x, k)
      PROVE  (n <= k => AtLeast(x, n)) /\ (k <= n => AtMost(x, n))
  <2>1. x[1] = k * x[2] /\ x[2] \in Nat
    BY <1>7 DEF Whole, Frac
  <2>2. n <= k => n * x[2] <= k * x[2]
    BY <2>1, Times
  <2>3. k <= n => k * x[2] <= n * x[2]
    BY <2>1, Times
  <2>4. n * x[2] \in Int /\ k * x[2] \in Int
    BY <2>1
  <2> QED BY <2>1, <2>2, <2>3, <2>4 DEF AtLeast, AtMost
<1>8. AtLeast(AvgOverall(j, r, p), j.overall)
  BY <1>2, <1>6, <1>7
<1>9. Agrees(j, r)
  <2>1. { m \in DOMAIN r : r[m].approves } = A
    BY <1>1
  <2>2. WeightOf(j, A) \in Nat
    BY <1>1, Weight
  <2>3. j.agreement * WeightOf(j, A) <= 100 * WeightOf(j, A)
    BY <1>2, <2>2, Times
  <2>4. j.agreement * WeightOf(j, A) \in Int
    BY <1>2, <2>2
  <2> QED BY <1>1, <2>1, <2>2, <2>3, <2>4 DEF Agrees
<1>10. ASSUME NEW d \in DOMAIN j.approveAt PROVE Passes(j, d, r)
  <2> DEFINE k == BestScore(j, d)
             v == [m \in A |-> <<k, 1>>]
  <2>1. k \in Int
    BY <1>2 DEF BestScore
  <2>2. [m \in A |-> <<Judged(j, r[m], d), 1>>] = v
    BY <1>2
  <2>3. v \in [A -> Frac] /\ \A m \in A : v[m][1] = k * v[m][2]
    BY <2>1 DEF Frac
  <2>4. Passes(j, d, r) <=> IF d \in j.lower THEN AtMost(Mean(j, v), j.approveAt[d])
                                             ELSE AtLeast(Mean(j, v), j.approveAt[d])
    BY <1>1, <2>2 DEF Passes
  <2>5. IF d \in j.lower THEN k <= j.approveAt[d] ELSE j.approveAt[d] <= k
    BY <1>2 DEF BestScore
  <2> HIDE DEF v, k
  <2>6. Whole(Mean(j, v), k)
    BY <1>1, <2>1, <2>3, MeanOfEqual DEF Whole
  <2>7. j.approveAt[d] \in Int
    BY <1>2
  <2> QED BY <1>7, <2>1, <2>4, <2>5, <2>6, <2>7
<1> QED BY <1>8, <1>9, <1>10, Verdicts DEF Approved

-----------------------------------------------------------------------------
(* What a verdict depends on.                                              *)

\* The verdict depends on the reviews only through how each dimension is judged
\* and who approves, and on the evaluations only through what others say.
LEMMA SameVerdict ==
    ASSUME NEW j, ValidJury(j), NEW r, NEW r2, NEW p, NEW p2, DOMAIN r2 = DOMAIN r, DOMAIN p2 = DOMAIN p,
           \A n \in DOMAIN r : /\ r2[n].approves = r[n].approves
                               /\ \A d \in Dim(j) : Judged(j, r2[n], d) = Judged(j, r[n], d)
                               /\ \A e \in DOMAIN p \ {n} : p2[e][n] = p[e][n]
    PROVE  Verdict(j, r2, p2) = Verdict(j, r, p)
<1>1. ASSUME NEW n \in DOMAIN r PROVE SelfOverall(j, r2[n]) = SelfOverall(j, r[n])
  <2> DEFINE f(q) == [d \in Dim(j) |-> j.dimWeight[d] * Quality(j, d, Judged(j, q, d))]
  <2>1. f(r2[n]) = f(r[n])
    OBVIOUS
  <2> QED BY <2>1 DEF SelfOverall
<1>2. ASSUME NEW n \in DOMAIN r PROVE EffectiveOverall(j, n, r2, p2) = EffectiveOverall(j, n, r, p)
  <2> DEFINE others(q) == [e \in DOMAIN p \ {n} |-> <<q[e][n], 1>>]
  <2>1. others(p2) = others(p)
    OBVIOUS
  <2> QED BY <1>1, <2>1 DEF EffectiveOverall
<1>3. AvgOverall(j, r2, p2) = AvgOverall(j, r, p)
  <2>1. [n \in DOMAIN r |-> EffectiveOverall(j, n, r2, p2)]
        = [n \in DOMAIN r |-> EffectiveOverall(j, n, r, p)]
    BY <1>2
  <2> QED BY <2>1 DEF AvgOverall
<1>4. Agrees(j, r2) <=> Agrees(j, r)
  <2>1. { n \in DOMAIN r : r2[n].approves } = { n \in DOMAIN r : r[n].approves }
    OBVIOUS
  <2> QED BY <2>1 DEF Agrees
<1>5. ASSUME NEW d \in DOMAIN j.approveAt PROVE Passes(j, d, r2) <=> Passes(j, d, r)
  <2>1. d \in Dim(j)
    BY DEF ValidJury
  <2>2. [n \in DOMAIN r |-> <<Judged(j, r2[n], d), 1>>] = [n \in DOMAIN r |-> <<Judged(j, r[n], d), 1>>]
    BY <2>1
  <2> QED BY <2>2 DEF Passes
<1> QED BY <1>3, <1>4, <1>5 DEF Verdict

=============================================================================
