-------------------------- MODULE DefinitionsProofs --------------------------
(***************************************************************************)
(* That from_dict loads exactly the definitions that can be run, for       *)
(* definitions of any size over any ids.                                   *)
(*                                                                         *)
(* topo_order is a recursive function.  That there is such a function at   *)
(* all, and then what it returns, is proved by induction on a measure that *)
(* each call makes smaller: the nodes not on the stack, and then the nodes *)
(* still to be visited.  With the cursor of WorkflowProofs this gives what *)
(* the run of the definitions checks.                                      *)
(***************************************************************************)
EXTENDS WorkflowProofs, SumLemmas

-----------------------------------------------------------------------------
(* Recursive functions.                                                    *)

\* g is what F makes of it wherever the measure m is less than n.
Solves(g, F, D, Y, m, n) == g \in [D -> Y] /\ \A x \in D : m[x] < n => g[x] = F[<<x, g>>]

\* F looks at its function only where the measure is smaller.
LooksDown(F, D, Y, m) ==
    \A x \in D : \A g, h \in [D -> Y] :
        (\A y \in D : m[y] < m[x] => g[y] = h[y]) => F[<<x, g>>] = F[<<x, h>>]

Shape(F, D, Y) == F \in [D \X [D -> Y] -> Y]

Solution(g, F, D, Y) == g \in [D -> Y] /\ \A x \in D : g[x] = F[<<x, g>>]

\* Where two functions solve the same equations they are equal.
LEMMA SolutionsAgree ==
    ASSUME NEW D, NEW Y, NEW m \in [D -> Nat], NEW F, LooksDown(F, D, Y, m),
           NEW n \in Nat, NEW g, NEW h, Solves(g, F, D, Y, m, n), Solves(h, F, D, Y, m, n)
    PROVE  \A x \in D : m[x] < n => g[x] = h[x]
<1> DEFINE P == { k \in Nat : k <= n => \A x \in D : m[x] < k => g[x] = h[x] }
<1>1. 0 \in P
  OBVIOUS
<1>2. ASSUME NEW k \in Nat, k \in P PROVE k + 1 \in P
  <2>1. SUFFICES ASSUME k + 1 <= n, NEW x \in D, m[x] < k + 1 PROVE g[x] = h[x]
    OBVIOUS
  <2>2. \A y \in D : m[y] < m[x] => g[y] = h[y]
    BY <1>2, <2>1
  <2>3. F[<<x, g>>] = F[<<x, h>>]
    BY <2>2 DEF LooksDown, Solves
  <2> QED BY <2>1, <2>3 DEF Solves
<1>3. Nat \subseteq P
  <2> HIDE DEF P
  <2> QED BY <1>1, <1>2, Induction
<1> QED BY <1>3

\* There is a function that solves all of them.
LEMMA Recursion ==
    ASSUME NEW D, NEW Y, NEW m \in [D -> Nat], NEW F, Shape(F, D, Y),
           NEW base \in Y, LooksDown(F, D, Y, m)
    PROVE  \E g : Solution(g, F, D, Y)
<1> DEFINE P == { n \in Nat : \E g : Solves(g, F, D, Y, m, n) }
<1>1. 0 \in P
  <2>1. Solves([x \in D |-> base], F, D, Y, m, 0)
    BY DEF Solves
  <2> QED BY <2>1
<1>2. ASSUME NEW n \in Nat, n \in P PROVE n + 1 \in P
  <2>1. PICK g : Solves(g, F, D, Y, m, n)
    BY <1>2
  <2> DEFINE h == [x \in D |-> F[<<x, g>>]]
  <2>2. h \in [D -> Y]
    BY <2>1 DEF Solves, Shape
  <2>3. \A x \in D : m[x] < n => h[x] = g[x]
    BY <2>1 DEF Solves
  <2>4. ASSUME NEW x \in D, m[x] < n + 1 PROVE h[x] = F[<<x, h>>]
    <3>1. \A y \in D : m[y] < m[x] => h[y] = g[y]
      <4> HIDE DEF h
      <4> QED BY <2>3, <2>4
    <3>2. F[<<x, h>>] = F[<<x, g>>]
      <4> HIDE DEF h
      <4> QED BY <2>1, <2>2, <3>1 DEF LooksDown, Solves
    <3> QED BY <3>2
  <2>5. Solves(h, F, D, Y, m, n + 1)
    <3> HIDE DEF h
    <3> QED BY <2>2, <2>4 DEF Solves
  <2> HIDE DEF h
  <2> QED BY <2>5
<1>3. Nat \subseteq P
  <2> HIDE DEF P
  <2> QED BY <1>1, <1>2, Induction
<1> DEFINE G == [n \in Nat |-> CHOOSE g : Solves(g, F, D, Y, m, n)]
<1>4. \A n \in Nat : Solves(G[n], F, D, Y, m, n)
  BY <1>3
<1> HIDE DEF G, P
<1> DEFINE r == [x \in D |-> G[m[x] + 1][x]]
<1>5. r \in [D -> Y]
  BY <1>4 DEF Solves
<1>6. ASSUME NEW x \in D PROVE r[x] = F[<<x, r>>]
  <2>1. ASSUME NEW y \in D, m[y] < m[x] PROVE r[y] = G[m[x] + 1][y]
    <3>1. m[x] \in Nat /\ m[y] \in Nat
      OBVIOUS
    <3>2. Solves(G[m[x] + 1], F, D, Y, m, m[x] + 1) /\ Solves(G[m[y] + 1], F, D, Y, m, m[y] + 1)
      BY <1>4, <3>1
    <3>3. Solves(G[m[x] + 1], F, D, Y, m, m[y] + 1)
      <4> \A z \in D : m[z] < m[y] + 1 => m[z] < m[x] + 1
        BY <2>1
      <4> QED BY <3>2 DEF Solves
    <3>4. m[y] + 1 \in Nat /\ m[y] < m[y] + 1
      BY <3>1
    <3>5. \A z \in D : m[z] < m[y] + 1 => G[m[y] + 1][z] = G[m[x] + 1][z]
      BY <3>2, <3>3, <3>4, SolutionsAgree
    <3> QED BY <3>4, <3>5
  <2>2. F[<<x, r>>] = F[<<x, G[m[x] + 1]>>]
    <3>1. G[m[x] + 1] \in [D -> Y]
      BY <1>4 DEF Solves
    <3> HIDE DEF r
    <3> QED BY <1>5, <2>1, <3>1 DEF LooksDown
  <2>3. r[x] = F[<<x, G[m[x] + 1]>>]
    <3>1. m[x] + 1 \in Nat /\ m[x] < m[x] + 1
      OBVIOUS
    <3>2. Solves(G[m[x] + 1], F, D, Y, m, m[x] + 1)
      BY <1>4, <3>1
    <3> QED BY <3>1, <3>2 DEF Solves
  <2> QED BY <2>2, <2>3
<1> HIDE DEF r
<1> QED BY <1>5, <1>6 DEF Solution

-----------------------------------------------------------------------------
(* The recursion of topo_order.                                            *)

Calls(N)  == Seq(N) \X (SUBSET N) \X Seq(N)
Orders(N) == Seq(N) \cup {<<Cycle>>}

\* What a call does after its first node, by means of g.
AfterFirst(deps, g, x) ==
    LET n     == Head(x[1])
        below == g[<<deps[n], x[2] \cup {n}, x[3]>>]
    IN  IF n \in x[2] THEN <<Cycle>>
        ELSE IF n \in ToSet(x[3]) THEN x[3]
        ELSE IF below = <<Cycle>> THEN below ELSE Append(below, n)

Body(deps, g, x) ==
    LET after == AfterFirst(deps, g, x)
    IN  IF x[1] = <<>> THEN x[3]
        ELSE IF after = <<Cycle>> THEN after
        ELSE g[<<Tail(x[1]), x[2], after>>]

\* The nodes of a loaded definition, or of one that is being checked for cycles.
Graph(N, deps) == IsFiniteSet(N) /\ Cycle \notin N /\ deps \in [N -> Seq(N)]

\* The nodes not on the stack, and then those still to be visited; no node
\* depends on more than B others.
Size(N, B, x) == Cardinality(N \ x[2]) * B + Len(x[1])

\* The dependencies of a finite graph's nodes are bounded in number.
LEMMA DepsAreBounded ==
    ASSUME NEW N, NEW deps, Graph(N, deps)
    PROVE  \E B \in Nat : \A n \in N : Len(deps[n]) <= B
<1> DEFINE Q == { s \in SUBSET N : \E B \in Nat : \A n \in s : Len(deps[n]) <= B }
<1>1. {} \in Q
  BY 0 \in Nat
<1>2. ASSUME NEW s \in SUBSET N, s # {}, s \ {Pick(s)} \in Q PROVE s \in Q
  <2>1. PICK B \in Nat : \A n \in s \ {Pick(s)} : Len(deps[n]) <= B
    BY <1>2
  <2>2. Pick(s) \in N
    BY <1>2, Sizes DEF Graph
  <2>3. Len(deps[Pick(s)]) \in Nat
    BY <2>2 DEF Graph
  <2>4. \A n \in s : Len(deps[n]) \in Nat
    BY DEF Graph
  <2>5. \A n \in s : Len(deps[n]) <= B + Len(deps[Pick(s)])
    BY <2>1, <2>3, <2>4
  <2> QED BY <2>3, <2>5
<1>3. SUBSET N \subseteq Q
  <2> HIDE DEF Q
  <2> QED BY <1>1, <1>2, SubsetInduction DEF Graph
<1> QED BY <1>3

\* The calls that a call makes are smaller than it is.
LEMMA CallsShrink ==
    ASSUME NEW N, NEW deps, Graph(N, deps),
           NEW B \in Nat, \A n \in N : Len(deps[n]) <= B,
           NEW x \in Calls(N), NEW o \in Seq(N)
    PROVE  /\ Size(N, B, x) \in Nat
           /\ x[1] # <<>> =>
                /\ Head(x[1]) \in N
                /\ <<Tail(x[1]), x[2], o>> \in Calls(N)
                /\ Size(N, B, <<Tail(x[1]), x[2], o>>) < Size(N, B, x)
                /\ LET down == <<deps[Head(x[1])], x[2] \cup {Head(x[1])}, o>>
                   IN  /\ down \in Calls(N)
                       /\ Head(x[1]) \notin x[2] => Size(N, B, down) < Size(N, B, x)
<1>0. x[1] \in Seq(N) /\ x[2] \in SUBSET N
  BY DEF Calls
<1>1. Cardinality(N \ x[2]) \in Nat /\ Len(x[1]) \in Nat
  BY <1>0, FS_Subset, FS_CardinalityType DEF Graph
<1> DEFINE c == Cardinality(N \ x[2])
<1>2. c * B \in Nat /\ (c - 1) * B = c * B - B /\ c \in Nat
  <2>1. c \in Nat
    BY <1>1
  <2> HIDE DEF c
  <2> QED BY <2>1
<1>3. Size(N, B, x) \in Nat
  BY <1>1, <1>2 DEF Size
<1>4. ASSUME x[1] # <<>>
      PROVE  LET n == Head(x[1])
                 down == <<deps[n], x[2] \cup {n}, o>>
             IN  /\ n \in N /\ Tail(x[1]) \in Seq(N) /\ Len(Tail(x[1])) = Len(x[1]) - 1
                 /\ down \in Calls(N)
                 /\ n \notin x[2] => Size(N, B, down) < Size(N, B, x)
  <2> DEFINE n == Head(x[1])
             down == <<deps[n], x[2] \cup {n}, o>>
  <2>1. n \in N /\ Tail(x[1]) \in Seq(N) /\ Len(Tail(x[1])) = Len(x[1]) - 1 /\ Len(x[1]) > 0
    BY <1>0, <1>4
  <2> HIDE DEF n
  <2>2. deps[n] \in Seq(N) /\ Len(deps[n]) \in Nat /\ Len(deps[n]) <= B
    BY <2>1 DEF Graph
  <2>3. down \in Calls(N)
    BY <1>0, <2>1, <2>2 DEF Calls
  <2>4. ASSUME n \notin x[2] PROVE Size(N, B, down) < Size(N, B, x)
    <3>1. N \ (x[2] \cup {n}) = (N \ x[2]) \ {n} /\ n \in N \ x[2]
      BY <2>1, <2>4
    <3>2. Cardinality(N \ (x[2] \cup {n})) = c - 1
      <4>1. IsFiniteSet(N \ x[2])
        BY FS_Subset DEF Graph
      <4>2. Cardinality((N \ x[2]) \ {n}) = c - 1
        BY <3>1, <4>1, FS_RemoveElement
      <4> QED BY <3>1, <4>2
    <3>3. Size(N, B, down) = (c - 1) * B + Len(deps[n])
      BY <3>2 DEF Size
    <3>4. Size(N, B, x) = c * B + Len(x[1])
      BY DEF Size
    <3>5. \A p, k, l \in Nat : l > 0 /\ k <= B => (p - B) + k < p + l
      OBVIOUS
    <3>6. Len(x[1]) \in Nat
      BY <1>1
    <3> DEFINE p == c * B
    <3>7. p \in Nat /\ (c - 1) * B = p - B
      BY <1>2
    <3> HIDE DEF p
    <3>8. (p - B) + Len(deps[n]) < p + Len(x[1])
      BY <2>1, <2>2, <3>5, <3>6, <3>7
    <3> QED BY <3>3, <3>4, <3>7, <3>8 DEF p
  <2> QED BY <2>1, <2>3, <2>4 DEF n
<1>5. ASSUME x[1] # <<>> PROVE /\ <<Tail(x[1]), x[2], o>> \in Calls(N)
                               /\ Size(N, B, <<Tail(x[1]), x[2], o>>) < Size(N, B, x)
  <2>1. Tail(x[1]) \in Seq(N) /\ Len(Tail(x[1])) = Len(x[1]) - 1
    BY <1>4, <1>5
  <2>2. \A p, l \in Nat : p + (l - 1) < p + l
    OBVIOUS
  <2> DEFINE t == <<Tail(x[1]), x[2], o>>
  <2>3. Size(N, B, t) = c * B + (Len(x[1]) - 1) /\ Size(N, B, x) = c * B + Len(x[1])
    BY <2>1 DEF Size
  <2>4. t \in Calls(N)
    BY <1>0, <2>1 DEF Calls
  <2> QED BY <1>1, <1>2, <2>2, <2>3, <2>4
<1> QED BY <1>3, <1>4, <1>5

\* What a call does first is an order, or the cycle.
LEMMA AfterFirstType ==
    ASSUME NEW N, NEW deps, Graph(N, deps), NEW x \in Calls(N), x[1] # <<>>,
           NEW g \in [Calls(N) -> Orders(N)]
    PROVE  AfterFirst(deps, g, x) \in Orders(N)
<1> DEFINE n == Head(x[1])
           below == g[<<deps[n], x[2] \cup {n}, x[3]>>]
<1>1. x[1] \in Seq(N) /\ x[2] \in SUBSET N /\ x[3] \in Seq(N)
  BY DEF Calls
<1>2. n \in N /\ <<deps[n], x[2] \cup {n}, x[3]>> \in Calls(N)
  <2>1. n \in N
    BY <1>1
  <2> HIDE DEF n
  <2> QED BY <1>1, <2>1 DEF Calls, Graph
<1>3. below \in Orders(N)
  BY <1>2
<1>4. below # <<Cycle>> => Append(below, n) \in Seq(N)
  <2> HIDE DEF below, n
  <2> QED BY <1>2, <1>3 DEF Orders
<1> QED BY <1>1, <1>4 DEF AfterFirst, Orders

\* A call looks at smaller calls only.
LEMMA BodyLooksDown ==
    ASSUME NEW N, NEW deps, Graph(N, deps),
           NEW B \in Nat, \A n \in N : Len(deps[n]) <= B,
           NEW x \in Calls(N), NEW g \in [Calls(N) -> Orders(N)], NEW h,
           \A y \in Calls(N) : Size(N, B, y) < Size(N, B, x) => g[y] = h[y]
    PROVE  Body(deps, g, x) = Body(deps, h, x)
<1>0. x[1] \in Seq(N) /\ x[2] \in SUBSET N /\ x[3] \in Seq(N)
  BY DEF Calls
<1>1. CASE x[1] = <<>>
  BY <1>1 DEF Body
<1>2. CASE x[1] # <<>>
  <2> DEFINE n == Head(x[1])
             down == <<deps[n], x[2] \cup {n}, x[3]>>
             after == AfterFirst(deps, g, x)
  <2>1. n \in N /\ down \in Calls(N) /\ (n \notin x[2] => g[down] = h[down])
    BY <1>0, <1>2, CallsShrink
  <2>2. AfterFirst(deps, g, x) = AfterFirst(deps, h, x)
    BY <2>1 DEF AfterFirst
  <2>3. after # <<Cycle>> => after \in Seq(N)
    BY <1>2, AfterFirstType DEF Orders
  <2>4. after # <<Cycle>> => g[<<Tail(x[1]), x[2], after>>] = h[<<Tail(x[1]), x[2], after>>]
    BY <1>2, <2>3, CallsShrink
  <2> QED BY <1>2, <2>2, <2>4 DEF Body
<1> QED BY <1>1, <1>2

\* What a call returns is an order, or the cycle.
LEMMA BodyType ==
    ASSUME NEW N, NEW deps, Graph(N, deps), NEW x \in Calls(N),
           NEW g \in [Calls(N) -> Orders(N)]
    PROVE  Body(deps, g, x) \in Orders(N)
<1>0. x[1] \in Seq(N) /\ x[2] \in SUBSET N /\ x[3] \in Seq(N)
  BY DEF Calls
<1>1. CASE x[1] = <<>>
  BY <1>0, <1>1 DEF Body, Orders
<1>2. CASE x[1] # <<>>
  <2> DEFINE after == AfterFirst(deps, g, x)
  <2>1. after \in Orders(N)
    BY <1>2, AfterFirstType
  <2>2. CASE after = <<Cycle>>
    BY <1>2, <2>2 DEF Body, Orders
  <2>3. CASE after # <<Cycle>>
    <3>1. <<Tail(x[1]), x[2], after>> \in Calls(N)
      <4>1. after \in Seq(N) /\ Tail(x[1]) \in Seq(N)
        BY <1>0, <1>2, <2>1, <2>3 DEF Orders
      <4> HIDE DEF after
      <4> QED BY <1>0, <4>1 DEF Calls
    <3>2. Body(deps, g, x) = g[<<Tail(x[1]), x[2], after>>]
      BY <1>2, <2>3 DEF Body
    <3> QED BY <3>1, <3>2
  <2> QED BY <2>2, <2>3
<1> QED BY <1>1, <1>2

\* The recursion of topo_order is well-founded: there is such a function.
LEMMA VisitsAre ==
    ASSUME NEW N, NEW deps, Graph(N, deps)
    PROVE  /\ Visits(deps) \in [Calls(N) -> Orders(N)]
           /\ \A x \in Calls(N) : Visits(deps)[x] = Body(deps, Visits(deps), x)
<1>0. DOMAIN deps = N
  BY DEF Graph
<1>1. PICK B \in Nat : \A n \in N : Len(deps[n]) <= B
  BY DepsAreBounded
<1> DEFINE D == Calls(N)
           Y == Orders(N)
           m == [x \in D |-> Size(N, B, x)]
           F == [z \in D \X [D -> Y] |-> Body(deps, z[2], z[1])]
<1>2. m \in [D -> Nat]
  <2>1. <<>> \in Seq(N)
    OBVIOUS
  <2>2. \A x \in D : Size(N, B, x) \in Nat
    BY <1>1, <2>1, CallsShrink
  <2> QED BY <2>2
<1>3. F \in [D \X [D -> Y] -> Y]
  BY BodyType
<1>4. \A x \in D : \A g \in [D -> Y] : F[<<x, g>>] = Body(deps, g, x)
  OBVIOUS
<1>5. LooksDown(F, D, Y, m)
  <2> SUFFICES ASSUME NEW x \in D, NEW g \in [D -> Y], NEW h \in [D -> Y],
                      \A y \in D : Size(N, B, y) < Size(N, B, x) => g[y] = h[y]
               PROVE  Body(deps, g, x) = Body(deps, h, x)
    BY <1>4 DEF LooksDown
  <2> QED BY <1>1, BodyLooksDown
<1>6. <<>> \in Y
  BY DEF Orders
<1>7. \E g \in [D -> Y] : \A x \in D : g[x] = F[<<x, g>>]
  <2>1. Shape(F, D, Y)
    BY <1>3 DEF Shape
  <2> HIDE DEF D, Y, F, m
  <2>2. \E g : Solution(g, F, D, Y)
    BY <1>2, <2>1, <1>5, <1>6, Recursion
  <2> QED BY <2>2 DEF Solution
<1>8. PICK g \in [D -> Y] : \A x \in D : g[x] = Body(deps, g, x)
  BY <1>4, <1>7
<1> DEFINE v == CHOOSE f : f = [x \in D |-> Body(deps, f, x)]
<1>9. Visits(deps) = v
  BY <1>0 DEF Visits, Body, AfterFirst, Calls
<1>10. g = [x \in D |-> Body(deps, g, x)]
  BY <1>8
<1>11. v = [x \in D |-> Body(deps, v, x)]
  BY <1>10
<1> HIDE DEF v
<1> DEFINE P == { k \in Nat : \A x \in D : Size(N, B, x) < k => g[x] = v[x] }
<1>12. 0 \in P
  <2>1. \A x \in D : Size(N, B, x) \in Nat
    BY <1>2
  <2> QED BY <2>1
<1>13. ASSUME NEW k \in Nat, k \in P PROVE k + 1 \in P
  <2> SUFFICES ASSUME NEW x \in D, Size(N, B, x) < k + 1 PROVE g[x] = v[x]
    OBVIOUS
  <2>1. \A y \in D : Size(N, B, y) \in Nat
    BY <1>2
  <2>2. \A y \in D : Size(N, B, y) < Size(N, B, x) => g[y] = v[y]
    BY <1>13, <2>1
  <2>3. Body(deps, g, x) = Body(deps, v, x)
    BY <1>1, <2>2, BodyLooksDown
  <2> QED BY <1>8, <1>11, <2>3
<1>14. Nat \subseteq P
  <2> HIDE DEF P
  <2> QED BY <1>12, <1>13, Induction
<1>15. \A x \in D : g[x] = v[x]
  <2> SUFFICES ASSUME NEW x \in D PROVE g[x] = v[x]
    OBVIOUS
  <2>1. Size(N, B, x) \in Nat /\ Size(N, B, x) + 1 \in P
    BY <1>2, <1>14
  <2> QED BY <2>1
<1>16. v \in [D -> Y]
  BY <1>11, <1>15
<1> QED BY <1>9, <1>11, <1>16

-----------------------------------------------------------------------------
(* What topo_order returns.                                                *)

\* Every node stands once, and behind all that it depends on.
Placed(deps, o) ==
    /\ \A i, j \in DOMAIN o : o[i] = o[j] => i = j
    /\ \A i \in DOMAIN o : \A d \in ToSet(deps[o[i]]) : \E j \in DOMAIN o : j < i /\ o[j] = d

\* Each of some nodes waits for another of them.
Stuck(N, deps) == \E s \in SUBSET N : s # {} /\ \A n \in s : ToSet(deps[n]) \cap s # {}

\* The nodes to visit are those that the top of the stack depends on, and each of
\* the others on the stack depends on one of it.
OnPath(deps, stack, nodes) ==
    stack = {} \/ \E top \in stack : /\ ToSet(nodes) \subseteq ToSet(deps[top])
                                     /\ \A n \in stack \ {top} : ToSet(deps[n]) \cap stack # {}

\* What holds when visit is called, and when it returns r.
Called(deps, x) ==
    OnPath(deps, x[2], x[1]) /\ Placed(deps, x[3]) /\ ToSet(x[3]) \cap x[2] = {}

Visited(N, deps, x, r) ==
    \/ r = <<Cycle>> /\ Stuck(N, deps)
    \/ /\ r \in Seq(N) /\ Placed(deps, r)
       /\ ToSet(x[1]) \cup ToSet(x[3]) \subseteq ToSet(r)
       /\ ToSet(r) \cap x[2] = {}

\* A node may be appended when all that it depends on is there.
LEMMA AppendPlaced ==
    ASSUME NEW N, NEW deps, NEW o \in Seq(N), NEW n \in N, Placed(deps, o),
           n \notin ToSet(o), ToSet(deps[n]) \subseteq ToSet(o)
    PROVE  /\ Append(o, n) \in Seq(N) /\ Placed(deps, Append(o, n))
           /\ ToSet(Append(o, n)) = ToSet(o) \cup {n}
<1> DEFINE p == Append(o, n)
<1>1. /\ p \in Seq(N) /\ DOMAIN o = 1..Len(o) /\ DOMAIN p = 1..(Len(o) + 1) /\ Len(o) \in Nat
      /\ p[Len(o) + 1] = n /\ \A i \in 1..Len(o) : p[i] = o[i]
  OBVIOUS
<1> HIDE DEF p
<1>2. ToSet(p) = ToSet(o) \cup {n}
  BY <1>1 DEF ToSet
<1>3. ASSUME NEW i \in DOMAIN p, NEW j \in DOMAIN p, p[i] = p[j] PROVE i = j
  <2>1. i \in 1..Len(o) \/ i = Len(o) + 1
    BY <1>1
  <2>2. j \in 1..Len(o) \/ j = Len(o) + 1
    BY <1>1
  <2>3. \A k \in 1..Len(o) : o[k] # n
    BY <1>1 DEF ToSet
  <2> QED BY <1>1, <1>3, <2>1, <2>2, <2>3 DEF Placed
<1>4. ASSUME NEW i \in DOMAIN p, NEW d \in ToSet(deps[p[i]])
      PROVE  \E j \in DOMAIN p : j < i /\ p[j] = d
  <2>1. CASE i \in 1..Len(o)
    <3>1. PICK j \in DOMAIN o : j < i /\ o[j] = d
      BY <1>1, <1>4, <2>1 DEF Placed
    <3> QED BY <1>1, <3>1
  <2>2. CASE i = Len(o) + 1
    <3>0. d \in ToSet(o)
      BY <1>1, <1>4, <2>2
    <3>1. PICK j \in DOMAIN o : o[j] = d
      BY <3>0 DEF ToSet
    <3> QED BY <1>1, <2>2, <3>1
  <2> QED BY <1>1, <2>1, <2>2
<1> QED BY <1>1, <1>2, <1>3, <1>4 DEF Placed, p

\* The nodes of a sequence are its first one and the others.
LEMMA HeadAndTail ==
    ASSUME NEW N, NEW s \in Seq(N), s # <<>>
    PROVE  /\ Head(s) \in N /\ Tail(s) \in Seq(N)
           /\ Head(s) \in ToSet(s)
           /\ ToSet(s) = {Head(s)} \cup ToSet(Tail(s))
<1>1. /\ Len(s) \in Nat \ {0} /\ DOMAIN s = 1..Len(s) /\ Head(s) = s[1]
      /\ Tail(s) \in Seq(N) /\ DOMAIN Tail(s) = 1..(Len(s) - 1)
      /\ \A i \in 1..(Len(s) - 1) : Tail(s)[i] = s[i + 1]
  OBVIOUS
<1>2. ASSUME NEW e \in ToSet(s) PROVE e \in {Head(s)} \cup ToSet(Tail(s))
  <2>1. PICK i \in 1..Len(s) : e = s[i]
    BY <1>1 DEF ToSet
  <2>2. CASE i = 1
    BY <1>1, <2>1, <2>2
  <2>3. CASE i # 1
    <3>1. i - 1 \in 1..(Len(s) - 1) /\ Tail(s)[i - 1] = s[(i - 1) + 1] /\ (i - 1) + 1 = i
      BY <1>1, <2>3
    <3> QED BY <1>1, <2>1, <3>1 DEF ToSet
  <2> QED BY <2>2, <2>3
<1>3. ASSUME NEW e \in ToSet(Tail(s)) PROVE e \in ToSet(s)
  <2>1. PICK i \in 1..(Len(s) - 1) : e = s[i + 1]
    BY <1>1 DEF ToSet
  <2>2. i + 1 \in 1..Len(s)
    BY <1>1
  <2> QED BY <1>1, <2>1, <2>2 DEF ToSet
<1>4. Head(s) \in ToSet(s)
  BY <1>1 DEF ToSet
<1> QED BY <1>1, <1>2, <1>3, <1>4

\* One call of topo_order, given that the calls it makes return what they should.
LEMMA VisitOne ==
    ASSUME NEW N, NEW deps, Graph(N, deps), NEW g \in [Calls(N) -> Orders(N)],
           NEW B \in Nat, \A n \in N : Len(deps[n]) <= B,
           NEW x \in Calls(N), Called(deps, x),
           \A y \in Calls(N) : Size(N, B, y) < Size(N, B, x) /\ Called(deps, y)
                               => Visited(N, deps, y, g[y])
    PROVE  Visited(N, deps, x, Body(deps, g, x))
<1>0. x[1] \in Seq(N) /\ x[2] \in SUBSET N /\ x[3] \in Seq(N)
  BY DEF Calls
<1>1. CASE x[1] = <<>>
  <2>1. Body(deps, g, x) = x[3] /\ ToSet(x[1]) = {}
    BY <1>1 DEF Body, ToSet
  <2> QED BY <1>0, <2>1 DEF Visited, Called
<1>2. CASE x[1] # <<>>
  <2> DEFINE n == Head(x[1])
             down == <<deps[n], x[2] \cup {n}, x[3]>>
             below == g[down]
             after == AfterFirst(deps, g, x)
             next == <<Tail(x[1]), x[2], after>>
  <2>1. /\ n \in N /\ Tail(x[1]) \in Seq(N) /\ n \in ToSet(x[1])
        /\ ToSet(x[1]) = {n} \cup ToSet(Tail(x[1]))
    BY <1>0, <1>2, HeadAndTail
  <2>2. \A n2 \in N : n2 \in ToSet(x[1]) /\ n2 \in x[2] => Stuck(N, deps)
    <3> SUFFICES ASSUME NEW n2 \in N, n2 \in ToSet(x[1]), n2 \in x[2] PROVE Stuck(N, deps)
      OBVIOUS
    <3>1. \A e \in x[2] : ToSet(deps[e]) \cap x[2] # {}
      BY DEF Called, OnPath
    <3> QED BY <1>0, <3>1 DEF Stuck
  <2>3. n \notin x[2] /\ n \notin ToSet(x[3]) => Visited(N, deps, down, below)
    <3> SUFFICES ASSUME n \notin x[2], n \notin ToSet(x[3]) PROVE Visited(N, deps, down, below)
      OBVIOUS
    <3>1. down \in Calls(N) /\ Size(N, B, down) < Size(N, B, x)
      BY <1>0, <1>2, CallsShrink
    <3>2. OnPath(deps, x[2] \cup {n}, deps[n])
      <4>1. \A e \in x[2] : ToSet(deps[e]) \cap (x[2] \cup {n}) # {}
        BY <2>1 DEF Called, OnPath
      <4> HIDE DEF n
      <4> QED BY <4>1 DEF OnPath
    <3>3. Called(deps, down)
      <4>1. Placed(deps, x[3]) /\ ToSet(x[3]) \cap (x[2] \cup {n}) = {}
        BY DEF Called
      <4> HIDE DEF n
      <4> QED BY <3>2, <4>1 DEF Called
    <3> HIDE DEF down
    <3> QED BY <3>1, <3>3
  <2>4. \/ after = <<Cycle>> /\ Stuck(N, deps)
        \/ /\ after \in Seq(N) /\ Placed(deps, after)
           /\ {n} \cup ToSet(x[3]) \subseteq ToSet(after)
           /\ ToSet(after) \cap x[2] = {}
    <3>1. CASE n \in x[2]
      BY <2>1, <2>2, <3>1 DEF AfterFirst
    <3>2. CASE n \notin x[2] /\ n \in ToSet(x[3])
      <4>1. after = x[3]
        BY <3>2 DEF AfterFirst
      <4> QED BY <1>0, <3>2, <4>1 DEF Called
    <3>3. CASE n \notin x[2] /\ n \notin ToSet(x[3])
      <4>1. after = IF below = <<Cycle>> THEN <<Cycle>> ELSE Append(below, n)
        BY <3>3 DEF AfterFirst
      <4>2. CASE below = <<Cycle>> /\ Stuck(N, deps)
        BY <4>1, <4>2
      <4>3. CASE /\ below \in Seq(N) /\ Placed(deps, below)
                 /\ ToSet(deps[n]) \cup ToSet(x[3]) \subseteq ToSet(below)
                 /\ ToSet(below) \cap (x[2] \cup {n}) = {}
        <5>1. below # <<Cycle>>
          <6>1. <<Cycle>> \notin Seq(N)
            <7> SUFFICES ASSUME <<Cycle>> \in Seq(N) PROVE FALSE
              OBVIOUS
            <7>1. <<Cycle>>[1] \in N
              OBVIOUS
            <7> QED BY <7>1 DEF Graph
          <6> QED BY <4>3, <6>1
        <5> HIDE DEF below, n, after
        <5>2. /\ Append(below, n) \in Seq(N) /\ Placed(deps, Append(below, n))
              /\ ToSet(Append(below, n)) = ToSet(below) \cup {n}
          BY <2>1, <4>3, AppendPlaced
        <5> QED BY <3>3, <4>1, <4>3, <5>1, <5>2
      <4>4. \/ below = <<Cycle>> /\ Stuck(N, deps)
            \/ /\ below \in Seq(N) /\ Placed(deps, below)
               /\ ToSet(deps[n]) \cup ToSet(x[3]) \subseteq ToSet(below)
               /\ ToSet(below) \cap (x[2] \cup {n}) = {}
        <5> HIDE DEF below, n
        <5> QED BY <2>3, <3>3 DEF Visited
      <4> QED BY <4>2, <4>3, <4>4
    <3> QED BY <3>1, <3>2, <3>3
  <2> HIDE DEF n, after
  <2>5. CASE after = <<Cycle>> /\ Stuck(N, deps)
    <3>1. Body(deps, g, x) = <<Cycle>>
      BY <1>2, <2>5 DEF Body, after
    <3> QED BY <2>5, <3>1 DEF Visited
  <2>6. CASE /\ after \in Seq(N) /\ Placed(deps, after)
             /\ {n} \cup ToSet(x[3]) \subseteq ToSet(after)
             /\ ToSet(after) \cap x[2] = {}
    <3>1. after # <<Cycle>>
      <4>1. <<Cycle>> \notin Seq(N)
        <5> SUFFICES ASSUME <<Cycle>> \in Seq(N) PROVE FALSE
          OBVIOUS
        <5>1. <<Cycle>>[1] \in N
          OBVIOUS
        <5> QED BY <5>1 DEF Graph
      <4> QED BY <2>6, <4>1
    <3>2. Body(deps, g, x) = g[next]
      BY <1>2, <3>1 DEF Body, after
    <3>3. next \in Calls(N) /\ Size(N, B, next) < Size(N, B, x)
      BY <1>2, <2>6, CallsShrink
    <3>4. OnPath(deps, x[2], Tail(x[1]))
      BY <2>1 DEF Called, OnPath
    <3>5. Called(deps, next)
      BY <2>6, <3>4 DEF Called
    <3>6. Visited(N, deps, next, g[next])
      <4> HIDE DEF next
      <4> QED BY <3>3, <3>5
    <3> QED BY <2>1, <2>6, <3>2, <3>6 DEF Visited
  <2> QED BY <2>4, <2>5, <2>6
<1> QED BY <1>1, <1>2

\* Whatever is visited comes out in order, or waits for itself.
LEMMA VisitsPlace ==
    ASSUME NEW N, NEW deps, Graph(N, deps), NEW nodes \in Seq(N)
    PROVE  LET r == VisitAll(nodes, deps)
           IN  \/ r = <<Cycle>> /\ Stuck(N, deps)
               \/ r \in Seq(N) /\ Placed(deps, r) /\ ToSet(nodes) \subseteq ToSet(r)
<1>1. PICK B \in Nat : \A n \in N : Len(deps[n]) <= B
  BY DepsAreBounded
<1> DEFINE g == Visits(deps)
           P == { k \in Nat : \A x \in Calls(N) :
                    Size(N, B, x) < k /\ Called(deps, x) => Visited(N, deps, x, g[x]) }
<1>2. g \in [Calls(N) -> Orders(N)] /\ \A x \in Calls(N) : g[x] = Body(deps, g, x)
  BY VisitsAre
<1>3. \A x \in Calls(N) : Size(N, B, x) \in Nat
  <2>1. <<>> \in Seq(N)
    OBVIOUS
  <2> QED BY <1>1, <2>1, CallsShrink
<1> HIDE DEF g
<1>4. 0 \in P
  BY <1>3
<1>5. ASSUME NEW k \in Nat, k \in P PROVE k + 1 \in P
  <2> SUFFICES ASSUME NEW x \in Calls(N), Size(N, B, x) < k + 1, Called(deps, x)
               PROVE  Visited(N, deps, x, g[x])
    OBVIOUS
  <2>1. \A y \in Calls(N) : Size(N, B, y) < Size(N, B, x) /\ Called(deps, y)
                            => Visited(N, deps, y, g[y])
    BY <1>3, <1>5
  <2>2. Visited(N, deps, x, Body(deps, g, x))
    BY <1>1, <1>2, <2>1, VisitOne
  <2> QED BY <1>2, <2>2
<1>6. Nat \subseteq P
  <2> HIDE DEF P
  <2> QED BY <1>4, <1>5, Induction
<1> DEFINE x == <<nodes, {}, <<>>>>
<1>7. x \in Calls(N) /\ Called(deps, x)
  <2>1. <<>> \in Seq(N) /\ DOMAIN <<>> = {}
    OBVIOUS
  <2>2. Placed(deps, <<>>) /\ ToSet(<<>>) = {}
    BY <2>1 DEF Placed, ToSet
  <2> QED BY <2>1, <2>2 DEF Calls, Called, OnPath
<1>8. Visited(N, deps, x, g[x])
  <2> HIDE DEF x
  <2>1. Size(N, B, x) \in Nat /\ Size(N, B, x) + 1 \in P /\ Size(N, B, x) < Size(N, B, x) + 1
    BY <1>3, <1>6, <1>7
  <2> QED BY <1>7, <2>1
<1> QED BY <1>8 DEF Visited, VisitAll, g

\* Where all nodes can be placed, none waits for itself.
LEMMA PlacedIsAcyclic ==
    ASSUME NEW N, NEW deps, NEW o \in Seq(N), Placed(deps, o), ToSet(o) = N
    PROVE  ~Stuck(N, deps)
<1> SUFFICES ASSUME NEW s \in SUBSET N, s # {}, \A n \in s : ToSet(deps[n]) \cap s # {}
             PROVE  FALSE
  BY DEF Stuck
<1> DEFINE S == { i \in DOMAIN o : o[i] \in s }
<1>1. S \subseteq Nat /\ S # {}
  BY DEF ToSet
<1> HIDE DEF S
<1>2. PICK i \in S : \A k \in S : i <= k
  BY <1>1, LeastOf
<1>3. PICK d \in ToSet(deps[o[i]]) : d \in s
  BY <1>2 DEF S
<1>4. PICK j \in DOMAIN o : j < i /\ o[j] = d
  BY <1>2, <1>3 DEF Placed, S
<1>5. j \in S /\ i \in Nat /\ j \in Nat
  BY <1>1, <1>2, <1>3, <1>4 DEF S
<1> QED BY <1>2, <1>4, <1>5

-----------------------------------------------------------------------------
(* What from_dict loads.                                                   *)

\* Definitions of any size over the ids of I.
RawOf(I) == Seq([id : I, deps : Seq(I)])

\* The numbers from 1 to n.
LEMMA NatInterval ==
    ASSUME NEW n \in Nat
    PROVE  IsFiniteSet(1..n) /\ Cardinality(1..n) = n
BY FS_Interval

\* The nodes of a definition, one by one.
LEMMA RawNodes ==
    ASSUME NEW I, NEW raw \in RawOf(I)
    PROVE  /\ Len(raw) \in Nat /\ DOMAIN raw = 1..Len(raw)
           /\ \A i \in DOMAIN raw : raw[i].id \in I /\ raw[i].deps \in Seq(I)
<1> DEFINE T == [id : I, deps : Seq(I)]
<1>1. raw \in Seq(T)
  BY DEF RawOf
<1>2. \A t \in T : t.id \in I /\ t.deps \in Seq(I)
  OBVIOUS
<1> HIDE DEF T
<1>3. \A i \in DOMAIN raw : raw[i] \in T
  BY <1>1
<1> QED BY <1>1, <1>2, <1>3

\* Each id is given once exactly if there are as many ids as nodes.
LEMMA DistinctIds ==
    ASSUME NEW I, NEW raw \in RawOf(I)
    PROVE  /\ IsFiniteSet(Ids(raw))
           /\ Cardinality(Ids(raw)) = Len(raw)
                <=> \A i, j \in DOMAIN raw : raw[i].id = raw[j].id => i = j
<1>1. DOMAIN raw = 1..Len(raw) /\ Len(raw) \in Nat
  BY RawNodes
<1>2. IsFiniteSet(1..Len(raw)) /\ Cardinality(1..Len(raw)) = Len(raw)
  BY <1>1, NatInterval
<1> DEFINE f == [i \in 1..Len(raw) |-> raw[i].id]
<1>3. f \in Surjection(1..Len(raw), Ids(raw))
  BY <1>1 DEF Surjection, Ids
<1>4. /\ IsFiniteSet(Ids(raw))
      /\ Cardinality(Ids(raw)) = Cardinality(1..Len(raw)) <=> f \in Injection(1..Len(raw), Ids(raw))
  <2> HIDE DEF f
  <2> QED BY <1>2, <1>3, FS_Surjection
<1>5. f \in Injection(1..Len(raw), Ids(raw))
        <=> \A i, j \in DOMAIN raw : raw[i].id = raw[j].id => i = j
  <2>1. f \in [1..Len(raw) -> Ids(raw)]
    BY <1>1 DEF Ids
  <2>2. f \in Injection(1..Len(raw), Ids(raw)) <=> \A i, j \in 1..Len(raw) : f[i] = f[j] => i = j
    <3> HIDE DEF f
    <3> QED BY <2>1 DEF Injection, IsInjective
  <2> QED BY <1>1, <2>2
<1> QED BY <1>2, <1>4, <1>5

\* The nodes of a definition without unknown dependencies are a graph.
LEMMA RawIsGraph ==
    ASSUME NEW I, Cycle \notin I, NEW raw \in RawOf(I),
           \A i \in DOMAIN raw : ToSet(raw[i].deps) \subseteq Ids(raw)
    PROVE  Graph(Ids(raw), DepsOf(raw))
<1>1. IsFiniteSet(Ids(raw))
  BY DistinctIds
<1>2. Cycle \notin Ids(raw)
  BY RawNodes DEF Ids
<1>3. ASSUME NEW n \in Ids(raw) PROVE DepsOf(raw)[n] \in Seq(Ids(raw))
  <2> DEFINE i == CHOOSE i \in DOMAIN raw : raw[i].id = n
  <2>1. i \in DOMAIN raw /\ raw[i].id = n
    BY DEF Ids
  <2>2. DepsOf(raw)[n] = raw[i].deps
    BY DEF DepsOf
  <2> HIDE DEF i
  <2>3. raw[i].deps \in Seq(I) /\ ToSet(raw[i].deps) \subseteq Ids(raw)
    BY <2>1, RawNodes
  <2> DEFINE s == raw[i].deps
  <2>4. \A k \in 1..Len(s) : s[k] \in Ids(raw)
    BY <2>3 DEF ToSet
  <2>5. s \in Seq(Ids(raw))
    BY <2>3, <2>4
  <2> QED BY <2>2, <2>5
<1> QED BY <1>1, <1>2, <1>3 DEF Graph, DepsOf

\* No cycle is the same as nobody waiting for another.
LEMMA AcyclicIs ==
    ASSUME NEW raw
    PROVE  Acyclic(raw) <=> ~Stuck(Ids(raw), DepsOf(raw))
BY DEF Acyclic, Stuck, DependsOn

\* from_dict loads exactly the definitions that can be run, of any size: the ids
\* are distinct, no dependency is unknown and no node waits for itself; and the
\* order it gives them has every node once, after all that the node depends on.
THEOREM LoadedCanRun ==
    ASSUME NEW I, Cycle \notin I, NEW raw \in RawOf(I)
    PROVE  LoadedIfRunnable(raw)
<1> DEFINE N == Ids(raw)
           deps == DepsOf(raw)
           o == TopoOrder(raw)
<1>1. Cardinality(Ids(raw)) = Len(raw) <=> \A i, j \in DOMAIN raw : raw[i].id = raw[j].id => i = j
  BY DistinctIds
<1>2. ASSUME \A i \in DOMAIN raw : ToSet(raw[i].deps) \subseteq N
      PROVE  /\ o = <<Cycle>> <=> ~Acyclic(raw)
             /\ o # <<Cycle>> => o \in Seq(N) /\ Placed(deps, o) /\ ToSet(o) = N
  <2> DEFINE nodes == [i \in DOMAIN raw |-> raw[i].id]
  <2>1. Graph(N, deps)
    BY <1>2, RawIsGraph
  <2>2. nodes \in Seq(N) /\ ToSet(nodes) = N
    <3>1. DOMAIN raw = 1..Len(raw) /\ Len(raw) \in Nat
      BY DEF RawOf
    <3>2. nodes \in [1..Len(raw) -> N]
      BY <3>1 DEF Ids
    <3> QED BY <3>1, <3>2 DEF Ids, ToSet
  <2>3. o = VisitAll(nodes, deps)
    BY DEF TopoOrder
  <2> HIDE DEF nodes, N, deps, o
  <2>4. \/ o = <<Cycle>> /\ Stuck(N, deps)
        \/ o \in Seq(N) /\ Placed(deps, o) /\ ToSet(nodes) \subseteq ToSet(o)
    BY <2>1, <2>2, <2>3, VisitsPlace
  <2>5. <<Cycle>> \notin Seq(N)
    <3> SUFFICES ASSUME <<Cycle>> \in Seq(N) PROVE FALSE
      OBVIOUS
    <3>1. <<Cycle>>[1] \in N
      OBVIOUS
    <3> QED BY <2>1, <3>1 DEF Graph
  <2>6. o \in Seq(N) => ToSet(o) \subseteq N
    BY DEF ToSet
  <2>7. Acyclic(raw) <=> ~Stuck(N, deps)
    BY AcyclicIs DEF N, deps
  <2>8. CASE o = <<Cycle>> /\ Stuck(N, deps)
    BY <2>7, <2>8
  <2>9. CASE o \in Seq(N) /\ Placed(deps, o) /\ ToSet(nodes) \subseteq ToSet(o)
    <3>1. ToSet(o) = N
      BY <2>2, <2>6, <2>9
    <3>2. ~Stuck(N, deps)
      BY <2>9, <3>1, PlacedIsAcyclic
    <3> QED BY <2>5, <2>7, <2>9, <3>1, <3>2
  <2> QED BY <2>4, <2>8, <2>9
<1>3. ASSUME \A i, j \in DOMAIN raw : raw[i].id = raw[j].id => i = j
      PROVE  (\A i \in DOMAIN raw : ToSet(raw[i].deps) \subseteq N)
                 <=> \A n \in N : DependsOn(raw, n) \subseteq N
  <2>1. ASSUME NEW i \in DOMAIN raw PROVE DependsOn(raw, raw[i].id) = ToSet(raw[i].deps)
    <3>1. (CHOOSE k \in DOMAIN raw : raw[k].id = raw[i].id) = i
      BY <1>3
    <3>2. raw[i].id \in Ids(raw)
      BY DEF Ids
    <3>3. DepsOf(raw)[raw[i].id] = raw[i].deps
      BY <3>1, <3>2 DEF DepsOf
    <3> QED BY <3>3 DEF DependsOn
  <2>2. \A n \in N : \E i \in DOMAIN raw : n = raw[i].id
    BY DEF Ids
  <2>3. \A i \in DOMAIN raw : raw[i].id \in N
    BY DEF Ids
  <2> HIDE DEF N
  <2> QED BY <2>1, <2>2, <2>3
<1>4. Accepted(raw) <=> WellFormed(raw) /\ Acyclic(raw)
  <2> HIDE DEF deps
  <2>1. Accepted(raw) => WellFormed(raw) /\ Acyclic(raw)
    BY <1>1, <1>2, <1>3 DEF Accepted, WellFormed
  <2>2. WellFormed(raw) /\ Acyclic(raw) => Accepted(raw)
    BY <1>1, <1>2, <1>3 DEF Accepted, WellFormed
  <2> QED BY <2>1, <2>2
<1>5. ASSUME Accepted(raw)
      PROVE  /\ ToSet(o) = N /\ IsInjective(o)
             /\ \A i \in DOMAIN o : DependsOn(raw, o[i]) \subseteq { o[j] : j \in 1..(i - 1) }
  <2>1. o \in Seq(N) /\ Placed(deps, o) /\ ToSet(o) = N
    BY <1>2, <1>5 DEF Accepted
  <2>2. IsInjective(o)
    <3> HIDE DEF o
    <3> QED BY <2>1 DEF IsInjective, Placed
  <2>3. ASSUME NEW i \in DOMAIN o, NEW d \in DependsOn(raw, o[i])
        PROVE  d \in { o[j] : j \in 1..(i - 1) }
    <3> HIDE DEF o
    <3>1. d \in ToSet(deps[o[i]])
      BY <2>3 DEF DependsOn
    <3> HIDE DEF deps, N
    <3>2. PICK j \in DOMAIN o : j < i /\ o[j] = d
      BY <2>1, <3>1 DEF Placed
    <3>3. DOMAIN o = 1..Len(o) /\ Len(o) \in Nat
      BY <2>1
    <3>4. j \in 1..(i - 1)
      BY <3>2, <3>3
    <3> QED BY <3>2, <3>4
  <2> QED BY <2>1, <2>2, <2>3
<1> QED BY <1>4, <1>5 DEF LoadedIfRunnable

-----------------------------------------------------------------------------
(* The runs.                                                               *)

\* A finite set written as a sequence.
LEMMA SetAsSeq ==
    ASSUME NEW S, IsFiniteSet(S)
    PROVE  SetToSeq(S) \in Seq(S) /\ ToSet(SetToSeq(S)) = S
<1> DEFINE C == Cardinality(S)
<1>1. C \in Nat /\ ExistsBijection(1..C, S)
  BY FS_CardinalityType
<1>6. IsFiniteSet(1..C) /\ Cardinality(1..C) = C
  BY <1>1, NatInterval
<1>2. PICK f : f \in Bijection(1..C, S)
  <2> HIDE DEF C
  <2> QED BY <1>1 DEF ExistsBijection
<1>3. f \in [1..C -> S] /\ IsInjective(f)
  <2> HIDE DEF C
  <2> QED BY <1>2 DEF Bijection, Injection, IsInjective
<1> DEFINE g == SetToSeq(S)
<1>4. g \in [1..C -> S] /\ IsInjective(g)
  BY <1>3 DEF SetToSeq
<1>7. g \in Surjection(1..C, S)
  <2>1. g \in Injection(1..C, S)
    <3> HIDE DEF g, C
    <3> QED BY <1>4 DEF Injection, IsInjective
  <2> HIDE DEF g
  <2> QED BY <1>6, <2>1, FS_Injection
<1> HIDE DEF g, C
<1>8. ToSet(g) = S
  BY <1>4, <1>7 DEF Surjection, ToSet
<1>9. g \in Seq(S)
  BY <1>1, <1>4
<1> QED BY <1>8, <1>9 DEF g

\* The definitions that the runs of TLC enumerate are among those of any size.
LEMMA RawIsRawOf == Raw \subseteq RawOf(Id)
<1>1. ASSUME NEW s \in SUBSET Id PROVE SetToSeq(s) \in Seq(Id)
  <2>1. IsFiniteSet(s)
    BY IdAssumption, FS_Subset
  <2>2. SetToSeq(s) \in Seq(s)
    BY <2>1, SetAsSeq
  <2> QED BY <2>2
<1> DEFINE T == [id : Id, deps : Seq(Id)]
<1>2. RawNode \subseteq T
  BY <1>1 DEF RawNode
<1>3. ASSUME NEW k \in 0..MaxNodes, NEW raw \in [1..k -> RawNode] PROVE raw \in RawOf(Id)
  <2>1. k \in Nat
    BY IdAssumption
  <2> HIDE DEF T
  <2>2. raw \in [1..k -> T]
    BY <1>2
  <2>3. raw \in Seq(T)
    BY <2>1, <2>2
  <2> QED BY <2>3 DEF RawOf, T
<1> QED BY <1>3 DEF Raw

\* In every state of a run without sweeps: the loader would load exactly the
\* definitions that can be run, and the cursor that advance has stored keeps up with
\* the run: nothing before its node is anything but DONE, and its node is DONE itself
\* only until the advance that follows, unless a fault or a verdict came between.
THEOREM CursorCanRun ==
    ASSUME Sweeps = FALSE
    PROVE  SerialSpec => []LoadedMeansRunnable
<1>1. ExactlyRunnableLoaded
  BY RawIsRawOf, LoadedCanRun, IdAssumption DEF ExactlyRunnableLoaded
<1>2. CursorKeepsUp => LoadedMeansRunnable
  BY <1>1 DEF LoadedMeansRunnable
<1> QED BY <1>2, CursorKept, PTL

=============================================================================
