----------------------------- MODULE Definitions -----------------------------
(***************************************************************************)
(* Workflow definitions (workflow/definitions.py): what from_dict accepts, *)
(* and the order of topo_order.  A raw definition is a sequence of nodes,  *)
(* each with an id and the sequence of the ids it depends on.  Names that  *)
(* are empty, parameters and roles are left out.                           *)
(***************************************************************************)
EXTENDS Naturals, Sequences, SequencesExt, FiniteSets

CONSTANTS
    Id,         \* ids a definition may use
    MaxNodes    \* BOUND on the nodes of a raw definition

\* What topo_order raises, where a sequence is expected.
Cycle == "dependency cycle"

ASSUME IdAssumption == Cycle \notin Id /\ IsFiniteSet(Id) /\ MaxNodes \in Nat

Ids(raw)  == { raw[i].id : i \in DOMAIN raw }
DepsOf(raw) == [n \in Ids(raw) |-> raw[CHOOSE i \in DOMAIN raw : raw[i].id = n].deps]

-----------------------------------------------------------------------------
(* topo_order.                                                             *)

\* visit, for some nodes one after the other: from <<nodes, the nodes on the
\* stack, order so far>> to the order after them; `seen` is what is in the order.
Visits(deps) ==
    LET visits[x \in Seq(DOMAIN deps) \X (SUBSET DOMAIN deps) \X Seq(DOMAIN deps)] ==
            LET n     == Head(x[1])
                stack == x[2]
                order == x[3]
                below == visits[<<deps[n], stack \cup {n}, order>>]
                after == IF n \in stack THEN <<Cycle>>
                         ELSE IF n \in ToSet(order) THEN order
                         ELSE IF below = <<Cycle>> THEN below ELSE Append(below, n)
            IN  IF x[1] = <<>> THEN order
                ELSE IF after = <<Cycle>> THEN after
                ELSE visits[<<Tail(x[1]), stack, after>>]
    IN  visits

VisitAll(nodes, deps) == Visits(deps)[<<nodes, {}, <<>>>>]

\* Bug: only the nodes nobody depends on are visited; a cycle has none.
TopoOrderOfSinks(raw) ==
    LET needed == UNION { ToSet(raw[i].deps) : i \in DOMAIN raw }
    IN  VisitAll(SelectSeq([i \in DOMAIN raw |-> raw[i].id], LAMBDA n : n \notin needed),
                 DepsOf(raw))

\* The nodes in the order of the definition, each after what it depends on.
TopoOrder(raw) == VisitAll([i \in DOMAIN raw |-> raw[i].id], DepsOf(raw))

-----------------------------------------------------------------------------
(* from_dict.                                                              *)

\* Nodes, no id twice, no unknown dependency, no cycle.
Accepted(raw) ==
    /\ raw # <<>>
    /\ Cardinality(Ids(raw)) = Len(raw)
    /\ \A i \in DOMAIN raw : ToSet(raw[i].deps) \subseteq Ids(raw)
    /\ TopoOrder(raw) # <<Cycle>>

-----------------------------------------------------------------------------
(* Properties.                                                             *)

RawNode == [id : Id, deps : { SetToSeq(s) : s \in SUBSET Id }]
Raw     == UNION { [1..k -> RawNode] : k \in 0..MaxNodes }

DependsOn(raw, n) == ToSet(DepsOf(raw)[n])

WellFormed(raw) ==
    /\ raw # <<>>
    /\ \A i, j \in DOMAIN raw : raw[i].id = raw[j].id => i = j
    /\ \A n \in Ids(raw) : DependsOn(raw, n) \subseteq Ids(raw)

\* In every set of nodes one depends on none of the others, nor on itself.
Acyclic(raw) ==
    \A s \in (SUBSET Ids(raw)) \ {{}} : \E n \in s : DependsOn(raw, n) \cap s = {}

\* raw is loaded exactly if it can be run: it has no cycle, and its order lists
\* every node once, after all that the node depends on.
LoadedIfRunnable(raw) ==
    LET order == TopoOrder(raw)
    IN  /\ Accepted(raw) <=> WellFormed(raw) /\ Acyclic(raw)
        /\ Accepted(raw) =>
             /\ ToSet(order) = Ids(raw) /\ IsInjective(order)
             /\ \A i \in DOMAIN order :
                  DependsOn(raw, order[i]) \subseteq { order[j] : j \in 1..(i - 1) }

ExactlyRunnableLoaded == \A raw \in Raw : LoadedIfRunnable(raw)
=============================================================================
