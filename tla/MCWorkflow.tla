----------------------------- MODULE MCWorkflow -----------------------------
(***************************************************************************)
(* Instances of Workflow for TLC: small DAGs and their definitions.        *)
(***************************************************************************)
EXTENDS Workflow, TLC

CONSTANTS a, b, c, w1, w2

\* a -> b, as in the linear definition of tests/test_workflow.py.
ChainDeps == a :> {} @@ b :> {a}
ChainOrder == <<a, b>>
\* Two retries for the first node, one attempt for the second.
ChainAttempts == a :> 2 @@ b :> 1
\* a and b may run side by side, c waits for both.
JoinDeps == a :> {} @@ b :> {} @@ c :> {a, b}
JoinOrder == <<a, b, c>>
JoinAttempts == a :> 1 @@ b :> 1 @@ c :> 1
OneDeps == a :> {}
OneOrder == <<a>>
TwoAttempt == a :> 2
AllNodes == [w \in Worker |-> Node]

Agents == Permutations(Worker)
=============================================================================
