------------------------------ MODULE MCSerial ------------------------------
(***************************************************************************)
(* Instances of WorkflowSerial for TLC.                                    *)
(***************************************************************************)
EXTENDS WorkflowSerial, TLC

CONSTANTS a, b, c, w1, w2

\* a and b may run side by side, c waits for both.
JoinDeps == a :> {} @@ b :> {} @@ c :> {a, b}
\* As topo_order lists them when they are declared the other way round.
JoinOrder == TopoOrder(DeclaredIn(<<c, b, a>>))
JoinAttempts == a :> 2 @@ b :> 1 @@ c :> 1
AllNodes == [w \in Worker |-> Node]
=============================================================================
