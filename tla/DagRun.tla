------------------------------- MODULE DagRun -------------------------------
(***************************************************************************)
(* What a workflow run promises, with nothing said of tables, processes or *)
(* events: every node of the DAG has at most one task, which waits until   *)
(* all the node's dependencies are done, is taken, and is then done,       *)
(* failed or queued again; the run ends once, with the verdict that its    *)
(* nodes' statuses justify at that very moment.                            *)
(***************************************************************************)
CONSTANTS Node, Deps

VARIABLES
    outcome,   \* of the run
    status     \* of each node's task, "none" while it has none

dagVars == <<outcome, status>>

Init == outcome = "none" /\ status = [n \in Node |-> "none"]

Start == outcome = "none" /\ outcome' = "RUNNING" /\ UNCHANGED status

IsReady(n) == status[n] = "none" /\ \A d \in Deps[n] : status[d] = "DONE"

\* Every ready node gets its task and the verdict on what was there is given.
Advance ==
    /\ outcome = "RUNNING"
    /\ status' = [n \in Node |-> IF IsReady(n) THEN "PENDING" ELSE status[n]]
    /\ outcome' = CASE \E n \in Node : status[n] = "FAILED" -> "FAILED"
                    [] \A n \in Node : status[n] = "DONE"   -> "COMPLETED"
                    [] OTHER                                -> "RUNNING"

Move(n, from, to) ==
    /\ status[n] = from
    /\ status' = [status EXCEPT ![n] = to]
    /\ UNCHANGED outcome

Take(n)   == Move(n, "PENDING", "ASSIGNED")
Retry(n)  == Move(n, "ASSIGNED", "PENDING")
Finish(n) == Move(n, "ASSIGNED", "DONE")
Fail(n)   == Move(n, "ASSIGNED", "FAILED")

Next ==
    \/ Start \/ Advance
    \/ \E n \in Node : Take(n) \/ Retry(n) \/ Finish(n) \/ Fail(n)

Spec == Init /\ [][Next]_dagVars
=============================================================================
