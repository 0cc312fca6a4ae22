--------------------------- MODULE WorkflowSerial ---------------------------
(***************************************************************************)
(* Workflow in the deployment where engine calls do not overlap: one       *)
(* process (or one lock) runs them, so what a call read is still there     *)
(* when it writes.  Handlers still overlap, processes still crash, and     *)
(* advance is still called again to resume.  In this deployment, without   *)
(* sweeps, the detailed model implements DagRun.                           *)
(***************************************************************************)
EXTENDS Workflow, Definitions

\* The places inside an engine call, between its first read and its return.
InEngine == {"claim", "claimed", "completing", "completed", "failing", "failed",
             "escalate", "get_run", "list_tasks", "settle", "settled"}

\* At most one process is inside the engine after the step.
OneInEngine(where) ==
    \A p, q \in Proc : where[p] \in InEngine /\ where[q] \in InEngine => p = q

SerialNext == Next /\ OneInEngine(pc')

SerialSpec == Init /\ [][SerialNext]_vars

\* The newest task of a node is the task of the abstract run.
Run == INSTANCE DagRun WITH outcome <- run, status <- [n \in Node |-> Latest(n)]

\* Every behaviour is one of DagRun: verdicts are final and are given on the
\* present statuses, tasks appear when and only when their node is ready.
ImplementsDagRun == Run!Spec

-----------------------------------------------------------------------------
(* The definition of the run.                                              *)

\* The definition with its nodes declared in the given order.
DeclaredIn(order) ==
    [i \in DOMAIN order |-> [id |-> order[i], deps |-> SetToSeq(Deps[order[i]])]]

\* The nodes that come before n in the order of the run.
Before(n) == { Order[i] : i \in { j \in DOMAIN Order : \E k \in DOMAIN Order :
                                                      j < k /\ Order[k] = n } }

\* A process has a completion to report to advance, or is on its way to report one.
Advancing == \E p \in Proc : pc[p] \in {"completed", "get_run", "list_tasks", "settle"}

\* The cursor that advance has stored is never ahead of the run: its node has a task
\* and all before it are DONE.  It is behind, at a node that is DONE itself, only
\* while the advance that moves it is still to come, or was lost to a fault or to a
\* verdict.  Once there are tasks it is NULL exactly when the run is COMPLETED.
CursorKeepsUp ==
    /\ cursor # NoNode => tasks[cursor] # <<>> /\ \A n \in Before(cursor) : Latest(n) = "DONE"
    /\ cursor # NoNode /\ Latest(cursor) = "DONE" =>
         Advancing \/ faults > 0 \/ run # "RUNNING"
    /\ (\E n \in Node : tasks[n] # <<>>) => (cursor = NoNode <=> run = "COMPLETED")

\* from_dict, when the run is about to be started, loads exactly the definitions
\* that can be run, each in an order in which its nodes can; and while one runs,
\* through repeated advances, crashes and whatever is lost with them, the stored
\* current_node_id keeps to that order.
LoadedMeansRunnable ==
    /\ run = "none" => ExactlyRunnableLoaded
    /\ CursorKeepsUp
=============================================================================
