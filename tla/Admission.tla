------------------------------ MODULE Admission ------------------------------
(***************************************************************************)
(* The closed loop of claims and breakers: agents claim tasks through the  *)
(* gate of claim_task, what they fail at is counted by metric_watchdog,    *)
(* the breakers it trips refuse the next claims, and breaker_recovery_sweep*)
(* releases them.  Adds the engine of a deployment with breakers           *)
(* (workflow/engine.py) to module Breakers.                                *)
(*                                                                         *)
(* Granularity.  should_accept_task asks one breaker per step, and what it *)
(* was told may be stale when the claim is written.  The end of a task is  *)
(* one step; its event, and what advance does about the run, another.      *)
(*                                                                         *)
(* Left out, because Workflow has it: dependencies (every task of the run  *)
(* is ready at once), retries (no sweep counts task.requeued), views of    *)
(* advance that are stale when it writes, crashes, the task sweeps and the *)
(* agents' state machine.                                                  *)
(***************************************************************************)
EXTENDS Breakers, Sequences

CONSTANTS
    Agent,       \* agent ids; a session may bear one, and its failed turns count for it
    Task,        \* the tasks of the run; task.failed bears a task's id
    Flow,        \* the workflow's name, which no failure event bears
    Client,      \* the process that calls start_run
    Inherited,   \* BOUND: the breakers one of which may be OPEN at first
    Sore         \* BOUND: the agents one of which may have failed a turn just before

ASSUME AdmissionAssumption ==
    /\ Agent \cup Task \cup {Flow} \subseteq Key
    /\ Agent \cap Task = {} /\ Flow \notin Agent \cup Task
    /\ Client \notin Agent
    /\ Inherited \subseteq Agent \cup {Flow, Global} /\ Sore \subseteq Agent

VARIABLES
    run,     \* workflow_runs.status, "none" before start_run
    task,    \* workflow_tasks.status of each task, "none" before start_run
    at,      \* what an agent or the client does next
    asked,   \* how many breakers the present should_accept_task has found not OPEN
    rows,    \* claim_next: the PENDING rows it read and has not tried yet
    hand,    \* the task an agent tries to claim or works on
    ended    \* history: <<w, b>>: agent w ended a task since b has been OPEN

engineVars  == <<run, task, at, asked, rows, hand>>
breakerVars == <<breaker, procVars, manual, envVars>>
allVars     == <<vars, engineVars, ended>>

Caller  == Agent \cup {Client}
NoTask  == "none"
Pending == { t \in Task : task[t] = "PENDING" }

\* Rows and events outlive the runs: a breaker may be OPEN from before, or a turn
\* may have failed that the next watchdog counts, while the first task is held.
AdmissionInit ==
    /\ Quiet
    /\ \E trip \in SUBSET Inherited, sore \in SUBSET Sore :
         /\ Cardinality(trip) + Cardinality(sore) <= 1
         /\ breaker = [b \in Breaker |-> IF b \in trip
                          THEN [state |-> "OPEN", opened |-> 0, half |-> Probe] ELSE NoRow]
         /\ events = [k \in Kind |-> [age \in 0..Window |->
                          IF k \in sore /\ age = 0 THEN 1 ELSE 0]]
    /\ run = "none"
    /\ task = [t \in Task |-> "none"]
    /\ at = [p \in Caller |-> "idle"]
    /\ asked = [p \in Caller |-> 0]
    /\ rows = [w \in Agent |-> {}]
    /\ hand = [w \in Agent |-> NoTask]
    /\ ended = {}

To(p, label) == at' = [at EXCEPT ![p] = label]

-----------------------------------------------------------------------------
(* should_accept_task.                                                     *)

\* Bug: the global breaker is not asked.
AsksWithoutGlobal(p) == IF p = Client THEN <<Flow>> ELSE <<Flow, p>>

\* The breakers it asks, in this order; start_run names no agent.
Asks(p) == IF p = Client THEN <<Global, Flow>> ELSE <<Global, Flow, p>>

\* The next breaker is not OPEN: HALF_OPEN admits like CLOSED.
GateAdmits(p) ==
    /\ at[p] = "gate"
    /\ ~IsOpen(Asks(p)[asked[p] + 1])
    /\ LET through == asked[p] + 1 = Len(Asks(p))
       IN  /\ asked' = [asked EXCEPT ![p] = IF through THEN 0 ELSE @ + 1]
           /\ To(p, IF through THEN "write" ELSE "gate")
    /\ UNCHANGED <<vars, run, task, rows, hand, ended>>

\* One is OPEN: start_run raises.
StartRefused ==
    /\ at[Client] = "gate" /\ IsOpen(Asks(Client)[asked[Client] + 1])
    /\ asked' = [asked EXCEPT ![Client] = 0]
    /\ To(Client, "idle")
    /\ UNCHANGED <<vars, run, task, rows, hand, ended>>

-----------------------------------------------------------------------------
(* start_run.  A host whose call was refused makes it again.               *)

StartRun ==
    /\ at[Client] = "idle" /\ run = "none"
    /\ To(Client, "gate")
    /\ UNCHANGED <<vars, run, task, asked, rows, hand, ended>>

InsertRun ==
    /\ at[Client] = "write"
    /\ run' = "RUNNING"
    /\ To(Client, "create")
    /\ UNCHANGED <<vars, task, asked, rows, hand, ended>>

\* The advance of start_run.
CreateTasks ==
    /\ at[Client] = "create"
    /\ task' = [t \in Task |-> "PENDING"]
    /\ To(Client, "idle")
    /\ UNCHANGED <<vars, run, asked, rows, hand, ended>>

-----------------------------------------------------------------------------
(* claim_next and claim_task.                                              *)

\* claim_task of one of the rows that are left (its get_task finds the row).
Tries(w, left) ==
    \/ /\ left = {}
       /\ To(w, "idle")
       /\ hand' = [hand EXCEPT ![w] = NoTask]
       /\ UNCHANGED rows
    \/ /\ To(w, "gate")
       /\ \E t \in left : /\ hand' = [hand EXCEPT ![w] = t]
                          /\ rows' = [rows EXCEPT ![w] = left \ {t}]

ClaimNext(w) ==
    /\ at[w] = "idle" /\ Pending # {}
    /\ Tries(w, Pending)
    /\ UNCHANGED <<vars, run, task, asked, ended>>

\* A breaker is OPEN: claim_next goes on to its next row.
ClaimRefused(w) ==
    /\ at[w] = "gate" /\ IsOpen(Asks(w)[asked[w] + 1])
    /\ asked' = [asked EXCEPT ![w] = 0]
    /\ Tries(w, rows[w])
    /\ UNCHANGED <<vars, run, task, ended>>

\* Bug: the UPDATE does not ask for status PENDING.
ClaimBlindly(w) ==
    /\ at[w] = "write"
    /\ task' = [task EXCEPT ![hand[w]] = "ASSIGNED"]
    /\ rows' = [rows EXCEPT ![w] = {}]
    /\ To(w, "work")
    /\ UNCHANGED <<vars, run, asked, hand, ended>>

\* The CAS hits the row.
ClaimWins(w) ==
    /\ at[w] = "write" /\ hand[w] \in Pending
    /\ task' = [task EXCEPT ![hand[w]] = "ASSIGNED"]
    /\ rows' = [rows EXCEPT ![w] = {}]
    /\ To(w, "work")
    /\ UNCHANGED <<vars, run, asked, hand, ended>>

\* Another agent was faster.
ClaimLoses(w) ==
    /\ at[w] = "write" /\ hand[w] \notin Pending
    /\ Tries(w, rows[w])
    /\ UNCHANGED <<vars, run, task, asked, ended>>

-----------------------------------------------------------------------------
(* complete_task, fail_task and advance.                                   *)

\* History: w has ended a task under those of its breakers that are OPEN now.
Ends(w, status) ==
    /\ at[w] = "work"
    /\ task' = [task EXCEPT ![hand[w]] = status]
    /\ ended' = ended \cup ({w} \X { b \in {Global, Flow, w} : IsOpen(b) })
    /\ UNCHANGED <<vars, run, asked, rows, hand>>

Completes(w) == Ends(w, "DONE") /\ To(w, "completed")
Fails(w)     == Ends(w, "FAILED") /\ To(w, "failed")

\* What advance makes of the run; one that is not RUNNING is left alone.
Advanced ==
    IF run # "RUNNING" THEN run
    ELSE CASE \E t \in Task : task[t] = "FAILED" -> "FAILED"
           [] \A t \in Task : task[t] = "DONE"   -> "COMPLETED"
           [] OTHER                               -> "RUNNING"

\* task.completed, or task.failed under the task's id; then advance, which
\* publishes workflow.run_failed when the run fails.
PublishAndAdvance(w) ==
    /\ at[w] \in {"completed", "failed"}
    /\ run' = Advanced
    /\ LET news == {IF at[w] = "failed" THEN hand[w] ELSE "completed"} \cup
                   {k \in {"run_failed"} : run = "RUNNING" /\ run' = "FAILED"}
       IN  events' = [k \in Kind |-> [events[k] EXCEPT ![0] = @ + IF k \in news THEN 1 ELSE 0]]
    /\ hand' = [hand EXCEPT ![w] = NoTask]
    /\ To(w, "idle")
    /\ UNCHANGED <<breakerVars, task, asked, rows, ended>>

-----------------------------------------------------------------------------
(* The specification.                                                      *)

\* A step of Breakers; for a breaker that leaves OPEN the history starts anew.
Beside(step) ==
    /\ UNCHANGED engineVars
    /\ step
    /\ ended' = { x \in ended : breaker'[x[2]].state = "OPEN" }

ClientStep == StartRun \/ InsertRun \/ CreateTasks \/ GateAdmits(Client) \/ StartRefused

AgentStep(w) ==
    \/ ClaimNext(w) \/ GateAdmits(w) \/ ClaimRefused(w) \/ ClaimWins(w) \/ ClaimLoses(w)
    \/ Completes(w) \/ Fails(w) \/ PublishAndAdvance(w)

\* cron, which misses no tick here.
CronStep ==
    \/ \E w \in Watchdog : WatchdogStep(w)
    \/ \E r \in Recovery : RecoveryStep(r)
    \/ ran = Sweep /\ Tick

AdmissionNext ==
    \/ ClientStep
    \/ \E w \in Agent : AgentStep(w)
    \/ Beside(CronStep)

AdmissionSpec == AdmissionInit /\ [][AdmissionNext]_allVars

\* Agents poll and their handlers end, the client calls start_run until it is
\* admitted, cron runs the sweeps, and time passes.
AdmissionFairness ==
    /\ WF_allVars(ClientStep)
    /\ \A w \in Agent : WF_allVars(AgentStep(w))
    /\ WF_allVars(Beside(CronStep))

AdmissionFairSpec == AdmissionSpec /\ AdmissionFairness

-----------------------------------------------------------------------------
(* Properties.                                                             *)

AdmissionTypeOK ==
    /\ breaker \in [Breaker -> Row]
    /\ run \in {"none", "RUNNING", "COMPLETED", "FAILED"}
    /\ task \in [Task -> {"none", "PENDING", "ASSIGNED", "DONE", "FAILED"}]
    /\ asked \in [Caller -> 0..2]
    /\ rows \in [Agent -> SUBSET Task]
    /\ hand \in [Agent -> Task \cup {NoTask}]
    /\ ended \subseteq Agent \X Breaker
    \* Who works on a task holds it alone.
    /\ \A w \in Agent : at[w] = "work" => task[hand[w]] = "ASSIGNED"
    /\ \A v, w \in Agent : at[v] = "work" /\ at[w] = "work" /\ hand[v] = hand[w] => v = w

\* An OPEN breaker stops its agents although claim_task asks it before, and not
\* together with, the write of the claim: an agent that has ended a task under a
\* breaker claims no other until that breaker is released.  So a trip lets at
\* most one task per agent through, held or about to be claimed when it came.
TripStopsAgents ==
    [][\A w \in Agent : at[w] = "write" /\ at'[w] = "work" =>
          \A b \in {Global, Flow, w} : IsOpen(b) => <<w, b>> \notin ended]_allVars

\* Every task of a run is ended, however often the failures of the others shut
\* the gate on it: the loop of failures, trips and releases comes to rest, and
\* start_run is admitted some day.
WorkSettles ==
    \A t \in Task : <>(task[t] \in {"DONE", "FAILED"})

=============================================================================
