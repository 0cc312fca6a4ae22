------------------------------ MODULE Workflow ------------------------------
(***************************************************************************)
(* One run of a workflow DAG on the shared SQLite tables: the engine       *)
(* (workflow/engine.py), the workers that call it (workflow/worker.py with *)
(* the agent state machine), and the heartbeat and stuck-task sweeps that  *)
(* edit the same rows from processes of their own (sweeps.py).             *)
(*                                                                         *)
(* Granularity.  Every process has a connection of its own.  A SELECT      *)
(* outside a transaction is one atomic step; an INSERT/UPDATE ... COMMIT   *)
(* is another; publishing an event is a third, because it commits on the   *)
(* event store's own connection.  Whatever a process read stays in a       *)
(* variable of its own until it uses it, however stale it is by then.      *)
(***************************************************************************)
EXTENDS AgentFSM, Integers, Sequences, FiniteSets

CONSTANTS
    Worker,        \* agents; each one lives in a process of its own
    Client,        \* the process that calls start_run, and advance to resume
    Node,          \* the nodes of the workflow definition
    Deps,          \* NodeDef.depends_on
    Order,         \* what topo_order() makes of them
    MaxAttempts,   \* NodeDef.max_attempts
    CanRun,        \* the nodes whose task type and role a worker serves
    NoAgent,       \* assigned_agent_id IS NULL
    NoNode,        \* current_node_id IS NULL
    Sweeps,        \* are the sweeps scheduled in this deployment?
    Resumes,       \* does the client call advance(run_id) again?
    MaxFaults      \* BOUND on crashes, failed publishes and stalls

ASSUME DefinitionAssumption ==
    /\ Deps \in [Node -> SUBSET Node]
    /\ MaxAttempts \in [Node -> Int]
    /\ NoNode \notin Node
    \* Every node stands in the order once, after the nodes it depends on.
    /\ Order \in Seq(Node)
    /\ \A i, j \in DOMAIN Order : Order[i] = Order[j] => i = j
    /\ \A n \in Node : \E i \in DOMAIN Order :
         Order[i] = n /\ \A d \in Deps[n] : \E j \in 1..(i - 1) : Order[j] = d

ASSUME DeploymentAssumption ==
    /\ CanRun \in [Worker -> SUBSET Node]
    /\ Client \notin Worker
    /\ NoAgent \notin Worker
    /\ Sweeps \in BOOLEAN
    /\ Resumes \in BOOLEAN
    /\ MaxFaults \in Nat

VARIABLES
    run,      \* workflow_runs.status of the run, "none" before start_run
    cursor,   \* workflow_runs.current_node_id of the run
    tasks,    \* tasks of each node, oldest (created_at) first
    inst,     \* agent_instances.status of each worker, "none" before its row
    fresh,    \* is last_heartbeat_at within the heartbeat sweep's cutoff?
    events,   \* the published events the properties speak of
    pc,       \* what each process does next
    ret,      \* where a process goes when its call of advance returns
    fsm,      \* the state of each worker's agent state machine
    cur,      \* the id of the task a process works on
    seen,     \* claim_next: the PENDING rows read and not tried yet
    att,      \* fail_task: the attempts read by _require_assigned
    view,     \* advance: the status of each node read by list_tasks
    hb,       \* heartbeat_sweep: the stale agents it read
    stuck,    \* stuck_task_sweep: its phase and the rows it read
    reached,  \* history: <<node, status>> pairs a task has ever had
    faults    \* how many of the MaxFaults faults have happened

tableVars == <<run, cursor, tasks, inst, fresh>>
dbVars    == <<tableVars, events>>
locals    == <<ret, fsm, cur, seen, att, view>>
procVars  == <<pc, locals>>
sweepVars == <<hb, stuck>>
envVars   == <<sweepVars, reached, faults>>
vars      == <<dbVars, procVars, envVars>>

-----------------------------------------------------------------------------
(* The tables and the values a process can hold.                           *)

Proc       == Worker \cup {Client}
RunStatus  == {"none", "RUNNING", "COMPLETED", "FAILED"}
TaskStatus == {"PENDING", "ASSIGNED", "DONE", "FAILED"}

\* A row of tasks; `old` says updated_at is before the stuck sweep's cutoff.
\* History: how often it was claimed (`tries`), and whether a sweep ever took it
\* from its holder (`swept`).
Task   == [status : TaskStatus, agent : Worker \cup {NoAgent},
           attempts : Int, old : BOOLEAN, tries : Nat, swept : BOOLEAN]
\* The k-th task created for node n (a uuid in the code).
TaskId == Node \X (Nat \ {0})
NoTask == <<>>

NoView  == [n \in Node |-> "none"]
NoSweep == [phase |-> "idle", rows |-> {}]

\* Bug: the row starts in the status the stuck sweep looks for, WAITING_DEP.
NewTaskWaiting == [status |-> "WAITING_DEP", agent |-> NoAgent, attempts |-> 0,
                   old |-> FALSE, tries |-> 0, swept |-> FALSE]

\* A fresh row: PENDING, unassigned, attempts 0.
NewTask == [status |-> "PENDING", agent |-> NoAgent, attempts |-> 0,
            old |-> FALSE, tries |-> 0, swept |-> FALSE]

Row(id) == tasks[id[1]][id[2]]
Rows    == UNION { {n} \X DOMAIN tasks[n] : n \in Node }

\* The tables after the row `id` has become `r`.
WithRow(id, r) == [tasks EXCEPT ![id[1]][id[2]] = r]

\* What each process is about to do.  The labels are the calls of the code.
Labels == {"down", "idle", "select", "claim", "claimed", "handler",
           "complete", "completing", "completed", "fail", "failing", "failed",
           "escalate", "get_run", "list_tasks", "settle", "settled",
           "approve", "recover", "raised"}

Init ==
    /\ run = "none"
    /\ cursor = NoNode
    /\ tasks = [n \in Node |-> <<>>]
    /\ inst = [w \in Worker |-> "none"]
    /\ fresh = [w \in Worker |-> FALSE]
    /\ events = {}
    /\ pc = [p \in Proc |-> "idle"]
    /\ ret = [p \in Proc |-> "idle"]
    /\ fsm = [w \in Worker |-> "IDLE"]
    /\ cur = [w \in Worker |-> NoTask]
    /\ seen = [w \in Worker |-> {}]
    /\ att = [w \in Worker |-> 0]
    /\ view = [p \in Proc |-> NoView]
    /\ hb = {}
    /\ stuck = NoSweep
    /\ reached = {}
    /\ faults = 0

-----------------------------------------------------------------------------
(* Steps every action is written with.                                     *)

Goto(p, label) == pc' = [pc EXCEPT ![p] = label]
Fire(w, e)     == fsm' = [fsm EXCEPT ![w] = After(@, e)]
Fault          == faults < MaxFaults /\ faults' = faults + 1
NoFault        == UNCHANGED faults

\* heartbeat(): the upsert stamps last_heartbeat_at and writes the status.
Heartbeat(w, status) ==
    /\ inst' = [inst EXCEPT ![w] = status]
    /\ fresh' = [fresh EXCEPT ![w] = TRUE]

\* run_once is left: the finally block writes the FSM's state, locals are gone.
Leave(w, label) ==
    /\ Goto(w, label)
    /\ Heartbeat(w, fsm'[w])
    /\ cur' = [cur EXCEPT ![w] = NoTask]
    /\ att' = [att EXCEPT ![w] = 0]
    /\ ret' = [ret EXCEPT ![w] = "idle"]

-----------------------------------------------------------------------------
(* run_once up to the handler: claim_next and claim_task.                  *)

\* The worker is free, or tick() releases it from an elapsed cooldown.
RunOnce(w) ==
    /\ pc[w] \in {"idle", "raised"}
    /\ fsm[w] \in {"IDLE", "COOLDOWN"}
    /\ Heartbeat(w, fsm[w])
    /\ fsm' = [fsm EXCEPT ![w] = IF @ = "COOLDOWN"
                                 THEN AfterTwo(@, "cooldown_elapsed", "task_available")
                                 ELSE After(@, "task_available")]
    /\ Goto(w, "select")
    /\ UNCHANGED <<run, cursor, tasks, events, ret, cur, seen, att, view, envVars>>

\* can_accept_task() is FALSE: the two heartbeats are all that happens.
RunOnceRefused(w) ==
    /\ pc[w] \in {"idle", "raised"}
    /\ fsm[w] # "IDLE"
    /\ Heartbeat(w, fsm[w])
    /\ UNCHANGED <<run, cursor, tasks, events, procVars, envVars>>

\* claim_next: SELECT the PENDING rows this worker can serve.
Select(w) ==
    /\ pc[w] = "select"
    /\ seen' = [seen EXCEPT ![w] = { id \in Rows : /\ Row(id).status = "PENDING"
                                                  /\ id[1] \in CanRun[w] }]
    /\ Goto(w, "claim")
    /\ UNCHANGED <<dbVars, ret, fsm, cur, att, view, envVars>>

\* Bug: the UPDATE without AND status='PENDING'.
ClaimableUnguarded(id) == TRUE

\* claim_task: the CAS matches a row only while it is still PENDING.
Claimable(id) == Row(id).status = "PENDING"

\* claim_task wins: one UPDATE takes the row.
ClaimWins(w) ==
    /\ pc[w] = "claim"
    /\ \E id \in seen[w] :
         /\ Claimable(id)
         /\ tasks' = WithRow(id, [Row(id) EXCEPT !.status = "ASSIGNED",
                                                 !.agent = w, !.old = FALSE,
                                                 !.tries = @ + 1])
         /\ cur' = [cur EXCEPT ![w] = id]
    /\ seen' = [seen EXCEPT ![w] = {}]
    /\ Goto(w, "claimed")
    /\ UNCHANGED <<run, cursor, inst, fresh, events, ret, fsm, att, view, envVars>>

\* claim_task loses the race: claim_next goes on to the next row it read.
ClaimLoses(w) ==
    /\ pc[w] = "claim"
    /\ \E id \in seen[w] :
         /\ ~Claimable(id)
         /\ seen' = [seen EXCEPT ![w] = @ \ {id}]
    /\ UNCHANGED <<dbVars, pc, ret, fsm, cur, att, view, envVars>>

\* No row is left: claim_next returns None.
ClaimNothing(w) ==
    /\ pc[w] = "claim"
    /\ seen[w] = {}
    /\ Fire(w, "claim_lost")
    /\ Leave(w, "idle")
    /\ UNCHANGED <<run, cursor, tasks, events, seen, view, envVars>>

\* task.claimed is published; heartbeat, plan_ok, and the handler is called.
Begin(w) ==
    /\ pc[w] = "claimed"
    /\ fsm' = [fsm EXCEPT ![w] = AfterTwo(@, "task_claimed", "plan_ok")]
    /\ Heartbeat(w, "EXECUTING")
    /\ Goto(w, "handler")
    /\ UNCHANGED <<run, cursor, tasks, events, ret, cur, seen, att, view, envVars>>

\* The heartbeat of a claimed task raises: fail_task is called next.
PlanningRaises(w) ==
    /\ Fault
    /\ pc[w] = "claimed"
    /\ Fire(w, "task_claimed")
    /\ Goto(w, "fail")
    /\ UNCHANGED <<dbVars, ret, cur, seen, att, view, sweepVars, reached>>

\* Publishing task.claimed raises out of claim_next: run_once never learns the
\* task's id, takes the CLAIM_TASK branch and goes back to IDLE.
ClaimRaises(w) ==
    /\ Fault
    /\ pc[w] = "claimed"
    /\ Fire(w, "claim_lost")
    /\ Leave(w, "idle")
    /\ UNCHANGED <<run, cursor, tasks, events, seen, view, sweepVars, reached>>

-----------------------------------------------------------------------------
(* The handler, complete_task and fail_task.                               *)

\* Bug: complete_task is called without output_ready.
HandlerReturnsSilently(w) ==
    /\ pc[w] = "handler"
    /\ Goto(w, "complete")
    /\ UNCHANGED <<dbVars, locals, envVars>>

HandlerReturns(w) ==
    /\ pc[w] = "handler"
    /\ Fire(w, "output_ready")
    /\ Goto(w, "complete")
    /\ UNCHANGED <<dbVars, ret, cur, seen, att, view, envVars>>

\* The except branch of run_once: fail_task is called next.
HandlerRaises(w) ==
    /\ pc[w] = "handler"
    /\ Goto(w, "fail")
    /\ UNCHANGED <<dbVars, locals, envVars>>

\* Bug: complete_task and fail_task take the task in any status.
RequireNothing(id) == TRUE

\* _require_assigned: the task is ASSIGNED, to whomever.
RequireAssigned(id) == Row(id).status = "ASSIGNED"

\* Bug: the completion is announced first and written second.
AnnounceThenWrite(w) ==
    /\ pc[w] = "complete"
    /\ Goto(w, IF RequireAssigned(cur[w]) THEN "completing" ELSE "fail")
    /\ events' = events \cup {<<"task.completed", cur[w]>>}
    /\ UNCHANGED <<tableVars, locals, envVars>>

\* complete_task reads the row; a RuntimeError goes to the except branch.
CompleteCheck(w) ==
    /\ pc[w] = "complete"
    /\ Goto(w, IF RequireAssigned(cur[w]) THEN "completing" ELSE "fail")
    /\ UNCHANGED <<dbVars, locals, envVars>>

\* The UPDATE has no condition on the status it read.
CompleteWrite(w) ==
    /\ pc[w] = "completing"
    /\ tasks' = WithRow(cur[w], [Row(cur[w]) EXCEPT !.status = "DONE", !.old = FALSE])
    /\ reached' = reached \cup {<<cur[w][1], cur[w][2], "DONE">>}
    /\ Goto(w, "completed")
    /\ UNCHANGED <<run, cursor, inst, fresh, events, locals, sweepVars, faults>>

\* task.completed is published, then advance(run_id) is called.
CompletePublish(w) ==
    /\ pc[w] = "completed"
    /\ events' = events \cup {<<"task.completed", cur[w]>>}
    /\ Goto(w, "get_run")
    /\ ret' = [ret EXCEPT ![w] = "approve"]
    /\ UNCHANGED <<tableVars, fsm, cur, seen, att, view, envVars>>

\* fail_task reads the row; a RuntimeError here leaves run_once by the finally
\* block, before any of the FSM's recovery events.
FailCheck(w) ==
    /\ pc[w] = "fail"
    /\ RequireAssigned(cur[w])
    /\ att' = [att EXCEPT ![w] = Row(cur[w]).attempts]
    /\ Goto(w, "failing")
    /\ UNCHANGED <<dbVars, ret, fsm, cur, seen, view, envVars>>

FailRefused(w) ==
    /\ pc[w] = "fail"
    /\ ~RequireAssigned(cur[w])
    /\ UNCHANGED fsm
    /\ Leave(w, "raised")
    /\ UNCHANGED <<run, cursor, tasks, events, seen, view, envVars>>

\* Bug: attempts > max_attempts, one retry too many.
ExhaustedOffByOne(n, attempts) == attempts > MaxAttempts[n]

Exhausted(n, attempts) == attempts >= MaxAttempts[n]

\* The UPDATE writes the attempts read before plus one, and has no condition.
FailWrite(w) ==
    LET n == cur[w][1]
        s == IF Exhausted(n, att[w] + 1) THEN "FAILED" ELSE "PENDING"
    IN  /\ pc[w] = "failing"
        /\ tasks' = WithRow(cur[w], [Row(cur[w]) EXCEPT !.status = s, !.agent = NoAgent,
                                            !.attempts = att[w] + 1, !.old = FALSE])
        /\ reached' = IF s = "FAILED"
                      THEN reached \cup {<<n, cur[w][2], "FAILED">>} ELSE reached
        /\ Goto(w, "failed")
        /\ UNCHANGED <<run, cursor, inst, fresh, events, locals, sweepVars, faults>>

\* Exhausted: task.failed is published and the escalation comes next.
\* Otherwise task.requeued is, and fail_task returns.
FailPublish(w) ==
    LET exhausted == Exhausted(cur[w][1], att[w] + 1)
    IN  /\ pc[w] = "failed"
        /\ events' = IF exhausted THEN events \cup {<<"task.failed", cur[w]>>} ELSE events
        /\ Goto(w, IF exhausted THEN "escalate" ELSE "recover")
        /\ UNCHANGED <<tableVars, locals, envVars>>

\* council.escalation_requested is published, then advance(run_id) is called.
Escalate(w) ==
    /\ pc[w] = "escalate"
    /\ events' = events \cup {<<"council.escalation_requested", cur[w]>>}
    /\ Goto(w, "get_run")
    /\ ret' = [ret EXCEPT ![w] = "recover"]
    /\ UNCHANGED <<tableVars, fsm, cur, seen, att, view, envVars>>

\* run_once succeeds: approved, reset, and the final heartbeat.
Approve(w) ==
    /\ pc[w] = "approve"
    /\ fsm' = [fsm EXCEPT ![w] = AfterTwo(@, "approved", "reset")]
    /\ Leave(w, "idle")
    /\ UNCHANGED <<run, cursor, tasks, events, seen, view, envVars>>

\* Bug: the FSM is left in FAILED, without soft_fail.
RecoverWithoutCooldown(w) ==
    /\ pc[w] = "recover"
    /\ fsm' = [fsm EXCEPT ![w] = "FAILED"]
    /\ Leave(w, "idle")
    /\ UNCHANGED <<run, cursor, tasks, events, seen, view, envVars>>

\* The rest of the except branch: to FAILED by the events legal in the state
\* the FSM is in, then soft_fail to COOLDOWN.
Recover(w) ==
    /\ pc[w] = "recover"
    /\ fsm' = [fsm EXCEPT ![w] =
                  CASE @ = "EXECUTING" -> AfterTwo(@, "tool_error", "soft_fail")
                    [] @ = "PLANNING"  -> AfterTwo(@, "planning_error", "soft_fail")
                    [] OTHER           -> After(AfterTwo(@, "needs_changes", "retries_exhausted"),
                                                "soft_fail")]
    /\ Leave(w, "idle")
    /\ UNCHANGED <<run, cursor, tasks, events, seen, view, envVars>>

-----------------------------------------------------------------------------
(* advance: two reads, one transaction, and the events.                    *)

\* get_run: only a RUNNING run is advanced.
GetRun(p) ==
    /\ pc[p] = "get_run"
    /\ Goto(p, IF run = "RUNNING" THEN "list_tasks" ELSE ret[p])
    /\ UNCHANGED <<dbVars, locals, envVars>>

\* The dict built from list_tasks keeps the newest task of a node.
Latest(n) == IF tasks[n] = <<>> THEN "none" ELSE tasks[n][Len(tasks[n])].status

ListTasks(p) ==
    /\ pc[p] = "list_tasks"
    /\ view' = [view EXCEPT ![p] = [n \in Node |-> Latest(n)]]
    /\ Goto(p, "settle")
    /\ UNCHANGED <<dbVars, ret, fsm, cur, seen, att, envVars>>

\* Bug: a node is ready as soon as its dependencies have tasks.
ReadyTooEarly(v) == { n \in Node : v[n] = "none" /\ \A d \in Deps[n] : v[d] # "none" }

\* Bug: a node that already has a task is created again.
ReadyAgain(v) == { n \in Node : /\ v[n] \in {"none", "PENDING"}
                                /\ \A d \in Deps[n] : v[d] = "DONE" }

\* The nodes that have no task and whose dependencies are all DONE.
Ready(v) == { n \in Node : v[n] = "none" /\ \A d \in Deps[n] : v[d] = "DONE" }

\* Bug: the run is completed once no task is left to claim or finish.
VerdictIgnoringUnborn(v) ==
    CASE \E n \in Node : v[n] = "FAILED"              -> "FAILED"
      [] \A n \in Node : v[n] \in {"DONE", "none"} -> "COMPLETED"
      [] OTHER                                         -> "RUNNING"

\* A task created by this very call counts as PENDING, like a missing one.
Verdict(v) ==
    CASE \E n \in Node : v[n] = "FAILED" -> "FAILED"
      [] \A n \in Node : v[n] = "DONE"   -> "COMPLETED"
      [] OTHER                           -> "RUNNING"

\* Bug: the frontier is the first node that has no task.
FrontierWithoutTask(v) ==
    LET at == { i \in DOMAIN Order : v[Order[i]] = "none" }
    IN  IF at = {} THEN NoNode ELSE Order[CHOOSE i \in at : \A j \in at : i <= j]

\* The first node of the order that is not DONE.
Frontier(v) ==
    LET at == { i \in DOMAIN Order : v[Order[i]] # "DONE" }
    IN  IF at = {} THEN NoNode ELSE Order[CHOOSE i \in at : \A j \in at : i <= j]

\* The transaction: insert the ready tasks, write status and cursor, commit.
Settle(p) ==
    /\ pc[p] = "settle"
    /\ tasks' = [n \in Node |-> IF n \in Ready(view[p])
                                THEN Append(tasks[n], NewTask) ELSE tasks[n]]
    /\ run' = Verdict(view[p])
    /\ cursor' = Frontier(view[p])
    /\ Goto(p, "settled")
    /\ UNCHANGED <<inst, fresh, events, locals, envVars>>

RunEvent(v) == CASE Verdict(v) = "FAILED"    -> {<<"workflow.run_failed">>}
                 [] Verdict(v) = "COMPLETED" -> {<<"workflow.run_completed">>}
                 [] OTHER                    -> {}

\* Has this call of advance anything to publish?
Publishes(v) == Ready(v) # {} \/ Verdict(v) # "RUNNING"

\* node_ready, task.created and the verdict are published; advance returns.
Settled(p) ==
    /\ pc[p] = "settled"
    /\ events' = events \cup RunEvent(view[p])
    /\ view' = [view EXCEPT ![p] = NoView]
    /\ Goto(p, ret[p])
    /\ UNCHANGED <<tableVars, ret, fsm, cur, seen, att, envVars>>

-----------------------------------------------------------------------------
(* The client: start_run, and advance called again to resume.              *)

\* The run is inserted and committed; then run_started and advance.
StartRun ==
    /\ pc[Client] = "idle"
    /\ run = "none"
    /\ run' = "RUNNING"
    /\ Goto(Client, "get_run")
    /\ UNCHANGED <<cursor, tasks, inst, fresh, events, locals, envVars>>

\* "construct a new engine on the same DB and call advance(run_id)"
Resume ==
    /\ Resumes
    /\ pc[Client] = "idle"
    /\ run # "none"
    /\ Goto(Client, "get_run")
    /\ UNCHANGED <<dbVars, locals, envVars>>

\* The client dies, or a publish raises out of start_run or advance.
ClientStops ==
    /\ Fault
    /\ pc[Client] # "idle"
    /\ Goto(Client, "idle")
    /\ view' = [view EXCEPT ![Client] = NoView]
    /\ UNCHANGED <<dbVars, ret, fsm, cur, seen, att, sweepVars, reached>>

-----------------------------------------------------------------------------
(* Faults of a worker: a publish that raises, a crash, a restart.          *)

\* Inside complete_task (or its advance): the except branch calls fail_task.
CompleteRaises(w) ==
    /\ Fault
    /\ \/ pc[w] = "completed"
       \/ pc[w] = "settled" /\ ret[w] = "approve" /\ Publishes(view[w])
    /\ Goto(w, "fail")
    /\ view' = [view EXCEPT ![w] = NoView]
    /\ UNCHANGED <<dbVars, ret, fsm, cur, seen, att, sweepVars, reached>>

\* Inside fail_task (or its advance): run_once raises.
FailRaises(w) ==
    /\ Fault
    /\ \/ pc[w] \in {"failed", "escalate"}
       \/ pc[w] = "settled" /\ ret[w] = "recover" /\ Publishes(view[w])
    /\ UNCHANGED fsm
    /\ Leave(w, "raised")
    /\ view' = [view EXCEPT ![w] = NoView]
    /\ UNCHANGED <<run, cursor, tasks, events, seen, sweepVars, reached>>

\* The process dies: everything in memory is gone, the tables stay.
Crash(w) ==
    /\ Fault
    /\ pc[w] # "down"
    /\ Goto(w, "down")
    /\ fsm' = [fsm EXCEPT ![w] = "IDLE"]
    /\ cur' = [cur EXCEPT ![w] = NoTask]
    /\ seen' = [seen EXCEPT ![w] = {}]
    /\ att' = [att EXCEPT ![w] = 0]
    /\ view' = [view EXCEPT ![w] = NoView]
    /\ ret' = [ret EXCEPT ![w] = "idle"]
    /\ UNCHANGED <<dbVars, sweepVars, reached>>

\* A new worker object under the same agent id, after a crash or an exception.
Restart(w) ==
    /\ pc[w] \in {"down", "raised"}
    /\ Goto(w, "idle")
    /\ fsm' = [fsm EXCEPT ![w] = "IDLE"]
    /\ UNCHANGED <<dbVars, ret, cur, seen, att, view, envVars>>

-----------------------------------------------------------------------------
(* Time, as the sweeps see it: last_heartbeat_at and updated_at pass their *)
(* cutoffs.  For an agent that is down, or a task no live worker holds,    *)
(* that is mere waiting; for a live one it is a stall, counted as a fault. *)

AgentGoesStale(w) ==
    /\ Sweeps
    /\ fresh[w]
    /\ fresh' = [fresh EXCEPT ![w] = FALSE]
    /\ IF pc[w] = "down" THEN NoFault ELSE Fault
    /\ UNCHANGED <<run, cursor, tasks, inst, events, procVars, sweepVars, reached>>

TaskGoesStale(id) ==
    /\ Sweeps
    /\ Row(id).status = "ASSIGNED"
    /\ ~Row(id).old
    /\ tasks' = WithRow(id, [Row(id) EXCEPT !.old = TRUE])
    /\ IF \E w \in Worker : cur[w] = id THEN Fault ELSE NoFault
    /\ UNCHANGED <<run, cursor, inst, fresh, events, procVars, sweepVars, reached>>

-----------------------------------------------------------------------------
(* heartbeat_sweep: a read, then one transaction.                          *)

\* The agents to give up on: stale, and not UNRESPONSIVE already.
HeartbeatSweepRead ==
    /\ Sweeps
    /\ hb = {}
    /\ hb' = { w \in Worker : ~fresh[w] /\ inst[w] \notin {"none", "UNRESPONSIVE"} }
    /\ hb' # {}
    /\ UNCHANGED <<dbVars, procVars, stuck, reached, faults>>

\* SET status='PENDING', assigned_agent_id=NULL; attempts is left alone.
Requeued(t) == [t EXCEPT !.status = "PENDING", !.agent = NoAgent, !.old = FALSE,
                         !.swept = TRUE]

\* Whoever was stale at the read is marked, and loses its ASSIGNED tasks.
HeartbeatSweepWrite ==
    /\ hb # {}
    /\ inst' = [w \in Worker |-> IF w \in hb THEN "UNRESPONSIVE" ELSE inst[w]]
    /\ tasks' = [n \in Node |-> [k \in DOMAIN tasks[n] |->
                    IF tasks[n][k].status = "ASSIGNED" /\ tasks[n][k].agent \in hb
                    THEN Requeued(tasks[n][k]) ELSE tasks[n][k]]]
    /\ hb' = {}
    /\ UNCHANGED <<run, cursor, fresh, events, procVars, stuck, reached, faults>>

HeartbeatSweepDies ==
    /\ Fault
    /\ hb # {}
    /\ hb' = {}
    /\ UNCHANGED <<dbVars, procVars, stuck, reached>>

-----------------------------------------------------------------------------
(* stuck_task_sweep: a read, one transaction, and the events.              *)

\* Bug: only the tasks of agents already marked UNRESPONSIVE are looked at.
StuckRowOfVanished(t) ==
    t.status = "ASSIGNED" /\ t.old /\ inst[t.agent] = "UNRESPONSIVE"

\* The task was ASSIGNED too long ago.
StuckRow(t) == t.status = "ASSIGNED" /\ t.old

\* The stale ASSIGNED rows, with the attempts they had.
StuckSweepRead ==
    /\ Sweeps
    /\ stuck.phase = "idle"
    /\ \E id \in Rows : StuckRow(Row(id))
    /\ stuck' = [phase |-> "write",
                 rows  |-> { <<id, Row(id).attempts>> :
                             id \in { i \in Rows : StuckRow(Row(i)) } }]
    /\ UNCHANGED <<dbVars, procVars, hb, reached, faults>>

\* The row `t` of node n after the UPDATE that used the attempts `a` read before.
\* A row that is FAILED here keeps its assigned_agent_id.
Unstuck(n, t, a) ==
    LET u == IF Exhausted(n, a + 1) THEN [t EXCEPT !.status = "FAILED", !.old = FALSE,
                                                   !.swept = TRUE]
                                    ELSE Requeued(t)
    IN  [u EXCEPT !.attempts = a + 1]

\* Each UPDATE is a CAS: it hits a row that was read and is ASSIGNED now.
StuckHit(n, k) == /\ tasks[n][k].status = "ASSIGNED"
                  /\ \E r \in stuck.rows : r[1] = <<n, k>>

AttemptsRead(n, k) == (CHOOSE r \in stuck.rows : r[1] = <<n, k>>)[2]

Swept(n, k) == IF StuckHit(n, k) THEN Unstuck(n, tasks[n][k], AttemptsRead(n, k))
                                 ELSE tasks[n][k]

\* The transaction.  Nothing calls advance for a task that is FAILED here.
StuckSweepWrite ==
    /\ stuck.phase = "write"
    /\ tasks' = [n \in Node |-> [k \in DOMAIN tasks[n] |-> Swept(n, k)]]
    /\ reached' = reached \cup
         { <<id[1], id[2], "FAILED">> : id \in { i \in Rows :
             StuckHit(i[1], i[2]) /\ Swept(i[1], i[2]).status = "FAILED" } }
    /\ stuck' = [stuck EXCEPT !.phase = "publish"]
    /\ UNCHANGED <<run, cursor, inst, fresh, events, procVars, hb, faults>>

\* task.failed is published for every exhausted row read, CAS missed or not.
StuckSweepPublish ==
    /\ stuck.phase = "publish"
    /\ events' = events \cup
         { <<"task.failed", r[1]>> : r \in { x \in stuck.rows : Exhausted(x[1][1], x[2] + 1) } }
    /\ stuck' = NoSweep
    /\ UNCHANGED <<tableVars, procVars, hb, reached, faults>>

StuckSweepDies ==
    /\ Fault
    /\ stuck.phase # "idle"
    /\ stuck' = NoSweep
    /\ UNCHANGED <<dbVars, procVars, hb, reached>>

-----------------------------------------------------------------------------
(* The specification.                                                      *)

Advance(p) == GetRun(p) \/ ListTasks(p) \/ Settle(p) \/ Settled(p)

WorkerStep(w) ==
    \/ RunOnce(w)
    \/ Select(w) \/ ClaimWins(w) \/ ClaimLoses(w) \/ ClaimNothing(w) \/ Begin(w)
    \/ HandlerReturns(w) \/ HandlerRaises(w)
    \/ CompleteCheck(w) \/ CompleteWrite(w) \/ CompletePublish(w)
    \/ FailCheck(w) \/ FailRefused(w) \/ FailWrite(w) \/ FailPublish(w) \/ Escalate(w)
    \/ Approve(w) \/ Recover(w)

WorkerFault(w) ==
    PlanningRaises(w) \/ ClaimRaises(w) \/ CompleteRaises(w) \/ FailRaises(w) \/ Crash(w)

HeartbeatSweep == HeartbeatSweepRead \/ HeartbeatSweepWrite
StuckSweep     == StuckSweepRead \/ StuckSweepWrite \/ StuckSweepPublish

Next ==
    \/ StartRun \/ Resume \/ ClientStops
    \/ \E p \in Proc : Advance(p)
    \/ \E w \in Worker : \/ WorkerStep(w) \/ RunOnceRefused(w)
                         \/ WorkerFault(w) \/ Restart(w) \/ AgentGoesStale(w)
    \/ \E id \in Rows : TaskGoesStale(id)
    \/ HeartbeatSweep \/ HeartbeatSweepDies
    \/ StuckSweep \/ StuckSweepDies

Spec == Init /\ [][Next]_vars

\* Weak fairness of what keeps being scheduled: each process's next step (a
\* handler returns or raises, a cooldown elapses), a supervisor's restart, the
\* cron sweeps, and the passing of time that makes an orphaned row stale.
Fairness ==
    /\ WF_vars(StartRun)
    /\ \A p \in Proc : WF_vars(Advance(p))
    /\ \A w \in Worker :
         /\ WF_vars(WorkerStep(w))
         /\ WF_vars(Restart(w))
         /\ WF_vars(AgentGoesStale(w) /\ pc[w] = "down")
    /\ WF_vars(\E id \in Rows : TaskGoesStale(id) /\ UNCHANGED faults)
    /\ WF_vars(HeartbeatSweep)
    /\ WF_vars(StuckSweep)

\* The deployment in which somebody calls advance(run_id) every now and then.
FairSpec == Spec /\ Fairness /\ WF_vars(Resume)

-----------------------------------------------------------------------------
(* Properties of every deployment.                                         *)

TypeOK ==
    /\ run \in RunStatus
    /\ cursor \in Node \cup {NoNode}
    /\ tasks \in [Node -> Seq(Task)]
    /\ inst \in [Worker -> AgentState \cup {"none", "UNRESPONSIVE"}]
    /\ fresh \in [Worker -> BOOLEAN]
    /\ pc \in [Proc -> Labels]
    /\ ret \in [Proc -> {"idle", "approve", "recover"}]
    /\ fsm \in [Worker -> AgentState]
    /\ cur \in [Worker -> TaskId \cup {NoTask}]
    /\ seen \in [Worker -> SUBSET TaskId]
    /\ att \in [Worker -> Int]
    /\ view \in [Proc -> [Node -> TaskStatus \cup {"none"}]]
    /\ hb \subseteq Worker
    /\ stuck.phase \in {"idle", "write", "publish"}
    /\ stuck.rows \subseteq (TaskId \X Int)
    /\ reached \subseteq (Node \X (Nat \ {0}) \X {"DONE", "FAILED"})
    /\ faults \in 0..MaxFaults

\* Has a task of node n ever been in status s?
EverHad(n, s) == \E r \in reached : r[1] = n /\ r[3] = s

\* A queued task belongs to nobody and a claimed one to somebody, whatever
\* stale writes the engine and the two sweeps make over each other
\* (claim_task, fail_task, heartbeat_sweep, stuck_task_sweep).
AssigneeMatchesStatus ==
    \A n \in Node : \A k \in DOMAIN tasks[n] :
        /\ tasks[n][k].status = "PENDING"  => tasks[n][k].agent = NoAgent
        /\ tasks[n][k].status = "ASSIGNED" => tasks[n][k].agent # NoAgent

\* No task is given up before it was claimed as often as its retries allow, though
\* fail_task and stuck_task_sweep write attempts they read some time ago, and a
\* report that comes late may meet a row that somebody else holds by then: each
\* count that is written was earned by a claim of its own.
NotGivenUpEarly ==
    \A n \in Node : \A k \in DOMAIN tasks[n] :
        tasks[n][k].status = "FAILED" => tasks[n][k].tries >= MaxAttempts[n]

\* No task exists before each of its node's dependencies has been DONE, though
\* advance creates it from rows it read some time ago.
DepsDoneFirst ==
    \A n \in Node : tasks[n] # <<>> => \A d \in Deps[n] : EverHad(d, "DONE")

\* A verdict, in the row of the run or in the event log, rests on tasks that
\* really had the statuses it claims, whichever process wrote it and when.
VerdictJustified ==
    /\ run = "COMPLETED" \/ <<"workflow.run_completed">> \in events =>
           \A n \in Node : EverHad(n, "DONE")
    /\ run = "FAILED" \/ <<"workflow.run_failed">> \in events =>
           \E n \in Node : EverHad(n, "FAILED")

\* The engine reports a completion or an escalation only after the row said
\* so: mutate and commit first, publish after (the module docstring's rule).
EventsAfterCommit ==
    \A e \in events :
        /\ e[1] = "task.completed" => <<e[2][1], e[2][2], "DONE">> \in reached
        /\ e[1] = "council.escalation_requested" =>
               <<e[2][1], e[2][2], "FAILED">> \in reached

\* No step hands a claimed task from one agent straight to another: the only
\* way to a new holder is through PENDING and a fresh claim.
NoSteal ==
    [][\A n \in Node : \A k \in DOMAIN tasks[n] :
          tasks[n][k].status = "ASSIGNED" /\ tasks'[n][k].status = "ASSIGNED"
              => tasks'[n][k].agent = tasks[n][k].agent]_vars

\* Every event run_once feeds the state machine is legal where it is fed, so
\* InvalidTransition never escapes from the worker's own control flow.
FsmLegal ==
    \A w \in Worker :
        /\ pc[w] \in {"select", "claim", "claimed"} => fsm[w] = "CLAIM_TASK"
        /\ pc[w] = "handler"                        => fsm[w] = "EXECUTING"
        /\ pc[w] \in {"complete", "completing", "completed", "approve"} =>
               fsm[w] = "REVIEWING"
        /\ pc[w] \in {"fail", "failing", "failed", "escalate", "recover"} =>
               fsm[w] \in {"PLANNING", "EXECUTING", "REVIEWING"}

-----------------------------------------------------------------------------
(* Properties of tasks that no sweep has taken from their holder.  Of the  *)
(* others they do not hold: a holder that is merely slow reports all the   *)
(* same, and writes over the row, and the attempts, of the next one.       *)

\* A claim is a lease nobody but a sweep can break: while a worker is between its
\* claim and its report the row is ASSIGNED to it, so no handler runs twice at a
\* time for one task.
HolderOwnsTask ==
    \A w \in Worker :
        pc[w] \in {"claimed", "handler", "complete", "completing", "failing"} =>
            \/ Row(cur[w]).swept
            \/ Row(cur[w]).status = "ASSIGNED" /\ Row(cur[w]).agent = w

\* DONE and FAILED are final, whatever is reported again after a publish raised.
TerminalIsFinal ==
    [][\A n \in Node : \A k \in DOMAIN tasks[n] :
          tasks[n][k].status \in {"DONE", "FAILED"} /\ ~tasks[n][k].swept =>
              tasks'[n][k] = tasks[n][k]]_vars

\* A task is claimed at most max_attempts times, and once if that is less: no retry
\* goes uncounted although fail_task counts it on a row it read before.
RetryBudget ==
    \A n \in Node : \A k \in DOMAIN tasks[n] :
        tasks[n][k].tries > 1 /\ ~tasks[n][k].swept => tasks[n][k].tries <= MaxAttempts[n]

-----------------------------------------------------------------------------
(* Properties of some deployments.                                         *)

\* definitions.py: "each node produces exactly one Task per run".
OneTaskPerNode == \A n \in Node : Len(tasks[n]) <= 1

\* worker.py: when complete_task raised after the output was produced, the FSM
\* is driven to FAILED, so no worker is outside run_once in REVIEWING, a state
\* in which can_accept_task() is FALSE forever.
ReviewingIsLeft ==
    \A w \in Worker : pc[w] \in {"idle", "raised"} => fsm[w] # "REVIEWING"

\* A started run is settled for good in the end.
RunSettles == (run = "RUNNING") ~> [](run \in {"COMPLETED", "FAILED"})

\* A task whose holder is gone does not stay ASSIGNED.
OrphansRecovered ==
    \A n \in Node : (\E k \in DOMAIN tasks[n] :
          tasks[n][k].status = "ASSIGNED" /\ \A w \in Worker : cur[w] # <<n, k>>)
        ~> (\A k \in DOMAIN tasks[n] :
               tasks[n][k].status # "ASSIGNED" \/ \E w \in Worker : cur[w] = <<n, k>>)

=============================================================================
